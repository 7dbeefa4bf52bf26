------------------------------ MODULE MCFiles ------------------------------
(***************************************************************************)
(* What the runtime writes into the user's directories: the write-back of  *)
(* the verified worktree, with two files of the base commit of which the   *)
(* session may add one, and the session store.  A behaviour is about one   *)
(* of them.                                                                *)
(***************************************************************************)
EXTENDS Writeback, SessionStore

VARIABLE part

filesVars == <<part, writebackVars, sessionStoreVars>>

OneTracked == [f |-> "a", g |-> Missing]

Init == part \in {"writeback", "session"} /\ WritebackInit /\ SessionInit

Next ==
    /\ UNCHANGED part
    /\ \/ part = "writeback" /\ WritebackNext /\ UNCHANGED sessionStoreVars
       \/ part = "session" /\ SessionNext /\ UNCHANGED writebackVars

Spec == Init /\ [][Next]_filesVars

=============================================================================
