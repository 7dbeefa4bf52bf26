-------------------------- MODULE ExperimentLedger --------------------------
(***************************************************************************)
(* What the evaluation platform promises of an experiment's attempts,      *)
(* whatever happens to workers, queue and database: results are recorded   *)
(* only while the job is open, an entry is never changed or removed, and a *)
(* trial is repeated at most once and only after a preparation fault that  *)
(* did not call the model.  EvalJobs implements it.                        *)
(***************************************************************************)
EXTENDS Naturals, Sequences, TrialOutcome

CONSTANTS Jobs, Plans, PlanJob

VARIABLES phase,     \* of a job: "waiting", "open" or "closed"
          ledger     \* of a planned trial: its attempts, in order

vars == <<phase, ledger>>

Attempt == [outcome : Outcome, billed : BOOLEAN]

Init == /\ phase = [j \in Jobs |-> "waiting"]
        /\ ledger = [p \in Plans |-> <<>>]

(* A job is opened by the worker that claims it, once.                       *)
Open(j) == /\ phase[j] = "waiting"
           /\ phase' = [phase EXCEPT ![j] = "open"]
           /\ UNCHANGED ledger

(* Recovery closes several jobs at a time; a job may close unopened.         *)
Close(js) == /\ \A j \in js : phase[j] \in {"waiting", "open"}
             /\ phase' = [j \in Jobs |-> IF j \in js THEN "closed" ELSE phase[j]]
             /\ UNCHANGED ledger

MayRecord(p) == \/ ledger[p] = <<>>
                \/ /\ Len(ledger[p]) = 1
                   /\ PrepareFault(ledger[p][1].outcome) /\ ~ledger[p][1].billed

Record(p, a) == /\ phase[PlanJob[p]] = "open"
                /\ MayRecord(p)
                /\ ledger' = [ledger EXCEPT ![p] = Append(@, a)]
                /\ UNCHANGED phase

Next == \/ \E j \in Jobs : Open(j)
        \/ \E js \in SUBSET Jobs : Close(js)
        \/ \E p \in Plans, a \in Attempt : Record(p, a)

Spec == Init /\ [][Next]_vars
=============================================================================
