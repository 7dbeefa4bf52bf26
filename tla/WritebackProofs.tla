--------------------------- MODULE WritebackProofs ---------------------------
(***************************************************************************)
(* What a write-back guarantees for any set of files, any contents, any    *)
(* set of phases that may fail and any number of edits: where the file of  *)
(* the user is at every moment.                                            *)
(***************************************************************************)
EXTENDS Writeback, TLAPS

WritebackSpec == WritebackInit /\ [][WritebackNext]_writebackVars

(* The phases in which files of the user are moved.                         *)
Moving == {"backup", "commit", "delivered", "rollback"}
Phase == {"idle", "checked", "discarding", "inspect", "verify", "stage", "record", "report"}
            \cup Moving

Typed ==
    /\ origin \in [Paths -> Value] /\ worktree \in [Paths -> Value] /\ mine \in [Paths -> Value]
    /\ staged \in [Paths -> Value \cup {Unknown}]
    /\ backup \in [Paths -> Value \cup {Unknown}]
    /\ pc \in Phase
    /\ todo \subseteq Paths /\ pending \subseteq Paths
    /\ broken \in BOOLEAN

(* Every path in a phase after the verification has its candidate.          *)
CandidatesStaged ==
    /\ pc \in {"verify", "stage"} \cup Moving => todo \subseteq pending
    /\ pc = "stage" => \A p \in pending \ todo : staged[p] \in Value
    /\ pc \in Moving => \A p \in pending : staged[p] \in Value

Saved(p) == backup[p] = IF mine[p] = Missing THEN Unknown ELSE mine[p]

(* Where the file is that the user had at path p when it was verified.      *)
Traced(p) ==
    /\ p \notin pending \/ pc \notin Moving => origin[p] = mine[p]
    /\ p \in pending /\ pc = "backup" =>
         IF p \in todo THEN origin[p] = mine[p] ELSE origin[p] = Missing /\ Saved(p)
    /\ p \in pending /\ pc = "commit" =>
         Saved(p) /\ origin[p] = IF p \in todo THEN Missing ELSE staged[p]
    /\ p \in pending /\ pc = "delivered" => Saved(p) /\ origin[p] = staged[p]
    /\ p \in pending /\ pc = "rollback" =>
         IF p \in todo THEN Saved(p) /\ origin[p] \in {Missing, staged[p]}
                       ELSE origin[p] = mine[p]

AllTraced == ~broken => \A p \in Paths \ contested : Traced(p)

IInv == Typed /\ CandidatesStaged /\ AllTraced

-----------------------------------------------------------------------------
LEMMA EndsTyped ==
  ASSUME Ends
  PROVE  /\ pc' = "idle" /\ todo' = {} /\ pending' = {}
         /\ staged' \in [Paths -> Value \cup {Unknown}]
         /\ backup' \in [Paths -> Value \cup {Unknown}]
         /\ CandidatesStaged'
BY DEF Ends, Nothing, CandidatesStaged, Moving

(* A step that leaves the files and the staging directory alone.            *)
LEMMA EndsKeeps ==
  ASSUME IInv, Ends, pc \notin Moving, UNCHANGED <<origin, worktree, mine, contested, broken>>
  PROVE  IInv'
<1>1. Typed' BY EndsTyped DEF IInv, Typed, Phase
<1>2. CandidatesStaged' BY EndsTyped
<1>3. AllTraced'
  BY EndsTyped DEF IInv, AllTraced, Traced, Moving
<1> QED BY <1>1, <1>2, <1>3 DEF IInv

LEMMA InitHolds == WritebackInit => IInv
<1> SUFFICES ASSUME WritebackInit PROVE IInv OBVIOUS
<1> USE WritebackAssumption DEF WritebackInit
<1>1. Typed BY DEF Typed, Phase, Nothing
<1>2. CandidatesStaged BY DEF CandidatesStaged, Moving
<1>3. AllTraced BY DEF AllTraced, Traced, Moving
<1> QED BY <1>1, <1>2, <1>3 DEF IInv

LEMMA UserEditsKeeps ==
  ASSUME IInv, NEW p \in Paths, UserEdits(p)
  PROVE  IInv'
<1>1. PICK v \in (UserContents \cup {Missing}) \ {origin[p]} :
          origin' = [origin EXCEPT ![p] = v] /\ mine' = [mine EXCEPT ![p] = v]
  BY DEF UserEdits
<1>2. v \in Value BY DEF Value
<1>3. Typed' BY <1>1, <1>2 DEF IInv, Typed, UserEdits, sessionVars, planVars, stagingVars
<1>4. CandidatesStaged'
  BY DEF IInv, CandidatesStaged, UserEdits, sessionVars, planVars, stagingVars
<1>5. AllTraced'
  <2> SUFFICES ASSUME ~broken, NEW q \in Paths \ contested' PROVE Traced(q)'
      BY DEF AllTraced, UserEdits
  <2>1. Traced(q) /\ UNCHANGED <<pending, pc, todo, staged, backup>>
    BY DEF IInv, AllTraced, UserEdits, planVars, stagingVars
  <2>2. CASE q # p
    <3>1. origin'[q] = origin[q] /\ mine'[q] = mine[q] BY <1>1, <2>2 DEF IInv, Typed
    <3> QED BY <2>1, <3>1 DEF Traced, Saved
  <2>3. CASE q = p
    <3>1. q \notin pending \/ pc \notin Moving BY <2>3 DEF UserEdits, PastVerification, Moving
    <3>2. origin'[q] = mine'[q] BY <1>1, <2>3 DEF IInv, Typed
    <3> QED BY <2>1, <3>1, <3>2 DEF Traced, Moving
  <2> QED BY <2>2, <2>3
<1> QED BY <1>3, <1>4, <1>5 DEF IInv

(* What happens besides a write-back.                                       *)
LEMMA OthersKeep ==
  ASSUME IInv,
         \/ \E p \in Paths : UserCommits(p) \/ AgentWrites(p)
         \/ ChecksPass \/ CaptureSnapshot \/ TurnUnverified \/ Discard \/ DiscardEnds
  PROVE  IInv'
<1>1. UNCHANGED <<origin, mine, staged, backup, todo, pending, contested, broken>>
  BY DEF UserCommits, AgentWrites, ChecksPass, CaptureSnapshot, TurnUnverified, Discard,
         DiscardEnds, originVars, sessionVars, planVars, stagingVars, historyVars
<1>2. \/ pc' = pc
      \/ pc \notin {"verify", "stage"} \cup Moving /\ pc' \in Phase \ ({"verify", "stage"} \cup Moving)
  BY DEF UserCommits, AgentWrites, ChecksPass, CaptureSnapshot, TurnUnverified, Discard,
         DiscardEnds, Phase, Moving
<1>3. worktree' \in [Paths -> Value]
  BY WritebackAssumption
     DEF IInv, Typed, Value, UserCommits, AgentWrites, ChecksPass, CaptureSnapshot,
         TurnUnverified, Discard, DiscardEnds, sessionVars
<1>4. Typed' BY <1>1, <1>2, <1>3 DEF IInv, Typed
<1>5. CandidatesStaged' BY <1>1, <1>2 DEF IInv, CandidatesStaged, Moving
<1>6. AllTraced' BY <1>1, <1>2 DEF IInv, AllTraced, Traced, Saved, Moving
<1> QED BY <1>4, <1>5, <1>6 DEF IInv

-----------------------------------------------------------------------------
(* The write-back, before a file is moved.                                  *)
LEMMA BeginApplyKeeps ==
  ASSUME IInv, BeginApply
  PROVE  IInv'
<1>1. UNCHANGED <<origin, worktree, mine, contested, broken>> /\ pc = "idle"
  BY DEF BeginApply, originVars, sessionVars, historyVars
<1>2. CASE Ends BY <1>1, <1>2, EndsKeeps DEF Moving
<1>3. CASE ~Ends
  <2>1. pc' = "inspect" /\ todo' = Changed /\ UNCHANGED <<pending, staged, backup>>
    BY <1>3 DEF BeginApply, stagingVars
  <2>2. Typed' BY <1>1, <2>1 DEF IInv, Typed, Phase, Changed
  <2>3. CandidatesStaged' BY <2>1 DEF CandidatesStaged, Moving
  <2>4. AllTraced' BY <1>1, <2>1 DEF IInv, AllTraced, Traced, Moving
  <2> QED BY <2>2, <2>3, <2>4 DEF IInv
<1> QED BY <1>2, <1>3

LEMMA InspectPathKeeps ==
  ASSUME IInv, NEW p \in Paths, InspectPath(p)
  PROVE  IInv'
<1>1. UNCHANGED <<origin, worktree, mine, contested, broken>> /\ pc = "inspect"
  BY DEF InspectPath, originVars, sessionVars, historyVars
<1>2. CASE Ends BY <1>1, <1>2, EndsKeeps DEF Moving
<1>3. CASE ~Ends
  <2>1. /\ UNCHANGED <<pc, staged, backup>> /\ todo' \subseteq todo
        /\ pending' \subseteq pending \cup {p}
    BY <1>3 DEF InspectPath, stagingVars
  <2>2. Typed' BY <1>1, <2>1 DEF IInv, Typed
  <2>3. CandidatesStaged' BY <1>1, <2>1 DEF CandidatesStaged, Moving
  <2>4. AllTraced' BY <1>1, <2>1 DEF IInv, AllTraced, Traced, Moving
  <2> QED BY <2>2, <2>3, <2>4 DEF IInv
<1> QED BY <1>2, <1>3

LEMMA InspectionEndsKeeps ==
  ASSUME IInv, InspectionEnds
  PROVE  IInv'
<1>1. UNCHANGED <<origin, worktree, mine, contested, broken>> /\ pc = "inspect"
  BY DEF InspectionEnds, originVars, sessionVars, historyVars
<1>2. CASE Ends BY <1>1, <1>2, EndsKeeps DEF Moving
<1>3. CASE ~Ends
  <2>1. pc' \in {"report", "verify"} /\ todo' = pending /\ UNCHANGED <<pending, staged, backup>>
    BY <1>3 DEF InspectionEnds, planVars, stagingVars
  <2>2. Typed' BY <1>1, <2>1 DEF IInv, Typed, Phase
  <2>3. CandidatesStaged' BY <2>1 DEF CandidatesStaged, Moving
  <2>4. AllTraced' BY <1>1, <2>1 DEF IInv, AllTraced, Traced, Moving
  <2> QED BY <2>2, <2>3, <2>4 DEF IInv
<1> QED BY <1>2, <1>3

LEMMA VerifyOriginKeeps ==
  ASSUME IInv, NEW p \in Paths, VerifyOrigin(p)
  PROVE  IInv'
<1>1. UNCHANGED <<origin, worktree, mine, contested, broken>> /\ pc = "verify" /\ p \in todo
  BY DEF VerifyOrigin, originVars, sessionVars, historyVars
<1>2. CASE Ends BY <1>1, <1>2, EndsKeeps DEF Moving
<1>3. CASE ~Ends
  <2>1. Proceed(p, "stage") /\ UNCHANGED <<pending, staged, backup>>
    BY <1>3 DEF VerifyOrigin, planVars, stagingVars
  <2>2. \/ pc' = "stage" /\ todo' = pending
        \/ pc' = "verify" /\ todo' = todo \ {p}
    BY <1>1, <2>1 DEF Proceed
  <2>3. Typed' BY <1>1, <2>1, <2>2 DEF IInv, Typed, Phase
  <2>4. CandidatesStaged' BY <1>1, <2>1, <2>2 DEF IInv, CandidatesStaged, Moving
  <2>5. AllTraced' BY <1>1, <2>1, <2>2 DEF IInv, AllTraced, Traced, Moving
  <2> QED BY <2>3, <2>4, <2>5 DEF IInv
<1> QED BY <1>2, <1>3

LEMMA StageCandidateKeeps ==
  ASSUME IInv, NEW p \in Paths, StageCandidate(p)
  PROVE  IInv'
<1>1. UNCHANGED <<origin, worktree, mine, contested, broken>> /\ pc = "stage" /\ p \in todo
  BY DEF StageCandidate, originVars, sessionVars, historyVars
<1>2. CASE Ends BY <1>1, <1>2, EndsKeeps DEF Moving
<1>3. CASE ~Ends
  <2>1. /\ staged' = [staged EXCEPT ![p] = worktree[p]]
        /\ Proceed(p, "backup") /\ UNCHANGED <<pending, backup>>
    BY <1>3 DEF StageCandidate, planVars
  <2>2. \/ pc' = "backup" /\ todo' = pending /\ todo = {p}
        \/ pc' = "stage" /\ todo' = todo \ {p}
    BY <1>1, <2>1 DEF Proceed
  <2>3. worktree[p] \in Value BY DEF IInv, Typed
  <2>4. Typed' BY <1>1, <2>1, <2>2, <2>3 DEF IInv, Typed, Phase, Moving
  <2>5. CandidatesStaged'
    <3>1. \A q \in pending \ (todo \ {p}) : staged'[q] \in Value
      BY <1>1, <2>1, <2>3 DEF IInv, Typed, CandidatesStaged
    <3> QED BY <1>1, <2>1, <2>2, <3>1 DEF IInv, CandidatesStaged, Moving
  <2>6. AllTraced' BY <1>1, <2>1, <2>2 DEF IInv, AllTraced, Traced, Moving
  <2> QED BY <2>4, <2>5, <2>6 DEF IInv
<1> QED BY <1>2, <1>3

-----------------------------------------------------------------------------
(* The files are moved.                                                     *)
LEMMA BackupOriginKeeps ==
  ASSUME IInv, NEW p \in Paths, BackupOrigin(p)
  PROVE  IInv'
<1>1. /\ UNCHANGED <<worktree, mine, contested, pending, staged>>
      /\ pc = "backup" /\ p \in todo /\ todo \subseteq pending
  BY DEF IInv, CandidatesStaged, Moving, BackupOrigin, sessionVars, planVars
<1>2. CASE /\ backup' = [backup EXCEPT ![p] = IF origin[p] = Missing THEN Unknown ELSE origin[p]]
           /\ origin' = [origin EXCEPT ![p] = Missing]
           /\ Proceed(p, "commit") /\ UNCHANGED broken
  <2>1. \/ pc' = "commit" /\ todo' = pending /\ todo = {p}
        \/ pc' = "backup" /\ todo' = todo \ {p} /\ todo # {p}
    BY <1>1, <1>2 DEF Proceed
  <2>2. origin[p] \in Value /\ Missing \in Value BY DEF IInv, Typed, Value
  <2>3. Typed' BY <1>1, <1>2, <2>1, <2>2 DEF IInv, Typed, Phase, Moving
  <2>4. CandidatesStaged' BY <1>1, <2>1 DEF IInv, CandidatesStaged, Moving
  <2>5. AllTraced'
    <3> SUFFICES ASSUME ~broken, NEW q \in Paths \ contested PROVE Traced(q)'
        BY <1>1, <1>2 DEF AllTraced
    <3>1. Traced(q) BY DEF IInv, AllTraced
    <3>2. CASE q = p
      <4>1. origin[p] = mine[p] BY <1>1, <3>1, <3>2 DEF Traced
      <4>2. origin'[p] = Missing /\ Saved(p)'
        BY <1>1, <1>2, <4>1 DEF IInv, Typed, Saved
      <4> QED BY <1>1, <2>1, <3>2, <4>2 DEF Traced, Moving
    <3>3. CASE q # p
      <4>1. origin'[q] = origin[q] /\ backup'[q] = backup[q] BY <1>2, <3>3 DEF IInv, Typed
      <4> QED BY <1>1, <2>1, <3>1, <3>3, <4>1 DEF Traced, Saved, Moving
    <3> QED BY <3>2, <3>3
  <2> QED BY <2>3, <2>4, <2>5 DEF IInv
<1>3. CASE RollBack /\ broken' = TRUE /\ UNCHANGED <<origin, backup>>
  <2>1. Typed' BY <1>1, <1>3 DEF IInv, Typed, RollBack, Phase, Moving
  <2>2. CandidatesStaged' BY <1>1, <1>3 DEF IInv, CandidatesStaged, RollBack, Moving
  <2>3. AllTraced' BY <1>3 DEF AllTraced
  <2> QED BY <2>1, <2>2, <2>3 DEF IInv
<1> QED BY <1>2, <1>3 DEF BackupOrigin

LEMMA CommitCandidateKeeps ==
  ASSUME IInv, NEW p \in Paths, CommitCandidate(p)
  PROVE  IInv'
<1>1. /\ UNCHANGED <<worktree, mine, contested, broken, pending, staged, backup>>
      /\ pc = "commit" /\ p \in todo /\ todo \subseteq pending
      /\ \A q \in pending : staged[q] \in Value
  BY DEF IInv, CandidatesStaged, Moving, CommitCandidate, sessionVars, planVars, stagingVars,
         historyVars
<1>2. CASE /\ origin' = IF staged[p] = Missing THEN origin ELSE [origin EXCEPT ![p] = staged[p]]
           /\ Proceed(p, "delivered")
  <2>1. \/ pc' = "delivered" /\ todo' = pending /\ todo = {p}
        \/ pc' = "commit" /\ todo' = todo \ {p} /\ todo # {p}
    BY <1>1, <1>2 DEF Proceed
  <2>2. Typed' BY <1>1, <1>2, <2>1 DEF IInv, Typed, Phase, Moving
  <2>3. CandidatesStaged' BY <1>1, <2>1 DEF IInv, CandidatesStaged, Moving
  <2>4. AllTraced'
    <3> SUFFICES ASSUME ~broken, NEW q \in Paths \ contested PROVE Traced(q)'
        BY <1>1 DEF AllTraced
    <3>1. Traced(q) BY DEF IInv, AllTraced
    <3>2. CASE q = p
      <4>1. origin[p] = Missing /\ Saved(p) BY <1>1, <3>1, <3>2 DEF Traced
      <4>2. origin'[p] = staged[p] BY <1>2, <4>1 DEF IInv, Typed
      <4> QED BY <1>1, <2>1, <3>2, <4>1, <4>2 DEF Traced, Saved, Moving
    <3>3. CASE q # p
      <4>1. origin'[q] = origin[q] BY <1>2, <3>3 DEF IInv, Typed
      <4> QED BY <1>1, <2>1, <3>1, <3>3, <4>1 DEF Traced, Saved, Moving
    <3> QED BY <3>2, <3>3
  <2> QED BY <2>2, <2>3, <2>4 DEF IInv
<1>3. CASE RollBack /\ UNCHANGED origin
  <2>1. Typed' BY <1>1, <1>3 DEF IInv, Typed, RollBack, Phase, Moving
  <2>2. CandidatesStaged' BY <1>1, <1>3 DEF IInv, CandidatesStaged, RollBack, Moving
  <2>3. AllTraced' BY <1>1, <1>3 DEF IInv, AllTraced, Traced, Saved, RollBack, Moving
  <2> QED BY <2>1, <2>2, <2>3 DEF IInv
<1> QED BY <1>2, <1>3 DEF CommitCandidate

(* Of a rollback that does not throw: the file is back.                     *)
LEMMA RolledBack ==
  ASSUME IInv, NEW p \in Paths \ contested, ~broken, pc = "rollback", p \in todo,
         origin' = [origin EXCEPT ![p] = IF backup[p] # Unknown THEN backup[p]
                                         ELSE IF staged[p] # Missing THEN Missing ELSE origin[p]]
  PROVE  origin'[p] = mine[p]
<1>1. p \in pending BY DEF IInv, CandidatesStaged, Moving
<1>2. Saved(p) /\ origin[p] \in {Missing, staged[p]}
  BY <1>1 DEF IInv, AllTraced, Traced
<1>3. mine[p] # Unknown BY WritebackAssumption DEF IInv, Typed
<1>4. origin'[p] = IF backup[p] # Unknown THEN backup[p]
                   ELSE IF staged[p] # Missing THEN Missing ELSE origin[p]
  BY DEF IInv, Typed
<1> QED BY <1>2, <1>3, <1>4 DEF Saved

LEMMA RollbackCandidateKeeps ==
  ASSUME IInv, NEW p \in Paths, RollbackCandidate(p)
  PROVE  IInv'
<1> DEFINE removed == IF staged[p] # Missing THEN Missing ELSE origin[p]
<1>1. /\ UNCHANGED <<worktree, mine, contested>>
      /\ pc = "rollback" /\ p \in todo /\ todo \subseteq pending
  BY DEF IInv, CandidatesStaged, Moving, RollbackCandidate, sessionVars
<1>2. removed \in Value /\ origin[p] \in Value BY DEF IInv, Typed, Value
<1>3. CASE /\ origin' = [origin EXCEPT ![p] = IF backup[p] # Unknown THEN backup[p] ELSE removed]
           /\ IF todo = {p} THEN Ends
              ELSE todo' = todo \ {p} /\ UNCHANGED <<pc, planVars, stagingVars>>
           /\ UNCHANGED broken
  <2>1. origin' \in [Paths -> Value] BY <1>2, <1>3 DEF IInv, Typed
  <2>2. ASSUME ~broken, NEW q \in Paths \ contested, q = p \/ q \notin todo
        PROVE  origin'[q] = mine[q]
    <3>1. CASE q = p BY <1>1, <1>3, <2>2, <3>1, RolledBack
    <3>2. CASE q # p
      <4>1. origin'[q] = origin[q] BY <1>3, <3>2 DEF IInv, Typed
      <4>2. Traced(q) BY <2>2 DEF IInv, AllTraced
      <4> QED BY <1>1, <2>2, <3>2, <4>1, <4>2 DEF Traced, Moving
    <3> QED BY <3>1, <3>2
  <2>3. CASE todo = {p}
    <3>1. Ends BY <1>3, <2>3
    <3>2. Typed' BY <1>1, <1>3, <2>1, <3>1, EndsTyped DEF IInv, Typed, Phase
    <3>3. CandidatesStaged' BY <3>1, EndsTyped
    <3>4. AllTraced'
      <4> SUFFICES ASSUME ~broken, NEW q \in Paths \ contested PROVE Traced(q)'
          BY <1>1, <1>3 DEF AllTraced
      <4>1. origin'[q] = mine'[q] BY <1>1, <2>2, <2>3
      <4> QED BY <3>1, <4>1 DEF Ends, Traced, Moving
    <3> QED BY <3>2, <3>3, <3>4 DEF IInv
  <2>4. CASE todo # {p}
    <3>1. todo' = todo \ {p} /\ UNCHANGED <<pc, pending, staged, backup>>
      BY <1>3, <2>4 DEF planVars, stagingVars
    <3>2. Typed' BY <1>1, <1>3, <2>1, <3>1 DEF IInv, Typed
    <3>3. CandidatesStaged' BY <1>1, <3>1 DEF IInv, CandidatesStaged, Moving
    <3>4. AllTraced'
      <4> SUFFICES ASSUME ~broken, NEW q \in Paths \ contested PROVE Traced(q)'
          BY <1>1, <1>3 DEF AllTraced
      <4>1. CASE q = p \/ q \notin todo
        <5>1. origin'[q] = mine'[q] BY <1>1, <2>2, <4>1
        <5> QED BY <1>1, <3>1, <4>1, <5>1 DEF Traced, Moving
      <4>2. CASE q # p /\ q \in todo
        <5>1. origin'[q] = origin[q] BY <1>3, <4>2 DEF IInv, Typed
        <5>2. Traced(q) BY DEF IInv, AllTraced
        <5> QED BY <1>1, <3>1, <4>2, <5>1, <5>2 DEF Traced, Saved, Moving
      <4> QED BY <4>1, <4>2
    <3> QED BY <3>2, <3>3, <3>4 DEF IInv
  <2> QED BY <2>3, <2>4
<1>4. CASE /\ \E kept \in {origin[p], removed} : origin' = [origin EXCEPT ![p] = kept]
           /\ broken' = TRUE
           /\ Ends
  <2>1. origin' \in [Paths -> Value] BY <1>2, <1>4 DEF IInv, Typed
  <2>2. Typed' BY <1>1, <1>4, <2>1, EndsTyped DEF IInv, Typed, Phase
  <2>3. CandidatesStaged' BY <1>4, EndsTyped
  <2>4. AllTraced' BY <1>4 DEF AllTraced
  <2> QED BY <2>2, <2>3, <2>4 DEF IInv
<1> QED BY <1>3, <1>4 DEF RollbackCandidate

LEMMA DeliverKeeps ==
  ASSUME IInv, Deliver
  PROVE  IInv'
<1>1. /\ UNCHANGED <<origin, worktree, contested, broken>>
      /\ pc = "delivered" /\ pc' \in {"record", "idle"}
      /\ mine' = [p \in Paths |-> IF p \in pending \ contested THEN staged[p] ELSE mine[p]]
      /\ staged' = Nothing /\ backup' = Nothing
      /\ todo' \subseteq todo /\ pending' \subseteq pending
  BY DEF Deliver, Ends, originVars, sessionVars, planVars
<1>2. \A p \in pending : staged[p] \in Value BY <1>1 DEF IInv, CandidatesStaged, Moving
<1>3. Typed' BY <1>1, <1>2 DEF IInv, Typed, Phase, Nothing
<1>4. CandidatesStaged' BY <1>1 DEF CandidatesStaged, Moving
<1>5. AllTraced'
  <2> SUFFICES ASSUME ~broken, NEW p \in Paths \ contested PROVE origin[p] = mine'[p]
      BY <1>1 DEF AllTraced, Traced, Moving
  <2>1. Traced(p) BY DEF IInv, AllTraced
  <2>2. CASE p \in pending BY <1>1, <2>1, <2>2 DEF Traced
  <2>3. CASE p \notin pending BY <1>1, <2>1, <2>3 DEF Traced
  <2> QED BY <2>2, <2>3
<1> QED BY <1>3, <1>4, <1>5 DEF IInv

LEMMA RecordBaselineKeeps ==
  ASSUME IInv, NEW p \in Paths, RecordBaseline(p)
  PROVE  IInv'
<1>1. UNCHANGED <<origin, worktree, mine, contested, broken>> /\ pc = "record" /\ p \in todo
  BY DEF RecordBaseline, originVars, historyVars
<1>2. CASE Ends BY <1>1, <1>2, EndsKeeps DEF Moving
<1>3. CASE ~Ends
  <2>1. /\ UNCHANGED <<pending, staged, backup>>
        /\ pc' \in {"record", "report"} /\ todo' \in {pending, todo \ {p}}
    BY <1>1, <1>3 DEF RecordBaseline, Proceed, planVars, stagingVars
  <2>2. Typed' BY <1>1, <2>1 DEF IInv, Typed, Phase
  <2>3. CandidatesStaged' BY <2>1 DEF CandidatesStaged, Moving
  <2>4. AllTraced' BY <1>1, <2>1 DEF IInv, AllTraced, Traced, Moving
  <2> QED BY <2>2, <2>3, <2>4 DEF IInv
<1> QED BY <1>2, <1>3

LEMMA ReportKeeps ==
  ASSUME IInv, Report
  PROVE  IInv'
<1>1. UNCHANGED <<origin, worktree, mine, contested, broken>> /\ pc = "report" /\ Ends
  BY DEF Report, originVars, historyVars
<1> QED BY <1>1, EndsKeeps DEF Moving

-----------------------------------------------------------------------------
(* The strengthening is inductive: at each phase it is known of every file  *)
(* whether it is in place, in the staging directory, or replaced            *)
(* (writeback-coordinator.ts 204-330).                                      *)
THEOREM FilesTraced == WritebackSpec => []IInv
<1>1. WritebackInit => IInv BY InitHolds
<1>2. IInv /\ [WritebackNext]_writebackVars => IInv'
  <2> SUFFICES ASSUME IInv, [WritebackNext]_writebackVars PROVE IInv' OBVIOUS
  <2>1. CASE UNCHANGED writebackVars
    <3>1. UNCHANGED <<origin, worktree, mine, staged, backup, pc, todo, pending, broken, contested>>
      BY <2>1 DEF writebackVars, originVars, sessionVars, planVars, stagingVars, historyVars
    <3> QED BY <3>1 DEF IInv, Typed, CandidatesStaged, AllTraced, Traced, Saved
  <2>2. CASE \E p \in Paths : UserEdits(p) BY <2>2, UserEditsKeeps
  <2>3. CASE \/ \E p \in Paths : UserCommits(p) \/ AgentWrites(p)
             \/ ChecksPass \/ CaptureSnapshot \/ TurnUnverified \/ Discard \/ DiscardEnds
    BY <2>3, OthersKeep
  <2>4. CASE BeginApply BY <2>4, BeginApplyKeeps
  <2>5. CASE InspectionEnds BY <2>5, InspectionEndsKeeps
  <2>6. CASE Deliver BY <2>6, DeliverKeeps
  <2>7. CASE Report BY <2>7, ReportKeeps
  <2>8. CASE \E p \in Paths : InspectPath(p) BY <2>8, InspectPathKeeps
  <2>9. CASE \E p \in Paths : VerifyOrigin(p) BY <2>9, VerifyOriginKeeps
  <2>10. CASE \E p \in Paths : StageCandidate(p) BY <2>10, StageCandidateKeeps
  <2>11. CASE \E p \in Paths : BackupOrigin(p) BY <2>11, BackupOriginKeeps
  <2>12. CASE \E p \in Paths : CommitCandidate(p) BY <2>12, CommitCandidateKeeps
  <2>13. CASE \E p \in Paths : RollbackCandidate(p) BY <2>13, RollbackCandidateKeeps
  <2>14. CASE \E p \in Paths : RecordBaseline(p) BY <2>14, RecordBaselineKeeps
  <2> QED BY <2>1, <2>2, <2>3, <2>4, <2>5, <2>6, <2>7, <2>8, <2>9, <2>10, <2>11, <2>12,
             <2>13, <2>14 DEF WritebackNext, Apply
<1> QED BY <1>1, <1>2, PTL DEF WritebackSpec

(* Between write-backs every file is what the user last put there or was    *)
(* last given, whichever operations of which batch have failed.             *)
THEOREM BatchIsAtomic == WritebackSpec => []AllOrNothing
<1>1. IInv => AllOrNothing BY DEF IInv, AllTraced, Traced, AllOrNothing, Moving
<1> QED BY <1>1, FilesTraced, PTL

(* Wherever the process dies, a file of the user is in place, in the        *)
(* staging directory, or replaced by what was verified.                     *)
THEOREM NoFileLost == WritebackSpec => []NothingLost
<1>1. IInv => NothingLost
  <2> SUFFICES ASSUME IInv, ~broken, NEW p \in Paths \ contested
               PROVE  \/ mine[p] \in {Missing, origin[p], backup[p]}
                      \/ p \in pending /\ origin[p] = staged[p]
      BY DEF NothingLost
  <2>1. Traced(p) BY DEF IInv, AllTraced
  <2>2. CASE origin[p] = mine[p] BY <2>2
  <2>3. CASE origin[p] # mine[p]
    <3>1. Saved(p) BY <2>1, <2>3 DEF Traced, Moving
    <3> QED BY <3>1 DEF Saved
  <2> QED BY <2>2, <2>3
<1> QED BY <1>1, FilesTraced, PTL

-----------------------------------------------------------------------------
(* What a write-back replaces.  Of a file nobody else has written since it  *)
(* was verified, whatever earlier batches have failed:                      *)
Kept(p) ==
    /\ baseline[p] \in given[p] \cup {Unknown}
    /\ BaseCommit[p] \in given[p]
    /\ p \in pending /\ pc \in {"inspect", "verify"} /\ Owned(p) => base[p] = baseline[p]
    /\ \/ mine[p] \in given[p] \cup {Missing}
       \/ origin[p] = mine[p] /\ ~PastVerification(p)
    /\ p \in pending /\ p \notin todo /\ pc = "backup" => origin[p] = Missing
    /\ p \in pending /\ pc = "commit" => origin[p] = IF p \in todo THEN Missing ELSE staged[p]
    /\ p \in pending /\ pc = "delivered" => origin[p] = staged[p]
    /\ p \in pending /\ pc = "record" => origin[p] \in given[p]

BatchTyped ==
    /\ baseline \in [Paths -> Value \cup {Unknown}] /\ base \in [Paths -> Value \cup {Unknown}]
    /\ pc \in {"idle", "checked", "discarding"} => pending = {}
    /\ pc = "record" => todo \subseteq pending

KInv == BatchTyped /\ \A p \in Paths \ contested : Kept(p)

LEMMA InitKept == WritebackInit => KInv
<1> SUFFICES ASSUME WritebackInit PROVE KInv OBVIOUS
<1>1. BatchTyped BY WritebackAssumption DEF WritebackInit, BatchTyped, Nothing
<1>2. ASSUME NEW p \in Paths PROVE Kept(p)
  BY WritebackAssumption DEF WritebackInit, Kept, Nothing, PastVerification
<1> QED BY <1>1, <1>2 DEF KInv

(* A write-back that ends has touched only what it had verified.            *)
LEMMA EndsKept ==
  ASSUME KInv, Ends, UNCHANGED <<mine, given, baseline, contested>>,
         \A q \in Paths \ contested : origin'[q] = origin[q] \/ PastVerification(q)
  PROVE  KInv'
<1>1. BatchTyped' BY DEF KInv, BatchTyped, Ends, Nothing
<1>2. ASSUME NEW q \in Paths \ contested PROVE Kept(q)'
  BY DEF KInv, Kept, Ends, PastVerification
<1> QED BY <1>1, <1>2 DEF KInv

LEMMA OthersKept ==
  ASSUME IInv, KInv,
         \/ \E p \in Paths : UserCommits(p) \/ AgentWrites(p)
         \/ ChecksPass \/ CaptureSnapshot \/ TurnUnverified \/ Discard \/ DiscardEnds
         \/ UNCHANGED writebackVars
  PROVE  KInv'
<1>1. /\ UNCHANGED <<origin, mine, given, baseline, base, staged, todo, pending, contested>>
      /\ \/ pc' = pc
         \/ {pc, pc'} \subseteq {"idle", "checked", "discarding"}
  BY DEF UserCommits, AgentWrites, ChecksPass, CaptureSnapshot, TurnUnverified, Discard,
         DiscardEnds, originVars, sessionVars, planVars, stagingVars, historyVars, writebackVars
<1>2. BatchTyped' BY <1>1 DEF KInv, BatchTyped
<1>3. ASSUME NEW q \in Paths \ contested PROVE Kept(q)'
  BY <1>1 DEF KInv, BatchTyped, Kept, PastVerification, Owned
<1> QED BY <1>1, <1>2, <1>3 DEF KInv

LEMMA UserEditKept ==
  ASSUME IInv, KInv, NEW p \in Paths, UserEdits(p)
  PROVE  KInv'
<1>1. PICK v \in (UserContents \cup {Missing}) \ {origin[p]} :
          origin' = [origin EXCEPT ![p] = v] /\ mine' = [mine EXCEPT ![p] = v]
  BY DEF UserEdits
<1>2. /\ UNCHANGED <<given, baseline, base, staged, todo, pending, pc>>
      /\ contested' = IF PastVerification(p) THEN contested \cup {p} ELSE contested
  BY DEF UserEdits, sessionVars, planVars, stagingVars
<1>3. BatchTyped' BY <1>2 DEF KInv, BatchTyped
<1>4. ASSUME NEW q \in Paths \ contested' PROVE Kept(q)'
  <2>1. Kept(q) BY <1>2 DEF KInv
  <2>2. CASE q # p
    <3>1. origin'[q] = origin[q] /\ mine'[q] = mine[q] BY <1>1, <2>2 DEF IInv, Typed
    <3> QED BY <1>2, <2>1, <3>1 DEF Kept, PastVerification, Owned
  <2>3. CASE q = p
    <3>1. ~PastVerification(p) BY <1>2, <1>4, <2>3
    <3>2. origin'[p] = mine'[p] BY <1>1 DEF IInv, Typed
    <3> QED BY <1>2, <2>1, <2>3, <3>1, <3>2 DEF Kept, PastVerification, Owned
  <2> QED BY <2>2, <2>3
<1> QED BY <1>3, <1>4 DEF KInv

LEMMA BeginApplyKept ==
  ASSUME IInv, KInv, BeginApply
  PROVE  KInv'
<1>1. UNCHANGED <<origin, mine, given, baseline, contested>> /\ pc = "idle" /\ pending = {}
  BY DEF BeginApply, originVars, sessionVars, historyVars, KInv, BatchTyped
<1>2. CASE Ends BY <1>1, <1>2, EndsKept
<1>3. CASE ~Ends
  <2>1. pc' = "inspect" /\ UNCHANGED <<pending, base, staged>>
    BY <1>3 DEF BeginApply, stagingVars
  <2>2. BatchTyped' BY <1>1, <2>1 DEF KInv, BatchTyped
  <2>3. ASSUME NEW q \in Paths \ contested PROVE Kept(q)'
    BY <1>1, <2>1 DEF KInv, Kept, PastVerification, Owned
  <2> QED BY <1>1, <2>2, <2>3 DEF KInv
<1> QED BY <1>2, <1>3

LEMMA InspectPathKept ==
  ASSUME IInv, KInv, NEW p \in Paths, InspectPath(p)
  PROVE  KInv'
<1>1. UNCHANGED <<origin, mine, given, baseline, contested>> /\ pc = "inspect"
  BY DEF InspectPath, originVars, sessionVars, historyVars
<1>2. CASE Ends BY <1>1, <1>2, EndsKept
<1>3. CASE ~Ends
  <2>1. /\ UNCHANGED <<pc, staged>> /\ pending' \subseteq pending \cup {p}
        /\ base' = [base EXCEPT ![p] = Base(p)]
    BY <1>3 DEF InspectPath, stagingVars
  <2>2. Base(p) \in Value \cup {Unknown} BY DEF IInv, Typed, KInv, BatchTyped, Base
  <2>3. BatchTyped' BY <1>1, <2>1, <2>2 DEF KInv, BatchTyped
  <2>4. ASSUME NEW q \in Paths \ contested PROVE Kept(q)'
    <3>1. Kept(q) /\ base \in [Paths -> Value \cup {Unknown}] BY DEF KInv, BatchTyped
    <3>2. q \in pending' /\ Owned(q) => base'[q] = baseline[q]
      BY <1>1, <2>1, <3>1 DEF Kept, Base
    <3> QED BY <1>1, <2>1, <3>1, <3>2 DEF Kept, PastVerification, Owned
  <2> QED BY <1>1, <2>3, <2>4 DEF KInv
<1> QED BY <1>2, <1>3

LEMMA InspectionEndsKept ==
  ASSUME IInv, KInv, InspectionEnds
  PROVE  KInv'
<1>1. UNCHANGED <<origin, mine, given, baseline, contested>> /\ pc = "inspect"
  BY DEF InspectionEnds, originVars, sessionVars, historyVars
<1>2. CASE Ends BY <1>1, <1>2, EndsKept
<1>3. CASE ~Ends
  <2>1. /\ (pc' = "report" /\ pending = {}) \/ pc' = "verify"
        /\ todo' = pending /\ UNCHANGED <<pending, base, staged>>
    BY <1>3 DEF InspectionEnds, planVars, stagingVars
  <2>2. BatchTyped' BY <1>1, <2>1 DEF KInv, BatchTyped
  <2>3. ASSUME NEW q \in Paths \ contested PROVE Kept(q)'
    BY <1>1, <2>1 DEF KInv, Kept, PastVerification, Owned
  <2> QED BY <1>1, <2>2, <2>3 DEF KInv
<1> QED BY <1>2, <1>3

(* The origin is what the session or the base commit had put there.         *)
LEMMA OriginGiven ==
  ASSUME IInv, KInv, NEW p \in Paths \ contested, pc = "verify", p \in todo,
         origin[p] = base[p], Owned(p) \/ OriginMatchesHead(p)
  PROVE  origin[p] \in given[p] \/ (origin[p] = Missing /\ index[p] = Missing)
<1>1. Kept(p) /\ p \in pending BY DEF KInv, IInv, CandidatesStaged
<1>2. CASE Owned(p) BY <1>1, <1>2 DEF Kept, Owned
<1>3. CASE OriginMatchesHead(p) BY <1>1, <1>3 DEF Kept, OriginMatchesHead
<1> QED BY <1>2, <1>3

LEMMA VerifyOriginKept ==
  ASSUME IInv, KInv, NEW p \in Paths, VerifyOrigin(p)
  PROVE  KInv'
<1>1. /\ UNCHANGED <<origin, mine, given, baseline, contested>> /\ pc = "verify" /\ p \in todo
      /\ todo \subseteq pending
  BY DEF VerifyOrigin, originVars, sessionVars, historyVars, IInv, CandidatesStaged
<1>2. CASE Ends BY <1>1, <1>2, EndsKept
<1>3. CASE ~Ends
  <2>1. /\ origin[p] = base[p] /\ (Owned(p) \/ OriginMatchesHead(p))
        /\ Proceed(p, "stage") /\ UNCHANGED <<pending, base, staged>>
    BY <1>3 DEF VerifyOrigin, planVars, stagingVars
  <2>2. \/ pc' = "stage" /\ todo' = pending /\ todo = {p}
        \/ pc' = "verify" /\ todo' = todo \ {p}
    BY <1>1, <2>1 DEF Proceed
  <2>3. BatchTyped' BY <1>1, <2>1, <2>2 DEF KInv, BatchTyped
  <2>4. ASSUME NEW q \in Paths \ contested PROVE Kept(q)'
    <3>1. Kept(q) BY DEF KInv
    <3>2. CASE q = p
      <4>1. origin[p] \in given[p] \cup {Missing} BY <1>1, <2>1, <2>4, <3>2, OriginGiven
      <4>2. mine[p] \in given[p] \cup {Missing} BY <3>1, <3>2, <4>1 DEF Kept
      <4> QED BY <1>1, <2>1, <2>2, <3>1, <3>2, <4>2 DEF Kept, Owned
    <3>3. CASE q # p BY <1>1, <2>1, <2>2, <3>1, <3>3 DEF Kept, PastVerification, Owned
    <3> QED BY <3>2, <3>3
  <2> QED BY <1>1, <2>3, <2>4 DEF KInv
<1> QED BY <1>2, <1>3

LEMMA StageCandidateKept ==
  ASSUME IInv, KInv, NEW p \in Paths, StageCandidate(p)
  PROVE  KInv'
<1>1. UNCHANGED <<origin, mine, given, baseline, contested>> /\ pc = "stage" /\ p \in todo
  BY DEF StageCandidate, originVars, sessionVars, historyVars
<1>2. CASE Ends BY <1>1, <1>2, EndsKept
<1>3. CASE ~Ends
  <2>1. Proceed(p, "backup") /\ UNCHANGED <<pending, base>>
    BY <1>3 DEF StageCandidate, planVars
  <2>2. pc' \in {"backup", "stage"} /\ (pc' = "backup" => todo' = pending)
    BY <1>1, <2>1 DEF Proceed
  <2>3. BatchTyped' BY <1>1, <2>1, <2>2 DEF KInv, BatchTyped
  <2>4. ASSUME NEW q \in Paths \ contested PROVE Kept(q)'
    BY <1>1, <2>1, <2>2 DEF KInv, Kept, PastVerification, Owned
  <2> QED BY <1>1, <2>3, <2>4 DEF KInv
<1> QED BY <1>2, <1>3

LEMMA BackupOriginKept ==
  ASSUME IInv, KInv, NEW p \in Paths, BackupOrigin(p)
  PROVE  KInv'
<1>1. /\ UNCHANGED <<mine, given, baseline, contested, pending, base, staged>>
      /\ pc = "backup" /\ p \in todo /\ todo \subseteq pending
  BY DEF IInv, CandidatesStaged, Moving, BackupOrigin, sessionVars, planVars
<1>2. /\ pc' \in {"backup", "commit", "rollback"}
      /\ pc' = "backup" => todo' = todo \ {p}
      /\ pc' = "commit" => todo = {p} /\ todo' = pending
      /\ origin' = IF pc' = "rollback" THEN origin ELSE [origin EXCEPT ![p] = Missing]
  BY <1>1 DEF BackupOrigin, Proceed, RollBack
<1>3. BatchTyped' BY <1>1, <1>2 DEF KInv, BatchTyped
<1>4. ASSUME NEW q \in Paths \ contested PROVE Kept(q)'
  <2>1. Kept(q) BY DEF KInv
  <2>2. CASE q = p
    <3>1. pc' # "rollback" => origin'[p] = Missing BY <1>2 DEF IInv, Typed
    <3> QED BY <1>1, <1>2, <2>1, <2>2, <3>1 DEF Kept, PastVerification, Owned
  <2>3. CASE q # p
    <3>1. origin'[q] = origin[q] BY <1>2, <2>3 DEF IInv, Typed
    <3> QED BY <1>1, <1>2, <2>1, <2>3, <3>1 DEF Kept, PastVerification, Owned
  <2> QED BY <2>2, <2>3
<1> QED BY <1>1, <1>3, <1>4 DEF KInv

LEMMA CommitCandidateKept ==
  ASSUME IInv, KInv, NEW p \in Paths, CommitCandidate(p)
  PROVE  KInv'
<1>1. /\ UNCHANGED <<mine, given, baseline, contested, pending, base, staged>>
      /\ pc = "commit" /\ p \in todo /\ todo \subseteq pending
  BY DEF IInv, CandidatesStaged, Moving, CommitCandidate, sessionVars, planVars, stagingVars,
         historyVars
<1>2. /\ pc' \in {"commit", "delivered", "rollback"}
      /\ pc' = "commit" => todo' = todo \ {p}
      /\ pc' = "delivered" => todo = {p}
      /\ origin' = IF pc' = "rollback" \/ staged[p] = Missing THEN origin
                   ELSE [origin EXCEPT ![p] = staged[p]]
  BY <1>1 DEF CommitCandidate, Proceed, RollBack
<1>3. BatchTyped' BY <1>1, <1>2 DEF KInv, BatchTyped
<1>4. ASSUME NEW q \in Paths \ contested PROVE Kept(q)'
  <2>1. Kept(q) BY DEF KInv
  <2>2. CASE q = p
    <3>1. origin[p] = Missing BY <1>1, <2>1, <2>2 DEF Kept
    <3>2. pc' # "rollback" => origin'[p] = staged[p] BY <1>2, <3>1 DEF IInv, Typed
    <3> QED BY <1>1, <1>2, <2>1, <2>2, <3>2 DEF Kept, PastVerification, Owned
  <2>3. CASE q # p
    <3>1. origin'[q] = origin[q] BY <1>2, <2>3 DEF IInv, Typed
    <3> QED BY <1>1, <1>2, <2>1, <2>3, <3>1 DEF Kept, PastVerification, Owned
  <2> QED BY <2>2, <2>3
<1> QED BY <1>1, <1>3, <1>4 DEF KInv

LEMMA RollbackCandidateKept ==
  ASSUME IInv, KInv, NEW p \in Paths, RollbackCandidate(p)
  PROVE  KInv'
<1>1. /\ UNCHANGED <<mine, given, baseline, contested>>
      /\ pc = "rollback" /\ p \in todo /\ todo \subseteq pending
      /\ \E v : origin' = [origin EXCEPT ![p] = v]
  BY DEF IInv, CandidatesStaged, Moving, RollbackCandidate, sessionVars
<1>2. ASSUME NEW q \in Paths \ contested PROVE origin'[q] = origin[q] \/ PastVerification(q)
  BY <1>1 DEF IInv, Typed, PastVerification
<1>3. CASE Ends BY <1>1, <1>2, <1>3, EndsKept
<1>4. CASE ~Ends
  <2>1. UNCHANGED <<pc, pending, base, staged>>
    BY <1>4 DEF RollbackCandidate, planVars, stagingVars
  <2>2. BatchTyped' BY <1>1, <2>1 DEF KInv, BatchTyped
  <2>3. ASSUME NEW q \in Paths \ contested PROVE Kept(q)'
    BY <1>1, <1>2, <2>1, <2>3 DEF KInv, Kept, PastVerification, Owned
  <2> QED BY <1>1, <2>2, <2>3 DEF KInv
<1> QED BY <1>3, <1>4

LEMMA DeliverKept ==
  ASSUME IInv, KInv, Deliver
  PROVE  KInv'
<1>1. /\ UNCHANGED <<origin, baseline, contested>> /\ pc = "delivered" /\ todo \subseteq pending
      /\ mine' = [p \in Paths |-> IF p \in pending \ contested THEN staged[p] ELSE mine[p]]
      /\ given' = [p \in Paths |-> given[p] \cup (IF p \in pending THEN {staged[p]} ELSE {})]
  BY DEF Deliver, originVars, sessionVars, IInv, CandidatesStaged, Moving
<1>2. ASSUME NEW q \in Paths \ contested
      PROVE  /\ given[q] \subseteq given'[q]
             /\ q \in pending => mine'[q] \in given'[q] /\ origin[q] \in given'[q]
             /\ q \notin pending => mine'[q] = mine[q]
  BY <1>1, <1>2 DEF KInv, Kept
<1>3. CASE Ends
  <2>1. BatchTyped' BY <1>1, <1>3 DEF KInv, BatchTyped, Ends, Nothing
  <2>2. ASSUME NEW q \in Paths \ contested PROVE Kept(q)'
    <3>1. Kept(q) BY DEF KInv
    <3> QED BY <1>1, <1>2, <1>3, <3>1 DEF Kept, Ends, PastVerification
  <2> QED BY <1>1, <2>1, <2>2 DEF KInv
<1>4. CASE ~Ends
  <2>1. pc' = "record" /\ UNCHANGED <<todo, pending, base>>
    BY <1>4 DEF Deliver, planVars
  <2>2. BatchTyped' BY <1>1, <2>1 DEF KInv, BatchTyped
  <2>3. ASSUME NEW q \in Paths \ contested PROVE Kept(q)'
    <3>1. Kept(q) BY DEF KInv
    <3> QED BY <1>1, <1>2, <2>1, <3>1 DEF Kept, PastVerification
  <2> QED BY <1>1, <2>2, <2>3 DEF KInv
<1> QED BY <1>3, <1>4

LEMMA RecordBaselineKept ==
  ASSUME IInv, KInv, NEW p \in Paths, RecordBaseline(p)
  PROVE  KInv'
<1>1. /\ UNCHANGED <<origin, mine, given, contested>> /\ pc = "record" /\ p \in todo
      /\ todo \subseteq pending
  BY DEF RecordBaseline, originVars, historyVars, KInv, BatchTyped
<1>2. CASE Ends /\ UNCHANGED baseline BY <1>1, <1>2, EndsKept
<1>3. CASE baseline' = [baseline EXCEPT ![p] = origin[p]] /\ Proceed(p, "report")
           /\ UNCHANGED <<planVars, stagingVars>>
  <2>1. UNCHANGED <<pending, base, staged>> /\ pc' \in {"record", "report"} /\ todo' \subseteq pending
    BY <1>1, <1>3 DEF planVars, stagingVars, Proceed
  <2>2. BatchTyped' BY <1>1, <1>3, <2>1 DEF KInv, BatchTyped, IInv, Typed
  <2>3. ASSUME NEW q \in Paths \ contested PROVE Kept(q)'
    <3>1. Kept(q) BY DEF KInv
    <3>2. baseline'[q] \in given[q] \cup {Unknown}
      BY <1>1, <1>3, <3>1 DEF Kept, KInv, BatchTyped
    <3> QED BY <1>1, <2>1, <3>1, <3>2 DEF Kept, PastVerification
  <2> QED BY <1>1, <2>2, <2>3 DEF KInv
<1> QED BY <1>2, <1>3 DEF RecordBaseline

LEMMA ReportKept ==
  ASSUME IInv, KInv, Report
  PROVE  KInv'
<1>1. UNCHANGED <<origin, mine, given, baseline, contested>> /\ Ends
  BY DEF Report, originVars, historyVars
<1> QED BY <1>1, EndsKept

(* The step that accepts a file is the one that has just read it.           *)
LEMMA OnlyVerifyOrigin ==
  ASSUME WritebackNext, NEW p \in Paths, Verifies(p)
  PROVE  /\ pc = "verify" /\ p \in todo /\ origin[p] = base[p]
         /\ Owned(p) \/ OriginMatchesHead(p)
<1>1. /\ pc = "verify" /\ p \in todo /\ pc' # "idle"
      /\ ~(pc' = pc /\ todo' = todo)
  BY DEF Verifies
<1>2. PICK q \in Paths : VerifyOrigin(q)
  BY <1>1 DEF WritebackNext, Apply, UserEdits, UserCommits, AgentWrites, ChecksPass,
              CaptureSnapshot, TurnUnverified, Discard, DiscardEnds, BeginApply, InspectionEnds,
              Deliver, Report, InspectPath, StageCandidate, BackupOrigin, CommitCandidate,
              RollbackCandidate, RecordBaseline
<1>3. q = p BY <1>1, <1>2 DEF VerifyOrigin, Proceed, Ends, Verifies
<1> QED BY <1>1, <1>2, <1>3 DEF VerifyOrigin, Ends

(* An edit the user made before a write-back verified the file is not       *)
(* overwritten (writeback-coordinator.ts 94-203).                           *)
THEOREM EditsSurvive == WritebackSpec => UserEditsKept
<1>1. WritebackInit => KInv BY InitKept
<1>2. IInv /\ KInv /\ [WritebackNext]_writebackVars => KInv'
  <2> SUFFICES ASSUME IInv, KInv, [WritebackNext]_writebackVars PROVE KInv' OBVIOUS
  <2>1. CASE \E p \in Paths : UserEdits(p) BY <2>1, UserEditKept
  <2>2. CASE \/ \E p \in Paths : UserCommits(p) \/ AgentWrites(p)
             \/ ChecksPass \/ CaptureSnapshot \/ TurnUnverified \/ Discard \/ DiscardEnds
             \/ UNCHANGED writebackVars
    BY <2>2, OthersKept
  <2>3. CASE BeginApply BY <2>3, BeginApplyKept
  <2>4. CASE InspectionEnds BY <2>4, InspectionEndsKept
  <2>5. CASE Deliver BY <2>5, DeliverKept
  <2>6. CASE Report BY <2>6, ReportKept
  <2>7. CASE \E p \in Paths : InspectPath(p) BY <2>7, InspectPathKept
  <2>8. CASE \E p \in Paths : VerifyOrigin(p) BY <2>8, VerifyOriginKept
  <2>9. CASE \E p \in Paths : StageCandidate(p) BY <2>9, StageCandidateKept
  <2>10. CASE \E p \in Paths : BackupOrigin(p) BY <2>10, BackupOriginKept
  <2>11. CASE \E p \in Paths : CommitCandidate(p) BY <2>11, CommitCandidateKept
  <2>12. CASE \E p \in Paths : RollbackCandidate(p) BY <2>12, RollbackCandidateKept
  <2>13. CASE \E p \in Paths : RecordBaseline(p) BY <2>13, RecordBaselineKept
  <2> QED BY <2>1, <2>2, <2>3, <2>4, <2>5, <2>6, <2>7, <2>8, <2>9, <2>10, <2>11, <2>12,
             <2>13 DEF WritebackNext, Apply
<1> DEFINE Accepted == \A p \in Paths \ contested :
              Verifies(p) => \/ mine[p] \in given[p]
                             \/ mine[p] = Missing /\ (index[p] = Missing \/ broken)
<1>3. IInv /\ KInv /\ [WritebackNext]_writebackVars => [Accepted]_writebackVars
  <2> SUFFICES ASSUME IInv, KInv, WritebackNext, NEW p \in Paths \ contested, Verifies(p)
               PROVE  \/ mine[p] \in given[p]
                      \/ mine[p] = Missing /\ (index[p] = Missing \/ broken)
      OBVIOUS
  <2>1. Kept(p) BY DEF KInv
  <2>2. pc = "verify" /\ (origin[p] \in given[p] \/ (origin[p] = Missing /\ index[p] = Missing))
    BY OnlyVerifyOrigin, OriginGiven
  <2>3. CASE origin[p] = mine[p] BY <2>2, <2>3
  <2>4. CASE origin[p] # mine[p]
    <3>1. broken BY <2>2, <2>4 DEF IInv, AllTraced, Traced, Moving
    <3> QED BY <2>1, <2>4, <3>1 DEF Kept
  <2> QED BY <2>3, <2>4
<1>4. WritebackSpec => [][Accepted]_writebackVars
  BY <1>1, <1>2, <1>3, FilesTraced, PTL DEF WritebackSpec
<1> QED BY <1>4 DEF UserEditsKept
=============================================================================
