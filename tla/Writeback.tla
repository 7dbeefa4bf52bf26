------------------------------ MODULE Writeback ------------------------------
(***************************************************************************)
(* The write-back of an isolated session (packages/agent-runtime/src):     *)
(*   workspace/git-worktree-session.ts    the session: apply, discard      *)
(*   workspace/writeback-gate.ts          the revision must be current     *)
(*   workspace/writeback-coordinator.ts   inspect, verify, stage, backup,  *)
(*                                        commit, rollback                 *)
(*   workspace/apply-plan.ts, workspace/git-repository.ts                  *)
(*   attempts/verified-workspace-snapshot.ts                               *)
(*                                                                         *)
(* The agent works in a Git worktree of the base commit; what its verifier *)
(* accepted is written back to the user's checkout, the origin.  The user  *)
(* edits and commits there, and commands the agent left in the background  *)
(* write to the worktree, at any moment.  A file's digest (content, mode)  *)
(* is a value, Missing when there is none; sensitive, ignored and escaping *)
(* paths, directories and links are conflicts by name and left out.        *)
(***************************************************************************)
EXTENDS Naturals, FiniteSets

CONSTANTS
    Paths,
    AgentContents,  \* what the agent may write into a file
    UserContents,   \* what the user may
    BaseCommit,     \* the base commit: the files when the session was opened
    Failing,        \* phases in which a file operation may fail
    MaxUserEdits,   \* bound
    MaxAgentEdits   \* bound

Missing == "missing"
Value   == AgentContents \cup UserContents \cup {Missing}
Unknown == "unknown"

ASSUME WritebackAssumption ==
    /\ Unknown \notin Value
    /\ BaseCommit \in [Paths -> Value]
    /\ Failing \subseteq {"inspect", "stage", "backup", "commit", "rollback", "patch", "record",
                         "refresh"}
    /\ MaxUserEdits \in Nat /\ MaxAgentEdits \in Nat

VARIABLES
    origin,      \* the files of the user's checkout
    index,       \* what Git has committed and staged there
    worktree,    \* the files of the isolated worktree
    shown,       \* TemporaryWorkspace.snapshot: what changedPaths compares with
    snapshot,    \* runState.verifiedWorkspaceSnapshot: a value for each changed path
    baseline,    \* baselineDigests, Unknown for a path never written back
    pc,          \* where the session is
    todo,        \* paths the current phase has yet to take
    dirty,       \* what git status said
    base,        \* the base digest of each inspected path
    pending, conflicts,
    staged,      \* candidates in the staging directory
    backup,      \* origins moved to the staging directory
    mine,        \* history: what the user last put in a file, or was given
    given,       \* history: all that the base commit or the session put in a file
    contested,   \* history: files edited after a write-back had verified them
    broken,      \* history: moving an origin away, or back, has failed
    userEdits, agentEdits

originVars  == <<origin, index>>
sessionVars == <<worktree, shown, snapshot, baseline>>
planVars    == <<dirty, base, pending, conflicts>>
stagingVars == <<staged, backup>>
historyVars == <<mine, given, contested, broken>>
limitVars   == <<userEdits, agentEdits>>
writebackVars == <<originVars, sessionVars, pc, todo, planVars, stagingVars, historyVars, limitVars>>

-----------------------------------------------------------------------------
Nothing  == [p \in Paths |-> Unknown]
NoSnapshot == [p \in {} |-> Missing]

WritebackInit ==
    /\ origin = BaseCommit /\ index = BaseCommit /\ worktree = BaseCommit /\ shown = BaseCommit
    /\ snapshot = NoSnapshot
    /\ baseline = Nothing
    /\ pc = "idle"
    /\ todo = {} /\ dirty = {} /\ pending = {} /\ conflicts = {}
    /\ base = Nothing
    /\ staged = Nothing /\ backup = Nothing
    /\ mine = BaseCommit /\ given = [p \in Paths |-> {BaseCommit[p]}] /\ contested = {} /\ broken = FALSE
    /\ userEdits = 0 /\ agentEdits = 0

-----------------------------------------------------------------------------
(* The user and the agent.                                                  *)

(* verifyPendingOrigins has read p and the write-back goes on.               *)
PastVerification(p) ==
    /\ p \in pending
    /\ \/ pc \in {"stage", "backup", "commit", "rollback", "delivered", "record", "report"}
       \/ pc = "verify" /\ p \notin todo

UserEdits(p) ==
    /\ userEdits < MaxUserEdits
    /\ \E v \in (UserContents \cup {Missing}) \ {origin[p]} :
          /\ origin' = [origin EXCEPT ![p] = v]
          /\ mine' = [mine EXCEPT ![p] = v]
    /\ contested' = IF PastVerification(p) THEN contested \cup {p} ELSE contested
    /\ userEdits' = userEdits + 1
    /\ UNCHANGED <<index, sessionVars, pc, todo, planVars, stagingVars, given, broken,
                   agentEdits>>

UserCommits(p) ==
    /\ index[p] # origin[p]
    /\ index' = [index EXCEPT ![p] = origin[p]]
    /\ UNCHANGED <<origin, sessionVars, pc, todo, planVars, stagingVars, historyVars,
                   limitVars>>

(* Tools of a turn, or a command that still runs in the background.          *)
AgentWrites(p) ==
    /\ agentEdits < MaxAgentEdits
    /\ \E v \in (AgentContents \cup {Missing}) \ {worktree[p]} : worktree' = [worktree EXCEPT ![p] = v]
    /\ agentEdits' = agentEdits + 1
    /\ UNCHANGED <<originVars, shown, snapshot, baseline, pc, todo, planVars, stagingVars,
                   historyVars, userEdits>>

-----------------------------------------------------------------------------
(* A turn ends: its verifier accepted the worktree and the revision is       *)
(* captured after that, or the snapshot is forgotten.                        *)

Changed  == {p \in Paths : worktree[p] # shown[p]}
Revision == [p \in Changed |-> worktree[p]]

ChecksPass ==
    /\ pc = "idle"
    /\ pc' = "checked"
    /\ UNCHANGED <<originVars, sessionVars, todo, planVars, stagingVars, historyVars, limitVars>>

CaptureSnapshot ==
    /\ pc = "checked"
    /\ snapshot' = Revision
    /\ pc' = "idle"
    /\ UNCHANGED <<originVars, worktree, shown, baseline, todo, planVars, stagingVars,
                   historyVars, limitVars>>

TurnUnverified ==
    /\ pc = "idle" /\ snapshot # NoSnapshot
    /\ snapshot' = NoSnapshot
    /\ UNCHANGED <<originVars, worktree, shown, baseline, pc, todo, planVars, stagingVars,
                   historyVars, limitVars>>

(* git restore and git clean take the worktree back to the base commit,      *)
(* whatever was applied; then refreshSnapshot shows what is there by then.   *)
Discard ==
    /\ pc = "idle"
    /\ worktree' = BaseCommit
    /\ pc' = "discarding"
    /\ UNCHANGED <<originVars, shown, snapshot, baseline, todo, planVars, stagingVars,
                   historyVars, limitVars>>

DiscardEnds ==
    /\ pc = "discarding"
    /\ pc' = "idle"
    /\ \/ shown' = worktree /\ snapshot' = NoSnapshot
       \/ "refresh" \in Failing /\ UNCHANGED <<shown, snapshot>>
    /\ UNCHANGED <<originVars, worktree, baseline, todo, planVars, stagingVars,
                   historyVars, limitVars>>

-----------------------------------------------------------------------------
(* applyVerifiedSnapshot.  Each phase goes over its paths one at a time.     *)

(* With a result (Report), or with an error or conflicts the user is told.   *)
Ends ==
    /\ pc' = "idle"
    /\ todo' = {} /\ pending' = {} /\ conflicts' = {}
    /\ dirty' = {} /\ base' = Nothing /\ staged' = Nothing /\ backup' = Nothing

(* p is done: the next path, or the next phase over all pending paths.       *)
Proceed(p, next) ==
    IF todo = {p} THEN pc' = next /\ todo' = pending
                  ELSE todo' = todo \ {p} /\ UNCHANGED pc

(* WritebackGate.assertCurrent and git status.                               *)
BeginApply ==
    /\ pc = "idle"
    /\ Changed # {} /\ snapshot # NoSnapshot
    /\ \/ /\ Revision = snapshot
          /\ pc' = "inspect"
          /\ todo' = Changed
          /\ dirty' = {p \in Paths : origin[p] # index[p]}
          /\ UNCHANGED <<base, pending, conflicts, stagingVars>>
       \/ Revision # snapshot /\ Ends
    /\ UNCHANGED <<originVars, sessionVars, historyVars, limitVars>>

Owned(p) == baseline[p] # Unknown

(* originMatchesHead, with the base commit as the reference.                 *)
OriginMatchesHead(p) ==
    IF index[p] = Missing THEN origin[p] = Missing
    ELSE origin[p] # Missing /\ origin[p] = BaseCommit[p]

(* The base of a path the session does not own is what its origin holds now. *)
Base(p) == IF Owned(p) THEN baseline[p] ELSE origin[p]

InspectPath(p) ==
    LET clean == IF Owned(p) THEN origin[p] = Base(p)
                             ELSE p \notin dirty /\ OriginMatchesHead(p)
    IN
    /\ pc = "inspect" /\ p \in todo
    /\ \/ /\ worktree[p] # snapshot[p]
          /\ Ends
       \/ "inspect" \in Failing /\ Ends
       \/ /\ worktree[p] = snapshot[p]
          /\ todo' = todo \ {p}
          /\ base' = [base EXCEPT ![p] = Base(p)]
          /\ conflicts' = IF clean THEN conflicts ELSE conflicts \cup {p}
          /\ pending' = IF clean /\ Base(p) # snapshot[p] THEN pending \cup {p} ELSE pending
          /\ UNCHANGED <<pc, dirty, stagingVars>>
    /\ UNCHANGED <<originVars, sessionVars, historyVars, limitVars>>

(* A conflict keeps the whole batch back.                                    *)
InspectionEnds ==
    /\ pc = "inspect" /\ todo = {}
    /\ \/ conflicts # {} /\ Ends
       \/ /\ conflicts = {}
          /\ pc' = IF pending = {} THEN "report" ELSE "verify"
          /\ todo' = pending
          /\ UNCHANGED <<planVars, stagingVars>>
    /\ UNCHANGED <<originVars, sessionVars, historyVars, limitVars>>

(* Mutant: the digest is not read again.                                     *)
VerifyOwnedOrHead(p) ==
    /\ pc = "verify" /\ p \in todo
    /\ \/ /\ Owned(p) \/ OriginMatchesHead(p)
          /\ Proceed(p, "stage")
          /\ UNCHANGED <<planVars, stagingVars>>
       \/ ~Owned(p) /\ ~OriginMatchesHead(p) /\ Ends
    /\ UNCHANGED <<originVars, sessionVars, historyVars, limitVars>>

VerifyOrigin(p) ==
    LET unchanged == origin[p] = base[p] /\ (Owned(p) \/ OriginMatchesHead(p)) IN
    /\ pc = "verify" /\ p \in todo
    /\ \/ /\ unchanged
          /\ Proceed(p, "stage")
          /\ UNCHANGED <<planVars, stagingVars>>
       \/ ~unchanged /\ Ends
    /\ UNCHANGED <<originVars, sessionVars, historyVars, limitVars>>

StageCandidate(p) ==
    /\ pc = "stage" /\ p \in todo
    /\ \/ /\ worktree[p] = snapshot[p]
          /\ staged' = [staged EXCEPT ![p] = worktree[p]]
          /\ Proceed(p, "backup")
          /\ UNCHANGED <<planVars, backup>>
       \/ worktree[p] # snapshot[p] /\ Ends
       \/ "stage" \in Failing /\ Ends
    /\ UNCHANGED <<originVars, sessionVars, historyVars, limitVars>>

RollBack == pc' = "rollback" /\ todo' = pending

(* Mutant: the origin is removed instead of moved.                           *)
BackupByRemoval(p) ==
    /\ pc = "backup" /\ p \in todo
    /\ origin' = [origin EXCEPT ![p] = Missing]
    /\ Proceed(p, "commit")
    /\ UNCHANGED <<index, sessionVars, planVars, stagingVars, historyVars, limitVars>>

(* The origin is moved away as it is now; it is not compared again.          *)
BackupOrigin(p) ==
    /\ pc = "backup" /\ p \in todo
    /\ \/ /\ backup' = [backup EXCEPT ![p] = IF origin[p] = Missing THEN Unknown ELSE origin[p]]
          /\ origin' = [origin EXCEPT ![p] = Missing]
          /\ Proceed(p, "commit")
          /\ UNCHANGED broken
       \/ /\ "backup" \in Failing /\ origin[p] # Missing
          /\ RollBack
          /\ broken' = TRUE
          /\ UNCHANGED <<origin, backup>>
    /\ UNCHANGED <<index, sessionVars, planVars, staged, mine, given, contested,
                   limitVars>>

CommitCandidate(p) ==
    /\ pc = "commit" /\ p \in todo
    /\ \/ /\ origin' = IF staged[p] = Missing THEN origin ELSE [origin EXCEPT ![p] = staged[p]]
          /\ Proceed(p, "delivered")
       \/ "commit" \in Failing /\ staged[p] # Missing /\ RollBack /\ UNCHANGED origin
    /\ UNCHANGED <<index, sessionVars, planVars, stagingVars, historyVars, limitVars>>

(* Mutant: only what has a backup is rolled back.                            *)
RollbackBackups(p) ==
    /\ pc = "rollback" /\ p \in todo
    /\ origin' = IF backup[p] # Unknown THEN [origin EXCEPT ![p] = backup[p]] ELSE origin
    /\ IF todo = {p} THEN Ends
       ELSE todo' = todo \ {p} /\ UNCHANGED <<pc, planVars, stagingVars>>
    /\ UNCHANGED <<index, sessionVars, historyVars, limitVars>>

(* rm of what may have been committed, then the backup back; afterwards, or  *)
(* when that throws, the staging directory is removed with all it holds.     *)
RollbackCandidate(p) ==
    LET removed == IF staged[p] # Missing THEN Missing ELSE origin[p] IN
    /\ pc = "rollback" /\ p \in todo
    /\ \/ /\ origin' = [origin EXCEPT ![p] = IF backup[p] # Unknown THEN backup[p] ELSE removed]
          /\ IF todo = {p} THEN Ends
             ELSE todo' = todo \ {p} /\ UNCHANGED <<pc, planVars, stagingVars>>
          /\ UNCHANGED broken
       \/ /\ "rollback" \in Failing
          /\ \E kept \in {origin[p], removed} : origin' = [origin EXCEPT ![p] = kept]
          /\ broken' = TRUE
          /\ Ends
    /\ UNCHANGED <<index, sessionVars, mine, given, contested, limitVars>>

(* The staging directory is removed, then last.patch: that may throw.        *)
Deliver ==
    /\ pc = "delivered"
    /\ mine' = [p \in Paths |-> IF p \in pending \ contested THEN staged[p] ELSE mine[p]]
    /\ given' = [p \in Paths |-> given[p] \cup (IF p \in pending THEN {staged[p]} ELSE {})]
    /\ \/ /\ pc' = "record"
          /\ staged' = Nothing /\ backup' = Nothing
          /\ UNCHANGED <<todo, planVars>>
       \/ "patch" \in Failing /\ Ends
    /\ UNCHANGED <<originVars, sessionVars, contested, broken, limitVars>>

(* applyPaths: the origin as it is now becomes the session's own baseline.   *)
RecordBaseline(p) ==
    /\ pc = "record" /\ p \in todo
    /\ \/ /\ baseline' = [baseline EXCEPT ![p] = origin[p]]
          /\ Proceed(p, "report")
          /\ UNCHANGED <<planVars, stagingVars>>
       \/ "record" \in Failing /\ Ends /\ UNCHANGED baseline
    /\ UNCHANGED <<originVars, worktree, shown, snapshot, historyVars, limitVars>>

(* No conflict: refreshSnapshot, and the snapshot is used up.                *)
Report ==
    /\ pc = "report"
    /\ \/ shown' = worktree /\ snapshot' = NoSnapshot /\ Ends
       \/ "refresh" \in Failing /\ Ends /\ UNCHANGED <<shown, snapshot>>
    /\ UNCHANGED <<originVars, worktree, baseline, historyVars, limitVars>>

-----------------------------------------------------------------------------
Apply == \/ BeginApply \/ InspectionEnds \/ Deliver \/ Report
         \/ \E p \in Paths : \/ InspectPath(p) \/ VerifyOrigin(p) \/ StageCandidate(p)
                             \/ BackupOrigin(p) \/ CommitCandidate(p) \/ RollbackCandidate(p)
                             \/ RecordBaseline(p)

WritebackNext ==
    \/ \E p \in Paths : UserEdits(p) \/ UserCommits(p) \/ AgentWrites(p)
    \/ ChecksPass \/ CaptureSnapshot \/ TurnUnverified \/ Discard \/ DiscardEnds
    \/ Apply

-----------------------------------------------------------------------------
(* The write-back accepts that p is still as it was inspected.               *)
Verifies(p) == /\ pc = "verify" /\ p \in todo
               /\ pc' = "stage" \/ (pc' = "verify" /\ p \notin todo')

(* A write-back only ever replaces what the base commit or the session       *)
(* itself had put into a file: an edit the user made at any time before the  *)
(* write-back verified that file is never overwritten, whatever commits,     *)
(* failed and earlier write-backs lie in between.  Left out is a deletion    *)
(* the user has also committed: to Git that is a path that never was, and a  *)
(* rollback that breaks off may leave there what had been delivered.         *)
UserEditsKept ==
    [][\A p \in Paths \ contested :
          Verifies(p) => \/ mine[p] \in given[p]
                         \/ mine[p] = Missing /\ (index[p] = Missing \/ broken)]_writebackVars

(* Whatever a write-back leaves behind, all of it is delivered or nothing    *)
(* is: in between, a file holds what the user put there or was last given,   *)
(* also after a conflict, a stale revision or a failed delivery that could   *)
(* be rolled back.                                                           *)
AllOrNothing ==
    ~broken /\ pc \in {"idle", "checked", "discarding"} =>
        \A p \in Paths \ contested : origin[p] = mine[p]

(* No moment at which the process may die loses a file: it is in place, in   *)
(* the staging directory, or fully replaced by what was verified.            *)
NothingLost ==
    ~broken => \A p \in Paths \ contested :
        mine[p] \in {Missing, origin[p], backup[p]} \/ (p \in pending /\ origin[p] = staged[p])

(* docs/STAGE_5_CONFLICT_PATCH_PROCESS.md: what has no conflict is applied   *)
(* atomically; a write-back that threw has left every origin as it was (one  *)
(* that fails to move an origin away removes the origins not moved yet).     *)
FailedKeepsOrigin ==
    [][pc = "rollback" /\ pc' = "idle" =>
          \A p \in Paths \ contested : origin'[p] = mine[p]]_writebackVars
=============================================================================
