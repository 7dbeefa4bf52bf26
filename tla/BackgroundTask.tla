--------------------------- MODULE BackgroundTask ---------------------------
(***************************************************************************)
(* One task of BackgroundTaskManager (packages/agent-runtime/src/tools/    *)
(* background-task-manager.ts) with its child process, the tools that      *)
(* start, read and kill it, and the session that may end around it.  Tasks *)
(* do not share state, so one is enough.                                   *)
(*                                                                         *)
(* The output is the sequence of its positions 1..total; the manager keeps *)
(* the last MaxOutput of them.                                             *)
(***************************************************************************)
EXTENDS Integers, FiniteSets

CONSTANTS MaxOutput,   \* MAX_OUTPUT_CHARS
          MaxTotal     \* bound on what the command prints

ASSUME OutputAssumption == MaxOutput \in Nat \ {0} /\ MaxTotal \in Nat

VARIABLES status,   \* task.status, "none" before the task exists, "creating" in start()
          child,    \* "none", "alive", "exited" (not yet seen) or "closed" (close handled)
          home,     \* the temporary HOME: "none", "present" or "removed"
          timed,    \* the task has a timeout that has not been cleared
          total,    \* stdoutLength
          reader,   \* "idle", "waiting" (waitForChange) or "reading"
          offset,   \* stdoutOffset of the reader: stdoutLength of its last answer
          seen      \* positions a reader has been given

taskVars == <<status, child, home, timed, total, reader, offset, seen>>

Ended == {"completed", "failed", "killed"}

TaskInit ==
    /\ status = "none" /\ child = "none" /\ home = "none" /\ timed = FALSE
    /\ total = 0 /\ reader = "idle" /\ offset = 0 /\ seen = {}

-----------------------------------------------------------------------------
(* start(): the temporary home is made first, then the child is spawned and *)
(* its listeners are attached in one go.  The abort listener is attached to *)
(* the signal of the tool call, which ToolExecutor cuts off from the run as *)
(* soon as start() has returned: an abort of the run does not reach a task. *)
BeginStart ==
    /\ status = "none"
    /\ status' = "creating" /\ home' = "present"
    /\ UNCHANGED <<child, timed, total, reader, offset, seen>>

Spawn ==
    /\ status = "creating"
    /\ \/ /\ status' = "running" /\ child' = "alive"
          /\ timed' \in BOOLEAN
          /\ UNCHANGED home
       \/ \* spawn throws: no task
          /\ status' = "none" /\ home' = "removed"
          /\ UNCHANGED <<child, timed>>
    /\ UNCHANGED <<total, reader, offset, seen>>

(* Data is appended whatever the status: a killed child's last output too.  *)
Notify == reader' = IF reader = "waiting" THEN "reading" ELSE reader

Output ==
    /\ child \in {"alive", "exited"} /\ total < MaxTotal
    /\ total' = total + 1
    /\ Notify
    /\ UNCHANGED <<status, child, home, timed, offset, seen>>

ChildExits ==
    /\ child = "alive"
    /\ child' = "exited"
    /\ UNCHANGED <<status, home, timed, total, reader, offset, seen>>

(* The close event, after the last output.                                  *)
Close ==
    /\ child = "exited"
    /\ child' = "closed"
    /\ IF status = "running" THEN status' \in {"completed", "failed"} ELSE UNCHANGED status
    /\ home' = "removed" /\ timed' = FALSE
    /\ Notify
    /\ UNCHANGED <<total, offset, seen>>

(* The error event: the command could not be started after all.             *)
SpawnError ==
    /\ status = "running" /\ child = "alive" /\ total = 0
    /\ status' = "failed" /\ child' = "closed"
    /\ home' = "removed" /\ timed' = FALSE
    /\ Notify
    /\ UNCHANGED <<total, offset, seen>>

-----------------------------------------------------------------------------
(* Mutant: the child's process group is not signalled.                      *)
KillStatusOnly ==
    /\ status = "running"
    /\ status' = "killed"
    /\ Notify
    /\ UNCHANGED <<child, home, timed, total, offset, seen>>

(* kill(): kill_command, the timeout, and killAll when the session changes. *)
Kill ==
    /\ status = "running"
    /\ status' = "killed"
    /\ child' = IF child = "alive" THEN "exited" ELSE child
    /\ Notify
    /\ UNCHANGED <<home, timed, total, offset, seen>>

TimeoutFires ==
    /\ timed
    /\ timed' = FALSE
    /\ IF status = "running"
       THEN /\ status' = "killed"
            /\ child' = IF child = "alive" THEN "exited" ELSE child
            /\ Notify
       ELSE UNCHANGED <<status, child, reader>>
    /\ UNCHANGED <<home, total, offset, seen>>

-----------------------------------------------------------------------------
(* get(): a reader that asks with the length it was told last.              *)
BeginGet(wait) ==
    /\ status \in {"running"} \cup Ended /\ reader = "idle"
    /\ reader' = IF wait /\ status = "running" THEN "waiting" ELSE "reading"
    /\ UNCHANGED <<status, child, home, timed, total, offset, seen>>

WaitEnds ==
    /\ reader = "waiting"
    /\ reader' = "reading"
    /\ UNCHANGED <<status, child, home, timed, total, offset, seen>>

Smaller(a, b) == IF a < b THEN a ELSE b

Kept == Smaller(total, MaxOutput)          \* length of the kept stdout

(* Mutant: the offset is taken as the first position to skip.               *)
GivenOffByOne(o) == {p \in 1..total : p > total - Kept + Smaller(o, Kept) + 1}

(* The offset counts within the kept text, whatever was dropped before it.  *)
Given(o) == {p \in 1..total : p > total - Kept + Smaller(o, Kept)}

FinishGet ==
    /\ reader = "reading"
    /\ seen' = seen \cup Given(offset)
    /\ offset' = total
    /\ reader' = "idle"
    /\ UNCHANGED <<status, child, home, timed, total>>

-----------------------------------------------------------------------------
TaskStep == Spawn \/ ChildExits \/ Close \/ WaitEnds \/ FinishGet

TaskNext ==
    \/ BeginStart \/ TaskStep \/ Output \/ SpawnError
    \/ Kill \/ TimeoutFires
    \/ \E wait \in BOOLEAN : BeginGet(wait)

(* A killed process ends and its close event comes; a wait has its timer.   *)
(* A command left alone need not end.                                       *)
TaskFairness ==
    /\ WF_taskVars(Spawn) /\ WF_taskVars(Close)
    /\ WF_taskVars(WaitEnds) /\ WF_taskVars(FinishGet)

-----------------------------------------------------------------------------
(* As long as nothing has been dropped, a reader that follows the lengths   *)
(* it is told sees every character (get-command-output.ts 20).              *)
OutputFollowed ==
    (total <= MaxOutput /\ reader = "idle") => seen = 1..offset

(* An ended task whose process or temporary home is still there.            *)
TaskLeft == status \in Ended /\ ~(child = "closed" /\ home = "removed")

=============================================================================
