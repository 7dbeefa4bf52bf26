-------------------------- MODULE InteractiveShell --------------------------
(***************************************************************************)
(* The interactive program around the sessions (apps/agent/src/            *)
(* agent-command.ts with terminal-ui.ts): the commands that change the     *)
(* session, the turns, the questions the terminal asks and the background  *)
(* tasks of each session.  A command runs alone, but with --prompt and     *)
(* --interactive the first turn runs beside the commands.                  *)
(*                                                                         *)
(* A session object is the number of its creation; /resume makes a second  *)
(* object for a session id.                                                *)
(***************************************************************************)
EXTENDS Integers

CONSTANT MaxSessions    \* bound on the session objects made

ASSUME SessionsAssumption == MaxSessions \in Nat \ {0}

Sessions == 1..MaxSessions
TheCommand == 0
NoOne == -1

VARIABLES first,     \* the turn of --prompt is under way, in session object 1
          made,      \* session objects made
          sid,       \* session id of each, 0 before it is made
          shown,     \* session
          manager,   \* activeBackgroundTasks, by its session object
          turn,      \* "none", "housekeeping", "running" or "asking"
          tasks,     \* a background task of each: "none", "starting", "given" or "late"
          stored,    \* session ids with a directory
          unsaved,   \* session objects with a persistErrorMessage
          deleted,   \* session ids /delete has removed
          command,   \* the await the command is at
          waiting,   \* whose promise of an answer is open: session objects, TheCommand
          asker,     \* whose question the terminal holds
          snapshot,  \* the session whose turn gave runState.verifiedWorkspaceSnapshot, or 0
          terminal,  \* "active", "stopped" or "exited"
          gap        \* a command was let in while a turn was at its housekeeping

shellVars == <<first, made, sid, shown, manager, turn, tasks, stored, unsaved, deleted,
               command, waiting, asker, snapshot, terminal, gap>>

NoCommand == [at |-> "idle", kind |-> "none", old |-> 0, next |-> 0]

ShellInit ==
    /\ first \in BOOLEAN
    /\ made = 1 /\ sid = [s \in Sessions |-> IF s = 1 THEN 1 ELSE 0]
    /\ shown = 1 /\ manager = 1
    /\ turn = [s \in Sessions |-> IF s = 1 /\ first THEN "housekeeping" ELSE "none"]
    /\ tasks = [s \in Sessions |-> "none"]
    /\ stored \in SUBSET {1} /\ unsaved = {} /\ deleted = {}
    /\ command = NoCommand /\ waiting = {} /\ asker = NoOne
    /\ snapshot = 0 /\ terminal = "active" /\ gap = FALSE

(* persist(): a save makes the directory when it is not there.              *)
Save(s) ==
    \/ stored' = stored \cup {sid[s]} /\ unsaved' = unsaved \ {s}
    \/ UNCHANGED stored /\ unsaved' = unsaved \cup {s}

-----------------------------------------------------------------------------
(* Turns.  The controller that isRunning and cancel() look at is there only *)
(* when the housekeeping, a save and the record of the start are over.      *)

(* Mutant: the guard of the commands is forgotten.                          *)
NeverRunning(s) == FALSE

IsRunning(s) == turn[s] \in {"running", "asking"}

TurnRuns(s) ==
    /\ turn[s] = "housekeeping" /\ terminal # "exited"
    /\ Save(s)
    /\ turn' = [turn EXCEPT ![s] = "running"]
    /\ UNCHANGED <<first, made, sid, shown, manager, tasks, deleted, command, waiting, asker,
                   snapshot, terminal, gap>>

(* The result, or a run that throws: then runState stays as it is, and the  *)
(* program ends when it was the first turn.                                 *)
TurnReturns(s) ==
    /\ turn[s] = "running" /\ terminal # "exited"
    /\ turn' = [turn EXCEPT ![s] = "none"]
    /\ LET isFirst == first /\ s = 1 IN
       /\ first' = (first /\ ~isFirst)
       /\ command' = IF isFirst THEN command ELSE NoCommand
       /\ \/ Save(s) /\ snapshot' \in {s, 0} /\ UNCHANGED terminal
          \/ /\ terminal' = IF isFirst THEN "exited" ELSE terminal
             /\ UNCHANGED <<stored, unsaved, snapshot>>
    /\ UNCHANGED <<made, sid, shown, manager, tasks, deleted, waiting, asker, gap>>

(* start_command: the task is known to its manager, and to the agent, once  *)
(* it has been spawned; the turn may have been cut off in between.          *)
StartTask(s) ==
    /\ turn[s] = "running" /\ tasks[s] = "none" /\ terminal # "exited"
    /\ tasks' = [tasks EXCEPT ![s] = "starting"]
    /\ UNCHANGED <<first, made, sid, shown, manager, turn, stored, unsaved, deleted, command,
                   waiting, asker, snapshot, terminal, gap>>

TaskStarts(s) ==
    /\ tasks[s] = "starting" /\ terminal # "exited"
    /\ tasks' = [tasks EXCEPT ![s] = IF turn[s] = "running" THEN "given" ELSE "late"]
    /\ UNCHANGED <<first, made, sid, shown, manager, turn, stored, unsaved, deleted, command,
                   waiting, asker, snapshot, terminal, gap>>

(* confirm() and ask(): a terminal that is not active denies at once.       *)
Ask(s) ==
    /\ turn[s] = "running" /\ tasks[s] # "starting" /\ terminal = "active"
    /\ turn' = [turn EXCEPT ![s] = "asking"]
    /\ waiting' = waiting \cup {s} /\ asker' = s
    /\ UNCHANGED <<first, made, sid, shown, manager, tasks, stored, unsaved, deleted, command,
                   snapshot, terminal, gap>>

(* A key, or an abort of the run, which denies whatever is asked.           *)
AnswerPrompt(allowed) ==
    /\ asker # NoOne /\ terminal = "active"
    /\ waiting' = waiting \ {asker} /\ asker' = NoOne
    /\ IF asker = TheCommand
       THEN /\ command' = IF allowed THEN [command EXCEPT !.at = "deleting"] ELSE NoCommand
            /\ UNCHANGED turn
       ELSE turn' = [turn EXCEPT ![asker] = "running"] /\ UNCHANGED command
    /\ UNCHANGED <<first, made, sid, shown, manager, tasks, stored, unsaved, deleted, snapshot,
                   terminal, gap>>

-----------------------------------------------------------------------------
(* Commands: a key is one for the question that is asked, if there is one.  *)
Reading == terminal = "active" /\ command.at = "idle" /\ asker = NoOne

SubmitInput ==
    /\ Reading
    /\ command' = [NoCommand EXCEPT !.at = "submitted"]
    /\ UNCHANGED <<first, made, sid, shown, manager, turn, tasks, stored, unsaved, deleted,
                   waiting, asker, snapshot, terminal, gap>>

(* submit() waits for the turn before.                                      *)
BeginTurn ==
    /\ command.at = "submitted" /\ turn[shown] = "none"
    /\ turn' = [turn EXCEPT ![shown] = "housekeeping"]
    /\ command' = [command EXCEPT !.at = "turn"]
    /\ UNCHANGED <<first, made, sid, shown, manager, tasks, stored, unsaved, deleted, waiting,
                   asker, snapshot, terminal, gap>>

(* /new and /resume, and /delete, which asks first.                         *)
BeginSwitch(kind) ==
    /\ Reading /\ ~IsRunning(shown) /\ made < MaxSessions
    /\ gap' = (gap \/ turn[shown] = "housekeeping")
    /\ IF kind = "delete"
       THEN /\ command' = [NoCommand EXCEPT !.at = "confirming", !.kind = kind]
            /\ waiting' = waiting \cup {TheCommand} /\ asker' = TheCommand
       ELSE /\ command' = [NoCommand EXCEPT !.at = "flushing", !.kind = kind]
            /\ UNCHANGED <<waiting, asker>>
    /\ UNCHANGED <<first, made, sid, shown, manager, turn, tasks, stored, unsaved, deleted,
                   snapshot, terminal>>

(* createSession() puts its own manager in the place of the one before.     *)
CreateSession(id) ==
    /\ made' = made + 1
    /\ sid' = [sid EXCEPT ![made + 1] = id]
    /\ manager' = made + 1
    /\ command' = [command EXCEPT !.at = "killing", !.old = manager, !.next = made + 1]

(* A session that could not be saved is not left; one that cannot be loaded *)
(* or created is not gone to.                                               *)
Flushed ==
    /\ command.at = "flushing"
    /\ \/ /\ shown \notin unsaved
          /\ \E id \in IF command.kind = "new" THEN {made + 1} ELSE stored : CreateSession(id)
       \/ /\ shown \in unsaved \/ command.kind = "resume"
          /\ command' = NoCommand
          /\ UNCHANGED <<made, sid, manager>>
    /\ UNCHANGED <<first, shown, turn, tasks, stored, unsaved, deleted, waiting, asker, snapshot,
                   terminal, gap>>

Erase ==
    /\ command.at = "deleting"
    /\ stored' = stored \ {sid[shown]} /\ deleted' = deleted \cup {sid[shown]}
    /\ snapshot' = 0
    /\ CreateSession(made + 1) /\ shown' = made + 1
    /\ UNCHANGED <<first, turn, tasks, unsaved, waiting, asker, terminal, gap>>

Killed(s) == IF tasks[s] = "starting" THEN "starting" ELSE "none"

(* Mutant: the manager is looked up after the new one has taken its place.  *)
KillTasksOfManager ==
    /\ command.at = "killing"
    /\ tasks' = [tasks EXCEPT ![manager] = Killed(manager)]
    /\ shown' = command.next /\ snapshot' = 0
    /\ command' = IF command.kind = "resume" THEN NoCommand ELSE [command EXCEPT !.at = "clearing"]
    /\ UNCHANGED <<first, made, sid, manager, turn, stored, unsaved, deleted, waiting, asker,
                   terminal, gap>>

(* killAll() of the manager before, which does not know of a task that is   *)
(* starting; then the new session takes over.                               *)
KillTasks ==
    /\ command.at = "killing"
    /\ tasks' = [tasks EXCEPT ![command.old] = Killed(command.old)]
    /\ shown' = command.next /\ snapshot' = 0
    /\ command' = IF command.kind = "resume" THEN NoCommand ELSE [command EXCEPT !.at = "clearing"]
    /\ UNCHANGED <<first, made, sid, manager, turn, stored, unsaved, deleted, waiting, asker,
                   terminal, gap>>

(* clearHistory() of the new session saves it for the first time.           *)
ClearNew ==
    /\ command.at = "clearing"
    /\ Save(shown)
    /\ command' = NoCommand
    /\ UNCHANGED <<first, made, sid, shown, manager, turn, tasks, deleted, waiting, asker,
                   snapshot, terminal, gap>>

(* /exit, Ctrl-C or Esc: stop(), after which main() goes on when the first  *)
(* turn has ended.  Its finally saves, writes back and closes; it does not  *)
(* kill the tasks.                                                          *)
Exit ==
    /\ Reading
    /\ terminal' = "stopped"
    /\ UNCHANGED <<first, made, sid, shown, manager, turn, tasks, stored, unsaved, deleted,
                   command, waiting, asker, snapshot, gap>>

MainEnds ==
    /\ terminal = "stopped" /\ ~first
    /\ terminal' = "exited"
    /\ UNCHANGED <<first, made, sid, shown, manager, turn, tasks, stored, unsaved, deleted,
                   command, waiting, asker, snapshot, gap>>

ShellNext ==
    \/ \E s \in Sessions : TurnRuns(s) \/ TurnReturns(s) \/ StartTask(s) \/ TaskStarts(s) \/ Ask(s)
    \/ \E allowed \in BOOLEAN : AnswerPrompt(allowed)
    \/ SubmitInput \/ BeginTurn \/ Flushed \/ Erase \/ KillTasks \/ ClearNew \/ Exit \/ MainEnds
    \/ \E kind \in {"new", "resume", "delete"} : BeginSwitch(kind)

-----------------------------------------------------------------------------
(* Nobody waits for an answer to a question the terminal no longer holds    *)
(* (terminal-ui.ts 223-238: there is one place for a question): a command   *)
(* asks only when no turn can, unless it was let in at the turn's           *)
(* housekeeping, which isRunning does not see.                              *)
PromptNotLost == (~gap /\ terminal = "active") => waiting \subseteq {asker}

(* When a switch of the session is over, the agent's tasks and the verified *)
(* snapshot of the session before are gone (agent-command.ts 274-281,       *)
(* 343-361, 389-399), and the next switch will kill the right tasks.        *)
SwitchLeavesNothing ==
    (~gap /\ command.at \in {"idle", "submitted", "turn"} /\ terminal = "active") =>
        /\ \A s \in Sessions : tasks[s] = "given" => s = shown
        /\ snapshot \in {0, shown}
        /\ manager = shown

(* A session that was deleted does not come back (agent-command.ts 389-391).*)
DeletedStaysDeleted == ~gap => deleted \cap stored = {}

=============================================================================
