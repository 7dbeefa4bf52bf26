----------------------------- MODULE SandboxRun -----------------------------
(***************************************************************************)
(* One command in a sandbox: HostSandboxRunner or DockerSandboxRunner      *)
(* (packages/agent-runtime/src/sandbox/).  The command's own end, its      *)
(* timeout and the abort of the tool call race; the first decides.         *)
(***************************************************************************)
EXTENDS Integers

VARIABLES runner,       \* "host" or "docker"
          run,          \* "none", "preparing" (mkdtemp), "running" or "settled"
          outcome,      \* what the caller is told: "none", "exit", "timeout", "aborted", "error"
          process,      \* the child, or the docker client: "none", "alive", "dying", "closed"
          container,    \* "none", "alive" or "gone"
          terminating,  \* the error terminate() will report, "none" before
          aborted,      \* the abort signal has fired
          listening     \* onAbort is attached

sandboxVars == <<runner, run, outcome, process, container, terminating, aborted, listening>>

SandboxInit ==
    /\ runner \in {"host", "docker"}
    /\ run = "none" /\ outcome = "none" /\ process = "none" /\ container = "none"
    /\ terminating = "none" /\ aborted = FALSE /\ listening = FALSE

(* The host runner makes a temporary HOME first; an abort in between is not *)
(* seen, for the listener comes too late and the signal is not looked at.   *)
PrepareRun ==
    /\ run = "none"
    /\ run' = IF runner = "host" THEN "preparing" ELSE "running"
    /\ IF runner = "host"
       THEN UNCHANGED <<process, container, listening>>
       ELSE process' = "alive" /\ container' = "alive" /\ listening' = TRUE
    /\ UNCHANGED <<runner, outcome, terminating, aborted>>

StartHost ==
    /\ run = "preparing"
    /\ run' = "running" /\ process' = "alive" /\ listening' = TRUE
    /\ UNCHANGED <<runner, outcome, container, terminating, aborted>>

Settled(how) == run' = "settled" /\ outcome' = how /\ listening' = FALSE

(* The error event: spawn failed.                                           *)
SandboxError ==
    /\ run = "running" /\ process = "alive" /\ terminating = "none"
    /\ Settled("error")
    /\ process' = "closed" /\ container' = IF runner = "docker" THEN "gone" ELSE container
    /\ UNCHANGED <<runner, terminating, aborted>>

(* The timer and onAbort.  The host runner kills and reports at once, the   *)
(* docker runner reports after the container has been removed.              *)
Terminate(how) ==
    /\ process' = IF process = "alive" THEN "dying" ELSE process
    /\ IF runner = "host"
       THEN Settled(how) /\ UNCHANGED terminating
       ELSE /\ terminating' = IF terminating = "none" THEN how ELSE terminating
            /\ UNCHANGED <<run, outcome, listening>>

TimesOut ==
    /\ run = "running" /\ terminating = "none"
    /\ Terminate("timeout")
    /\ UNCHANGED <<runner, container, aborted>>

SignalAborts ==
    /\ ~aborted /\ run # "settled"
    /\ aborted' = TRUE
    /\ IF listening /\ run = "running" /\ terminating = "none"
       THEN Terminate("aborted")
       ELSE UNCHANGED <<run, outcome, process, terminating, listening>>
    /\ UNCHANGED <<runner, container>>

(* cleanup() has come back from docker rm --force, whose failure it ignores. *)
Removed ==
    /\ run = "running" /\ terminating # "none"
    /\ container' \in {"gone", container}
    /\ Settled(terminating)
    /\ UNCHANGED <<runner, process, terminating, aborted>>

(* The command ends by itself, or dies.                                     *)
CommandEnds ==
    /\ process = "alive"
    /\ process' = "dying"
    /\ container' = IF runner = "docker" THEN "gone" ELSE container
    /\ UNCHANGED <<runner, run, outcome, terminating, aborted, listening>>

(* Mutant: the end of the docker client counts during a termination too.    *)
ProcessClosesAlways ==
    /\ process = "dying"
    /\ process' = "closed"
    /\ IF run = "running" THEN Settled("exit") ELSE UNCHANGED <<run, outcome, listening>>
    /\ UNCHANGED <<runner, container, terminating, aborted>>

(* The close event.                                                         *)
ProcessCloses ==
    /\ process = "dying"
    /\ process' = "closed"
    /\ IF run = "running" /\ terminating = "none"
       THEN Settled("exit")
       ELSE UNCHANGED <<run, outcome, listening>>
    /\ UNCHANGED <<runner, container, terminating, aborted>>

SandboxNext ==
    \/ PrepareRun \/ StartHost \/ SandboxError \/ TimesOut \/ SignalAborts
    \/ Removed \/ CommandEnds \/ ProcessCloses

(* The timer of a command always comes, and so does docker rm, which has    *)
(* one of its own.                                                          *)
SandboxFairness ==
    /\ WF_sandboxVars(StartHost) /\ WF_sandboxVars(TimesOut)
    /\ WF_sandboxVars(Removed) /\ WF_sandboxVars(ProcessCloses)

(* A command that was cut off is never reported with an exit code, and a    *)
(* container that is left behind was at least asked to go                   *)
(* (docker-sandbox-runner.ts 50-65, 92-97).                                 *)
CutOffReported ==
    /\ outcome = "exit" => terminating = "none"
    /\ (run = "settled" /\ container = "alive") => terminating # "none"

(* A command that has not settled.                                          *)
CommandRuns == run \in {"preparing", "running"}

=============================================================================
