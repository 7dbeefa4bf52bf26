----------------------------- MODULE MCPlatform -----------------------------
(***************************************************************************)
(* What stands between people and programs on both ends: the replies of    *)
(* the model, the terminal of the agent, the workspaces and environments   *)
(* trials are run and judged in, and the review of traces, the live events *)
(* and the page of the platform.  They share no state, so a behaviour is   *)
(* about one of them.                                                      *)
(***************************************************************************)
EXTENDS ModelStream, TerminalInput, Typewriter, Judging, EnvironmentBuild, WorkspaceSetup,
        CaseReview, LiveEvents, EvalConsole

VARIABLE part

screenVars == <<streamVars, inputVars, typeVars>>
harnessVars == <<judgeVars, buildVars, setupVars>>
pagesVars == <<reviewVars, eventVars, consoleVars>>
platformVars == <<part, screenVars, harnessVars, pagesVars>>

(* A part that is not at work is in one initial state.                      *)
Init ==
    /\ part \in {"stream", "input", "typing", "judge", "build", "setup", "review", "events",
                 "console"}
    /\ StreamInit /\ InputInit /\ TypeInit /\ JudgeInit /\ BuildInit /\ SetupInit
    /\ ReviewInit /\ EventsInit /\ ConsoleInit
    /\ part # "stream" => provider = "openai" /\ continues /\ tools
    /\ part # "judge" => harness = "codeden" /\ tree["test"] = "base"
    /\ part # "setup" => heeds
    /\ part # "console" => \A j \in Jobs : job[j] = "none"

Next ==
    /\ UNCHANGED part
    /\ \/ part = "stream" /\ StreamNext /\ UNCHANGED <<inputVars, typeVars, harnessVars, pagesVars>>
       \/ part = "input" /\ InputNext /\ UNCHANGED <<streamVars, typeVars, harnessVars, pagesVars>>
       \/ part = "typing" /\ TypeNext /\ UNCHANGED <<streamVars, inputVars, harnessVars, pagesVars>>
       \/ part = "judge" /\ JudgeNext /\ UNCHANGED <<buildVars, setupVars, screenVars, pagesVars>>
       \/ part = "build" /\ BuildNext /\ UNCHANGED <<judgeVars, setupVars, screenVars, pagesVars>>
       \/ part = "setup" /\ SetupNext /\ UNCHANGED <<judgeVars, buildVars, screenVars, pagesVars>>
       \/ part = "review" /\ ReviewNext /\ UNCHANGED <<eventVars, consoleVars, screenVars, harnessVars>>
       \/ part = "events" /\ EventsNext /\ UNCHANGED <<reviewVars, consoleVars, screenVars, harnessVars>>
       \/ part = "console" /\ ConsoleNext /\ UNCHANGED <<reviewVars, eventVars, screenVars, harnessVars>>

(* Timers fire, commands end or time out, the page runs its effects, and    *)
(* what the server sends arrives; the browser opens a broken stream again,  *)
(* and the server answers that it does or that it does not.                 *)
Fairness ==
    /\ InputFairness /\ TypeFairness
    /\ \A b \in Builders :
          WF_buildVars(part = "build" /\
              \/ CheckReady(b) \/ LockFree(b) \/ LockTaken(b) \/ Recheck(b)
              \/ CommandEnds(b) \/ CommandFails(b) \/ WriteManifest(b))
    /\ \A t \in SetupTrials :
          WF_setupVars(part = "setup" /\
              \/ Acquire(t) \/ MakeRoot(t) \/ SetupReady(t) \/ SetupFails(t)
              \/ WorkspaceLeft(t) \/ Dispose(t)
              \/ \E ok \in BOOLEAN : SetupCommand(t, ok))
    /\ WF_eventVars(part = "events" /\ (EventStreamOpens \/ EventStreamRefused))
    /\ WF_eventVars(part = "events" /\ StreamPage)
    /\ WF_eventVars(part = "events" /\ EventArrives)
    /\ WF_consoleVars(part = "console" /\ LoadJobs)
    /\ WF_consoleVars(part = "console" /\ LoadDetail)
    /\ WF_consoleVars(part = "console" /\
           \E q \in inFlight : ListArrives(q) \/ DetailArrives(q) \/ CancelArrives(q))

Spec == Init /\ [][Next]_platformVars /\ Fairness

(* What is typed and what is answered come through as they are.             *)
TerminalFaithful == KeysAsPressed /\ RepliesIntact

(* What anybody waits for comes, or is given up: the rest of a key, a reply *)
(* on the screen, an environment, a workspace, the events of a running      *)
(* trial, the state of the selected job.                                    *)
Unsettled ==
    \/ FragmentWaits \/ TypingLags \/ EventUnseen \/ DetailIsStale
    \/ part = "build" /\ BuildWaits
    \/ part = "setup" /\ SetupWaits
PlatformSettles == Unsettled ~> ~Unsettled

=============================================================================
