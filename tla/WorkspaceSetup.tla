--------------------------- MODULE WorkspaceSetup ---------------------------
(***************************************************************************)
(* The workspaces of the trials of a job: a clone for the agent and, when  *)
(* the agent has submitted, one for the judge (packages/eval-engine/src/   *)
(* adapters/workspaces/repository-workspace.factory.ts, apps/eval-platform *)
(* /src/platform/harness.ts).  Setups take turns at a semaphore.  A trial  *)
(* is aborted at any time; some harnesses pass its signal to the setup and *)
(* some do not, and none does for the judge.                               *)
(***************************************************************************)
EXTENDS Integers, Sequences, SequencesExt, FiniteSets, FiniteSetsExt

CONSTANTS SetupTrials,      \* trials of the job that run at the same time
          SetupConcurrency, \* CODEDEN_REPOSITORY_SETUP_CONCURRENCY
          SetupCommands     \* git commands and the initialisation of one setup

ASSUME SetupAssumption ==
    IsFiniteSet(SetupTrials) /\ SetupConcurrency \in Nat \ {0} /\ SetupCommands \in Nat

VARIABLES heeds,     \* the harness passes the signal of the trial
          place,     \* of the trial: "agent" or "judge", and what it does there
          available, \* of the semaphore
          waiters,   \* its queue
          done,      \* commands of the setup that have succeeded
          attempt,   \* of git(), which tries twice
          root,      \* directories that exist
          stopped    \* the signal is aborted

setupVars == <<heeds, place, available, waiters, done, attempt, root, stopped>>

At(t, whose, doing) == place[t] = [of |-> whose, doing |-> doing]
InSetup == {t \in SetupTrials : place[t].doing \in {"setup", "failing"}}

SetupInit ==
    /\ heeds \in BOOLEAN
    /\ place = [t \in SetupTrials |-> [of |-> "agent", doing |-> "asking"]]
    /\ available = SetupConcurrency /\ waiters = <<>>
    /\ done = [t \in SetupTrials |-> 0] /\ attempt = [t \in SetupTrials |-> 0]
    /\ root = {} /\ stopped = {}

(* The signal create() sees.                                                *)
Aborted(t) == heeds /\ place[t].of = "agent" /\ t \in stopped

(* A trial ends at the agent's workspace, and the judge's in it.            *)
Goes(t, doing) == place' = [place EXCEPT ![t].doing = doing]
Over(t) == place' = [place EXCEPT ![t] =
               IF @.of = "judge" THEN [of |-> "agent", doing |-> "disposing"]
               ELSE [of |-> "agent", doing |-> "over"]]

(* acquire().                                                               *)
Acquire(t) ==
    /\ place[t].doing = "asking"
    /\ IF Aborted(t) THEN Over(t) /\ UNCHANGED <<available, waiters>>
       ELSE IF available > 0
            THEN available' = available - 1 /\ Goes(t, "setup") /\ UNCHANGED waiters
            ELSE waiters' = Append(waiters, t) /\ Goes(t, "waiting") /\ UNCHANGED available
    /\ done' = [done EXCEPT ![t] = 0] /\ attempt' = [attempt EXCEPT ![t] = 0]
    /\ UNCHANGED <<heeds, root, stopped>>

(* The abort of a trial, and the listener of a waiter.                      *)
AbortTrial(t) ==
    /\ t \notin stopped /\ place[t].doing # "over"
    /\ stopped' = stopped \union {t}
    /\ IF heeds /\ At(t, "agent", "waiting")
       THEN Over(t) /\ \E i \in DOMAIN waiters : waiters[i] = t /\ waiters' = RemoveAt(waiters, i)
       ELSE UNCHANGED <<place, waiters>>
    /\ UNCHANGED <<heeds, available, done, attempt, root>>

MakeRoot(t) ==
    /\ place[t].doing = "setup" /\ <<t, place[t].of>> \notin root
    /\ IF Aborted(t) THEN Goes(t, "failing") /\ UNCHANGED root
       ELSE root' = root \union {<<t, place[t].of>>} /\ UNCHANGED place
    /\ UNCHANGED <<heeds, available, waiters, done, attempt, stopped>>

(* git(): an abort ends it at once, a failure after the second attempt.     *)
SetupCommand(t, ok) ==
    /\ place[t].doing = "setup" /\ <<t, place[t].of>> \in root /\ done[t] < SetupCommands
    /\ IF ok /\ ~Aborted(t)
       THEN /\ done' = [done EXCEPT ![t] = @ + 1] /\ attempt' = [attempt EXCEPT ![t] = 0]
            /\ UNCHANGED place
       ELSE IF ~Aborted(t) /\ attempt[t] = 0
            THEN attempt' = [attempt EXCEPT ![t] = 1] /\ UNCHANGED <<place, done>>
            ELSE Goes(t, "failing") /\ UNCHANGED <<done, attempt>>
    /\ UNCHANGED <<heeds, available, waiters, root, stopped>>

(* release(): the slot goes to the first waiter.                            *)
Release(t, next) ==
    LET moved == [place EXCEPT ![t] = next]
    IN IF waiters = <<>> THEN available' = available + 1 /\ place' = moved /\ UNCHANGED waiters
       ELSE /\ place' = [moved EXCEPT ![Head(waiters)].doing = "setup"]
            /\ waiters' = Tail(waiters)
            /\ UNCHANGED available

SetupReady(t) ==
    /\ place[t].doing = "setup" /\ done[t] = SetupCommands
    /\ Release(t, [place[t] EXCEPT !.doing = "ready"])
    /\ UNCHANGED <<heeds, done, attempt, root, stopped>>

(* Mutant: the root of a setup that fails is left there.                    *)
SetupFailsKeepsRoot(t) ==
    /\ place[t].doing = "failing"
    /\ Release(t, IF place[t].of = "judge" THEN [of |-> "agent", doing |-> "disposing"]
                  ELSE [of |-> "agent", doing |-> "over"])
    /\ UNCHANGED <<heeds, done, attempt, root, stopped>>

(* The catch, the finally, and what the trial does with the error.          *)
SetupFails(t) ==
    /\ place[t].doing = "failing"
    /\ root' = root \ {<<t, place[t].of>>}
    /\ Release(t, IF place[t].of = "judge" THEN [of |-> "agent", doing |-> "disposing"]
                  ELSE [of |-> "agent", doing |-> "over"])
    /\ UNCHANGED <<heeds, done, attempt, stopped>>

(* The agent has submitted, and the judge needs a workspace.                *)
Submit(t) ==
    /\ At(t, "agent", "ready") /\ t \notin stopped
    /\ place' = [place EXCEPT ![t] = [of |-> "judge", doing |-> "asking"]]
    /\ UNCHANGED <<heeds, available, waiters, done, attempt, root, stopped>>

(* The trial ends without a submission, or the judge has decided.           *)
WorkspaceLeft(t) ==
    /\ place[t].doing = "ready"
    /\ Goes(t, "disposing")
    /\ UNCHANGED <<heeds, available, waiters, done, attempt, root, stopped>>

Dispose(t) ==
    /\ place[t].doing = "disposing"
    /\ root' = root \ {<<t, place[t].of>>}
    /\ Over(t)
    /\ UNCHANGED <<heeds, available, waiters, done, attempt, stopped>>

SetupNext ==
    \E t \in SetupTrials :
        \/ Acquire(t) \/ AbortTrial(t) \/ MakeRoot(t) \/ SetupReady(t) \/ SetupFails(t)
        \/ Submit(t) \/ WorkspaceLeft(t) \/ Dispose(t)
        \/ \E ok \in BOOLEAN : SetupCommand(t, ok)

(* Through aborts, failures and retries no slot is lost and none given out  *)
(* twice, nobody waits while one is free, and a workspace is there exactly  *)
(* until its trial is over (repository-workspace.factory.ts 76-153,         *)
(* 191-233, harness.ts 713-735).                                            *)
SlotsAndRootsExact ==
    /\ available + Cardinality(InSetup) = SetupConcurrency
    /\ waiters # <<>> => available = 0
    /\ \A t \in SetupTrials : place[t].doing = "over" => \A of \in {"agent", "judge"} : <<t, of>> \notin root

(* A trial that waits for its turn to set up a workspace.                   *)
SetupWaits == \E t \in SetupTrials : place[t].doing \in {"asking", "waiting", "setup", "failing"}

=============================================================================
