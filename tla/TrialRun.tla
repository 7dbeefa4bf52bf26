------------------------------ MODULE TrialRun ------------------------------
(***************************************************************************)
(* One call of TrialRunner.run (packages/eval-engine/src/application/      *)
(* trial-runner.ts): prepare a workspace, run the agent against a timer,   *)
(* grade, persist, and persist once more when anything threw.              *)
(*                                                                         *)
(* The agent and its model are asynchronous: they request the model while  *)
(* the runner waits, may never come back, and the job around the trial may *)
(* be aborted or ended (the repository then refuses the result) at any     *)
(* moment.  Every emit, prepare, verify and save may fail.                 *)
(***************************************************************************)
EXTENDS Integers, TrialOutcome

CONSTANT MaxModelRequests  \* bound on the model requests of one agent run

ASSUME MaxModelRequestsAssumption == MaxModelRequests \in Nat

VARIABLES pc,              \* where run() is
          workspace,       \* "none", "live", "disposed", or "leaked" when dispose threw
          submissionType,  \* evalCase.submission.type
          aborted,         \* the job's AbortSignal
          storeOpen,       \* the job is running or cancelling: saveTrial accepts
          agent,           \* the agent's promise: "idle", "running", "detached", "settled"
          requests,        \* model requests really made
          agentResult,     \* the runner's agentResult variable, or NoResult
          verification,    \* the runner's verification.status
          infrastructure,  \* the runner's infrastructure variable
          saved,           \* the row of this trialId in eval_trials, or NoResult
          outcome          \* of run(): "pending", "returned" or "threw"

environment == <<submissionType, aborted, storeOpen>>
trialVars == <<pc, workspace, environment, agent, requests, agentResult,
          verification, infrastructure, saved, outcome>>

NoResult == [none |-> TRUE]

TrialInit ==
    /\ pc = "start"
    /\ workspace = "none"
    /\ submissionType \in {"files", "text"}
    /\ aborted = FALSE
    /\ storeOpen = TRUE
    /\ agent = "idle"
    /\ requests = 0
    /\ agentResult = NoResult
    /\ verification = "error"
    /\ infrastructure = "ok"
    /\ saved = NoResult
    /\ outcome = "pending"

-----------------------------------------------------------------------------
(* Preparation.  A throw anywhere goes to "mapped", the catch of run().     *)

EmitStarted ==
    /\ pc = "start"
    /\ pc' \in {"workspace", "mapped"}
    /\ UNCHANGED <<workspace, environment, agent, requests, agentResult,
                   verification, infrastructure, saved, outcome>>

CreateWorkspace ==
    /\ pc = "workspace"
    /\ \/ /\ workspace' = "live"
          /\ pc' = "prepare"
          /\ UNCHANGED infrastructure
       \/ /\ infrastructure' = "setup_error"
          /\ pc' = "mapped"
          /\ UNCHANGED workspace
    /\ UNCHANGED <<environment, agent, requests, agentResult, verification, saved, outcome>>

PrepareCase ==
    /\ pc = "prepare"
    /\ \/ /\ ~aborted
          /\ pc' = "agent"
          /\ agent' = "running"
       \/ /\ pc' = "mapped"
          /\ UNCHANGED agent
    /\ UNCHANGED <<workspace, environment, requests, agentResult, verification,
                   infrastructure, saved, outcome>>

-----------------------------------------------------------------------------
(* The agent.  AgentRunner counts a request at the top of its loop, after   *)
(* throwIfAborted, so a detached agent makes no further request.            *)

ModelRequest ==
    /\ agent = "running"
    /\ ~aborted
    /\ requests < MaxModelRequests
    /\ requests' = requests + 1
    /\ UNCHANGED <<pc, workspace, environment, agent, agentResult, verification,
                   infrastructure, saved, outcome>>

(* What AgentRunner.run resolves to: a submission is collected only when the *)
(* agent proposed completion or ran out of budget.                           *)
AgentResolutions ==
    {[status |-> s, submission |-> b, billed |-> TRUE] :
        s \in {"submitted", "verified_complete", "budget_exhausted"}, b \in {"valid", "empty"}}
    \cup {[status |-> "agent_error", submission |-> "missing", billed |-> TRUE]}

AgentReturns ==
    /\ pc = "agent" /\ agent = "running"
    /\ \/ requests > 0 /\ agentResult' \in AgentResolutions
       \/ aborted /\ agentResult' = [status |-> "timeout", submission |-> "missing",
                                     billed |-> requests > 0]
    /\ agent' = "settled"
    /\ pc' = "submitted"
    /\ UNCHANGED <<workspace, environment, requests, verification, infrastructure, saved, outcome>>

(* agent.run rejected: the model could not be configured, the job was       *)
(* aborted before the start, an event could not be stored.                  *)
AgentThrows ==
    /\ pc = "agent" /\ agent = "running"
    /\ agentResult' = [status |-> "agent_error", submission |-> "missing",
                       billed |-> requests > 0]
    /\ agent' = "settled"
    /\ pc' = "mapped"
    /\ UNCHANGED <<workspace, environment, requests, verification, infrastructure, saved, outcome>>

(* The timer of runAgent: the agent is told to abort and gets 50 ms.        *)
AgentTimesOut ==
    /\ pc = "agent" /\ agent = "running"
    /\ \/ \* it settles in time: its result, with its status overwritten
          \E r \in AgentResolutions :
             /\ requests > 0
             /\ agentResult' = [r EXCEPT !.status = "timeout"]
             /\ agent' = "settled"
       \/ \* it does not: timeoutResult of what the sink has seen
          /\ agentResult' = [status |-> "timeout", submission |-> "missing",
                             billed |-> requests > 0]
          /\ agent' = "detached"
    /\ pc' = "submitted"
    /\ UNCHANGED <<workspace, environment, requests, verification, infrastructure, saved, outcome>>

DetachedAgentSettles ==
    /\ agent = "detached"
    /\ agent' = "settled"
    /\ UNCHANGED <<pc, workspace, environment, requests, agentResult, verification,
                   infrastructure, saved, outcome>>

-----------------------------------------------------------------------------
Grade ==
    /\ pc = "submitted"
    /\ IF agentResult.status = "timeout"
       THEN verification' = "error" /\ pc' = "persist"
       ELSE IF agentResult.submission = "missing" /\ submissionType = "text"
       THEN verification' = "failed" /\ pc' = "persist"
       ELSE \/ /\ verification' \in IF aborted THEN {"error"} ELSE VerificationStatus
               /\ pc' = "persist"
            \/ /\ pc' = "mapped"      \* an event of the verifier could not be stored
               /\ UNCHANGED verification
    /\ UNCHANGED <<workspace, environment, agent, requests, agentResult, infrastructure,
                   saved, outcome>>

-----------------------------------------------------------------------------
(* Results.  BuildTrialResult is the normal path, MapFailureToTrialResult   *)
(* the catch of run(); persist() then attaches analyzeFailure's category    *)
(* unless reading the events failed.                                        *)

BuildTrialResult ==
    [execution |-> ToExecutionStatus(agentResult.status), submission |-> agentResult.submission,
     verification |-> verification, infrastructure |-> infrastructure,
     failure |-> "none", billed |-> agentResult.billed]

(* Mutant: the catch reports empty metrics instead of the sink's snapshot.  *)
MapFailureEmptyMetrics ==
    [execution |-> IF agentResult = NoResult THEN "agent_error"
                   ELSE ToExecutionStatus(agentResult.status),
     submission |-> IF agentResult = NoResult THEN "missing" ELSE agentResult.submission,
     verification |-> verification,
     infrastructure |-> IF infrastructure = "ok" THEN "runtime_error" ELSE infrastructure,
     failure |-> "none", billed |-> FALSE]

MapFailureToTrialResult ==
    [execution |-> IF agentResult = NoResult THEN "agent_error"
                   ELSE ToExecutionStatus(agentResult.status),
     submission |-> IF agentResult = NoResult THEN "missing" ELSE agentResult.submission,
     verification |-> verification,
     infrastructure |-> IF infrastructure = "ok" THEN "runtime_error" ELSE infrastructure,
     failure |-> "none",
     billed |-> IF agentResult = NoResult THEN FALSE ELSE agentResult.billed]

Enriched(r) == {r, [r EXCEPT !.failure = Classify(r)]}

(* saveTrial inserts under the trialId with ON CONFLICT DO NOTHING.         *)
Saves(r) == /\ storeOpen
            /\ saved' \in IF saved = NoResult THEN Enriched(r) ELSE {saved}

PersistResult ==
    /\ pc = "persist"
    /\ \/ /\ Saves(BuildTrialResult)
          /\ \/ pc' = "cleanup" /\ outcome' = "returned"
             \/ pc' = "mapped" /\ UNCHANGED outcome      \* committed, reply lost
       \/ /\ pc' = "mapped"                              \* refused or failed
          /\ UNCHANGED <<saved, outcome>>
    /\ UNCHANGED <<workspace, environment, agent, requests, agentResult, verification,
                   infrastructure>>

PersistMapped ==
    /\ pc = "mapped"
    /\ \/ Saves(MapFailureToTrialResult) /\ outcome' \in {"returned", "threw"}
       \/ outcome' = "threw" /\ UNCHANGED saved
    /\ pc' = "cleanup"
    /\ UNCHANGED <<workspace, environment, agent, requests, agentResult, verification,
                   infrastructure>>

Cleanup ==
    /\ pc = "cleanup"
    /\ workspace' \in IF workspace = "live" THEN {"disposed", "leaked"} ELSE {workspace}
    /\ pc' = "done"
    /\ UNCHANGED <<environment, agent, requests, agentResult, verification,
                   infrastructure, saved, outcome>>

-----------------------------------------------------------------------------
(* The job around the trial.                                                *)

AbortJob ==
    /\ ~aborted
    /\ aborted' = TRUE
    /\ UNCHANGED <<pc, workspace, submissionType, storeOpen, agent, requests, agentResult, verification,
                   infrastructure, saved, outcome>>

EndJob ==
    /\ storeOpen
    /\ storeOpen' = FALSE
    /\ UNCHANGED <<pc, workspace, submissionType, aborted, agent, requests, agentResult, verification,
                   infrastructure, saved, outcome>>

Runner == \/ EmitStarted \/ CreateWorkspace \/ PrepareCase
          \/ Grade \/ PersistResult \/ PersistMapped \/ Cleanup

TrialNext ==
    \/ Runner
    \/ ModelRequest \/ AgentReturns \/ AgentThrows \/ AgentTimesOut \/ DetachedAgentSettles
    \/ AbortJob \/ EndJob

(* Once begun, the runner's own steps and its timer happen; nothing is      *)
(* assumed of the agent, which may never return.                            *)
TrialFairness == WF_trialVars(pc # "start" /\ Runner) /\ WF_trialVars(AgentTimesOut)

-----------------------------------------------------------------------------
(* A stored verdict rests on evidence: "pass" and "fail" are only written   *)
(* when the verifier really concluded so, for an agent that neither timed   *)
(* out nor failed, and no exception was mapped (trial-plan.ts: only a valid *)
(* verification yields pass or fail).                                       *)
VerdictNeedsEvidence ==
    saved # NoResult =>
        LET v == DeriveTrialOutcome(saved).verdict IN
        /\ v = "pass" => verification = "passed" /\ agentResult.status # "agent_error"
        /\ v = "fail" => verification = "failed" /\ agentResult.status # "agent_error"
        /\ v # "unknown" => agentResult.status # "timeout"

(* A result that qualifies for the automatic retry (preparation fault, no   *)
(* model request in the ledger) comes from a trial whose agent never called *)
(* the model, whatever threw and whichever of the two saves was kept.       *)
RetryableNeverBilled ==
    saved # NoResult /\ PrepareFault(DeriveTrialOutcome(saved)) /\ ~saved.billed
        => requests = 0

(* Whatever the agent does, the timer, the two persists and the finally     *)
(* block bring run() to its end and the workspace is given back: a run that *)
(* is going on is not for ever.                                             *)
TrialGoesOn == pc # "start" /\ (pc # "done" \/ workspace = "live")

(* The backfill of database.ts gives a result that is not resolved the       *)
(* verdict trial-plan.ts gives it, for every result a trial can leave in     *)
(* eval_trials.  (It does not for a passed verification of an agent that     *)
(* failed or timed out, which it calls a pass.)                              *)
BackfillAgrees ==
    saved # NoResult /\ ~IsTrialResolved(saved) =>
        BackfillVerdict(saved) = DeriveTrialOutcome(saved).verdict

(* A verdict needs the evidence for it, whoever derives it: the runner as   *)
(* the trial ends, the migration from the stored result; and the attempt    *)
(* that may be repeated has not been billed.                                *)
TrialVerdictSound == VerdictNeedsEvidence /\ BackfillAgrees /\ RetryableNeverBilled
=============================================================================
