---------------------------- MODULE TrialOutcome ----------------------------
(***************************************************************************)
(* What one evaluation trial reports and how the platform judges it.       *)
(*                                                                         *)
(* TrialRunner (packages/eval-engine) turns everything that can happen to  *)
(* a trial into a TrialResult; trial-plan.ts (apps/eval-platform) derives  *)
(* from it the verdict that statistics count and the attribution that      *)
(* decides whether the trial may be retried; database.ts derives verdicts  *)
(* for the results saved before plans existed.  Messages, evidence, scores *)
(* and token counts are left out: `billed' is metrics.modelRequests > 0.   *)
(***************************************************************************)

AgentStatus == {"submitted", "verified_complete", "timeout", "budget_exhausted", "agent_error"}
ExecutionStatus == {"submitted", "timeout", "budget_exhausted", "agent_error"}
SubmissionStatus == {"valid", "empty", "invalid", "missing"}
VerificationStatus == {"passed", "failed", "error"}
InfrastructureStatus == {"ok", "setup_error", "runtime_error"}
FailureCategory == {"none", "infrastructure", "timeout", "budget", "submission",
                    "verification", "agent"}

(* "none" as the failure of a result: the optional field is absent.         *)
TrialResult == [execution : ExecutionStatus, submission : SubmissionStatus,
                verification : VerificationStatus, infrastructure : InfrastructureStatus,
                failure : FailureCategory, billed : BOOLEAN]

Verdict == {"pass", "fail", "unknown"}
ErrorCategory == {"env_failure", "timeout", "submission_invalid", "tool_misuse",
                  "assertion_failed", "model_error", "unknown"}
FailureStage == {"prepare", "agent", "verify", "grade"}
Outcome == [verdict : Verdict, errorCategory : ErrorCategory, failureStage : FailureStage]

-----------------------------------------------------------------------------
ToExecutionStatus(s) == IF s = "verified_complete" THEN "submitted" ELSE s

IsTrialResolved(r) == r.verification = "passed" /\ r.infrastructure = "ok"

(* The early returns of failure-analyzer.ts classify, in their order.       *)
Classify(r) ==
    IF IsTrialResolved(r) THEN "none"
    ELSE IF r.infrastructure # "ok" THEN "infrastructure"
    ELSE IF r.execution = "timeout" THEN "timeout"
    ELSE IF r.execution = "budget_exhausted" THEN "budget"
    ELSE IF r.submission # "valid" THEN "submission"
    ELSE IF r.verification # "passed" THEN "verification"
    ELSE "agent"

FailureCategoryOf(r, fallback) ==
    IF r.failure = "infrastructure" THEN "env_failure"
    ELSE IF r.failure \in {"timeout", "budget"} THEN "timeout"
    ELSE IF r.failure = "submission" THEN "submission_invalid"
    ELSE IF r.failure = "verification" THEN "assertion_failed"
    ELSE IF r.failure = "agent" THEN "model_error"
    ELSE fallback

Judged(v, c, s) == [verdict |-> v, errorCategory |-> c, failureStage |-> s]

(* Mutant: without the early return for a verifier that itself failed.      *)
DeriveWithoutGradeError(r) ==
    IF r.infrastructure # "ok" THEN Judged("unknown", "env_failure", "prepare")
    ELSE IF r.execution = "agent_error"
         THEN Judged("unknown", FailureCategoryOf(r, "model_error"), "agent")
    ELSE IF r.execution = "timeout" /\ r.verification # "failed"
         THEN Judged("unknown", "timeout", "agent")
    ELSE IF r.verification = "passed" THEN Judged("pass", "unknown", "grade")
    ELSE Judged("fail", FailureCategoryOf(r, "assertion_failed"), "verify")

DeriveTrialOutcome(r) ==
    IF r.infrastructure # "ok" THEN Judged("unknown", "env_failure", "prepare")
    ELSE IF r.execution = "agent_error"
         THEN Judged("unknown", FailureCategoryOf(r, "model_error"), "agent")
    ELSE IF r.execution = "timeout" /\ r.verification # "failed"
         THEN Judged("unknown", "timeout", "agent")
    ELSE IF r.verification = "error" THEN Judged("unknown", "unknown", "grade")
    ELSE IF r.verification = "passed" THEN Judged("pass", "unknown", "grade")
    ELSE Judged("fail", FailureCategoryOf(r, "assertion_failed"), "verify")

(* Mutant: a verifier that failed counts against the agent.                 *)
BackfillWithoutGradeError(r) ==
    IF IsTrialResolved(r) THEN "pass"
    ELSE IF \/ r.infrastructure # "ok"
            \/ r.execution = "agent_error"
            \/ r.execution = "timeout" /\ r.verification # "failed" THEN "unknown"
    ELSE "fail"

(* The CASE of the version-6 migration, for results saved before plans.     *)
BackfillVerdict(r) ==
    IF IsTrialResolved(r) THEN "pass"
    ELSE IF \/ r.infrastructure # "ok"
            \/ r.execution = "agent_error"
            \/ r.verification = "error"
            \/ r.execution = "timeout" /\ r.verification # "failed" THEN "unknown"
    ELSE "fail"

(* The outcome part of retryablePrepareFailures; what the ledger says of    *)
(* the model requests is the other part.                                    *)
PrepareFault(o) ==
    o = [verdict |-> "unknown", errorCategory |-> "env_failure", failureStage |-> "prepare"]
=============================================================================
