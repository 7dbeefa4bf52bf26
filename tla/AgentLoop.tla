----------------------------- MODULE AgentLoop -----------------------------
(***************************************************************************)
(* One call of AgentRunner.run (packages/agent-runtime/src/agent/          *)
(* agent-runner.ts): request the model, execute the tools it asks for      *)
(* (tools/tool-executor.ts), let it propose completion, verify, and return *)
(* a result with the transcript of the turn.                               *)
(*                                                                         *)
(* Of the messages only what a provider insists on is kept: how many tool  *)
(* calls of the last assistant message have no result yet, and whether     *)
(* another message was pushed over unanswered calls.                       *)
(***************************************************************************)
EXTENDS Integers, Sequences, FiniteSets

CONSTANTS MaxTurns,        \* limits.maxTurns
          MaxToolCalls,    \* limits.maxToolCalls, the tool budget
          MaxCalls,        \* bound on the tool calls of one model response
          ModelRetries,    \* limits.modelRetries
          Signatures,      \* tool name and arguments, as the signature of a call
          Window,          \* RECENT_TOOL_CALL_WINDOW
          RepeatLimit      \* REPEATED_TOOL_CALL_LIMIT

ASSUME BoundsAssumption ==
    /\ MaxTurns \in Nat \ {0}
    /\ MaxToolCalls \in Nat
    /\ MaxCalls \in Nat \ {0}
    /\ ModelRetries \in Nat
    /\ Window \in Nat \ {0}
    /\ RepeatLimit \in Nat \ {0}

VARIABLES config,       \* what the run was given: verifier, tools, approvals, continuation
          pc,           \* where run() is
          machine,      \* AgentStateMachine
          turns,        \* model turns begun
          attempt,      \* retries of the request in flight
          shown,        \* attempts of the request that have shown text
          continued,    \* continuationUsed
          open,         \* tool calls of the last assistant message without a result
          broken,       \* a message was pushed while calls were open
          left,         \* calls of the response still to be executed
          recent,       \* recentToolCallSignatures
          used,         \* budget.used
          required,     \* researchRequired
          researched,   \* executor.hasSuccessfulResearch
          escalate,     \* researchEscalation
          verification, \* the last completion check
          aborted,      \* the signal of the caller or of runTimeoutMs
          result

response == <<open, broken, left>>
needs == <<required, researched, escalate>>
vars == <<config, pc, machine, turns, attempt, shown, continued, response, recent,
          used, needs, verification, aborted, result>>

NoResult == [none |-> TRUE]

(* toolsEnabled without tools of their own for research is config.research  *)
(* FALSE; a read-only run is one without a verifier.                        *)
Config == {c \in [verifier : BOOLEAN, tools : BOOLEAN, research : BOOLEAN,
                  approval : BOOLEAN, continuation : BOOLEAN] : c.research => c.tools}

Result == [status : {"submitted", "verified_complete", "budget_exhausted", "timeout", "agent_error"},
           submission : BOOLEAN, snapshot : BOOLEAN,
           verification : {"none", "passed", "failed"}]

Machine == {"RUNNING", "MODEL_PROPOSED_COMPLETE", "SUBMITTED", "VERIFIED_COMPLETE",
            "TIMEOUT", "BUDGET_EXHAUSTED", "FAILED"}

TypeOK ==
    /\ config \in Config
    /\ pc \in {"top", "model", "backoff", "verify", "calls", "approve", "tool", "collect", "submit", "done"}
    /\ machine \in Machine
    /\ turns \in 0..MaxTurns
    /\ attempt \in 0..ModelRetries
    /\ shown \subseteq 0..ModelRetries
    /\ continued \in BOOLEAN
    /\ open \in 0..MaxCalls
    /\ broken \in BOOLEAN
    /\ left \in 0..MaxCalls
    /\ recent \in Seq(Signatures)
    /\ used \in 0..MaxToolCalls
    /\ required \in BOOLEAN
    /\ researched \in BOOLEAN
    /\ escalate \in BOOLEAN
    /\ verification \in {"none", "passed", "failed"}
    /\ aborted \in BOOLEAN
    /\ result \in Result \cup {NoResult}

Init ==
    /\ config \in Config
    /\ pc = "top"
    /\ machine = "RUNNING"
    /\ turns = 0 /\ attempt = 0 /\ shown = {}
    /\ continued = FALSE
    /\ open = 0 /\ broken = FALSE /\ left = 0
    /\ recent = <<>>
    /\ used = 0
    /\ required \in BOOLEAN
    /\ researched = FALSE /\ escalate = FALSE
    /\ verification = "none"
    /\ aborted = FALSE
    /\ result = NoResult

-----------------------------------------------------------------------------
(* Messages.                                                                *)

Push == broken' = (broken \/ open > 0)          \* a message that is no tool result
PushCalls(n) == Push /\ open' = n /\ left' = n  \* the assistant message with its calls
PushText == Push /\ UNCHANGED <<open, left>>    \* any other message
PushResult == open' = open - 1 /\ left' = left - 1 /\ UNCHANGED broken

(* The end of run().  A result of the catch carries no submission, and the  *)
(* snapshot of a verified attempt only leaves with its own status.          *)
Finish(status, check) ==
    /\ pc' = "done"
    /\ result' = [status |-> status,
                  submission |-> status \notin {"timeout", "agent_error"},
                  snapshot |-> status = "verified_complete",
                  verification |-> check]

(* Mutant: an abort moves the machine from wherever it is.                  *)
CatchAfterAnyState(kind, check) ==
    IF aborted \/ kind = "abort"
    THEN Finish("timeout", check) /\ machine' = "TIMEOUT"
    ELSE Finish("agent_error", check) /\ machine' = "FAILED"

CatchAfter(kind, check) ==
    IF aborted \/ kind = "abort"
    THEN /\ Finish("timeout", check)
         /\ machine' = IF machine = "RUNNING" THEN "TIMEOUT" ELSE machine
    ELSE /\ Finish("agent_error", check)
         /\ machine' = IF machine \in {"RUNNING", "MODEL_PROPOSED_COMPLETE"}
                       THEN "FAILED" ELSE machine

Catch(kind) == CatchAfter(kind, verification)

(* Everything awaited may throw: the event sink, the model, the verifier,   *)
(* the collection of the submission.                                        *)
Throws(kind) ==
    /\ pc \in {"model", "backoff", "verify", "calls", "approve", "tool", "collect", "submit"}
    /\ kind = "abort" => pc = "model"        \* an AbortError of the provider's own
    /\ Catch(kind)
    /\ UNCHANGED <<config, turns, attempt, shown, continued, response, recent, used,
                   needs, verification, aborted>>

Abort ==
    /\ pc # "done" /\ ~aborted
    /\ aborted' = TRUE
    /\ UNCHANGED <<config, pc, machine, turns, attempt, shown, continued, response, recent,
                   used, needs, verification, result>>

-----------------------------------------------------------------------------
(* The model.                                                               *)

(* Mutant: a turn is not counted.                                           *)
NextTurnUncounted ==
    /\ pc = "top" /\ ~aborted /\ turns < MaxTurns
    /\ attempt' = 0 /\ shown' = {}
    /\ pc' = "model"
    /\ UNCHANGED <<config, machine, turns, continued, response, recent, used, needs,
                   verification, aborted, result>>

NextTurn ==
    /\ pc = "top" /\ ~aborted
    /\ IF turns >= MaxTurns
       THEN /\ machine' = "BUDGET_EXHAUSTED"
            /\ pc' = "collect"
            /\ UNCHANGED <<turns, attempt, shown>>
       ELSE /\ turns' = turns + 1
            /\ attempt' = 0 /\ shown' = {}
            /\ pc' = "model"
            /\ UNCHANGED machine
    /\ UNCHANGED <<config, continued, response, recent, used, needs,
                   verification, aborted, result>>

StopAborted ==
    /\ pc \in {"top", "calls", "backoff"} /\ aborted
    /\ Catch("error")
    /\ UNCHANGED <<config, turns, attempt, shown, continued, response, recent, used,
                   needs, verification, aborted>>

(* onTextDelta: the attempt in flight shows its first text.                 *)
TextDelta ==
    /\ pc = "model" /\ attempt \notin shown
    /\ shown' = shown \cup {attempt}
    /\ UNCHANGED <<config, pc, machine, turns, attempt, continued, response, recent, used,
                   needs, verification, aborted, result>>

(* Mutant: the retry does not look at the text already shown.               *)
RetryModelAlways ==
    /\ pc = "model" /\ attempt < ModelRetries /\ ~aborted
    /\ attempt' = attempt + 1
    /\ pc' = "backoff"
    /\ UNCHANGED <<config, machine, turns, shown, continued, response, recent, used,
                   needs, verification, aborted, result>>

RetryModel ==
    /\ pc = "model"
    /\ attempt < ModelRetries /\ shown = {} /\ ~aborted
    /\ attempt' = attempt + 1
    /\ pc' = "backoff"
    /\ UNCHANGED <<config, machine, turns, shown, continued, response, recent, used,
                   needs, verification, aborted, result>>

Backoff ==
    /\ pc = "backoff" /\ ~aborted
    /\ pc' = "model"
    /\ UNCHANGED <<config, machine, turns, attempt, shown, continued, response, recent,
                   used, needs, verification, aborted, result>>

(* stopReason max_tokens: text is continued once, calls are not.            *)
Truncated(n) ==
    /\ pc = "model" /\ config.continuation
    /\ IF n > 0 \/ continued
       THEN /\ Catch("error")
            /\ UNCHANGED <<continued, response>>
       ELSE /\ continued' = TRUE
            /\ PushText
            /\ pc' = "top"
            /\ UNCHANGED <<machine, result>>
    /\ UNCHANGED <<config, turns, attempt, shown, recent, used, needs,
                   verification, aborted>>

(* A reply without calls: research or its sources are still missing, or     *)
(* completion is proposed.                                                  *)
ReplyPutOff ==
    /\ pc = "model" /\ required /\ (config.research \/ researched)
    /\ PushText
    /\ pc' = "top"
    /\ UNCHANGED <<config, machine, turns, attempt, shown, continued, recent, used,
                   needs, verification, aborted, result>>

ProposeCompletion ==
    /\ pc = "model"
    /\ required /\ config.research => researched
    /\ machine' = "MODEL_PROPOSED_COMPLETE"
    /\ PushText
    /\ pc' = IF config.verifier THEN "verify" ELSE "collect"
    /\ UNCHANGED <<config, turns, attempt, shown, continued, recent, used, needs, verification, aborted, result>>

ReplyWithCalls(n) ==
    /\ pc = "model" /\ n > 0
    /\ IF config.tools
       THEN PushCalls(n) /\ pc' = "calls"
       ELSE PushText /\ pc' = "top"
    /\ UNCHANGED <<config, machine, turns, attempt, shown, continued, recent, used,
                   needs, verification, aborted, result>>

-----------------------------------------------------------------------------
(* Completion (completionVerifier.verify, collectSubmission).               *)

(* Mutant: the failed check leaves the proposal standing.                   *)
VerifyKeepsProposal ==
    /\ pc = "verify"
    /\ \E passed \in BOOLEAN :
        /\ verification' = IF passed THEN "passed" ELSE "failed"
        /\ machine' = IF passed THEN "VERIFIED_COMPLETE" ELSE machine
        /\ pc' = "collect"
    /\ UNCHANGED <<config, turns, attempt, shown, continued, response, recent, used,
                   needs, aborted, result>>

Verify ==
    /\ pc = "verify"
    /\ \/ /\ verification' = "passed"
          /\ machine' = "VERIFIED_COMPLETE"
          /\ pc' = "collect"
          /\ UNCHANGED <<response, result>>
       \/ /\ verification' = "failed"
          /\ machine' = "RUNNING"
          /\ PushText
          /\ pc' = "top"
          /\ UNCHANGED result
       \/ \* the event of the verdict could not be stored
          /\ verification' \in {"passed", "failed"}
          /\ CatchAfter("error", verification')
          /\ UNCHANGED response
    /\ UNCHANGED <<config, turns, attempt, shown, continued, recent, used, needs, aborted>>

CollectSubmission ==
    /\ pc = "collect"
    /\ \/ /\ machine = "BUDGET_EXHAUSTED"
          /\ Finish("budget_exhausted", verification)
          /\ UNCHANGED machine
       \/ /\ machine # "BUDGET_EXHAUSTED"
          /\ machine' = IF machine = "MODEL_PROPOSED_COMPLETE" THEN "SUBMITTED" ELSE machine
          /\ pc' = "submit"
          /\ UNCHANGED result
    /\ UNCHANGED <<config, turns, attempt, shown, continued, response, recent, used,
                   needs, verification, aborted>>

(* The event of the submission is stored; that it is not, the catch reports *)
(* in the state already reached.                                            *)
ReportSubmission ==
    /\ pc = "submit"
    /\ Finish(IF machine = "VERIFIED_COMPLETE" THEN "verified_complete" ELSE "submitted",
              verification)
    /\ UNCHANGED <<config, machine, turns, attempt, shown, continued, response, recent, used,
                   needs, verification, aborted>>

-----------------------------------------------------------------------------
(* Tool calls.                                                              *)

Remember(s) ==
    IF Len(recent) >= Window THEN Append(Tail(recent), s) ELSE Append(recent, s)

Occurrences(s, seq) == Cardinality({i \in 1..Len(seq) : seq[i] = s})

(* Mutant: the calls that did not run get no result.                        *)
StopCallsUnanswered ==
    /\ machine' = "BUDGET_EXHAUSTED"
    /\ left' = 0 /\ UNCHANGED <<open, broken>>
    /\ pc' = "collect"

(* The circuit breakers: every call that did not run gets a placeholder     *)
(* result before the run stops.                                             *)
StopCalls ==
    /\ machine' = "BUDGET_EXHAUSTED"
    /\ open' = open - left /\ left' = 0
    /\ broken' = (broken \/ (escalate /\ open > left))
    /\ pc' = "collect"

NextCall(s) ==
    /\ pc = "calls" /\ left > 0 /\ ~aborted
    /\ recent' = Remember(s)
    /\ IF Occurrences(s, Remember(s)) >= RepeatLimit
       THEN StopCalls
       ELSE pc' = "tool" /\ UNCHANGED <<machine, response>>
    /\ UNCHANGED <<config, turns, attempt, shown, continued, used, needs,
                   verification, aborted, result>>

(* A failure that looks like an unfamiliar API makes research required.     *)
ToolFails ==
    /\ \/ UNCHANGED <<required, escalate>>
       \/ required' = TRUE /\ escalate' = TRUE
    /\ UNCHANGED researched

(* Unknown tool, not of the active skill, nested subagent, bad arguments:   *)
(* an error for the model that costs no budget.                             *)
RefuseCall ==
    /\ pc = "tool"
    /\ ToolFails
    /\ PushResult
    /\ pc' = "calls"
    /\ UNCHANGED <<config, machine, turns, attempt, shown, continued, recent, used,
                   verification, aborted, result>>

ToolBudgetSpent ==
    /\ pc = "tool" /\ used >= MaxToolCalls
    /\ StopCalls
    /\ UNCHANGED <<config, turns, attempt, shown, continued, recent, used, needs, verification, aborted, result>>

AskApproval ==
    /\ pc = "tool" /\ used < MaxToolCalls /\ config.approval
    /\ pc' = "approve"
    /\ UNCHANGED <<config, machine, turns, attempt, shown, continued, response, recent,
                   used, needs, verification, aborted, result>>

(* A denial ends the run: TOOL_PERMISSION_DENIED is thrown out of the loop. *)
Deny ==
    /\ pc = "approve"
    /\ Catch("error")
    /\ UNCHANGED <<config, turns, attempt, shown, continued, response, recent, used,
                   needs, verification, aborted>>

(* The call is counted, then answers, fails or times out; or is denied by   *)
(* the tool itself (ask_user without an answer, a subagent that may write). *)
RunTool ==
    /\ pc = "approve" \/ (pc = "tool" /\ ~config.approval)
    /\ used < MaxToolCalls
    /\ used' = used + 1
    /\ \/ /\ \/ ToolFails
             \/ /\ researched' \in {researched, config.research}
                /\ UNCHANGED <<required, escalate>>
          /\ PushResult
          /\ pc' = "calls"
          /\ UNCHANGED <<machine, result>>
       \/ /\ Catch("error")
          /\ UNCHANGED <<needs, response>>
    /\ UNCHANGED <<config, turns, attempt, shown, continued, recent, verification, aborted>>

AllCallsDone ==
    /\ pc = "calls" /\ left = 0
    /\ IF escalate THEN PushText ELSE UNCHANGED response
    /\ escalate' = FALSE
    /\ pc' = "top"
    /\ UNCHANGED <<config, machine, turns, attempt, shown, continued, recent, used,
                   required, researched, verification, aborted, result>>

-----------------------------------------------------------------------------
Step ==
    \/ NextTurn \/ StopAborted
    \/ RetryModel \/ Backoff
    \/ \E n \in 0..MaxCalls : Truncated(n) \/ ReplyWithCalls(n)
    \/ ReplyPutOff \/ ProposeCompletion
    \/ Verify \/ CollectSubmission \/ ReportSubmission
    \/ \E s \in Signatures : NextCall(s)
    \/ RefuseCall \/ ToolBudgetSpent \/ AllCallsDone
    \/ AskApproval \/ Deny \/ RunTool
    \/ \E kind \in {"error", "abort"} : Throws(kind)

Next == Step \/ TextDelta \/ Abort

(* Everything the loop awaits comes back: requests and commands have their  *)
(* own timeouts.  Only the answer to an approval is the user's; asking ends *)
(* when the run is aborted.                                                 *)
Fairness == WF_vars(Step /\ pc # "approve") /\ WF_vars(Deny /\ aborted)

Spec == Init /\ [][Next]_vars /\ Fairness

-----------------------------------------------------------------------------
(* A request never carries a tool call without its result, and neither does *)
(* the transcript of a run that ended by itself: the circuit breakers, the  *)
(* budget, refused calls and the research escalation all keep the pairing   *)
(* (agent-runner.ts 387-484).                                               *)
NormalEnd == result # NoResult /\ result.status \notin {"timeout", "agent_error"}

TranscriptPaired == (pc = "model" \/ NormalEnd) => (open = 0 /\ ~broken)

(* Retries of a request show the user no text twice (agent-runner.ts 91-97).*)
NoTextTwice == Cardinality(shown) <= 1

(* A request can be sent, and sent again: nothing in it is unanswered, and  *)
(* nothing of its reply has been shown.                                     *)
RequestsSound == TranscriptPaired /\ NoTextTwice

(* The status of a run is the one its last completion check supports:       *)
(* verified_complete after a passed check only, submitted only when nothing *)
(* verifies, and a passed check never ends as an exhausted budget.          *)
StatusHasVerdict ==
    result # NoResult =>
        /\ result.status = "verified_complete" => result.verification = "passed"
        /\ result.status = "submitted" => ~config.verifier
        /\ result.status = "budget_exhausted" => result.verification # "passed"

(* The loop implements the life of a task: whichever of its ways out it     *)
(* takes, the state machine is never asked for a transition that throws     *)
(* (agent-runner.ts 117, 214, 353, 366, 372, 423, 445, 494, 553, 575), and  *)
(* the one status it returns is one that the state reached supports.        *)
Task == INSTANCE TaskState
        WITH state <- machine,
             reported <- IF result = NoResult THEN "none" ELSE result.status

ImplementsTask == Task!Spec

(* The loop does not go round for ever: it ends or waits for an approval,   *)
(* and an aborted run ends whatever it waits for.                           *)
RunEnds ==
    /\ []<>(pc \in {"approve", "done"})
    /\ aborted ~> pc = "done"

=============================================================================
