--------------------------- MODULE AgentLoopProofs ---------------------------
(***************************************************************************)
(* What AgentLoop guarantees for every budget, number of calls and set of  *)
(* signatures.  The inductive invariant says what holds at each place of   *)
(* the loop: how many calls are open there, and which verdict the state    *)
(* machine stands for.                                                     *)
(***************************************************************************)
EXTENDS AgentLoop, FiniteSetTheorems, TLAPS

InCalls == {"calls", "approve", "tool"}

(* Calls are open only between the reply that makes them and the last       *)
(* result, and all that are open are still to be executed.                  *)
CallsOpen ==
    /\ broken = FALSE
    /\ pc \in InCalls => open = left
    /\ pc \in {"approve", "tool"} => left > 0
    /\ pc \notin InCalls /\ pc # "done" => open = 0
    /\ NormalEnd => open = 0
    /\ pc # "done" => result = NoResult

(* The place of the loop tells the state of the machine.                    *)
MachineAgrees ==
    /\ pc \in {"top", "model", "backoff"} \cup InCalls =>
         machine = "RUNNING" /\ verification # "passed"
    /\ pc = "verify" =>
         machine = "MODEL_PROPOSED_COMPLETE" /\ config.verifier = TRUE /\ verification # "passed"
    /\ pc = "collect" =>
         \/ machine = "MODEL_PROPOSED_COMPLETE" /\ config.verifier = FALSE
         \/ machine = "VERIFIED_COMPLETE" /\ verification = "passed"
         \/ machine = "BUDGET_EXHAUSTED" /\ verification # "passed"
    /\ pc = "submit" =>
         \/ machine = "SUBMITTED" /\ config.verifier = FALSE
         \/ machine = "VERIFIED_COMPLETE" /\ verification = "passed"

(* A request shows text only in its last attempt.                           *)
TextInLastAttempt ==
    /\ pc = "backoff" => shown = {}
    /\ shown \subseteq {attempt}

IInv == TypeOK /\ CallsOpen /\ MachineAgrees /\ TextInLastAttempt /\ StatusHasVerdict


-----------------------------------------------------------------------------
LEMMA FinishTyped ==
  ASSUME TypeOK, NEW status \in {"submitted", "verified_complete", "budget_exhausted", "timeout", "agent_error"},
         NEW check \in {"none", "passed", "failed"}, Finish(status, check)
  PROVE  pc' = "done" /\ result' \in Result
BY DEF Finish, Result

LEMMA CatchTyped ==
  ASSUME TypeOK, NEW kind, NEW check \in {"none", "passed", "failed"}, CatchAfter(kind, check)
  PROVE  pc' = "done" /\ result' \in Result /\ machine' \in Machine
BY FinishTyped DEF CatchAfter, TypeOK, Machine

LEMMA NextTurnKeeps ==
  ASSUME IInv, NextTurn
  PROVE  IInv'
<1>1. TypeOK'
  <2>1. CASE turns >= MaxTurns
    BY <2>1 DEF IInv, TypeOK, NextTurn, Machine, response, needs
  <2>2. CASE ~(turns >= MaxTurns)
    <3>1. turns' \in 0..MaxTurns /\ attempt' \in 0..ModelRetries /\ shown' \subseteq 0..ModelRetries
      BY <2>2, BoundsAssumption DEF IInv, TypeOK, NextTurn
    <3> QED BY <2>2, <3>1 DEF IInv, TypeOK, NextTurn, response, needs
  <2> QED BY <2>1, <2>2
<1>2. CallsOpen'
  BY BoundsAssumption
     DEF IInv, TypeOK, CallsOpen, NormalEnd, InCalls, response, Result, NoResult, NextTurn
<1>3. MachineAgrees'
  BY BoundsAssumption
     DEF IInv, TypeOK, CallsOpen, MachineAgrees, InCalls, Machine, response, Config,
         NextTurn
<1>4. TextInLastAttempt' BY BoundsAssumption DEF IInv, TypeOK, TextInLastAttempt, NextTurn
<1>5. StatusHasVerdict'
  BY BoundsAssumption
     DEF IInv, TypeOK, MachineAgrees, StatusHasVerdict, InCalls, Result, NoResult, Config,
         Machine, NextTurn
<1> QED BY <1>1, <1>2, <1>3, <1>4, <1>5 DEF IInv

LEMMA StopAbortedKeeps ==
  ASSUME IInv, StopAborted
  PROVE  IInv'
<1>1. TypeOK'
  BY BoundsAssumption, FinishTyped, CatchTyped
     DEF IInv, TypeOK, response, needs, StopAborted, Catch, Machine
<1>2. CallsOpen'
  BY BoundsAssumption
     DEF IInv, TypeOK, CallsOpen, NormalEnd, InCalls, response, Result, NoResult,
         StopAborted, Catch, CatchAfter, Finish, Result, Machine
<1>3. MachineAgrees'
  BY BoundsAssumption
     DEF IInv, TypeOK, CallsOpen, MachineAgrees, InCalls, Machine, response, Config,
         StopAborted, Catch, CatchAfter, Finish, Result, Machine
<1>4. TextInLastAttempt'
  BY BoundsAssumption
     DEF IInv, TypeOK, TextInLastAttempt, StopAborted, Catch, CatchAfter, Finish, Result,
         Machine
<1>5. StatusHasVerdict'
  BY BoundsAssumption
     DEF IInv, TypeOK, MachineAgrees, StatusHasVerdict, InCalls, Result, NoResult, Config,
         Machine, StopAborted, Catch, CatchAfter, Finish, Result, Machine
<1> QED BY <1>1, <1>2, <1>3, <1>4, <1>5 DEF IInv

LEMMA RetryModelKeeps ==
  ASSUME IInv, RetryModel
  PROVE  IInv'
<1>1. TypeOK' BY BoundsAssumption DEF IInv, TypeOK, response, needs, RetryModel, Machine
<1>2. CallsOpen'
  BY BoundsAssumption
     DEF IInv, TypeOK, CallsOpen, NormalEnd, InCalls, response, Result, NoResult,
         RetryModel
<1>3. MachineAgrees'
  BY BoundsAssumption
     DEF IInv, TypeOK, CallsOpen, MachineAgrees, InCalls, Machine, response, Config,
         RetryModel
<1>4. TextInLastAttempt' BY BoundsAssumption DEF IInv, TypeOK, TextInLastAttempt, RetryModel
<1>5. StatusHasVerdict'
  BY BoundsAssumption
     DEF IInv, TypeOK, MachineAgrees, StatusHasVerdict, InCalls, Result, NoResult, Config,
         Machine, RetryModel
<1> QED BY <1>1, <1>2, <1>3, <1>4, <1>5 DEF IInv

LEMMA BackoffKeeps ==
  ASSUME IInv, Backoff
  PROVE  IInv'
<1>1. TypeOK' BY BoundsAssumption DEF IInv, TypeOK, response, needs, Backoff, Machine
<1>2. CallsOpen'
  BY BoundsAssumption
     DEF IInv, TypeOK, CallsOpen, NormalEnd, InCalls, response, Result, NoResult, Backoff
<1>3. MachineAgrees'
  BY BoundsAssumption
     DEF IInv, TypeOK, CallsOpen, MachineAgrees, InCalls, Machine, response, Config,
         Backoff
<1>4. TextInLastAttempt' BY BoundsAssumption DEF IInv, TypeOK, TextInLastAttempt, Backoff
<1>5. StatusHasVerdict'
  BY BoundsAssumption
     DEF IInv, TypeOK, MachineAgrees, StatusHasVerdict, InCalls, Result, NoResult, Config,
         Machine, Backoff
<1> QED BY <1>1, <1>2, <1>3, <1>4, <1>5 DEF IInv

LEMMA ReplyPutOffKeeps ==
  ASSUME IInv, ReplyPutOff
  PROVE  IInv'
<1>1. TypeOK'
  BY BoundsAssumption
     DEF IInv, TypeOK, response, needs, ReplyPutOff, PushText, Push, Machine
<1>2. CallsOpen'
  BY BoundsAssumption
     DEF IInv, TypeOK, CallsOpen, NormalEnd, InCalls, response, Result, NoResult,
         ReplyPutOff, PushText, Push
<1>3. MachineAgrees'
  BY BoundsAssumption
     DEF IInv, TypeOK, CallsOpen, MachineAgrees, InCalls, Machine, response, Config,
         ReplyPutOff, PushText, Push
<1>4. TextInLastAttempt'
  BY BoundsAssumption
     DEF IInv, TypeOK, TextInLastAttempt, ReplyPutOff, PushText, Push
<1>5. StatusHasVerdict'
  BY BoundsAssumption
     DEF IInv, TypeOK, MachineAgrees, StatusHasVerdict, InCalls, Result, NoResult, Config,
         Machine, ReplyPutOff, PushText, Push
<1> QED BY <1>1, <1>2, <1>3, <1>4, <1>5 DEF IInv

LEMMA ProposeCompletionKeeps ==
  ASSUME IInv, ProposeCompletion
  PROVE  IInv'
<1>1. TypeOK'
  BY BoundsAssumption
     DEF IInv, TypeOK, response, needs, ProposeCompletion, PushText, Push, Machine
<1>2. CallsOpen'
  BY BoundsAssumption
     DEF IInv, TypeOK, CallsOpen, NormalEnd, InCalls, response, Result, NoResult,
         ProposeCompletion, PushText, Push, Machine
<1>3. MachineAgrees'
  BY BoundsAssumption
     DEF IInv, TypeOK, CallsOpen, MachineAgrees, InCalls, Machine, response, Config,
         ProposeCompletion, PushText, Push, Machine
<1>4. TextInLastAttempt'
  BY BoundsAssumption
     DEF IInv, TypeOK, TextInLastAttempt, ProposeCompletion, PushText, Push, Machine
<1>5. StatusHasVerdict'
  BY BoundsAssumption
     DEF IInv, TypeOK, MachineAgrees, StatusHasVerdict, InCalls, Result, NoResult, Config,
         Machine, ProposeCompletion, PushText, Push, Machine
<1> QED BY <1>1, <1>2, <1>3, <1>4, <1>5 DEF IInv

LEMMA VerifyKeeps ==
  ASSUME IInv, Verify
  PROVE  IInv'
<1>1. TypeOK'
  BY BoundsAssumption, FinishTyped, CatchTyped
     DEF IInv, TypeOK, response, needs, Verify, PushText, Push, Machine
<1>2. CallsOpen'
  BY BoundsAssumption
     DEF IInv, TypeOK, CallsOpen, NormalEnd, InCalls, response, Result, NoResult, Verify,
         PushText, Push, CatchAfter, Finish, Result, Machine
<1>3. MachineAgrees'
  BY BoundsAssumption
     DEF IInv, TypeOK, CallsOpen, MachineAgrees, InCalls, Machine, response, Config,
         Verify, PushText, Push, CatchAfter, Finish, Result, Machine
<1>4. TextInLastAttempt'
  BY BoundsAssumption
     DEF IInv, TypeOK, TextInLastAttempt, Verify, PushText, Push, CatchAfter, Finish,
         Result, Machine
<1>5. StatusHasVerdict'
  BY BoundsAssumption
     DEF IInv, TypeOK, MachineAgrees, StatusHasVerdict, InCalls, Result, NoResult, Config,
         Machine, Verify, PushText, Push, CatchAfter, Finish, Result, Machine
<1> QED BY <1>1, <1>2, <1>3, <1>4, <1>5 DEF IInv

LEMMA CollectSubmissionKeeps ==
  ASSUME IInv, CollectSubmission
  PROVE  IInv'
<1>1. TypeOK'
  <2>1. CASE machine = "BUDGET_EXHAUSTED"
    <3>1. Finish("budget_exhausted", verification) /\ UNCHANGED machine
      BY <2>1 DEF CollectSubmission
    <3>2. pc' = "done" /\ result' \in Result
      BY <3>1, FinishTyped DEF IInv, TypeOK
    <3> QED BY <3>1, <3>2 DEF IInv, TypeOK, CollectSubmission, response, needs
  <2>2. CASE machine # "BUDGET_EXHAUSTED"
    <3>1. pc' = "submit" /\ UNCHANGED result /\ machine' \in Machine
      BY <2>2 DEF IInv, TypeOK, CollectSubmission, Machine
    <3> QED BY <3>1 DEF IInv, TypeOK, CollectSubmission, response, needs
  <2> QED BY <2>1, <2>2
<1>2. CallsOpen'
  BY BoundsAssumption
     DEF IInv, TypeOK, CallsOpen, NormalEnd, InCalls, response, Result, NoResult,
         CollectSubmission, Finish, Result, Machine
<1>3. MachineAgrees'
  BY BoundsAssumption
     DEF IInv, TypeOK, CallsOpen, MachineAgrees, InCalls, Machine, response, Config,
         CollectSubmission, Finish, Result, Machine
<1>4. TextInLastAttempt'
  BY BoundsAssumption
     DEF IInv, TypeOK, TextInLastAttempt, CollectSubmission, Finish, Result, Machine
<1>5. StatusHasVerdict'
  BY BoundsAssumption
     DEF IInv, TypeOK, MachineAgrees, StatusHasVerdict, InCalls, Result, NoResult, Config,
         Machine, CollectSubmission, Finish, Result, Machine
<1> QED BY <1>1, <1>2, <1>3, <1>4, <1>5 DEF IInv

LEMMA ReportSubmissionKeeps ==
  ASSUME IInv, ReportSubmission
  PROVE  IInv'
<1>1. TypeOK'
  <2>1. PICK status \in {"submitted", "verified_complete"} : Finish(status, verification)
    BY DEF ReportSubmission
  <2>2. pc' = "done" /\ result' \in Result
    BY <2>1, FinishTyped DEF IInv, TypeOK
  <2> QED BY <2>2 DEF IInv, TypeOK, ReportSubmission, response, needs
<1>2. CallsOpen'
  BY BoundsAssumption
     DEF IInv, TypeOK, CallsOpen, NormalEnd, InCalls, response, Result, NoResult,
         ReportSubmission, Finish, Result, Machine
<1>3. MachineAgrees'
  BY BoundsAssumption
     DEF IInv, TypeOK, CallsOpen, MachineAgrees, InCalls, Machine, response, Config,
         ReportSubmission, Finish, Result, Machine
<1>4. TextInLastAttempt'
  BY BoundsAssumption
     DEF IInv, TypeOK, TextInLastAttempt, ReportSubmission, Finish, Result, Machine
<1>5. StatusHasVerdict'
  BY BoundsAssumption
     DEF IInv, TypeOK, MachineAgrees, StatusHasVerdict, InCalls, Result, NoResult, Config,
         Machine, ReportSubmission, Finish, Result, Machine
<1> QED BY <1>1, <1>2, <1>3, <1>4, <1>5 DEF IInv

LEMMA RefuseCallKeeps ==
  ASSUME IInv, RefuseCall
  PROVE  IInv'
<1>1. TypeOK'
  <2>1. open' \in 0..MaxCalls /\ left' \in 0..MaxCalls /\ broken' \in BOOLEAN
    BY BoundsAssumption DEF IInv, TypeOK, CallsOpen, InCalls, RefuseCall, PushResult
  <2>2. required' \in BOOLEAN /\ researched' \in BOOLEAN /\ escalate' \in BOOLEAN
    BY DEF IInv, TypeOK, RefuseCall, ToolFails
  <2> QED BY <2>1, <2>2 DEF IInv, TypeOK, RefuseCall
<1>2. CallsOpen'
  BY BoundsAssumption
     DEF IInv, TypeOK, CallsOpen, NormalEnd, InCalls, response, Result, NoResult,
         RefuseCall, ToolFails, PushResult
<1>3. MachineAgrees'
  BY BoundsAssumption
     DEF IInv, TypeOK, CallsOpen, MachineAgrees, InCalls, Machine, response, Config,
         RefuseCall, ToolFails, PushResult
<1>4. TextInLastAttempt'
  BY BoundsAssumption
     DEF IInv, TypeOK, TextInLastAttempt, RefuseCall, ToolFails, PushResult
<1>5. StatusHasVerdict'
  BY BoundsAssumption
     DEF IInv, TypeOK, MachineAgrees, StatusHasVerdict, InCalls, Result, NoResult, Config,
         Machine, RefuseCall, ToolFails, PushResult
<1> QED BY <1>1, <1>2, <1>3, <1>4, <1>5 DEF IInv

LEMMA ToolBudgetSpentKeeps ==
  ASSUME IInv, ToolBudgetSpent
  PROVE  IInv'
<1>1. TypeOK'
  BY BoundsAssumption
     DEF IInv, TypeOK, response, needs, CallsOpen, InCalls, ToolBudgetSpent, StopCalls,
         Machine
<1>2. CallsOpen'
  BY BoundsAssumption
     DEF IInv, TypeOK, CallsOpen, NormalEnd, InCalls, response, Result, NoResult,
         ToolBudgetSpent, StopCalls, Machine
<1>3. MachineAgrees'
  BY BoundsAssumption
     DEF IInv, TypeOK, CallsOpen, MachineAgrees, InCalls, Machine, response, Config,
         ToolBudgetSpent, StopCalls, Machine
<1>4. TextInLastAttempt'
  BY BoundsAssumption
     DEF IInv, TypeOK, TextInLastAttempt, ToolBudgetSpent, StopCalls, Machine
<1>5. StatusHasVerdict'
  BY BoundsAssumption
     DEF IInv, TypeOK, MachineAgrees, StatusHasVerdict, InCalls, Result, NoResult, Config,
         Machine, ToolBudgetSpent, StopCalls, Machine
<1> QED BY <1>1, <1>2, <1>3, <1>4, <1>5 DEF IInv

LEMMA AllCallsDoneKeeps ==
  ASSUME IInv, AllCallsDone
  PROVE  IInv'
<1>1. TypeOK'
  BY BoundsAssumption
     DEF IInv, TypeOK, response, needs, CallsOpen, InCalls, AllCallsDone, PushText, Push,
         Machine
<1>2. CallsOpen'
  BY BoundsAssumption
     DEF IInv, TypeOK, CallsOpen, NormalEnd, InCalls, response, Result, NoResult,
         AllCallsDone, PushText, Push
<1>3. MachineAgrees'
  BY BoundsAssumption
     DEF IInv, TypeOK, CallsOpen, MachineAgrees, InCalls, Machine, response, Config,
         AllCallsDone, PushText, Push
<1>4. TextInLastAttempt'
  BY BoundsAssumption
     DEF IInv, TypeOK, TextInLastAttempt, AllCallsDone, PushText, Push
<1>5. StatusHasVerdict'
  BY BoundsAssumption
     DEF IInv, TypeOK, MachineAgrees, StatusHasVerdict, InCalls, Result, NoResult, Config,
         Machine, AllCallsDone, PushText, Push
<1> QED BY <1>1, <1>2, <1>3, <1>4, <1>5 DEF IInv

LEMMA AskApprovalKeeps ==
  ASSUME IInv, AskApproval
  PROVE  IInv'
<1>1. TypeOK' BY BoundsAssumption DEF IInv, TypeOK, response, needs, AskApproval, Machine
<1>2. CallsOpen'
  BY BoundsAssumption
     DEF IInv, TypeOK, CallsOpen, NormalEnd, InCalls, response, Result, NoResult,
         AskApproval
<1>3. MachineAgrees'
  BY BoundsAssumption
     DEF IInv, TypeOK, CallsOpen, MachineAgrees, InCalls, Machine, response, Config,
         AskApproval
<1>4. TextInLastAttempt' BY BoundsAssumption DEF IInv, TypeOK, TextInLastAttempt, AskApproval
<1>5. StatusHasVerdict'
  BY BoundsAssumption
     DEF IInv, TypeOK, MachineAgrees, StatusHasVerdict, InCalls, Result, NoResult, Config,
         Machine, AskApproval
<1> QED BY <1>1, <1>2, <1>3, <1>4, <1>5 DEF IInv

LEMMA DenyKeeps ==
  ASSUME IInv, Deny
  PROVE  IInv'
<1>1. TypeOK'
  BY BoundsAssumption, FinishTyped, CatchTyped
     DEF IInv, TypeOK, response, needs, Deny, Catch, Machine
<1>2. CallsOpen'
  BY BoundsAssumption
     DEF IInv, TypeOK, CallsOpen, NormalEnd, InCalls, response, Result, NoResult, Deny,
         Catch, CatchAfter, Finish, Result, Machine
<1>3. MachineAgrees'
  BY BoundsAssumption
     DEF IInv, TypeOK, CallsOpen, MachineAgrees, InCalls, Machine, response, Config, Deny,
         Catch, CatchAfter, Finish, Result, Machine
<1>4. TextInLastAttempt'
  BY BoundsAssumption
     DEF IInv, TypeOK, TextInLastAttempt, Deny, Catch, CatchAfter, Finish, Result, Machine
<1>5. StatusHasVerdict'
  BY BoundsAssumption
     DEF IInv, TypeOK, MachineAgrees, StatusHasVerdict, InCalls, Result, NoResult, Config,
         Machine, Deny, Catch, CatchAfter, Finish, Result, Machine
<1> QED BY <1>1, <1>2, <1>3, <1>4, <1>5 DEF IInv

LEMMA RunToolKeeps ==
  ASSUME IInv, RunTool
  PROVE  IInv'
<1>1. TypeOK'
  <2>1. used' \in 0..MaxToolCalls
    BY BoundsAssumption DEF IInv, TypeOK, RunTool
  <2>2. CASE Catch("error") /\ UNCHANGED <<needs, response>>
    <3>1. pc' = "done" /\ result' \in Result /\ machine' \in Machine
      BY <2>2, CatchTyped DEF IInv, TypeOK, Catch
    <3> QED BY <2>1, <2>2, <3>1 DEF IInv, TypeOK, RunTool, needs, response
  <2>3. CASE /\ \/ ToolFails
                \/ /\ researched' \in {researched, config.research}
                   /\ UNCHANGED <<required, escalate>>
             /\ PushResult /\ pc' = "calls" /\ UNCHANGED <<machine, result>>
    <3>1. open' \in 0..MaxCalls /\ left' \in 0..MaxCalls /\ broken' \in BOOLEAN
      BY <2>3, BoundsAssumption DEF IInv, TypeOK, CallsOpen, InCalls, RunTool, PushResult
    <3>2. config.research \in BOOLEAN
      BY DEF IInv, TypeOK, Config
    <3>3. required' \in BOOLEAN /\ researched' \in BOOLEAN /\ escalate' \in BOOLEAN
      BY <2>3, <3>2 DEF IInv, TypeOK, ToolFails
    <3> QED BY <2>1, <2>3, <3>1, <3>3 DEF IInv, TypeOK, RunTool
  <2> QED BY <2>2, <2>3 DEF RunTool
<1>2. CallsOpen'
  BY BoundsAssumption
     DEF IInv, TypeOK, CallsOpen, NormalEnd, InCalls, response, Result, NoResult, RunTool,
         ToolFails, PushResult, Catch, CatchAfter, Finish, Result, Machine
<1>3. MachineAgrees'
  BY BoundsAssumption
     DEF IInv, TypeOK, CallsOpen, MachineAgrees, InCalls, Machine, response, Config,
         RunTool, ToolFails, PushResult, Catch, CatchAfter, Finish, Result, Machine
<1>4. TextInLastAttempt'
  BY BoundsAssumption
     DEF IInv, TypeOK, TextInLastAttempt, RunTool, ToolFails, PushResult, Catch,
         CatchAfter, Finish, Result, Machine
<1>5. StatusHasVerdict'
  BY BoundsAssumption
     DEF IInv, TypeOK, MachineAgrees, StatusHasVerdict, InCalls, Result, NoResult, Config,
         Machine, RunTool, ToolFails, PushResult, Catch, CatchAfter, Finish, Result,
         Machine
<1> QED BY <1>1, <1>2, <1>3, <1>4, <1>5 DEF IInv

LEMMA TextDeltaKeeps ==
  ASSUME IInv, TextDelta
  PROVE  IInv'
<1>1. TypeOK' BY BoundsAssumption DEF IInv, TypeOK, response, needs, TextDelta, Machine
<1>2. CallsOpen'
  BY BoundsAssumption
     DEF IInv, TypeOK, CallsOpen, NormalEnd, InCalls, response, Result, NoResult,
         TextDelta
<1>3. MachineAgrees'
  BY BoundsAssumption
     DEF IInv, TypeOK, CallsOpen, MachineAgrees, InCalls, Machine, response, Config,
         TextDelta
<1>4. TextInLastAttempt' BY BoundsAssumption DEF IInv, TypeOK, TextInLastAttempt, TextDelta
<1>5. StatusHasVerdict'
  BY BoundsAssumption
     DEF IInv, TypeOK, MachineAgrees, StatusHasVerdict, InCalls, Result, NoResult, Config,
         Machine, TextDelta
<1> QED BY <1>1, <1>2, <1>3, <1>4, <1>5 DEF IInv

LEMMA AbortKeeps ==
  ASSUME IInv, Abort
  PROVE  IInv'
<1>1. TypeOK' BY BoundsAssumption DEF IInv, TypeOK, response, needs, Abort, Machine
<1>2. CallsOpen'
  BY BoundsAssumption
     DEF IInv, TypeOK, CallsOpen, NormalEnd, InCalls, response, Result, NoResult, Abort
<1>3. MachineAgrees'
  BY BoundsAssumption
     DEF IInv, TypeOK, CallsOpen, MachineAgrees, InCalls, Machine, response, Config, Abort
<1>4. TextInLastAttempt' BY BoundsAssumption DEF IInv, TypeOK, TextInLastAttempt, Abort
<1>5. StatusHasVerdict'
  BY BoundsAssumption
     DEF IInv, TypeOK, MachineAgrees, StatusHasVerdict, InCalls, Result, NoResult, Config,
         Machine, Abort
<1> QED BY <1>1, <1>2, <1>3, <1>4, <1>5 DEF IInv

LEMMA ThrowsKeeps ==
  ASSUME IInv, NEW kind, Throws(kind)
  PROVE  IInv'
<1>1. TypeOK'
  BY BoundsAssumption, FinishTyped, CatchTyped
     DEF IInv, TypeOK, response, needs, Throws, Catch, Machine
<1>2. CallsOpen'
  BY BoundsAssumption
     DEF IInv, TypeOK, CallsOpen, NormalEnd, InCalls, response, Result, NoResult, Throws,
         Catch, CatchAfter, Finish, Result, Machine
<1>3. MachineAgrees'
  BY BoundsAssumption
     DEF IInv, TypeOK, CallsOpen, MachineAgrees, InCalls, Machine, response, Config,
         Throws, Catch, CatchAfter, Finish, Result, Machine
<1>4. TextInLastAttempt'
  BY BoundsAssumption
     DEF IInv, TypeOK, TextInLastAttempt, Throws, Catch, CatchAfter, Finish, Result,
         Machine
<1>5. StatusHasVerdict'
  BY BoundsAssumption
     DEF IInv, TypeOK, MachineAgrees, StatusHasVerdict, InCalls, Result, NoResult, Config,
         Machine, Throws, Catch, CatchAfter, Finish, Result, Machine
<1> QED BY <1>1, <1>2, <1>3, <1>4, <1>5 DEF IInv

LEMMA TruncatedKeeps ==
  ASSUME IInv, NEW n \in 0..MaxCalls, Truncated(n)
  PROVE  IInv'
<1>1. TypeOK'
  <2>1. CASE n > 0 \/ continued
    <3>1. pc' = "done" /\ result' \in Result /\ machine' \in Machine
      BY <2>1, CatchTyped DEF IInv, TypeOK, Truncated, Catch
    <3> QED BY <2>1, <3>1 DEF IInv, TypeOK, Truncated, needs, response
  <2>2. CASE ~(n > 0 \/ continued)
    BY <2>2 DEF IInv, TypeOK, Truncated, PushText, Push, needs
  <2> QED BY <2>1, <2>2
<1>2. CallsOpen'
  BY BoundsAssumption
     DEF IInv, TypeOK, CallsOpen, NormalEnd, InCalls, response, Result, NoResult,
         Truncated, PushText, Push, Catch, CatchAfter, Finish, Result, Machine
<1>3. MachineAgrees'
  BY BoundsAssumption
     DEF IInv, TypeOK, CallsOpen, MachineAgrees, InCalls, Machine, response, Config,
         Truncated, PushText, Push, Catch, CatchAfter, Finish, Result, Machine
<1>4. TextInLastAttempt'
  BY BoundsAssumption
     DEF IInv, TypeOK, TextInLastAttempt, Truncated, PushText, Push, Catch, CatchAfter,
         Finish, Result, Machine
<1>5. StatusHasVerdict'
  BY BoundsAssumption
     DEF IInv, TypeOK, MachineAgrees, StatusHasVerdict, InCalls, Result, NoResult, Config,
         Machine, Truncated, PushText, Push, Catch, CatchAfter, Finish, Result, Machine
<1> QED BY <1>1, <1>2, <1>3, <1>4, <1>5 DEF IInv

LEMMA ReplyWithCallsKeeps ==
  ASSUME IInv, NEW n \in 0..MaxCalls, ReplyWithCalls(n)
  PROVE  IInv'
<1>1. TypeOK'
  <2>1. CASE config.tools
    BY <2>1, BoundsAssumption DEF IInv, TypeOK, ReplyWithCalls, PushCalls, Push, needs
  <2>2. CASE ~config.tools
    BY <2>2, BoundsAssumption DEF IInv, TypeOK, ReplyWithCalls, PushText, Push, needs
  <2> QED BY <2>1, <2>2
<1>2. CallsOpen'
  <2>1. CASE config.tools
    BY <2>1, BoundsAssumption DEF IInv, TypeOK, CallsOpen, NormalEnd, InCalls, Result, NoResult, ReplyWithCalls, PushCalls, Push, needs
  <2>2. CASE ~config.tools
    BY <2>2, BoundsAssumption DEF IInv, TypeOK, CallsOpen, NormalEnd, InCalls, Result, NoResult, ReplyWithCalls, PushText, Push, needs
  <2> QED BY <2>1, <2>2
<1>3. MachineAgrees'
  BY BoundsAssumption
     DEF IInv, TypeOK, CallsOpen, MachineAgrees, InCalls, Machine, response, Config,
         ReplyWithCalls, PushCalls, PushText, Push
<1>4. TextInLastAttempt'
  BY BoundsAssumption
     DEF IInv, TypeOK, TextInLastAttempt, ReplyWithCalls, PushCalls, PushText, Push
<1>5. StatusHasVerdict'
  BY BoundsAssumption
     DEF IInv, TypeOK, MachineAgrees, StatusHasVerdict, InCalls, Result, NoResult, Config,
         Machine, ReplyWithCalls, PushCalls, PushText, Push
<1> QED BY <1>1, <1>2, <1>3, <1>4, <1>5 DEF IInv

LEMMA NextCallKeeps ==
  ASSUME IInv, NEW s \in Signatures, NextCall(s)
  PROVE  IInv'
<1>1. TypeOK'
  BY BoundsAssumption
     DEF IInv, TypeOK, response, needs, CallsOpen, InCalls, NextCall, StopCalls, Remember,
         Machine
<1>2. CallsOpen'
  BY BoundsAssumption
     DEF IInv, TypeOK, CallsOpen, NormalEnd, InCalls, response, Result, NoResult, NextCall,
         StopCalls, Remember, Machine
<1>3. MachineAgrees'
  BY BoundsAssumption
     DEF IInv, TypeOK, CallsOpen, MachineAgrees, InCalls, Machine, response, Config,
         NextCall, StopCalls, Remember, Machine
<1>4. TextInLastAttempt'
  BY BoundsAssumption
     DEF IInv, TypeOK, TextInLastAttempt, NextCall, StopCalls, Remember, Machine
<1>5. StatusHasVerdict'
  BY BoundsAssumption
     DEF IInv, TypeOK, MachineAgrees, StatusHasVerdict, InCalls, Result, NoResult, Config,
         Machine, NextCall, StopCalls, Remember, Machine
<1> QED BY <1>1, <1>2, <1>3, <1>4, <1>5 DEF IInv

-----------------------------------------------------------------------------
LEMMA StutterKeeps ==
  ASSUME IInv, UNCHANGED vars
  PROVE  IInv'
<1> USE DEF IInv, vars, response, needs
<1>1. TypeOK' BY DEF TypeOK
<1>2. CallsOpen' BY DEF CallsOpen, NormalEnd, InCalls
<1>3. MachineAgrees' BY DEF MachineAgrees, InCalls
<1>4. TextInLastAttempt' BY DEF TextInLastAttempt
<1>5. StatusHasVerdict' BY DEF StatusHasVerdict
<1> QED BY <1>1, <1>2, <1>3, <1>4, <1>5

LEMMA InitHolds == Init => IInv
<1> SUFFICES ASSUME Init PROVE IInv
    OBVIOUS
<1>1. TypeOK
  <2>1. /\ turns \in 0..MaxTurns /\ attempt \in 0..ModelRetries /\ shown \subseteq 0..ModelRetries
        /\ open \in 0..MaxCalls /\ left \in 0..MaxCalls /\ used \in 0..MaxToolCalls
    BY BoundsAssumption DEF Init
  <2>2. recent \in Seq(Signatures)
    BY DEF Init
  <2>3. machine \in Machine
    BY DEF Init, Machine
  <2> QED BY <2>1, <2>2, <2>3 DEF Init, TypeOK
<1>2. CallsOpen /\ MachineAgrees /\ TextInLastAttempt /\ StatusHasVerdict
  BY DEF Init, CallsOpen, MachineAgrees, TextInLastAttempt, StatusHasVerdict, NormalEnd,
         InCalls, NoResult
<1> QED BY <1>1, <1>2 DEF IInv

(* The strengthening is inductive: every place of the loop keeps what the   *)
(* next one relies on, whatever the model answers and whenever the run is   *)
(* aborted (agent-runner.ts 211-596).                                       *)
THEOREM LoopInvariant == Spec => []IInv
<1>1. Init => IInv
  BY InitHolds
<1>2. IInv /\ [Next]_vars => IInv'
  <2> SUFFICES ASSUME IInv, [Next]_vars PROVE IInv'
      OBVIOUS
  <2>1. CASE NextTurn BY <2>1, NextTurnKeeps
  <2>2. CASE StopAborted BY <2>2, StopAbortedKeeps
  <2>3. CASE RetryModel BY <2>3, RetryModelKeeps
  <2>4. CASE Backoff BY <2>4, BackoffKeeps
  <2>5. CASE ReplyPutOff BY <2>5, ReplyPutOffKeeps
  <2>6. CASE ProposeCompletion BY <2>6, ProposeCompletionKeeps
  <2>7. CASE Verify BY <2>7, VerifyKeeps
  <2>8. CASE CollectSubmission BY <2>8, CollectSubmissionKeeps
  <2>9. CASE RefuseCall BY <2>9, RefuseCallKeeps
  <2>10. CASE ToolBudgetSpent BY <2>10, ToolBudgetSpentKeeps
  <2>11. CASE AllCallsDone BY <2>11, AllCallsDoneKeeps
  <2>12. CASE AskApproval BY <2>12, AskApprovalKeeps
  <2>13. CASE Deny BY <2>13, DenyKeeps
  <2>14. CASE RunTool BY <2>14, RunToolKeeps
  <2>15. CASE TextDelta BY <2>15, TextDeltaKeeps
  <2>16. CASE Abort BY <2>16, AbortKeeps
  <2>17. ASSUME NEW n \in 0..MaxCalls, Truncated(n) PROVE IInv'
    BY <2>17, TruncatedKeeps
  <2>18. ASSUME NEW n \in 0..MaxCalls, ReplyWithCalls(n) PROVE IInv'
    BY <2>18, ReplyWithCallsKeeps
  <2>19. ASSUME NEW s \in Signatures, NextCall(s) PROVE IInv'
    BY <2>19, NextCallKeeps
  <2>20. ASSUME NEW kind \in {"error", "abort"}, Throws(kind) PROVE IInv'
    BY <2>20, ThrowsKeeps
  <2>21. CASE ReportSubmission BY <2>21, ReportSubmissionKeeps
  <2>22. CASE UNCHANGED vars BY <2>22, StutterKeeps
  <2> QED BY <2>1, <2>2, <2>3, <2>4, <2>5, <2>6, <2>7, <2>8, <2>9, <2>10, <2>11, <2>12, <2>13, <2>14, <2>15, <2>16, <2>17, <2>18, <2>19, <2>20, <2>21, <2>22
        DEF Next, Step
<1> QED BY <1>1, <1>2, PTL DEF Spec

(* Every variable keeps its type; in particular the run never takes more    *)
(* turns, retries or tool calls than its limits allow.                      *)
THEOREM TypeCorrect == Spec => []TypeOK
<1>1. IInv => TypeOK BY DEF IInv
<1> QED BY <1>1, LoopInvariant, PTL

(* No request and no transcript of a run that ended by itself carries a     *)
(* tool call without its result.                                            *)
THEOREM Paired == Spec => []TranscriptPaired
<1>1. IInv => TranscriptPaired
  BY DEF IInv, CallsOpen, InCalls, NormalEnd, TranscriptPaired, NoResult, TypeOK
<1> QED BY <1>1, LoopInvariant, PTL

(* verified_complete is only reported after a passed check, submitted only  *)
(* when nothing verifies, budget_exhausted never after a passed check.      *)
THEOREM VerdictCorrect == Spec => []StatusHasVerdict
<1>1. IInv => StatusHasVerdict BY DEF IInv
<1> QED BY <1>1, LoopInvariant, PTL

(* The text of a request is shown by one attempt only.                      *)
THEOREM ShownOnce == Spec => []NoTextTwice
<1>1. IInv => NoTextTwice
  <2> SUFFICES ASSUME IInv PROVE Cardinality(shown) <= 1
      BY DEF NoTextTwice
  <2>1. shown = {} \/ shown = {attempt}
    BY DEF IInv, TextInLastAttempt
  <2>2. Cardinality({}) = 0 /\ Cardinality({attempt}) = 1
    BY FS_EmptySet, FS_Singleton
  <2> QED BY <2>1, <2>2
<1> QED BY <1>1, LoopInvariant, PTL

(* Both halves of what a request relies on.                                 *)
THEOREM RequestsCorrect == Spec => []RequestsSound
BY Paired, ShownOnce, PTL DEF RequestsSound

-----------------------------------------------------------------------------
(* The loop implements the life of a task.                                  *)

Reported == IF result = NoResult THEN "none" ELSE result.status

TaskStep == [Task!Next]_<<machine, Reported>>

LEMMA NothingReported ==
  ASSUME UNCHANGED <<machine, result>>
  PROVE  TaskStep
BY DEF TaskStep, Reported

(* A transition the table allows, before anything is reported.              *)
LEMMA TransitionOnly ==
  ASSUME IInv, pc # "done", UNCHANGED result,
         machine' \in Task!Allowed[machine] \/ UNCHANGED machine
  PROVE  TaskStep
<1>1. Reported = "none" /\ Reported' = "none"
  BY DEF IInv, CallsOpen, Reported
<1> QED BY <1>1 DEF TaskStep, Task!Next, Task!Transition, Reported

(* The report ends the run in a state that supports it.                     *)
LEMMA ReportIs ==
  ASSUME IInv, pc # "done", NEW status, NEW check, Finish(status, check),
         machine' \in Task!Allowed[machine] \/ UNCHANGED machine,
         status \in Task!Supported[machine']
  PROVE  TaskStep
<1>1. Reported = "none"
  BY DEF IInv, CallsOpen, Reported
<1>2. result' # NoResult
  <2>1. result'.status = status /\ "status" \in DOMAIN result'
    BY DEF Finish
  <2>2. DOMAIN NoResult = {"none"}
    BY DEF NoResult
  <2> QED BY <2>1, <2>2
<1>3. Reported' = status
  BY <1>2 DEF Reported, Finish
<1> QED BY <1>1, <1>3 DEF TaskStep, Task!Next, Task!Transition, Task!Report, Reported

(* Wherever something throws, the catch reports what its state supports:    *)
(* the run is not open any more, or it ends here.                           *)
LEMMA CatchReports ==
  ASSUME IInv, pc # "done", NEW kind, NEW check, CatchAfter(kind, check)
  PROVE  TaskStep
<1>1. machine \in {"RUNNING", "MODEL_PROPOSED_COMPLETE", "SUBMITTED", "VERIFIED_COMPLETE",
                 "BUDGET_EXHAUSTED"}
  BY DEF IInv, TypeOK, MachineAgrees, InCalls
<1>2. CASE aborted \/ kind = "abort"
  <2>1. Finish("timeout", check)
    BY <1>2 DEF CatchAfter
  <2>2. machine' = IF machine = "RUNNING" THEN "TIMEOUT" ELSE machine
    BY <1>2 DEF CatchAfter
  <2>3. /\ machine' \in Task!Allowed[machine] \/ UNCHANGED machine
        /\ "timeout" \in Task!Supported[machine']
    BY <1>1, <2>2 DEF Task!Allowed, Task!Supported
  <2> QED BY <2>1, <2>3, ReportIs
<1>3. CASE ~(aborted \/ kind = "abort")
  <2>1. Finish("agent_error", check)
    BY <1>3 DEF CatchAfter
  <2>2. machine' = IF machine \in {"RUNNING", "MODEL_PROPOSED_COMPLETE"}
                   THEN "FAILED" ELSE machine
    BY <1>3 DEF CatchAfter
  <2>3. /\ machine' \in Task!Allowed[machine] \/ UNCHANGED machine
        /\ "agent_error" \in Task!Supported[machine']
    BY <1>1, <2>2 DEF Task!Allowed, Task!Supported
  <2> QED BY <2>1, <2>3, ReportIs
<1> QED BY <1>2, <1>3

(* Running out of turns, of tool calls or of patience with a repeated call. *)
LEMMA ExhaustedFrom ==
  ASSUME IInv, pc \in {"top"} \cup InCalls, machine' = "BUDGET_EXHAUSTED", UNCHANGED result
  PROVE  TaskStep
<1>1. machine = "RUNNING" /\ pc # "done"
  BY DEF IInv, MachineAgrees, InCalls
<1>2. machine' \in Task!Allowed[machine]
  BY <1>1 DEF Task!Allowed
<1> QED BY <1>1, <1>2, TransitionOnly

LEMMA ProposalMaps ==
  ASSUME IInv, ProposeCompletion
  PROVE  TaskStep
<1>1. machine = "RUNNING" /\ pc # "done"
  BY DEF IInv, MachineAgrees, ProposeCompletion
<1>2. machine' \in Task!Allowed[machine] /\ UNCHANGED result
  BY <1>1 DEF Task!Allowed, ProposeCompletion
<1> QED BY <1>1, <1>2, TransitionOnly

LEMMA VerifyMaps ==
  ASSUME IInv, Verify
  PROVE  TaskStep
<1>1. machine = "MODEL_PROPOSED_COMPLETE" /\ pc # "done"
  BY DEF IInv, MachineAgrees, Verify
<1>2. CASE machine' \in {"VERIFIED_COMPLETE", "RUNNING"} /\ UNCHANGED result
  <2>1. machine' \in Task!Allowed[machine]
    BY <1>1, <1>2 DEF Task!Allowed
  <2> QED BY <1>1, <1>2, <2>1, TransitionOnly
<1>3. CASE CatchAfter("error", verification')
  BY <1>1, <1>3, CatchReports
<1> QED BY <1>2, <1>3 DEF Verify

LEMMA CollectMaps ==
  ASSUME IInv, CollectSubmission
  PROVE  TaskStep
<1>1. pc # "done" /\ pc = "collect"
  BY DEF CollectSubmission
<1>2. CASE machine = "BUDGET_EXHAUSTED"
  <2>1. UNCHANGED machine /\ Finish("budget_exhausted", verification)
    BY <1>2 DEF CollectSubmission
  <2>2. "budget_exhausted" \in Task!Supported[machine']
    BY <1>2, <2>1 DEF Task!Supported
  <2> QED BY <1>1, <2>1, <2>2, ReportIs
<1>3. CASE machine # "BUDGET_EXHAUSTED"
  <2>1. UNCHANGED result /\ (machine' = IF machine = "MODEL_PROPOSED_COMPLETE"
                                        THEN "SUBMITTED" ELSE machine)
    BY <1>3 DEF CollectSubmission
  <2>2. machine' \in Task!Allowed[machine] \/ UNCHANGED machine
    BY <2>1 DEF Task!Allowed
  <2> QED BY <1>1, <2>1, <2>2, TransitionOnly
<1> QED BY <1>2, <1>3

LEMMA ReportMaps ==
  ASSUME IInv, ReportSubmission
  PROVE  TaskStep
<1>1. pc # "done" /\ pc = "submit" /\ UNCHANGED machine
  BY DEF ReportSubmission
<1>2. CASE machine = "VERIFIED_COMPLETE"
  <2>1. Finish("verified_complete", verification)
    BY <1>2 DEF ReportSubmission
  <2>2. "verified_complete" \in Task!Supported[machine']
    BY <1>1, <1>2 DEF Task!Supported
  <2> QED BY <1>1, <2>1, <2>2, ReportIs
<1>3. CASE machine = "SUBMITTED"
  <2>1. Finish("submitted", verification)
    BY <1>3 DEF ReportSubmission
  <2>2. "submitted" \in Task!Supported[machine']
    BY <1>1, <1>3 DEF Task!Supported
  <2> QED BY <1>1, <2>1, <2>2, ReportIs
<1> QED BY <1>1, <1>2, <1>3 DEF IInv, MachineAgrees

LEMMA StepMaps ==
  ASSUME IInv, [Next]_vars
  PROVE  TaskStep
<1>1. CASE NextTurn
  <2>1. CASE turns >= MaxTurns
    BY <1>1, <2>1, ExhaustedFrom DEF NextTurn
  <2>2. CASE ~(turns >= MaxTurns)
    BY <1>1, <2>2, NothingReported DEF NextTurn
  <2> QED BY <2>1, <2>2
<1>2. CASE StopAborted \/ Deny \/ \E kind \in {"error", "abort"} : Throws(kind)
  BY <1>2, CatchReports DEF StopAborted, Deny, Throws, Catch
<1>3. ASSUME NEW n \in 0..MaxCalls, Truncated(n) PROVE TaskStep
  BY <1>3, CatchReports, NothingReported DEF Truncated, Catch
<1>4. CASE ProposeCompletion
  BY <1>4, ProposalMaps
<1>5. CASE Verify
  BY <1>5, VerifyMaps
<1>6. CASE CollectSubmission
  BY <1>6, CollectMaps
<1>7. ASSUME NEW s \in Signatures, NextCall(s) PROVE TaskStep
  <2>1. CASE Occurrences(s, Remember(s)) >= RepeatLimit
    BY <1>7, <2>1, ExhaustedFrom DEF NextCall, StopCalls, InCalls
  <2>2. CASE ~(Occurrences(s, Remember(s)) >= RepeatLimit)
    BY <1>7, <2>2, NothingReported DEF NextCall
  <2> QED BY <2>1, <2>2
<1>8. CASE ToolBudgetSpent
  BY <1>8, ExhaustedFrom DEF ToolBudgetSpent, StopCalls, InCalls
<1>9. CASE RunTool
  BY <1>9, CatchReports, NothingReported DEF RunTool, Catch
<1>10. CASE RetryModel \/ Backoff \/ ReplyPutOff \/ RefuseCall \/ AskApproval \/ AllCallsDone
            \/ TextDelta \/ Abort \/ \E n \in 0..MaxCalls : ReplyWithCalls(n)
  BY <1>10, NothingReported
     DEF RetryModel, Backoff, ReplyPutOff, RefuseCall, AskApproval, AllCallsDone, TextDelta,
         Abort, ReplyWithCalls
<1>11. CASE ReportSubmission
  BY <1>11, ReportMaps
<1>12. CASE UNCHANGED vars
  BY <1>12, NothingReported DEF vars
<1> QED BY <1>1, <1>2, <1>3, <1>4, <1>5, <1>6, <1>7, <1>8, <1>9, <1>10, <1>11, <1>12
        DEF Next, Step

(* The loop implements the life of a task, for any limits and whatever the  *)
(* model answers, the tools do and the user decides: no way through it asks *)
(* the state machine for a transition that throws, what it returns is what  *)
(* its state supports, and it returns once.                                 *)
THEOREM TaskImplemented == Spec => ImplementsTask
<1>1. Init => Task!Init
  BY DEF Init, Task!Init, Task!Allowed
<1>2. IInv /\ [Next]_vars => [Task!Next]_<<machine, IF result = NoResult THEN "none" ELSE result.status>>
  BY StepMaps DEF TaskStep, Reported
<1> QED BY <1>1, <1>2, LoopInvariant, PTL DEF Spec, ImplementsTask, Task!Spec

=============================================================================
