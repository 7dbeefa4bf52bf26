--------------------------- MODULE EvidenceProofs ---------------------------
(***************************************************************************)
(* Proofs about what evaluations and releases rest on: the stored result   *)
(* of a trial, the traces on their way to the queue, the verification of a *)
(* turn, the dataset of reviewed candidates, the release gate and the      *)
(* comparison of two jobs, for any model requests, processes, traces,      *)
(* tests, candidates, suites, runs and cases.  Nothing is assumed of       *)
(* fairness: the specifications are without it.                            *)
(***************************************************************************)
EXTENDS TrialRun, CandidateStore, Verification, TraceOutbox, ReleaseGate, Comparison,
        FiniteSetTheorems, TLAPS

TrialSpec     == TrialInit /\ [][TrialNext]_trialVars
CandidateSpec == CandidateInit /\ [][CandidateNext]_candidateVars
VerifySpec    == VerifyInit /\ [][VerifyNext]_verifyVars
TraceSpec     == TraceInit /\ [][TraceNext]_traceVars
GateSpec      == GateInit /\ [][GateNext]_gateVars
CompareSpec   == CompareInit /\ [][CompareNext]_compareVars

-----------------------------------------------------------------------------
(* The trial: before its agent, and after it.                                *)
BeforeAgent == {"start", "workspace", "prepare"}
AfterAgent  == {"submitted", "persist", "mapped", "cleanup", "done"}

(* The agent runs only while the runner waits for it, so its requests are   *)
(* counted when its result is taken.                                        *)
AgentAwaited ==
    /\ pc \in BeforeAgent \cup {"agent"} \cup AfterAgent
    /\ requests \in Nat
    /\ agent = "running" => pc = "agent"
    /\ pc \in BeforeAgent => requests = 0
    /\ pc \in BeforeAgent \cup {"agent"} => agentResult = NoResult
    /\ pc # "agent" /\ agentResult = NoResult => requests = 0
    /\ agentResult # NoResult => agentResult.billed = (requests > 0)
    /\ pc \in {"submitted", "persist"} => agentResult # NoResult

(* A verifier is only asked about an agent that has ended by itself.        *)
GradedOnce ==
    /\ verification \in VerificationStatus
    /\ pc \in BeforeAgent \cup {"agent", "submitted"} => verification = "error"
    /\ agentResult # NoResult /\ agentResult.status = "timeout" => verification = "error"

(* What has been stored.                                                    *)
Recorded ==
    saved # NoResult =>
        /\ pc \in {"mapped", "cleanup", "done"}
        /\ saved.execution = IF agentResult = NoResult THEN "agent_error"
                             ELSE ToExecutionStatus(agentResult.status)
        /\ saved.verification = verification
        /\ saved.billed = IF agentResult = NoResult THEN FALSE ELSE agentResult.billed

TrialInv == AgentAwaited /\ GradedOnce /\ Recorded

-----------------------------------------------------------------------------
LEMMA TrialInitHolds == TrialInit => TrialInv
BY DEF TrialInit, TrialInv, AgentAwaited, GradedOnce, Recorded, BeforeAgent, AfterAgent,
       VerificationStatus

(* A result as it is stored, with its category or without.                  *)
LEMMA EnrichedKeeps ==
  ASSUME NEW r, NEW e, NEW v, NEW i, NEW s, NEW b, NEW f,
         r = [execution |-> e, submission |-> s, verification |-> v, infrastructure |-> i,
              failure |-> f, billed |-> b],
         NEW x \in Enriched(r)
  PROVE  x.execution = e /\ x.verification = v /\ x.billed = b
BY DEF Enriched

(* Before the agent, and what does not touch the result.                    *)
LEMMA PreparationKeeps ==
  ASSUME TrialInv, EmitStarted \/ CreateWorkspace \/ PrepareCase
  PROVE  TrialInv'
<1>1. /\ pc \in BeforeAgent /\ pc' \in BeforeAgent \cup {"agent", "mapped"}
      /\ UNCHANGED <<requests, agentResult, verification, saved>>
      /\ agent' = "running" => (pc' = "agent" \/ agent = "running")
  BY DEF EmitStarted, CreateWorkspace, PrepareCase, BeforeAgent
<1>2. saved = NoResult BY <1>1 DEF TrialInv, Recorded, BeforeAgent
<1>3. AgentAwaited' BY <1>1 DEF TrialInv, AgentAwaited, BeforeAgent, AfterAgent
<1>4. GradedOnce' BY <1>1 DEF TrialInv, GradedOnce, AgentAwaited, BeforeAgent
<1>5. Recorded' BY <1>1, <1>2 DEF Recorded
<1> QED BY <1>3, <1>4, <1>5 DEF TrialInv

LEMMA ModelRequestKeeps ==
  ASSUME TrialInv, ModelRequest
  PROVE  TrialInv'
<1>1. /\ pc = "agent" /\ requests' = requests + 1
      /\ UNCHANGED <<pc, agent, agentResult, verification, saved>>
  BY DEF TrialInv, AgentAwaited, ModelRequest
<1>2. AgentAwaited' BY <1>1 DEF TrialInv, AgentAwaited, BeforeAgent, AfterAgent
<1>3. GradedOnce' BY <1>1 DEF TrialInv, GradedOnce
<1>4. Recorded' BY <1>1 DEF TrialInv, Recorded
<1> QED BY <1>2, <1>3, <1>4 DEF TrialInv

(* Every result of the agent says whether it asked the model.                *)
LEMMA Billed ==
  ASSUME NEW r, NEW t, NEW s, NEW b,
         \/ requests > 0 /\ r \in AgentResolutions
         \/ /\ requests > 0
            /\ \E q \in AgentResolutions : r = [q EXCEPT !.status = "timeout"]
         \/ r = [status |-> s, submission |-> t, billed |-> requests > 0]
  PROVE  r.billed = (requests > 0)
<1>1. \A q \in AgentResolutions :
         q.billed = TRUE /\ [q EXCEPT !.status = "timeout"].billed = TRUE
  BY DEF AgentResolutions
<1>2. CASE requests > 0 /\ r \in AgentResolutions
  <2>1. r.billed = TRUE BY <1>1, <1>2
  <2> QED BY <1>2, <2>1, Zenon
<1>3. CASE requests > 0 /\ \E q \in AgentResolutions : r = [q EXCEPT !.status = "timeout"]
  <2>1. r.billed = TRUE BY <1>1, <1>3
  <2> QED BY <1>3, <2>1, Zenon
<1>4. CASE r = [status |-> s, submission |-> t, billed |-> requests > 0]
  BY <1>4, Zenon
<1> QED BY <1>2, <1>3, <1>4

LEMMA AgentEndsKeeps ==
  ASSUME TrialInv, AgentReturns \/ AgentThrows \/ AgentTimesOut
  PROVE  TrialInv'
<1>1. /\ pc = "agent" /\ pc' \in {"submitted", "mapped"} /\ agent' # "running"
      /\ UNCHANGED <<requests, verification, saved>>
  BY DEF AgentReturns, AgentThrows, AgentTimesOut
<1>2. agentResult'.billed = (requests > 0)
  BY Billed DEF AgentReturns, AgentThrows, AgentTimesOut, AgentStatus
<1>3. agentResult' # NoResult
  BY DEF AgentReturns, AgentThrows, AgentTimesOut, AgentResolutions, NoResult
<1>4. saved = NoResult BY <1>1 DEF TrialInv, Recorded
<1>5. AgentAwaited' BY <1>1, <1>2, <1>3 DEF TrialInv, AgentAwaited, BeforeAgent, AfterAgent
<1>6. GradedOnce' BY <1>1 DEF TrialInv, GradedOnce, BeforeAgent
<1>7. Recorded' BY <1>1, <1>4 DEF Recorded
<1> QED BY <1>5, <1>6, <1>7 DEF TrialInv

LEMMA GradeKeeps ==
  ASSUME TrialInv, Grade
  PROVE  TrialInv'
<1>1. /\ pc = "submitted" /\ pc' \in {"persist", "mapped"}
      /\ UNCHANGED <<agent, requests, agentResult, saved>>
      /\ agentResult.status = "timeout" => verification' = "error"
      /\ verification' \in VerificationStatus \cup {verification}
  BY DEF Grade, VerificationStatus
<1>2. saved = NoResult BY <1>1 DEF TrialInv, Recorded
<1>3. AgentAwaited' BY <1>1 DEF TrialInv, AgentAwaited, BeforeAgent, AfterAgent
<1>4. GradedOnce' BY <1>1 DEF TrialInv, GradedOnce, BeforeAgent
<1>5. Recorded' BY <1>1, <1>2 DEF Recorded
<1> QED BY <1>3, <1>4, <1>5 DEF TrialInv

LEMMA PersistResultKeeps ==
  ASSUME TrialInv, PersistResult
  PROVE  TrialInv'
<1>1. /\ pc = "persist" /\ pc' \in {"cleanup", "mapped"}
      /\ UNCHANGED <<agent, requests, agentResult, verification>>
      /\ saved' = saved \/ Saves(BuildTrialResult)
  BY DEF PersistResult
<1>2. saved = NoResult /\ agentResult # NoResult
  BY <1>1 DEF TrialInv, Recorded, AgentAwaited
<1>3. AgentAwaited' BY <1>1 DEF TrialInv, AgentAwaited, BeforeAgent, AfterAgent
<1>4. GradedOnce' BY <1>1 DEF TrialInv, GradedOnce, BeforeAgent
<1>5. CASE saved' = saved BY <1>2, <1>3, <1>4, <1>5 DEF TrialInv, Recorded
<1>6. CASE Saves(BuildTrialResult)
  <2>1. saved' \in Enriched(BuildTrialResult) BY <1>2, <1>6 DEF Saves
  <2>2. /\ saved'.execution = ToExecutionStatus(agentResult.status)
        /\ saved'.verification = verification /\ saved'.billed = agentResult.billed
    BY <2>1, EnrichedKeeps DEF BuildTrialResult
  <2>3. Recorded' BY <1>1, <1>2, <2>2 DEF Recorded
  <2> QED BY <1>3, <1>4, <2>3 DEF TrialInv
<1> QED BY <1>1, <1>5, <1>6

LEMMA PersistMappedKeeps ==
  ASSUME TrialInv, PersistMapped
  PROVE  TrialInv'
<1>1. /\ pc = "mapped" /\ pc' = "cleanup"
      /\ UNCHANGED <<agent, requests, agentResult, verification>>
      /\ saved' = saved \/ (saved = NoResult /\ saved' \in Enriched(MapFailureToTrialResult))
  BY DEF PersistMapped, Saves
<1>2. AgentAwaited' BY <1>1 DEF TrialInv, AgentAwaited, BeforeAgent, AfterAgent
<1>3. GradedOnce' BY <1>1 DEF TrialInv, GradedOnce, BeforeAgent
<1>4. CASE saved' = saved
  <2>1. Recorded' BY <1>1, <1>4 DEF TrialInv, Recorded
  <2> QED BY <1>2, <1>3, <2>1 DEF TrialInv
<1>5. CASE saved' \in Enriched(MapFailureToTrialResult)
  <2>1. /\ saved'.execution = IF agentResult = NoResult THEN "agent_error"
                              ELSE ToExecutionStatus(agentResult.status)
        /\ saved'.verification = verification
        /\ saved'.billed = IF agentResult = NoResult THEN FALSE ELSE agentResult.billed
    <3>1. CASE agentResult = NoResult
      <4>1. MapFailureToTrialResult =
              [execution |-> "agent_error", submission |-> "missing", verification |-> verification,
               infrastructure |-> IF infrastructure = "ok" THEN "runtime_error" ELSE infrastructure,
               failure |-> "none", billed |-> FALSE]
        BY <3>1 DEF MapFailureToTrialResult
      <4>2. /\ saved'.execution = "agent_error" /\ saved'.verification = verification
            /\ saved'.billed = FALSE
        BY <1>5, <4>1 DEF Enriched
      <4> QED BY <3>1, <4>2
    <3>2. CASE agentResult # NoResult
      <4>1. MapFailureToTrialResult =
              [execution |-> ToExecutionStatus(agentResult.status),
               submission |-> agentResult.submission, verification |-> verification,
               infrastructure |-> IF infrastructure = "ok" THEN "runtime_error" ELSE infrastructure,
               failure |-> "none", billed |-> agentResult.billed]
        BY <3>2 DEF MapFailureToTrialResult
      <4> QED BY <1>5, <3>2, <4>1, EnrichedKeeps
    <3> QED BY <3>1, <3>2
  <2>2. Recorded' BY <1>1, <2>1 DEF Recorded
  <2> QED BY <1>2, <1>3, <2>2 DEF TrialInv
<1> QED BY <1>1, <1>4, <1>5

LEMMA TrialOthersKeep ==
  ASSUME TrialInv, Cleanup \/ DetachedAgentSettles \/ AbortJob \/ EndJob
  PROVE  TrialInv'
<1>1. /\ UNCHANGED <<requests, agentResult, verification, saved>>
      /\ agent' = agent \/ agent' = "settled"
      /\ pc' = pc \/ (pc = "cleanup" /\ pc' = "done")
  <2>1. CASE Cleanup BY <2>1 DEF Cleanup
  <2>2. CASE DetachedAgentSettles BY <2>2 DEF DetachedAgentSettles
  <2>3. CASE AbortJob BY <2>3 DEF AbortJob
  <2>4. CASE EndJob BY <2>4 DEF EndJob
  <2> QED BY <2>1, <2>2, <2>3, <2>4
<1>2. AgentAwaited' BY <1>1 DEF TrialInv, AgentAwaited, BeforeAgent, AfterAgent
<1>3. GradedOnce' BY <1>1 DEF TrialInv, GradedOnce, BeforeAgent
<1>4. Recorded' BY <1>1 DEF TrialInv, Recorded
<1> QED BY <1>2, <1>3, <1>4 DEF TrialInv

-----------------------------------------------------------------------------
(* Whatever throws in a trial, and whichever of its two saves is kept, the  *)
(* row says how the agent ended, what the verifier said and whether the     *)
(* model was asked (trial-runner.ts 85-260).                                *)
THEOREM ResultRecorded == TrialSpec => []TrialInv
<1>1. TrialInit => TrialInv BY TrialInitHolds
<1>2. TrialInv /\ [TrialNext]_trialVars => TrialInv'
  <2> SUFFICES ASSUME TrialInv, [TrialNext]_trialVars PROVE TrialInv' OBVIOUS
  <2>1. CASE UNCHANGED trialVars
    BY <2>1 DEF trialVars, TrialInv, AgentAwaited, GradedOnce, Recorded
  <2>2. CASE EmitStarted \/ CreateWorkspace \/ PrepareCase BY <2>2, PreparationKeeps
  <2>3. CASE ModelRequest BY <2>3, ModelRequestKeeps
  <2>4. CASE AgentReturns \/ AgentThrows \/ AgentTimesOut BY <2>4, AgentEndsKeeps
  <2>5. CASE Grade BY <2>5, GradeKeeps
  <2>6. CASE PersistResult BY <2>6, PersistResultKeeps
  <2>7. CASE PersistMapped BY <2>7, PersistMappedKeeps
  <2>8. CASE Cleanup \/ DetachedAgentSettles \/ AbortJob \/ EndJob BY <2>8, TrialOthersKeep
  <2> QED BY <2>1, <2>2, <2>3, <2>4, <2>5, <2>6, <2>7, <2>8 DEF TrialNext, Runner
<1> QED BY <1>1, <1>2, PTL DEF TrialSpec

(* The migration and the platform judge a result that is not resolved the   *)
(* same way (database.ts, trial-plan.ts), whatever the result.              *)
LEMMA SameJudgement ==
  ASSUME NEW r, ~IsTrialResolved(r)
  PROVE  BackfillVerdict(r) = DeriveTrialOutcome(r).verdict
BY DEF IsTrialResolved, BackfillVerdict, DeriveTrialOutcome, Judged

(* The verdict of a stored result rests on what the agent and the verifier  *)
(* did, and a result that may be retried has not been billed.               *)
THEOREM VerdictSound == TrialSpec => []TrialVerdictSound
<1>1. TrialInv => VerdictNeedsEvidence
  <2> SUFFICES ASSUME TrialInv, saved # NoResult
               PROVE  LET v == DeriveTrialOutcome(saved).verdict IN
                      /\ v = "pass" => verification = "passed" /\ agentResult.status # "agent_error"
                      /\ v = "fail" => verification = "failed" /\ agentResult.status # "agent_error"
                      /\ v # "unknown" => agentResult.status # "timeout"
      BY DEF VerdictNeedsEvidence
  <2> QED BY DEF TrialInv, Recorded, GradedOnce, VerificationStatus,
            DeriveTrialOutcome, Judged, ToExecutionStatus
<1>2. TrialInv => RetryableNeverBilled
  <2> SUFFICES ASSUME TrialInv, saved # NoResult, ~saved.billed PROVE requests = 0
      BY DEF RetryableNeverBilled
  <2>1. CASE agentResult = NoResult BY <2>1 DEF TrialInv, Recorded, AgentAwaited
  <2>2. CASE agentResult # NoResult
    <3>1. saved.billed = agentResult.billed /\ agentResult.billed = (requests > 0)
      BY <2>2 DEF TrialInv, Recorded, AgentAwaited
    <3>2. ~(requests > 0) BY <3>1
    <3> QED BY <3>2 DEF TrialInv, AgentAwaited
  <2> QED BY <2>1, <2>2
<1>3. BackfillAgrees BY SameJudgement DEF BackfillAgrees
<1> QED BY <1>1, <1>2, <1>3, ResultRecorded, PTL DEF TrialVerdictSound

-----------------------------------------------------------------------------
(* The traces: nothing is taken out of the queue but what has a receipt, and *)
(* no file goes before its trace is contained.                               *)
TraceInv ==
    /\ file \in [Traces -> {"none", "open", "ended", "removed"}]
    /\ upload = [at |-> upload.at, trace |-> upload.trace]
    /\ CapturedKept

LEMMA TraceInitHolds == TraceInit => TraceInv
BY DEF TraceInit, TraceInv, CapturedKept, Captured, Idle

(* Every file that goes is of a trace that is contained, or was captured     *)
(* under another consent.                                                    *)
LEMMA TraceFileKeeps ==
  ASSUME TraceInv, UNCHANGED <<consent, queued, delivered, upload>>,
         NEW t, NEW f \in {"open", "ended", "removed"}, file' = [file EXCEPT ![t] = f],
         f = "removed" => (consent[t] = "same" => ContainsTrace(t))
  PROVE  TraceInv'
<1>1. file' \in [Traces -> {"none", "open", "ended", "removed"}]
  BY DEF TraceInv
<1>2. ASSUME NEW u \in Captured'
      PROVE  file'[u] = "ended" \/ ContainsTrace(u)'
  <2>1. u \in Traces /\ file'[u] \in {"ended", "removed"} /\ consent[u] = "same"
    BY <1>2 DEF Captured
  <2>2. CASE u = t
    BY <2>1, <2>2 DEF TraceInv, ContainsTrace
  <2>3. CASE u # t
    BY <2>1, <2>3 DEF TraceInv, CapturedKept, Captured, ContainsTrace
  <2> QED BY <2>2, <2>3
<1> QED BY <1>1, <1>2 DEF TraceInv, CapturedKept

(* The queue only loses what is delivered.                                   *)
LEMMA TraceQueueKeeps ==
  ASSUME TraceInv, UNCHANGED <<file, consent>>,
         queued \cup delivered \subseteq queued' \cup delivered',
         upload' = [at |-> upload'.at, trace |-> upload'.trace],
         upload'.at = "receipted" => upload'.trace \in delivered'
  PROVE  TraceInv'
BY DEF TraceInv, CapturedKept, Captured, ContainsTrace

LEMMA LinkKeeps ==
  ASSUME TraceInv, NEW p \in Processes, LinkRecord(p), UNCHANGED <<file, consent, delivered, upload>>
  PROVE  TraceInv'
<1>1. queued \subseteq queued' BY DEF LinkRecord
<1> QED BY <1>1, TraceQueueKeeps DEF TraceInv, CapturedKept

LEMMA TraceProcessStep ==
  ASSUME TraceInv, NEW p \in Processes,
         BeginRun(p) \/ TraceStep(p) \/ TearTrace(p) \/ ProcessDies(p)
  PROVE  TraceInv'
<1>1. ASSUME UNCHANGED <<file, consent, queued, delivered, upload>>
      PROVE  TraceInv'
  BY <1>1, TraceQueueKeeps DEF TraceInv, CapturedKept
<1>2. CASE \/ BeginRun(p) \/ Recover(p) \/ RecoveryEnds(p) \/ Requeue(p) \/ Enqueue(p)
           \/ ProcessEnds(p) \/ TearTrace(p) \/ ProcessDies(p)
  BY <1>1, <1>2 DEF BeginRun, Recover, RecoveryEnds, Requeue, Enqueue, ProcessEnds, TearTrace,
                    ProcessDies
<1>3. CASE Relink(p) \/ Link(p)
  BY <1>3, LinkKeeps DEF Relink, Link
<1>4. CASE Prune(p)
  <2> PICK t \in proc[p].left, expired \in BOOLEAN :
          file' = IF /\ expired /\ file[t] = "ended"
                     /\ consent[t] = "same" => ContainsTrace(t)
                  THEN [file EXCEPT ![t] = "removed"]
                  ELSE file
    BY <1>4 DEF Prune
  <2>1. UNCHANGED <<consent, queued, delivered, upload>> BY <1>4 DEF Prune
  <2>2. CASE consent[t] = "same" => ContainsTrace(t)
    BY <1>1, <2>1, <2>2, TraceFileKeeps, file' = file \/ file' = [file EXCEPT ![t] = "removed"]
  <2>3. CASE ~(consent[t] = "same" => ContainsTrace(t))
    BY <1>1, <2>1, <2>3
  <2> QED BY <2>2, <2>3
<1>5. CASE OpenTrace(p)
  <2>1. \/ UNCHANGED <<file, consent, queued, delivered, upload>>
        \/ /\ UNCHANGED <<consent, queued, delivered, upload>>
           /\ \E t \in Traces : file' = [file EXCEPT ![t] = "open"]
    BY <1>5 DEF OpenTrace
  <2> QED BY <1>1, <2>1, TraceFileKeeps
<1>6. CASE WriteTerminal(p)
  BY <1>6, TraceFileKeeps DEF WriteTerminal
<1> QED BY <1>2, <1>3, <1>4, <1>5, <1>6 DEF TraceStep

LEMMA UploaderStep ==
  ASSUME TraceInv, \/ ListReady \/ Uploaded \/ MarkDelivered \/ RemoveRecord
                   \/ MarkFailed \/ UploaderDies
  PROVE  TraceInv'
<1>1. CASE ListReady
  BY <1>1, TraceQueueKeeps DEF ListReady
<1>2. CASE Uploaded
  <2>1. upload'.at \in {"accepted", "refused", "idle"}
        /\ upload' = [at |-> upload'.at, trace |-> upload'.trace]
    BY <1>2 DEF Uploaded, TraceInv, Idle
  <2> QED BY <1>2, <2>1, TraceQueueKeeps DEF Uploaded
<1>3. CASE MarkDelivered
  <2>1. upload' = [at |-> "receipted", trace |-> upload.trace]
    BY <1>3 DEF MarkDelivered, TraceInv
  <2> QED BY <1>3, <2>1, TraceQueueKeeps DEF MarkDelivered
<1>4. CASE RemoveRecord
  <2>1. upload.trace \in delivered BY <1>4 DEF RemoveRecord, TraceInv, CapturedKept
  <2> QED BY <1>4, <2>1, TraceQueueKeeps DEF RemoveRecord, Idle
<1>5. CASE MarkFailed
  BY <1>5, TraceQueueKeeps DEF MarkFailed, Idle
<1>6. CASE UploaderDies
  BY <1>6, TraceQueueKeeps DEF UploaderDies, Idle
<1> QED BY <1>1, <1>2, <1>3, <1>4, <1>5, <1>6

(* A trace that was captured under the consent of now is on the disk, queued *)
(* or delivered, however many processes prune, recover and die at once.      *)
THEOREM TracesKept == TraceSpec => []CapturedKept
<1>1. TraceInv /\ [TraceNext]_traceVars => TraceInv'
  <2> SUFFICES ASSUME TraceInv, [TraceNext]_traceVars PROVE TraceInv'
    OBVIOUS
  <2>1. CASE UNCHANGED traceVars
    BY <2>1, TraceQueueKeeps DEF traceVars, TraceInv, CapturedKept
  <2> QED BY <2>1, TraceProcessStep, UploaderStep DEF TraceNext
<1>2. TraceInv => CapturedKept BY DEF TraceInv
<1> QED BY <1>1, <1>2, TraceInitHolds, PTL DEF TraceSpec

-----------------------------------------------------------------------------
(* The verification of a turn: what each place knows of the work, as long as *)
(* nothing else touches it.                                                  *)
PastListing  == check \in {"commands", "diff", "verified"}
PastCommands == check \in {"diff", "verified"}

VerifyInv ==
    /\ PastListing /\ quiet /\ required => baseline.files \subseteq testFiles
    /\ PastCommands /\ quiet => final = Snapshot
    /\ PastCommands /\ required => NoRegression(baseline.run, final)
    /\ check = "verified" /\ quiet => DiffAllowed

LEMMA VerifyInitHolds == VerifyInit => VerifyInv
BY DEF VerifyInit, VerifyInv, PastListing, PastCommands

LEMMA VerifyStep ==
  ASSUME VerifyInv, [VerifyNext]_verifyVars
  PROVE  VerifyInv'
<1> USE DEF VerifyInv, PastListing, PastCommands
<1>1. CASE Edit
  <2>1. quiet' = FALSE /\ UNCHANGED <<required, baseline, check, final>>
    BY <1>1 DEF Edit, TestsChange
  <2> QED BY <2>1 DEF NoRegression
<1>2. CASE Revert \/ Propose \/ Repair \/ NextTask
  <2>1. check' \in {"none", "files", "refused"} BY <1>2 DEF Revert, Propose, Repair, NextTask
  <2> QED BY <2>1
<1>3. CASE ListTestFiles
  <2>1. /\ UNCHANGED <<required, testFiles, baseline>>
        /\ check' = IF required => baseline.files \subseteq testFiles THEN "commands" ELSE "refused"
    BY <1>3 DEF ListTestFiles
  <2> QED BY <2>1
<1>4. CASE RunCommands
  <2>1. /\ UNCHANGED <<required, baseline>> /\ check = "commands"
        /\ \/ quiet' = FALSE
           \/ UNCHANGED <<failing, broken, testFiles, quiet>>
        /\ \/ check' \in {"none", "refused"}
           \/ /\ check' = "diff" /\ final' \in {Snapshot, Snapshot'}
              /\ required => NoRegression(baseline.run, final')
    BY <1>4 DEF RunCommands, TestsChange
  <2>2. CASE check' \in {"none", "refused"}
    BY <2>2
  <2>3. CASE check' = "diff" /\ quiet' = FALSE
    <3>1. required' => NoRegression(baseline.run, final)'
      BY <2>1, <2>3 DEF NoRegression
    <3> QED BY <2>1, <2>3, <3>1
  <2>4. CASE check' = "diff" /\ UNCHANGED <<failing, broken, testFiles, quiet>>
    <3>1. Snapshot' = Snapshot BY <2>4 DEF Snapshot
    <3>2. final' = Snapshot /\ (required => NoRegression(baseline.run, final'))
      BY <2>1, <2>4, <3>1
    <3>3. required' => NoRegression(baseline.run, final)'
      BY <2>1, <3>2 DEF NoRegression
    <3> QED BY <2>1, <2>4, <3>1, <3>2, <3>3
  <2> QED BY <2>1, <2>2, <2>3, <2>4
<1>5. CASE FinalDiff
  <2>1. /\ UNCHANGED <<required, failing, broken, testFiles, changed, baseline, final, quiet>>
        /\ check = "diff" /\ check' = IF DiffAllowed THEN "verified" ELSE "refused"
    BY <1>5 DEF FinalDiff
  <2>2. Snapshot' = Snapshot /\ DiffAllowed' = DiffAllowed
        /\ NoRegression(baseline.run, final)' = NoRegression(baseline.run, final)
    BY <2>1 DEF Snapshot, DiffAllowed, NoRegression
  <2> QED BY <2>1, <2>2
<1>6. CASE UNCHANGED verifyVars
  BY <1>6 DEF verifyVars, Snapshot, DiffAllowed, NoRegression
<1> QED BY <1>1, <1>2, <1>3, <1>4, <1>5, <1>6 DEF VerifyNext

(* Work that is accepted, and that nothing else has touched, has lost no     *)
(* test of the baseline, has every test passing that did, and has changed    *)
(* only what the task allows, for any set of tests and any number of edits   *)
(* beside it.                                                                *)
THEOREM WorkAccepted == VerifySpec => []AcceptedWork
<1>1. VerifyInv => AcceptedWork
  <2> SUFFICES ASSUME VerifyInv, check = "verified", quiet
               PROVE  /\ DiffAllowed
                      /\ required => baseline.files \subseteq testFiles
                      /\ required /\ broken = 0 =>
                             failing \cap testFiles \subseteq baseline.run.failing
    BY DEF AcceptedWork
  <2>1. ASSUME required, broken = 0
        PROVE  failing \cap testFiles \subseteq baseline.run.failing
    <3>1. final.failing = failing \cap testFiles
      BY <2>1 DEF VerifyInv, PastCommands, Snapshot
    <3>2. final.failing \ baseline.run.failing = {}
      BY <2>1 DEF VerifyInv, PastCommands, NoRegression
    <3> QED BY <3>1, <3>2
  <2> QED BY <2>1 DEF VerifyInv, PastListing, PastCommands
<1> QED BY <1>1, VerifyInitHolds, VerifyStep, PTL DEF VerifySpec

-----------------------------------------------------------------------------
(* The dataset: who is inside the lock is alone, and what it has read is the *)
(* dataset until it has written.                                             *)
Holding(p) == promoter[p].at \in {"read", "decide", "write", "unlock"}

Promotion == [at : {"rest", "lock", "read", "decide", "write", "unlock"},
              candidate : Candidates \cup {Rest.candidate}, records : SUBSET Candidates]

Differ(c, d) == c.fingerprint # d.fingerprint /\ c.evalCase # d.evalCase /\ c.id # d.id

Alone ==
    /\ \A p \in Promoters : Holding(p) => lock
    /\ \A p, q \in Promoters : Holding(p) /\ Holding(q) => p = q

(* A promoter has a candidate from the moment it has begun.                  *)
Promoting(p) ==
    LET c == promoter[p].candidate IN
    /\ promoter[p].at # "rest" => c \in Candidates
    /\ promoter[p].at \in {"decide", "write"} => promoter[p].records = dataset
    /\ promoter[p].at = "write" => c.sound /\ \A r \in dataset : Differ(r, c)

Reviewed ==
    /\ \A c \in dataset : c.sound
    /\ \A c, d \in dataset : c # d => Differ(c, d)

CandidateInv ==
    /\ dataset \subseteq Candidates
    /\ promoter \in [Promoters -> Promotion]
    /\ Alone /\ Reviewed
    /\ \A p \in Promoters : Promoting(p)

LEMMA CandidateInitHolds == CandidateInit => CandidateInv
<1> SUFFICES ASSUME CandidateInit PROVE CandidateInv
  OBVIOUS
<1>1. Rest.at = "rest" /\ Rest \in Promotion BY DEF Rest, Promotion
<1>2. \A p \in Promoters : promoter[p].at = "rest" BY <1>1 DEF CandidateInit
<1> QED BY <1>1, <1>2 DEF CandidateInit, CandidateInv, Alone, Reviewed, Promoting, Holding

(* A step of one promoter that takes or keeps no lock it has not got.        *)
LEMMA PromoterMoves ==
  ASSUME CandidateInv, NEW p \in Promoters, NEW s \in Promotion,
         promoter' = [promoter EXCEPT ![p] = s],
         UNCHANGED dataset, UNCHANGED lock,
         s.at \in {"read", "decide", "write", "unlock"} => Holding(p),
         Promoting(p)'
  PROVE  CandidateInv'
<1>1. promoter' \in [Promoters -> Promotion] BY DEF CandidateInv
<1>2. promoter'[p] = s /\ \A q \in Promoters \ {p} : promoter'[q] = promoter[q]
  BY DEF CandidateInv
<1>3. \A q \in Promoters : Holding(q)' => Holding(q)
  BY <1>2 DEF Holding
<1>4. Alone' BY <1>3 DEF CandidateInv, Alone
<1>5. \A q \in Promoters \ {p} : Promoting(q)'
  BY <1>2 DEF CandidateInv, Promoting
<1> QED BY <1>1, <1>4, <1>5 DEF CandidateInv, Reviewed

LEMMA PromoterStep ==
  ASSUME CandidateInv, NEW p \in Promoters,
         \/ BeginPromote(p) \/ TakeLock(p) \/ ReadRecords(p) \/ Judge(p)
         \/ WriteRecord(p) \/ ReleaseLock(p) \/ PromoterDies(p)
  PROVE  CandidateInv'
<1>0. promoter[p] \in Promotion BY DEF CandidateInv
<1>1. CASE BeginPromote(p)
  <2> PICK c \in Candidates : promoter' = [promoter EXCEPT ![p].at = "lock", ![p].candidate = c]
    BY <1>1 DEF BeginPromote
  <2> DEFINE s == [promoter[p] EXCEPT !.at = "lock", !.candidate = c]
  <2>1. s \in Promotion /\ s.at = "lock" /\ s.candidate = c BY <1>0 DEF Promotion
  <2>2. promoter' = [promoter EXCEPT ![p] = s] OBVIOUS
  <2>3. promoter'[p] = s BY <2>2 DEF CandidateInv
  <2>4. Promoting(p)' BY <2>1, <2>3 DEF Promoting
  <2> QED BY <1>1, <2>1, <2>2, <2>4, PromoterMoves DEF BeginPromote
<1>2. CASE TakeLock(p)
  <2>0. Promoter(p, "lock") BY <1>2 DEF TakeLock
  <2>1. CASE lock /\ UNCHANGED lock /\ Step(p, "rest")
    <3> DEFINE s == [promoter[p] EXCEPT !.at = "rest"]
    <3>1. s \in Promotion /\ s.at = "rest" BY <1>0 DEF Promotion
    <3>2. promoter' = [promoter EXCEPT ![p] = s] BY <2>1 DEF Step
    <3>3. promoter'[p] = s BY <3>2 DEF CandidateInv
    <3>4. Promoting(p)' BY <3>1, <3>3 DEF Promoting
    <3> QED BY <1>2, <2>1, <3>1, <3>2, <3>4, PromoterMoves DEF TakeLock
  <2>2. CASE ~lock /\ lock' = TRUE /\ Step(p, "read")
    <3> DEFINE s == [promoter[p] EXCEPT !.at = "read"]
    <3>1. s \in Promotion /\ s.at = "read" /\ s.candidate = promoter[p].candidate
      BY <1>0 DEF Promotion
    <3>2. promoter' = [promoter EXCEPT ![p] = s] BY <2>2 DEF Step
    <3>3. promoter'[p] = s /\ \A q \in Promoters \ {p} : promoter'[q] = promoter[q]
      BY <3>2 DEF CandidateInv
    <3>4. promoter' \in [Promoters -> Promotion] BY <3>1, <3>2 DEF CandidateInv
    <3>5. \A q \in Promoters \ {p} : ~Holding(q)' BY <2>2, <3>3 DEF CandidateInv, Alone, Holding
    <3>6. Alone' BY <2>2, <3>5 DEF Alone
    <3>7. dataset' = dataset BY <1>2 DEF TakeLock
    <3>8. \A q \in Promoters : Promoting(q)'
      BY <2>0, <3>1, <3>3, <3>7 DEF CandidateInv, Promoting, Promoter
    <3> QED BY <3>4, <3>6, <3>7, <3>8 DEF CandidateInv, Reviewed
  <2> QED BY <1>2, <2>1, <2>2 DEF TakeLock
<1>3. CASE ReadRecords(p)
  <2> DEFINE s == [promoter[p] EXCEPT !.at = IF Readable THEN "decide" ELSE "unlock",
                                      !.records = dataset]
  <2>1. /\ s \in Promotion /\ s.at \in {"decide", "unlock"} /\ s.records = dataset
        /\ s.candidate = promoter[p].candidate
    BY <1>0 DEF Promotion, CandidateInv
  <2>2. promoter' = [promoter EXCEPT ![p] = s] BY <1>3 DEF ReadRecords
  <2>3. promoter'[p] = s BY <2>2 DEF CandidateInv
  <2>4. promoter[p].at = "read" /\ Holding(p) BY <1>3 DEF ReadRecords, Promoter, Holding
  <2>5. dataset' = dataset BY <1>3 DEF ReadRecords
  <2>6. Promoting(p)' BY <2>1, <2>3, <2>4, <2>5 DEF Promoting, CandidateInv
  <2> QED BY <1>3, <2>1, <2>2, <2>4, <2>6, PromoterMoves DEF ReadRecords
<1>4. CASE Judge(p)
  <2> DEFINE s == [promoter[p] EXCEPT !.at = IF Decision(p) THEN "write" ELSE "unlock"]
  <2>1. /\ s \in Promotion /\ s.at = (IF Decision(p) THEN "write" ELSE "unlock")
        /\ s.records = promoter[p].records /\ s.candidate = promoter[p].candidate
    BY <1>0 DEF Promotion
  <2>2. promoter' = [promoter EXCEPT ![p] = s] BY <1>4 DEF Judge, Step
  <2>3. promoter'[p] = s BY <2>2 DEF CandidateInv
  <2>4. promoter[p].at = "decide" /\ Holding(p) BY <1>4 DEF Judge, Promoter, Holding
  <2>5. dataset' = dataset BY <1>4 DEF Judge
  <2>6. promoter[p].records = dataset /\ promoter[p].candidate \in Candidates
    BY <2>4 DEF CandidateInv, Promoting
  <2>7. Decision(p) => /\ promoter[p].candidate.sound
                       /\ \A r \in dataset : Differ(r, promoter[p].candidate)
    BY <2>6 DEF Decision, Acceptable, Attested, Differ
  <2>8. Promoting(p)' BY <2>1, <2>3, <2>5, <2>6, <2>7 DEF Promoting
  <2> QED BY <1>4, <2>1, <2>2, <2>4, <2>8, PromoterMoves DEF Judge
<1>5. CASE WriteRecord(p)
  <2> DEFINE s == [promoter[p] EXCEPT !.at = "unlock"]
             c == promoter[p].candidate
  <2>1. s \in Promotion /\ s.at = "unlock" /\ s.candidate = c
    BY <1>0 DEF Promotion
  <2>2. promoter' = [promoter EXCEPT ![p] = s] BY <1>5 DEF WriteRecord, Step
  <2>3. promoter'[p] = s /\ \A q \in Promoters \ {p} : promoter'[q] = promoter[q]
    BY <2>2 DEF CandidateInv
  <2>4. promoter' \in [Promoters -> Promotion] BY <2>1, <2>2 DEF CandidateInv
  <2>5. promoter[p].at = "write" /\ Holding(p) BY <1>5 DEF WriteRecord, Promoter, Holding
  <2>6. c \in Candidates /\ c.sound /\ \A r \in dataset : Differ(r, c)
    BY <2>5 DEF CandidateInv, Promoting
  <2>7. dataset' = dataset \/ dataset' = dataset \cup {c} BY <1>5 DEF WriteRecord
  <2>8. Reviewed' /\ dataset' \subseteq Candidates
    BY <2>6, <2>7 DEF CandidateInv, Reviewed, Differ
  <2>9. lock' = lock /\ \A q \in Promoters : Holding(q)' => Holding(q)
    BY <1>5, <2>1, <2>3, <2>5 DEF WriteRecord, Holding
  <2>10. Alone' BY <2>9 DEF CandidateInv, Alone
  <2>11. \A q \in Promoters \ {p} : ~Holding(q) BY <2>5 DEF CandidateInv, Alone
  <2>12. \A q \in Promoters \ {p} : Promoting(q)'
    BY <2>3, <2>11 DEF CandidateInv, Promoting, Holding
  <2>13. Promoting(p)' BY <2>1, <2>3, <2>6 DEF Promoting
  <2> QED BY <2>4, <2>8, <2>10, <2>12, <2>13 DEF CandidateInv
<1>6. CASE ReleaseLock(p)
  <2>1. Holding(p) BY <1>6 DEF ReleaseLock, Promoter, Holding
  <2>2. promoter' = [promoter EXCEPT ![p] = Rest] /\ dataset' = dataset BY <1>6 DEF ReleaseLock
  <2>3. Rest \in Promotion /\ Rest.at = "rest" BY DEF Rest, Promotion
  <2>4. promoter'[p] = Rest /\ \A q \in Promoters \ {p} : promoter'[q] = promoter[q]
    BY <2>2 DEF CandidateInv
  <2>5. \A q \in Promoters : ~Holding(q)'
    BY <2>1, <2>3, <2>4 DEF CandidateInv, Alone, Holding
  <2>6. Alone' BY <2>5 DEF Alone
  <2>7. \A q \in Promoters : Promoting(q)'
    BY <2>2, <2>3, <2>4 DEF CandidateInv, Promoting
  <2> QED BY <2>2, <2>3, <2>6, <2>7 DEF CandidateInv, Reviewed
<1>7. CASE PromoterDies(p)
  <2>1. Rest \in Promotion /\ Rest.at = "rest" BY DEF Rest, Promotion
  <2>2. promoter' = [promoter EXCEPT ![p] = Rest] /\ UNCHANGED <<dataset, lock>>
    BY <1>7 DEF PromoterDies
  <2>3. promoter'[p] = Rest BY <2>2 DEF CandidateInv
  <2>4. Promoting(p)' BY <2>1, <2>3 DEF Promoting
  <2> QED BY <2>1, <2>2, <2>4, PromoterMoves
<1> QED BY <1>1, <1>2, <1>3, <1>4, <1>5, <1>6, <1>7

(* Two processes that promote at once, one that dies inside the lock, and a  *)
(* lock removed by hand while nobody is inside leave a dataset that can be   *)
(* read: no two records have the same content, case or id, and each has been *)
(* reviewed.                                                                 *)
THEOREM DatasetKept == CandidateSpec => []DatasetReadable
<1>1. CandidateInv /\ [CandidateNext]_candidateVars => CandidateInv'
  <2> SUFFICES ASSUME CandidateInv, [CandidateNext]_candidateVars PROVE CandidateInv'
    OBVIOUS
  <2>1. CASE EditFixture \/ UNCHANGED candidateVars
    BY <2>1 DEF EditFixture, candidateVars, CandidateInv, Alone, Reviewed, Promoting, Holding
  <2>2. CASE RemoveLock
    <3>1. \A p \in Promoters : ~Holding(p) BY <2>2 DEF RemoveLock, Holding
    <3> QED BY <2>2, <3>1 DEF RemoveLock, CandidateInv, Alone, Reviewed, Promoting, Holding
  <2> QED BY <2>1, <2>2, PromoterStep DEF CandidateNext
<1>2. CandidateInv => DatasetReadable
  BY DEF CandidateInv, Reviewed, Differ, DatasetReadable, Readable, Acceptable, Attested
<1> QED BY <1>1, <1>2, CandidateInitHolds, PTL DEF CandidateSpec

-----------------------------------------------------------------------------
(* The release gate: what is recorded does not change once it is decided on. *)
RunRecords == [agent : {"champion", "challenger"}, completed : BOOLEAN, usage : Usage,
               world : [WorldParts -> BOOLEAN],
               trials : UNION {[cases -> Trial] : cases \in SUBSET Cases}]

(* What a decision rests on, of the recorded runs alone.                     *)
DecidedOn(a, b) ==
    /\ a \subseteq DOMAIN runs /\ b \subseteq DOMAIN runs
    /\ Buildable(a) /\ Buildable(b)
    /\ CasesOf(a) = CasesOf(b)
    /\ \A r \in a, q \in b :
           /\ runs[r].agent # runs[q].agent
           /\ DOMAIN runs[r].trials \cap DOMAIN runs[q].trials # {} =>
                  runs[r].world = runs[q].world
    /\ \A r \in a \cup b : runs[r].usage # "incomplete"
    /\ \A s \in RequiredSuites :
           Cardinality({c \in Solved(b) : SuiteOf[c] = s})
               >= Cardinality({c \in Solved(a) : SuiteOf[c] = s})

GateInv ==
    /\ runs \in Seq(RunRecords) /\ world \in [WorldParts -> BOOLEAN]
    /\ decision # NoDecision => DecidedOn(decision.champion, decision.challenger)

LEMMA RecordsWellFormed ==
  ASSUME GateInv, NEW r \in DOMAIN runs
  PROVE  DOMAIN runs[r].trials \subseteq Cases
<1>1. runs[r] \in RunRecords BY DEF GateInv
<1>2. PICK cases \in SUBSET Cases : runs[r].trials \in [cases -> Trial] BY <1>1 DEF RunRecords
<1> QED BY <1>2

(* A case is in exactly one of the runs that a measurement is built from.    *)
LEMMA OneRunEach ==
  ASSUME NEW ids, Buildable(ids), NEW c \in CasesOf(ids)
  PROVE  /\ RunOf(ids, c) \in ids /\ c \in DOMAIN runs[RunOf(ids, c)].trials
         /\ \A r \in ids : c \in DOMAIN runs[r].trials => r = RunOf(ids, c)
         /\ Cardinality({r \in ids : c \in DOMAIN runs[r].trials}) = 1
<1>1. \E r \in ids : c \in DOMAIN runs[r].trials
  BY DEF CasesOf
<1>2. RunOf(ids, c) \in ids /\ c \in DOMAIN runs[RunOf(ids, c)].trials
  BY <1>1 DEF RunOf
<1>3. \A r \in ids : c \in DOMAIN runs[r].trials => r = RunOf(ids, c)
  BY <1>2 DEF Buildable
<1>4. {r \in ids : c \in DOMAIN runs[r].trials} = {RunOf(ids, c)}
  BY <1>2, <1>3
<1> QED BY <1>2, <1>3, <1>4, FS_Singleton

(* Two measurements with the same digest of a suite are of the same cases,   *)
(* in the same version.                                                      *)
LEMMA SameCases ==
  ASSUME GateInv, NEW a \in SUBSET DOMAIN runs, NEW b \in SUBSET DOMAIN runs,
         Buildable(a), Buildable(b), SameSuiteCoverage(a, b),
         NEW c \in CasesOf(a)
  PROVE  c \in CasesOf(b) /\ runs[RunOf(a, c)].world["cases"] = runs[RunOf(b, c)].world["cases"]
<1>1. c \in Cases BY RecordsWellFormed DEF CasesOf
<1> DEFINE s == SuiteOf[c]
<1>2. s \in RequiredSuites BY <1>1, GateAssumption
<1>3. c \in InSuite(a, s) BY DEF InSuite
<1>4. <<c, runs[RunOf(a, c)].world["cases"]>> \in CaseSetDigest(b, s)
  BY <1>2, <1>3 DEF CaseSetDigest, Digest, SameSuiteCoverage
<1>5. PICK d \in InSuite(b, s) :
          <<c, runs[RunOf(a, c)].world["cases"]>> = <<d, runs[RunOf(b, d)].world["cases"]>>
  BY <1>4 DEF CaseSetDigest, Digest
<1>6. c = d /\ runs[RunOf(a, c)].world["cases"] = runs[RunOf(b, d)].world["cases"] BY <1>5
<1> QED BY <1>5, <1>6 DEF InSuite

LEMMA SameGrader ==
  ASSUME NEW a, NEW b, GraderDigest(a) = GraderDigest(b), NEW c \in CasesOf(a)
  PROVE  runs[RunOf(a, c)].world["grader"] = runs[RunOf(b, c)].world["grader"]
<1>1. <<c, runs[RunOf(a, c)].world["grader"]>> \in GraderDigest(b)
  BY DEF GraderDigest, Digest
<1>2. PICK d \in CasesOf(b) :
          <<c, runs[RunOf(a, c)].world["grader"]>> = <<d, runs[RunOf(b, d)].world["grader"]>>
  BY <1>1 DEF GraderDigest, Digest
<1>3. c = d /\ runs[RunOf(a, c)].world["grader"] = runs[RunOf(b, d)].world["grader"] BY <1>2
<1> QED BY <1>3

LEMMA SameWorld ==
  ASSUME GateInv, NEW r \in DOMAIN runs, NEW q \in DOMAIN runs,
         \A part \in WorldParts : runs[r].world[part] = runs[q].world[part]
  PROVE  runs[r].world = runs[q].world
<1>1. runs[r] \in RunRecords /\ runs[q] \in RunRecords BY DEF GateInv
<1>2. runs[r].world \in [WorldParts -> BOOLEAN] /\ runs[q].world \in [WorldParts -> BOOLEAN]
  BY <1>1 DEF RunRecords
<1> QED BY <1>2

(* What the gate counts is what the recorded trials show.                    *)
LEMMA PassedIsSolved ==
  ASSUME GateInv, NEW ids \in SUBSET DOMAIN runs, Buildable(ids), NEW s
  PROVE  {c \in Solved(ids) : SuiteOf[c] = s} = Passed(ids, s)
<1>1. ASSUME NEW c \in Solved(ids), SuiteOf[c] = s
      PROVE  c \in Passed(ids, s)
  <2> PICK r \in ids : c \in DOMAIN runs[r].trials /\ runs[r].trials[c] = "resolved"
    BY <1>1 DEF Solved
  <2>1. c \in CasesOf(ids) BY DEF CasesOf
  <2>2. r = RunOf(ids, c) BY <2>1, OneRunEach
  <2> QED BY <1>1, <2>1, <2>2 DEF Passed, InSuite, TrialOf, IsResolved
<1>2. ASSUME NEW c \in Passed(ids, s)
      PROVE  c \in Solved(ids) /\ SuiteOf[c] = s
  <2>1. c \in CasesOf(ids) /\ SuiteOf[c] = s /\ runs[RunOf(ids, c)].trials[c] = "resolved"
    BY <1>2 DEF Passed, InSuite, TrialOf, IsResolved
  <2>2. RunOf(ids, c) \in ids /\ c \in DOMAIN runs[RunOf(ids, c)].trials BY <2>1, OneRunEach
  <2>3. c \in Cases BY <2>2, RecordsWellFormed
  <2>4. runs[RunOf(ids, c)].completed BY <2>2 DEF Buildable
  <2> QED BY <2>1, <2>2, <2>3, <2>4 DEF Solved
<1> QED BY <1>1, <1>2

LEMMA PromotedIsDecided ==
  ASSUME GateInv, NEW a \in SUBSET DOMAIN runs, NEW b \in SUBSET DOMAIN runs,
         Buildable(a), Buildable(b), Promote(a, b)
  PROVE  DecidedOn(a, b)
<1>1. /\ SameSuiteCoverage(a, b) /\ SuitesDoNotRegress(a, b)
      /\ \A r \in a, q \in b :
             runs[r].agent # runs[q].agent /\ runs[r].world["environment"] = runs[q].world["environment"]
      /\ GraderDigest(a) = GraderDigest(b)
      /\ \A r \in a \cup b : runs[r].usage # "incomplete"
  BY DEF Promote, EveryRequestMeasured
<1>2. SameSuiteCoverage(b, a)
  <2> SUFFICES ASSUME NEW s \in RequiredSuites PROVE InSuite(b, s) # {}
    BY <1>1 DEF SameSuiteCoverage
  <2>1. PICK c \in InSuite(a, s) : TRUE BY <1>1 DEF SameSuiteCoverage
  <2>2. <<c, runs[RunOf(a, c)].world["cases"]>> \in CaseSetDigest(b, s)
    BY <1>1 DEF SameSuiteCoverage, CaseSetDigest, Digest
  <2> QED BY <2>2 DEF CaseSetDigest, Digest
<1>3. CasesOf(a) = CasesOf(b)
  <2>1. \A c \in CasesOf(a) : c \in CasesOf(b) BY <1>1, SameCases
  <2>2. \A c \in CasesOf(b) : c \in CasesOf(a) BY <1>2, SameCases
  <2>3. CasesOf(a) = UNION {DOMAIN runs[r].trials : r \in a}
        /\ CasesOf(b) = UNION {DOMAIN runs[r].trials : r \in b}
    BY DEF CasesOf
  <2> QED BY <2>1, <2>2, <2>3
<1>4. ASSUME NEW r \in a, NEW q \in b, NEW c \in DOMAIN runs[r].trials \cap DOMAIN runs[q].trials
      PROVE  runs[r].world = runs[q].world
  <2>1. c \in CasesOf(a) /\ c \in CasesOf(b) BY DEF CasesOf
  <2>2. r = RunOf(a, c) /\ q = RunOf(b, c) BY <2>1, OneRunEach
  <2>3. runs[r].world["cases"] = runs[q].world["cases"] BY <1>1, <2>1, <2>2, SameCases
  <2>4. runs[r].world["grader"] = runs[q].world["grader"] BY <1>1, <2>1, <2>2, SameGrader
  <2>5. runs[r].world["environment"] = runs[q].world["environment"] BY <1>1
  <2> QED BY <2>3, <2>4, <2>5, SameWorld DEF WorldParts
<1>5. \A s \in RequiredSuites :
          Cardinality({c \in Solved(b) : SuiteOf[c] = s})
              >= Cardinality({c \in Solved(a) : SuiteOf[c] = s})
  BY <1>1, PassedIsSolved DEF SuitesDoNotRegress
<1> QED BY <1>1, <1>3, <1>4, <1>5 DEF DecidedOn

LEMMA DecisionKept ==
  ASSUME UNCHANGED runs, NEW a, NEW b, DecidedOn(a, b)
  PROVE  DecidedOn(a, b)'
<1>1. CasesOf(a)' = CasesOf(a) /\ CasesOf(b)' = CasesOf(b)
  BY DEF CasesOf
<1>2. Solved(a)' = Solved(a) /\ Solved(b)' = Solved(b)
  BY DEF Solved
<1>3. Buildable(a)' /\ Buildable(b)'
  BY DEF DecidedOn, Buildable
<1> QED BY <1>1, <1>2, <1>3 DEF DecidedOn

LEMMA GateStep ==
  ASSUME GateInv, [GateNext]_gateVars
  PROVE  GateInv'
<1>1. ASSUME NEW who \in {"champion", "challenger"}, NEW completed \in BOOLEAN,
             NEW cases \in SUBSET Cases, NEW usage \in Usage, NEW trials \in [cases -> Trial],
             Measured(who), Record(who, completed, usage, trials), UNCHANGED <<world, decision>>
      PROVE  GateInv'
  <2>1. [agent |-> who, completed |-> completed, usage |-> usage, world |-> world, trials |-> trials]
            \in RunRecords
    BY DEF RunRecords, GateInv
  <2>2. runs' \in Seq(RunRecords) BY <1>1, <2>1 DEF Record, GateInv
  <2> QED BY <1>1, <2>2 DEF GateInv, Measured
<1>2. CASE RecordRun
  <2> PICK who \in {"champion", "challenger"}, cases \in Batches, usage \in Usage :
          Measured(who) /\ \E trials \in [cases -> Trial] : Record(who, TRUE, usage, trials)
    BY <1>2 DEF RecordRun
  <2>1. cases \in SUBSET Cases BY GateAssumption
  <2> QED BY <1>1, <1>2, <2>1 DEF RecordRun
<1>3. CASE StopRun
  <2> PICK who \in {"champion", "challenger"}, cases \in Batches :
          Measured(who) /\ \E c \in cases : Record(who, FALSE, "complete", [d \in cases \ {c} |-> "resolved"])
    BY <1>3 DEF StopRun
  <2> PICK c \in cases : Record(who, FALSE, "complete", [d \in cases \ {c} |-> "resolved"])
    OBVIOUS
  <2>1. cases \ {c} \in SUBSET Cases BY GateAssumption
  <2>2. [d \in cases \ {c} |-> "resolved"] \in [cases \ {c} -> Trial] /\ "complete" \in Usage
    BY DEF Trial, Usage
  <2> QED BY <1>1, <1>3, <2>1, <2>2 DEF StopRun
<1>4. ASSUME NEW part \in WorldParts, WorldChanges(part)
      PROVE  GateInv'
  BY <1>4 DEF WorldChanges, GateInv
<1>5. CASE ReleaseCheck
  <2> PICK a \in SUBSET (1..Len(runs)), b \in SUBSET (1..Len(runs)) :
          /\ Buildable(a) /\ Buildable(b) /\ Promote(a, b)
          /\ decision' = [champion |-> a, challenger |-> b]
    BY <1>5 DEF ReleaseCheck
  <2>1. DOMAIN runs = 1..Len(runs) BY DEF GateInv
  <2>2. UNCHANGED <<runs, world>> BY <1>5 DEF ReleaseCheck
  <2>3. DecidedOn(a, b) BY <2>1, PromotedIsDecided
  <2>4. DecidedOn(a, b)'
    BY <2>2, <2>3, DecisionKept
  <2> QED BY <2>2, <2>4 DEF GateInv
<1>6. CASE UNCHANGED gateVars
  <2>1. UNCHANGED <<runs, world, decision>> BY <1>6 DEF gateVars
  <2>2. \A a, b : DecidedOn(a, b) => DecidedOn(a, b)'
    BY <2>1, DecisionKept
  <2> QED BY <2>1, <2>2 DEF GateInv
<1> QED BY <1>2, <1>3, <1>4, <1>5, <1>6 DEF GateNext

(* Each case of the benchmark that a promotion rests on was decided once for *)
(* each agent, on the same version, by the same grader, in the same          *)
(* environment, by a completed run that counted its requests, and in no      *)
(* suite has the champion solved more, for any suites, batches and number of *)
(* runs (release-gate.ts, release-evidence-builder.ts).                      *)
THEOREM PromotionsSound == GateSpec => []PromotionSound
<1>1. GateInv => PromotionSound
  <2> SUFFICES ASSUME GateInv, decision # NoDecision PROVE PromotionSound
    BY DEF PromotionSound
  <2> DEFINE a == decision.champion
             b == decision.challenger
  <2>1. DecidedOn(a, b) BY DEF GateInv
  <2> HIDE DEF a, b
  <2>2. ASSUME NEW c \in CasesOf(a) \cup CasesOf(b)
        PROVE  /\ Cardinality({r \in a : c \in DOMAIN runs[r].trials}) = 1
               /\ Cardinality({r \in b : c \in DOMAIN runs[r].trials}) = 1
               /\ runs[RunOf(a, c)].world = runs[RunOf(b, c)].world
    <3>1. c \in CasesOf(a) /\ c \in CasesOf(b) BY <2>1 DEF DecidedOn
    <3>2. Buildable(a) /\ Buildable(b) BY <2>1 DEF DecidedOn
    <3> QED BY <2>1, <3>1, <3>2, OneRunEach DEF DecidedOn
  <2>3. {runs[r].agent : r \in a} # {runs[r].agent : r \in b}
    <3>1. PICK r \in a : TRUE BY <2>1 DEF DecidedOn, Buildable
    <3>2. \A q \in b : runs[r].agent # runs[q].agent BY <2>1 DEF DecidedOn
    <3> QED BY <3>2
  <2>4. \A s \in RequiredSuites :
            Cardinality({c \in Solved(b) : SuiteOf[c] = s})
                >= Cardinality({c \in Solved(a) : SuiteOf[c] = s})
    BY <2>1 DEF DecidedOn
  <2>5. \A r \in a \cup b : runs[r].completed /\ runs[r].usage # "incomplete"
    BY <2>1 DEF DecidedOn, Buildable
  <2> QED BY <2>2, <2>3, <2>4, <2>5 DEF PromotionSound, a, b
<1>2. GateInit => GateInv
  <2> SUFFICES ASSUME GateInit PROVE GateInv
    OBVIOUS
  <2>1. runs \in Seq(RunRecords) BY DEF GateInit
  <2> QED BY <2>1 DEF GateInit, GateInv
<1> QED BY <1>1, <1>2, GateStep, PTL DEF GateSpec

-----------------------------------------------------------------------------
(* The sum of a row over sets of cases, which Sum defines by recursion.      *)
First(s) == CHOOSE x \in s : TRUE
Others(s) == s \ {First(s)}

Adds(f, r, v, S) ==
    f = [s \in SUBSET S |-> IF s = {} THEN 0 ELSE r[First(s)][v] + f[Others(s)]]

(* Of any family of sets of cases there is one with no other inside.         *)
LEMMA LeastSet ==
  ASSUME NEW T \in SUBSET (SUBSET CompareCases), T # {}
  PROVE  \E s \in T : \A u \in T : u \subseteq s => u = s
<1>1. IsWellFoundedOn(StrictSubsetOrdering(CompareCases), SUBSET CompareCases)
  <2>1. FiniteSubsetsOf(CompareCases) = SUBSET CompareCases
    BY ComparisonAssumption, FS_FiniteSubsetsOfFinite
  <2>2. IsWellFoundedOn(StrictSubsetOrdering(CompareCases), FiniteSubsetsOf(CompareCases))
    BY FS_StrictSubsetOrderingWellFounded
  <2> QED BY <2>1, <2>2
<1>2. PICK s \in T : \A u \in T : <<u, s>> \notin StrictSubsetOrdering(CompareCases)
  BY <1>1, WFMin
<1>3. ASSUME NEW u \in T, u \subseteq s, u # s
      PROVE  FALSE
  <2>1. <<u, s>> \in (SUBSET CompareCases) \X (SUBSET CompareCases) OBVIOUS
  <2> QED BY <1>2, <1>3, <2>1 DEF StrictSubsetOrdering
<1> QED BY <1>3

LEMMA OthersSmaller ==
  ASSUME NEW s, s # {}
  PROVE  First(s) \in s /\ Others(s) \subseteq s /\ Others(s) # s
BY DEF First, Others

LEMMA AddsAt ==
  ASSUME NEW f, NEW r, NEW v, NEW S, Adds(f, r, v, S)
  PROVE  /\ f[{}] = 0
         /\ \A s \in SUBSET S : s # {} => f[s] = r[First(s)][v] + f[Others(s)]
<1>1. DOMAIN f = SUBSET S BY DEF Adds
<1>2. \A s \in SUBSET S : f[s] = IF s = {} THEN 0 ELSE r[First(s)][v] + f[Others(s)]
  BY DEF Adds
<1> QED BY <1>2

(* The sum over a set does not depend on what larger set it was defined for. *)
LEMMA AddsAgree ==
  ASSUME NEW r, NEW v, NEW S \in SUBSET CompareCases, NEW U \in SUBSET S,
         NEW f, Adds(f, r, v, S), NEW g, Adds(g, r, v, U), NEW s \in SUBSET U
  PROVE  f[s] = g[s]
<1> DEFINE T == {t \in SUBSET U : f[t] # g[t]}
<1> SUFFICES ASSUME T # {} PROVE FALSE
  OBVIOUS
<1>1. PICK t \in T : \A u \in T : u \subseteq t => u = t
  <2>1. T \in SUBSET (SUBSET CompareCases) OBVIOUS
  <2> HIDE DEF T
  <2> QED BY <2>1, LeastSet
<1>2. t # {} BY AddsAt
<1>3. Others(t) \subseteq t /\ Others(t) # t BY <1>2, OthersSmaller
<1>4. f[Others(t)] = g[Others(t)] BY <1>1, <1>3
<1> QED BY <1>2, <1>4, AddsAt

LEMMA AddsExists ==
  ASSUME NEW r, NEW v, NEW S \in SUBSET CompareCases
  PROVE  \E f : Adds(f, r, v, S)
<1> DEFINE T == {s \in SUBSET CompareCases : ~\E f : Adds(f, r, v, s)}
<1> SUFFICES ASSUME T # {} PROVE FALSE
  OBVIOUS
<1>1. PICK t \in T : \A u \in T : u \subseteq t => u = t
  <2>1. T \in SUBSET (SUBSET CompareCases) OBVIOUS
  <2> HIDE DEF T
  <2> QED BY <2>1, LeastSet
<1> DEFINE F(u) == CHOOSE f : Adds(f, r, v, u)
           g == [s \in SUBSET t |-> IF s = {} THEN 0
                                  ELSE r[First(s)][v] + F(Others(s))[Others(s)]]
<1>2. ASSUME NEW u \in SUBSET t, u # t
      PROVE  Adds(F(u), r, v, u)
  <2>1. \E f : Adds(f, r, v, u) BY <1>1, <1>2
  <2> QED BY <2>1
<1>3. ASSUME NEW s \in SUBSET t, s # {}
      PROVE  g[Others(s)] = F(Others(s))[Others(s)]
  <2> DEFINE o == Others(s)
  <2>1. o \in SUBSET t /\ o # t BY <1>3, OthersSmaller
  <2>2. Adds(F(o), r, v, o) /\ o \in SUBSET CompareCases BY <1>2, <2>1
  <2> HIDE DEF F
  <2>3. CASE o = {}
    BY <2>1, <2>2, <2>3, AddsAt
  <2>4. CASE o # {}
    <3> DEFINE q == Others(o)
    <3>1. q \in SUBSET o /\ q # o BY <2>4, OthersSmaller
    <3>2. Adds(F(q), r, v, q) BY <1>2, <2>1, <3>1
    <3> HIDE DEF q
    <3>3. F(o)[q] = F(q)[q] BY <2>1, <2>2, <3>1, <3>2, AddsAgree
    <3>4. F(o)[o] = r[First(o)][v] + F(o)[q] BY <2>2, <2>4, AddsAt DEF q
    <3>5. g[o] = r[First(o)][v] + F(q)[q] BY <2>1, <2>4 DEF q
    <3> QED BY <3>3, <3>4, <3>5
  <2> QED BY <2>3, <2>4
<1>4. Adds(g, r, v, t)
  <2> HIDE DEF F
  <2> QED BY <1>3 DEF Adds
<1> QED BY <1>4

LEMMA SumIs ==
  ASSUME NEW r, NEW v
  PROVE  \E f : Adds(f, r, v, CompareCases) /\ Sum(r, v) = f[CompareCases]
<1> DEFINE f == CHOOSE g : Adds(g, r, v, CompareCases)
<1>1. \E g : Adds(g, r, v, CompareCases) BY AddsExists
<1>2. Adds(f, r, v, CompareCases) BY <1>1
<1>3. Sum(r, v) = f[CompareCases] BY DEF Sum, Adds, First, Others
<1> QED BY <1>2, <1>3

(* A sum of natural numbers is one, and no smaller than what it adds.        *)
LEMMA AddsBounds ==
  ASSUME NEW r, NEW v, \A c \in CompareCases : r[c][v] \in Nat,
         NEW f, Adds(f, r, v, CompareCases)
  PROVE  \A s \in SUBSET CompareCases : f[s] \in Nat /\ \A c \in s : r[c][v] <= f[s]
<1> DEFINE T == {s \in SUBSET CompareCases : ~(f[s] \in Nat /\ \A c \in s : r[c][v] <= f[s])}
<1> SUFFICES ASSUME T # {} PROVE FALSE
  OBVIOUS
<1>1. PICK t \in T : \A u \in T : u \subseteq t => u = t
  <2>1. T \in SUBSET (SUBSET CompareCases) OBVIOUS
  <2> HIDE DEF T
  <2> QED BY <2>1, LeastSet
<1>2. t # {}
  <2>1. f[{}] = 0 BY AddsAt
  <2> QED BY <2>1
<1>3. First(t) \in t /\ Others(t) \subseteq t /\ Others(t) # t BY <1>2, OthersSmaller
<1>4. f[Others(t)] \in Nat /\ \A c \in Others(t) : r[c][v] <= f[Others(t)]
  BY <1>1, <1>3
<1>5. f[t] = r[First(t)][v] + f[Others(t)] BY <1>2, AddsAt
<1>6. r[First(t)][v] \in Nat BY <1>3
<1>7. f[t] \in Nat BY <1>4, <1>5, <1>6
<1>8. ASSUME NEW c \in t PROVE r[c][v] <= f[t]
  <2>1. c = First(t) \/ c \in Others(t) BY DEF Others
  <2>2. r[c][v] \in Nat OBVIOUS
  <2> QED BY <1>4, <1>5, <1>6, <2>1, <2>2
<1> QED BY <1>7, <1>8

LEMMA AddsMonotone ==
  ASSUME NEW r, NEW q, NEW v, NEW f, NEW g,
         \A c \in CompareCases : r[c][v] \in Nat /\ q[c][v] \in Nat /\ r[c][v] <= q[c][v],
         Adds(f, r, v, CompareCases), Adds(g, q, v, CompareCases)
  PROVE  f[CompareCases] <= g[CompareCases]
<1> DEFINE T == {s \in SUBSET CompareCases : ~(f[s] <= g[s])}
<1> SUFFICES ASSUME T # {} PROVE FALSE
  OBVIOUS
<1>1. PICK t \in T : \A u \in T : u \subseteq t => u = t
  <2>1. T \in SUBSET (SUBSET CompareCases) OBVIOUS
  <2> HIDE DEF T
  <2> QED BY <2>1, LeastSet
<1>2. t # {}
  <2>1. f[{}] = 0 /\ g[{}] = 0 BY AddsAt
  <2> QED BY <2>1
<1>3. First(t) \in t /\ Others(t) \subseteq t /\ Others(t) # t BY <1>2, OthersSmaller
<1>4. f[Others(t)] <= g[Others(t)] BY <1>1, <1>3
<1>5. f[t] = r[First(t)][v] + f[Others(t)] /\ g[t] = q[First(t)][v] + g[Others(t)]
  BY <1>2, AddsAt
<1>6. f[Others(t)] \in Nat /\ g[Others(t)] \in Nat BY <1>3, AddsBounds
<1> QED BY <1>3, <1>4, <1>5, <1>6

(* The two facts about Sum that the comparison rests on.                     *)
LEMMA SumBounds ==
  ASSUME NEW r, NEW v, \A c \in CompareCases : r[c][v] \in Nat
  PROVE  Sum(r, v) \in Nat /\ \A c \in CompareCases : r[c][v] <= Sum(r, v)
BY SumIs, AddsBounds

LEMMA SumMonotone ==
  ASSUME NEW r, NEW q, NEW v,
         \A c \in CompareCases : r[c][v] \in Nat /\ q[c][v] \in Nat /\ r[c][v] <= q[c][v]
  PROVE  Sum(r, v) <= Sum(q, v)
<1>1. PICK f : Adds(f, r, v, CompareCases) /\ Sum(r, v) = f[CompareCases] BY SumIs
<1>2. PICK g : Adds(g, q, v, CompareCases) /\ Sum(q, v) = g[CompareCases] BY SumIs
<1> QED BY <1>1, <1>2, AddsMonotone

-----------------------------------------------------------------------------
(* The comparison: a completed job was seen after its last trial, so its     *)
(* rows stay, and what the later queries read is the same rows.              *)
Settled == \A c \in CompareCases : rows[c].pending = 0 /\ rows[c].unknown = 0
Final == status = "completed" /\ Settled

RowsWhole ==
    /\ baselineRows \in [CompareCases -> Decided]
    /\ rows \in [CompareCases -> Counts]
    /\ \A c \in CompareCases : Planned(rows[c]) = Repetitions

ReaderKnows ==
    /\ reader.at \in {"idle", "counts", "cases", "done"}
    /\ reader.at \in {"idle", "counts"} => ~reader.comparable
    /\ reader.seen = "completed" => status = "completed"
    /\ reader.comparable =>
           /\ Final
           /\ reader.delta = Sum(rows, "pass") - Sum(baselineRows, "pass")
    /\ reader.at = "done" /\ reader.comparable =>
           \A c \in CompareCases : <<c, "regressed">> \in reader.flipped =>
               AllPass(baselineRows[c]) /\ ~AllPass(rows[c])

JobStatus == {"queued", "running", "cancelled", "failed", "completed"}

ReaderRecord ==
    reader \in [at : {"idle", "counts", "cases", "done"}, seen : JobStatus \cup {"none"},
                comparable : BOOLEAN, flipped : SUBSET (CompareCases \X {"regressed", "improved"}), delta : Int]

CompareInv == RowsWhole /\ ReaderRecord /\ ReaderKnows /\ status \in JobStatus

LEMMA CompareInitHolds == CompareInit => CompareInv
<1> SUFFICES ASSUME CompareInit PROVE CompareInv
  OBVIOUS
<1>1. rows \in [CompareCases -> Counts] /\ \A c \in CompareCases : Planned(rows[c]) = Repetitions
  BY ComparisonAssumption DEF CompareInit, Counts, Planned
<1>2. reader = [at |-> "idle", seen |-> "none", comparable |-> FALSE, flipped |-> {}, delta |-> 0]
  BY DEF CompareInit, Waiting
<1>3. RowsWhole BY <1>1 DEF CompareInit, RowsWhole
<1>4. ReaderRecord BY <1>2 DEF ReaderRecord, JobStatus
<1>5. reader.at = "idle" /\ ~reader.comparable /\ reader.seen = "none" BY <1>2
<1>6. status \in JobStatus BY DEF CompareInit, JobStatus
<1> QED BY <1>3, <1>4, <1>5, <1>6 DEF CompareInv, ReaderKnows

(* A trial decided is a plan less that is pending.                           *)
LEMMA DecideKeeps ==
  ASSUME CompareInv, Decide
  PROVE  CompareInv'
<1> PICK c \in CompareCases, v \in {"pass", "fail", "unknown"} :
        rows[c].pending > 0 /\ rows' = [rows EXCEPT ![c][v] = @ + 1, ![c].pending = @ - 1]
  BY DEF Decide
<1>1. status = "running" /\ UNCHANGED <<baselineRows, status, reader>> BY DEF Decide
<1> DEFINE n == rows[c]
           m == [[n EXCEPT ![v] = @ + 1] EXCEPT !.pending = @ - 1]
<1>2. n \in Counts /\ Planned(n) = Repetitions BY DEF CompareInv, RowsWhole
<1>3. m \in Counts /\ Planned(m) = Repetitions
  <2> DEFINE more(x) == IF x = v THEN n[x] + 1 ELSE n[x]
  <2>1. n = [pass |-> n.pass, fail |-> n.fail, unknown |-> n.unknown, pending |-> n.pending]
    BY <1>2 DEF Counts
  <2>2. /\ DOMAIN m = {"pass", "fail", "unknown", "pending"}
        /\ m.pass = more("pass") /\ m.fail = more("fail") /\ m.unknown = more("unknown")
        /\ m.pending = n.pending - 1
    <3>1. DOMAIN n = {"pass", "fail", "unknown", "pending"} BY <2>1
    <3>2. DOMAIN m = {"pass", "fail", "unknown", "pending"} BY <3>1
    <3>3. \A x \in {"pass", "fail", "unknown"} : m[x] = IF x = v THEN n[x] + 1 ELSE n[x]
      BY <3>1
    <3>4. m["pending"] = n["pending"] - 1 BY <3>1
    <3> QED BY <3>2, <3>3, <3>4
  <2>3. /\ n.pass \in Nat /\ n.fail \in Nat /\ n.unknown \in Nat /\ n.pending \in Nat
        /\ n.pass + n.fail + n.unknown + n.pending = Repetitions /\ Repetitions \in Nat
        /\ n.pending > 0
    BY <1>2, ComparisonAssumption DEF Counts, Planned
  <2>4. /\ more("pass") \in Nat /\ more("fail") \in Nat /\ more("unknown") \in Nat
        /\ more("pass") + more("fail") + more("unknown") = n.pass + n.fail + n.unknown + 1
    BY <2>3
  <2> HIDE DEF more, m, n
  <2>5. m.pass \in 0..Repetitions /\ m.fail \in 0..Repetitions
        /\ m.unknown \in 0..Repetitions /\ m.pending \in 0..Repetitions
        /\ m.pass + m.fail + m.unknown + m.pending = Repetitions
    BY <2>2, <2>3, <2>4
  <2>6. m = [pass |-> m.pass, fail |-> m.fail, unknown |-> m.unknown, pending |-> m.pending]
    <3> m = [x \in {"pass", "fail", "unknown", "pending"} |-> m[x]] BY <2>2 DEF m
    <3> QED OBVIOUS
  <2> QED BY <2>5, <2>6 DEF Counts, Planned
<1>4. rows' = [rows EXCEPT ![c] = m] BY DEF CompareInv, RowsWhole
<1> HIDE DEF m
<1>5. RowsWhole'
  <2>1. rows' \in [CompareCases -> Counts] BY <1>3, <1>4 DEF CompareInv, RowsWhole
  <2>2. \A x \in CompareCases : rows'[x] = IF x = c THEN m ELSE rows[x]
    BY <1>4 DEF CompareInv, RowsWhole
  <2>3. \A x \in CompareCases : Planned(rows'[x]) = Repetitions
    BY <1>3, <2>2 DEF CompareInv, RowsWhole
  <2> QED BY <1>1, <2>1, <2>3 DEF CompareInv, RowsWhole
<1>6. ~reader.comparable /\ reader.seen # "completed"
  BY <1>1 DEF CompareInv, ReaderKnows, Final
<1> QED BY <1>1, <1>5, <1>6 DEF CompareInv, ReaderRecord, ReaderKnows

LEMMA AdvanceKeeps ==
  ASSUME CompareInv, Advance
  PROVE  CompareInv'
<1>1. /\ UNCHANGED <<baselineRows, rows, reader>> /\ status \in {"queued", "running"}
      /\ status' \in {"running", "failed", "cancelled", "completed"}
  BY DEF Advance
<1>2. ~reader.comparable /\ reader.seen # "completed"
  BY <1>1 DEF CompareInv, ReaderKnows, Final
<1> QED BY <1>1, <1>2 DEF CompareInv, RowsWhole, ReaderRecord, ReaderKnows, JobStatus

LEMMA GetJobsKeeps ==
  ASSUME CompareInv, GetJobs
  PROVE  CompareInv'
<1>1. /\ UNCHANGED <<baselineRows, rows, status>> /\ reader.at = "idle"
      /\ reader' = [reader EXCEPT !.at = "counts", !.seen = status]
  BY DEF GetJobs
<1>2. /\ ReaderRecord' /\ reader'.at = "counts" /\ reader'.seen = status
      /\ reader'.comparable = reader.comparable
  BY <1>1 DEF CompareInv, ReaderRecord
<1> QED BY <1>1, <1>2 DEF CompareInv, RowsWhole, ReaderKnows

LEMMA CountPlansKeeps ==
  ASSUME CompareInv, CountPlans
  PROVE  CompareInv'
<1> DEFINE ok == /\ reader.seen = "completed" /\ SameConditions
                 /\ Sum(rows, "unknown") = 0 /\ Sum(rows, "pending") = 0
           d == Sum(rows, "pass") - Sum(baselineRows, "pass")
<1>1. /\ UNCHANGED <<baselineRows, rows, status>> /\ reader.at = "counts"
      /\ reader' = [reader EXCEPT !.at = "cases", !.comparable = ok, !.delta = d]
  BY DEF CountPlans
<1>2. \A c \in CompareCases, v \in {"pass", "fail", "unknown", "pending"} :
          rows[c][v] \in Nat /\ baselineRows[c][v] \in Nat
  <2> SUFFICES ASSUME NEW c \in CompareCases, NEW v \in {"pass", "fail", "unknown", "pending"}
               PROVE  rows[c][v] \in Nat /\ baselineRows[c][v] \in Nat
    OBVIOUS
  <2>1. rows[c] \in Counts /\ baselineRows[c] \in Counts
    BY DEF CompareInv, RowsWhole, Decided
  <2> QED BY <2>1, ComparisonAssumption DEF Counts
<1>3. d \in Int
  <2>1. Sum(rows, "pass") \in Nat /\ Sum(baselineRows, "pass") \in Nat BY <1>2, SumBounds
  <2> QED BY <2>1
<1>4. ok \in BOOLEAN OBVIOUS
<1>5. ok => Final
  <2> SUFFICES ASSUME ok PROVE Final
    OBVIOUS
  <2>1. status = "completed" BY DEF CompareInv, ReaderKnows
  <2>2. ASSUME NEW c \in CompareCases, NEW v \in {"unknown", "pending"}
        PROVE  rows[c][v] = 0
    <3>1. Sum(rows, v) = 0 OBVIOUS
    <3>2. rows[c][v] <= Sum(rows, v) BY <1>2, SumBounds
    <3> QED BY <1>2, <3>1, <3>2
  <2>3. \A c \in CompareCases : rows[c].pending = 0 /\ rows[c].unknown = 0 BY <2>2
  <2> QED BY <2>1, <2>3 DEF Final, Settled
<1> HIDE DEF ok, d
<1>6. /\ ReaderRecord' /\ reader'.at = "cases" /\ reader'.comparable = ok /\ reader'.delta = d
      /\ reader'.seen = reader.seen
  BY <1>1, <1>3, <1>4 DEF CompareInv, ReaderRecord
<1>7. Final' = Final BY <1>1 DEF Final, Settled
<1>8. (Sum(rows, "pass") - Sum(baselineRows, "pass"))' = d BY <1>1 DEF d
<1> QED BY <1>1, <1>5, <1>6, <1>7, <1>8 DEF CompareInv, RowsWhole, ReaderKnows

LEMMA CountCasesKeeps ==
  ASSUME CompareInv, CountCases
  PROVE  CompareInv'
<1> DEFINE regressed == {<<c, "regressed">> : c \in {x \in CompareCases :
                             AllPass(baselineRows[x]) /\ ~AllPass(rows[x])}}
           improved == {<<c, "improved">> : c \in {x \in CompareCases :
                            ~AllPass(baselineRows[x]) /\ AllPass(rows[x])}}
           flips == IF ~reader.comparable THEN {} ELSE regressed \cup improved
<1>1. /\ UNCHANGED <<baselineRows, rows, status>> /\ reader.at = "cases"
      /\ reader' = [reader EXCEPT !.at = "done", !.flipped = flips]
  BY DEF CountCases
<1>2. flips \in SUBSET (CompareCases \X {"regressed", "improved"}) OBVIOUS
<1>3. \A c \in CompareCases : <<c, "regressed">> \in flips =>
          AllPass(baselineRows[c]) /\ ~AllPass(rows[c])
  OBVIOUS
<1> HIDE DEF flips
<1>4. /\ ReaderRecord' /\ reader'.at = "done" /\ reader'.flipped = flips
      /\ UNCHANGED <<reader.seen, reader.comparable, reader.delta>>
  BY <1>1, <1>2 DEF CompareInv, ReaderRecord
<1>5. /\ Final' = Final
      /\ \A c \in CompareCases : /\ AllPass(baselineRows[c])' = AllPass(baselineRows[c])
                                 /\ AllPass(rows[c])' = AllPass(rows[c])
  BY <1>1 DEF Final, Settled, AllPass, Planned
<1> QED BY <1>1, <1>3, <1>4, <1>5 DEF CompareInv, RowsWhole, ReaderKnows

(* A comparison that is shown is of two finished experiments, and its        *)
(* difference and its flipped cases are those of the rows as they stay,      *)
(* for any cases and repetitions and whatever was decided between the        *)
(* queries.                                                                  *)
THEOREM ComparisonFinal == CompareSpec => []ComparedIsFinal
<1>1. CompareInv /\ [CompareNext]_compareVars => CompareInv'
  <2> SUFFICES ASSUME CompareInv, [CompareNext]_compareVars PROVE CompareInv'
    OBVIOUS
  <2>1. CASE UNCHANGED compareVars
    BY <2>1 DEF compareVars, CompareInv, RowsWhole, ReaderRecord, ReaderKnows, Final, Settled,
       AllPass, Planned
  <2> QED BY <2>1, DecideKeeps, AdvanceKeeps, GetJobsKeeps, CountPlansKeeps, CountCasesKeeps
          DEF CompareNext
<1>2. CompareInv => ComparedIsFinal
  <2> SUFFICES ASSUME CompareInv, reader.at = "done", reader.comparable
               PROVE  /\ status = "completed"
                      /\ \A c \in CompareCases : rows[c] \in Decided
                      /\ reader.delta = Sum(rows, "pass") - Sum(baselineRows, "pass")
                      /\ reader.delta > 0 =>
                             \E c \in CompareCases : rows[c].pass > baselineRows[c].pass
                      /\ \A c \in CompareCases :
                             <<c, "regressed">> \in reader.flipped =>
                                 rows[c].pass < baselineRows[c].pass
    BY DEF ComparedIsFinal
  <2>1. Final /\ reader.delta = Sum(rows, "pass") - Sum(baselineRows, "pass")
    BY DEF CompareInv, ReaderKnows
  <2>2. \A c \in CompareCases : rows[c] \in Decided
    BY <2>1 DEF CompareInv, RowsWhole, Final, Settled, Decided
  <2>3. \A c \in CompareCases :
            /\ rows[c].pass \in Nat /\ baselineRows[c].pass \in Nat
            /\ rows[c].pass + rows[c].fail = Repetitions
            /\ baselineRows[c].pass + baselineRows[c].fail = Repetitions
            /\ rows[c].fail \in Nat /\ baselineRows[c].fail \in Nat
    <3> SUFFICES ASSUME NEW c \in CompareCases, NEW n \in Decided
                 PROVE  n.pass \in Nat /\ n.fail \in Nat /\ n.pass + n.fail = Repetitions
      BY <2>2 DEF CompareInv, RowsWhole
    <3> QED BY ComparisonAssumption DEF Decided, Counts, Planned
  <2>4. ASSUME reader.delta > 0, \A c \in CompareCases : ~(rows[c].pass > baselineRows[c].pass)
        PROVE  FALSE
    <3>1. \A c \in CompareCases : rows[c].pass <= baselineRows[c].pass BY <2>3, <2>4
    <3>2. Sum(rows, "pass") <= Sum(baselineRows, "pass") BY <2>3, <3>1, SumMonotone
    <3>3. Sum(rows, "pass") \in Nat /\ Sum(baselineRows, "pass") \in Nat BY <2>3, SumBounds
    <3> QED BY <2>1, <2>4, <3>2, <3>3
  <2>5. ASSUME NEW c \in CompareCases, <<c, "regressed">> \in reader.flipped
        PROVE  rows[c].pass < baselineRows[c].pass
    <3>1. AllPass(baselineRows[c]) /\ ~AllPass(rows[c])
      BY <2>5 DEF CompareInv, ReaderKnows
    <3>2. Planned(rows[c]) = Repetitions /\ Planned(baselineRows[c]) = Repetitions
      BY <2>2 DEF CompareInv, RowsWhole, Decided
    <3> QED BY <2>3, <3>1, <3>2 DEF AllPass
  <2>6. reader.delta > 0 => \E c \in CompareCases : rows[c].pass > baselineRows[c].pass
    BY <2>4
  <2>7. reader.delta = Sum(rows, "pass") - Sum(baselineRows, "pass") BY <2>1
  <2>8. status = "completed" BY <2>1 DEF Final
  <2> QED BY <2>2, <2>5, <2>6, <2>7, <2>8
<1> QED BY <1>1, <1>2, CompareInitHolds, PTL DEF CompareSpec
=============================================================================
