--------------------------- MODULE EvalJobsProofs ---------------------------
(***************************************************************************)
(* Proofs about EvalJobs, for any number of jobs, runs, plans and workers, *)
(* any concurrency and any number of faults and stops.                     *)
(***************************************************************************)
EXTENDS EvalJobs, FiniteSetTheorems, SequenceTheorems, TLAPS

-----------------------------------------------------------------------------
USE DEF vars, dbVars, jobVars, planVars, execVars, runVars, trialVars, limitVars

(* A step of the executor or of a benchmark run leaves every job row alone.  *)
LEMMA RunStepsKeepStatus ==
  ASSUME NEW r \in Runs, RunStep(r) \/ RunFault(r)
  PROVE  UNCHANGED status
  BY DEF RunStep, HarnessReady, HarnessFails, TrialsSettle, SelectRetries, ResetPlan,
         BeginRetry, ReportRun, FailRun, DisposeRun, RunFault

LEMMA TrialStepsKeepStatus ==
  ASSUME NEW p \in Plans, EndTrial(p) \/ EndTrialFault(p) \/ BillTrial(p)
  PROVE  UNCHANGED status
  BY DEF EndTrial, EndTrialFault, BillTrial, SaveTrial

LEMMA WorkerStepsKeepStatus ==
  ASSUME NEW w \in Workers,
         \/ \E j \in Jobs : Fetch(w, j)
         \/ StopWorker(w) \/ ExitWorker(w) \/ CrashWorker(w) \/ StartWorker(w)
  PROVE  UNCHANGED status
  BY DEF Fetch, StopWorker, ExitWorker, CrashWorker, Dies, StartWorker

LEMMA HandlerStepsKeepStatus ==
  ASSUME NEW j \in Jobs,
         \/ QueueExpire(j) \/ EnterRun(j) \/ BeginExecution(j) \/ StartFails(j)
         \/ ExecutionSettles(j) \/ ClaimFault(j) \/ FinishFault(j)
         \/ Heartbeat(j) \/ HeartbeatFault(j) \/ HeartbeatAges(j) \/ JobTimeout(j)
  PROVE  UNCHANGED status
  BY DEF QueueExpire, EnterRun, BeginExecution, StartFails, ExecutionSettles, ClaimFault,
         FinishFault, Heartbeat, HeartbeatFault, HeartbeatAges, JobTimeout

(* What remains are the transactions on the job row.                         *)
LEMMA StatusStep ==
  ASSUME Next
  PROVE  \/ UNCHANGED status
         \/ \E j \in Jobs : Create(j) \/ Cancel(j) \/ Delete(j) \/ Claim(j) \/ FinishJob(j)
         \/ \E w \in Workers : Recover(w)
<1>1. CASE \E j \in Jobs : Create(j) \/ Cancel(j) \/ Delete(j)
  BY <1>1
<1>2. CASE \E j \in Jobs, w \in Workers : Fetch(w, j)
  BY <1>2, WorkerStepsKeepStatus
<1>3. CASE \E j \in Jobs : Executor(j)
  <2>1. PICK j \in Jobs : Executor(j)
    BY <1>3
  <2>2. CASE JobStep(j)
    BY <2>2, HandlerStepsKeepStatus DEF JobStep
  <2>3. CASE \E r \in RunsOf(j) : RunStep(r)
    BY <2>3, RunStepsKeepStatus DEF RunsOf
  <2>4. CASE \E p \in JobPlans(j) : EndTrial(p)
    BY <2>4, TrialStepsKeepStatus DEF JobPlans
  <2> QED BY <2>1, <2>2, <2>3, <2>4 DEF Executor
<1>4. CASE \E j \in Jobs : QueueExpire(j) \/ Heartbeat(j) \/ HeartbeatAges(j) \/ JobTimeout(j)
  BY <1>4, HandlerStepsKeepStatus
<1>5. CASE \E p \in Plans : BillTrial(p)
  BY <1>5, TrialStepsKeepStatus
<1>6. CASE \E w \in Workers : \/ Recover(w) \/ StopWorker(w) \/ ExitWorker(w)
                              \/ CrashWorker(w) \/ StartWorker(w)
  BY <1>6, WorkerStepsKeepStatus
<1>7. CASE Faults
  BY <1>7, HandlerStepsKeepStatus, RunStepsKeepStatus, TrialStepsKeepStatus DEF Faults
<1> QED BY <1>1, <1>2, <1>3, <1>4, <1>5, <1>6, <1>7 DEF Next

-----------------------------------------------------------------------------
(* Type correctness.                                                         *)

USE DEF ActiveStatus, ExecutingStatus, EndedStatus, JobStatus, RunStatus, Lifecycle,
        AbortReason, Pc, RunPc

LEMMA TypeInit == Init => TypeOK
  BY ConstantsAssumption DEF Init, TypeOK

LEMMA TypeCreate == ASSUME TypeOK, NEW j \in Jobs, Create(j) PROVE TypeOK'
  BY ConstantsAssumption DEF TypeOK, Create, SetRuns

LEMMA TypeCancel == ASSUME TypeOK, NEW j \in Jobs, Cancel(j) PROVE TypeOK'
<1>1. status' \in [Jobs -> JobStatus]
  <2>1. \/ status' = [status EXCEPT ![j] = "cancelled"]
        \/ status' = [status EXCEPT ![j] = "cancelling"]
    BY DEF Cancel
  <2>2. status \in [Jobs -> JobStatus]
    BY DEF TypeOK
  <2> QED BY <2>1, <2>2
<1>2. runStatus' \in [Runs -> RunStatus]
  BY DEF TypeOK, Cancel, SetRuns
<1>3. lifecycle' \in [Plans -> Lifecycle]
  BY DEF TypeOK, Cancel, ClosePlans
<1> QED BY <1>1, <1>2, <1>3 DEF TypeOK, Cancel

LEMMA TypeDelete == ASSUME TypeOK, NEW j \in Jobs, Delete(j) PROVE TypeOK'
  BY ConstantsAssumption DEF TypeOK, Delete, SetRuns

LEMMA TypeQueueExpire == ASSUME TypeOK, NEW j \in Jobs, QueueExpire(j) PROVE TypeOK'
  BY ConstantsAssumption DEF TypeOK, QueueExpire

LEMMA TypeEnterRun == ASSUME TypeOK, NEW j \in Jobs, EnterRun(j) PROVE TypeOK'
<1>1. /\ pc \in [Jobs -> Pc] /\ beating \in [Jobs -> BOOLEAN]
      /\ queue \in [Jobs -> {"absent", "created", "active", "ended"}]
  BY DEF TypeOK
<1>2. /\ pc' \in [Jobs -> Pc] /\ beating' \in [Jobs -> BOOLEAN]
      /\ queue' \in [Jobs -> {"absent", "created", "active", "ended"}]
  BY <1>1 DEF EnterRun, HandlerEnds
<1>3. UNCHANGED <<dbVars, worker, host, abort, threw, result, runVars, trialVars, limitVars>>
  BY DEF EnterRun, HandlerEnds
<1> QED BY <1>2, <1>3 DEF TypeOK

LEMMA TypeClaim == ASSUME TypeOK, NEW j \in Jobs, Claim(j) PROVE TypeOK'
<1>1. /\ status \in [Jobs -> JobStatus] /\ fresh \in [Jobs -> BOOLEAN]
      /\ runStatus \in [Runs -> RunStatus]
      /\ pc \in [Jobs -> Pc] /\ beating \in [Jobs -> BOOLEAN]
      /\ queue \in [Jobs -> {"absent", "created", "active", "ended"}]
  BY DEF TypeOK
<1>2. /\ status' \in [Jobs -> JobStatus] /\ fresh' \in [Jobs -> BOOLEAN]
  BY <1>1 DEF Claim
<1>3. runStatus' \in [Runs -> RunStatus]
  BY <1>1 DEF Claim, SetRuns
<1>4. /\ pc' \in [Jobs -> Pc] /\ beating' \in [Jobs -> BOOLEAN]
      /\ queue' \in [Jobs -> {"absent", "created", "active", "ended"}]
  BY <1>1 DEF Claim, HandlerEnds
<1>5. UNCHANGED <<completed, planVars, worker, host, abort, threw, result, runVars, trialVars,
                  limitVars>>
  BY DEF Claim, HandlerEnds
<1> QED BY <1>2, <1>3, <1>4, <1>5 DEF TypeOK

LEMMA TypeClaimFault == ASSUME TypeOK, NEW j \in Jobs, ClaimFault(j) PROVE TypeOK'
  BY ConstantsAssumption DEF TypeOK, ClaimFault, HandlerEnds, Fault

LEMMA TypeHeartbeat == ASSUME TypeOK, NEW j \in Jobs, Heartbeat(j) PROVE TypeOK'
<1>1. /\ fresh \in [Jobs -> BOOLEAN] /\ abort \in [Jobs -> AbortReason]
      /\ beating \in [Jobs -> BOOLEAN]
  BY DEF TypeOK
<1>2. /\ fresh' \in [Jobs -> BOOLEAN] /\ abort' \in [Jobs -> AbortReason]
      /\ beating' \in [Jobs -> BOOLEAN]
  BY <1>1 DEF Heartbeat, MonitorAborts, FirstReason
<1>3. UNCHANGED <<status, completed, runStatus, planVars, queue, worker, pc, host, threw, result,
                  runVars, trialVars, limitVars>>
  BY DEF Heartbeat
<1> QED BY <1>2, <1>3 DEF TypeOK

LEMMA TypeHeartbeatFault == ASSUME TypeOK, NEW j \in Jobs, HeartbeatFault(j) PROVE TypeOK'
  BY ConstantsAssumption DEF TypeOK, HeartbeatFault, MonitorAborts, FirstReason, Fault

LEMMA TypeJobTimeout == ASSUME TypeOK, NEW j \in Jobs, JobTimeout(j) PROVE TypeOK'
  BY ConstantsAssumption DEF TypeOK, JobTimeout

LEMMA TypeHeartbeatAges == ASSUME TypeOK, NEW j \in Jobs, HeartbeatAges(j) PROVE TypeOK'
  BY ConstantsAssumption DEF TypeOK, HeartbeatAges

LEMMA TypeBeginExecution == ASSUME TypeOK, NEW j \in Jobs, BeginExecution(j) PROVE TypeOK'
<1>1. /\ pc \in [Jobs -> Pc] /\ threw \in [Jobs -> BOOLEAN] /\ runPc \in [Runs -> RunPc]
  BY DEF TypeOK
<1>2. /\ pc' \in [Jobs -> Pc] /\ threw' \in [Jobs -> BOOLEAN]
  BY <1>1 DEF BeginExecution
<1>3. runPc' \in [Runs -> RunPc]
  BY <1>1 DEF BeginExecution, StartRuns
<1>4. UNCHANGED <<dbVars, queue, worker, host, abort, beating, result, todo, active, retry,
                  runThrew, trialVars, limitVars>>
  BY DEF BeginExecution
<1> QED BY <1>2, <1>3, <1>4 DEF TypeOK

LEMMA TypeStartFails == ASSUME TypeOK, NEW j \in Jobs, StartFails(j) PROVE TypeOK'
  BY ConstantsAssumption DEF TypeOK, StartFails

LEMMA TypeExecutionSettles == ASSUME TypeOK, NEW j \in Jobs, ExecutionSettles(j) PROVE TypeOK'
<1>1. pc \in [Jobs -> Pc] /\ result \in [Jobs -> EndedStatus] /\ faults \in 0..MaxFaults
  BY DEF TypeOK
<1>2. OutcomeOf(j) \in EndedStatus
  BY DEF OutcomeOf
<1>3. pc' \in [Jobs -> Pc]
  BY <1>1 DEF ExecutionSettles
<1>4. result' \in [Jobs -> EndedStatus]
  BY <1>1, <1>2 DEF ExecutionSettles
<1>5. faults' \in 0..MaxFaults
  BY <1>1, ConstantsAssumption DEF ExecutionSettles, Fault
<1>6. UNCHANGED <<dbVars, queue, worker, host, abort, beating, threw, runVars, trialVars, stops>>
  BY DEF ExecutionSettles
<1> QED BY <1>3, <1>4, <1>5, <1>6 DEF TypeOK

LEMMA TypeFinishJob == ASSUME TypeOK, NEW j \in Jobs, FinishJob(j) PROVE TypeOK'
<1> DEFINE final == IF status[j] = "cancelling" THEN "cancelled" ELSE result[j]
<1>1. final \in EndedStatus
  BY DEF TypeOK
<1>2. status' \in [Jobs -> JobStatus]
  BY <1>1 DEF TypeOK, FinishJob
<1>3. runStatus' \in [Runs -> RunStatus]
  BY <1>1 DEF TypeOK, FinishJob, SetRuns
<1>4. lifecycle' \in [Plans -> Lifecycle]
  BY DEF TypeOK, FinishJob, ClosePlans
<1> QED BY <1>2, <1>3, <1>4 DEF TypeOK, FinishJob, HandlerEnds

LEMMA TypeFinishFault == ASSUME TypeOK, NEW j \in Jobs, FinishFault(j) PROVE TypeOK'
<1>1. /\ pc \in [Jobs -> Pc] /\ beating \in [Jobs -> BOOLEAN]
      /\ queue \in [Jobs -> {"absent", "created", "active", "ended"}]
      /\ result \in [Jobs -> EndedStatus] /\ faults \in 0..MaxFaults
  BY DEF TypeOK
<1>2. OutcomeOf(j) \in EndedStatus
  BY DEF OutcomeOf
<1>3. result' \in [Jobs -> EndedStatus]
  BY <1>1, <1>2 DEF FinishFault
<1>4. faults' \in 0..MaxFaults
  BY <1>1, ConstantsAssumption DEF FinishFault, Fault
<1>5. /\ pc' \in [Jobs -> Pc] /\ beating' \in [Jobs -> BOOLEAN]
      /\ queue' \in [Jobs -> {"absent", "created", "active", "ended"}]
  BY <1>1 DEF FinishFault, HandlerEnds
<1>6. UNCHANGED <<dbVars, worker, host, abort, threw, runVars, trialVars, stops>>
  BY DEF FinishFault, HandlerEnds
<1> QED BY <1>3, <1>4, <1>5, <1>6 DEF TypeOK

LEMMA TypeFetch ==
  ASSUME TypeOK, NEW j \in Jobs, NEW w \in Workers, Fetch(w, j) PROVE TypeOK'
  BY DEF TypeOK, Fetch

LEMMA TypeRecover == ASSUME TypeOK, NEW w \in Workers, Recover(w) PROVE TypeOK'
<1>1. status' \in [Jobs -> JobStatus]
  BY DEF TypeOK, Recover
<1>2. runStatus' \in [Runs -> RunStatus]
  BY DEF TypeOK, Recover, SetRuns
<1>3. lifecycle' \in [Plans -> Lifecycle]
  BY DEF TypeOK, Recover, ClosePlans
<1> QED BY <1>1, <1>2, <1>3 DEF TypeOK, Recover

LEMMA TypeStopWorker == ASSUME TypeOK, NEW w \in Workers, StopWorker(w) PROVE TypeOK'
<1>1. abort' \in [Jobs -> AbortReason]
  BY DEF TypeOK, StopWorker, FirstReason
<1>2. stops' \in 0..MaxStops
  BY ConstantsAssumption DEF TypeOK, StopWorker
<1>3. worker' \in [Workers -> {"up", "stopping", "down"}]
  BY DEF TypeOK, StopWorker
<1> QED BY <1>1, <1>2, <1>3 DEF TypeOK, StopWorker

LEMMA TypeDies ==
  ASSUME TypeOK, NEW w \in Workers, Dies(w), stops' \in 0..MaxStops PROVE TypeOK'
<1>1. /\ worker \in [Workers -> {"up", "stopping", "down"}] /\ pc \in [Jobs -> Pc]
      /\ beating \in [Jobs -> BOOLEAN] /\ runPc \in [Runs -> RunPc]
      /\ todo \in [Runs -> SUBSET Plans] /\ active \in [Runs -> SUBSET Plans]
      /\ trial \in [Plans -> {"none", "started", "billed"}]
  BY DEF TypeOK
<1>2. /\ worker' \in [Workers -> {"up", "stopping", "down"}] /\ pc' \in [Jobs -> Pc]
      /\ beating' \in [Jobs -> BOOLEAN]
  BY <1>1 DEF Dies
<1>3. /\ runPc' \in [Runs -> RunPc]
      /\ todo' \in [Runs -> SUBSET Plans] /\ active' \in [Runs -> SUBSET Plans]
      /\ trial' \in [Plans -> {"none", "started", "billed"}]
  BY <1>1 DEF Dies
<1>4. UNCHANGED <<dbVars, queue, host, abort, threw, result, retry, runThrew, bills, faults>>
  BY DEF Dies
<1> QED BY <1>2, <1>3, <1>4 DEF TypeOK

LEMMA TypeExitWorker == ASSUME TypeOK, NEW w \in Workers, ExitWorker(w) PROVE TypeOK'
<1>1. stops' \in 0..MaxStops
  BY DEF TypeOK, ExitWorker
<1> QED BY <1>1, TypeDies DEF ExitWorker

LEMMA TypeCrashWorker == ASSUME TypeOK, NEW w \in Workers, CrashWorker(w) PROVE TypeOK'
<1>1. stops' \in 0..MaxStops
  BY ConstantsAssumption DEF TypeOK, CrashWorker
<1> QED BY <1>1, TypeDies DEF CrashWorker

LEMMA TypeStartWorker == ASSUME TypeOK, NEW w \in Workers, StartWorker(w) PROVE TypeOK'
  BY DEF TypeOK, StartWorker

-----------------------------------------------------------------------------
(* The steps of a benchmark run and of its trials.                           *)

LEMMA FirstOfSubset ==
  ASSUME NEW limit, NEW s, NEW t \in FirstOf(limit, s) PROVE t \subseteq s
  BY DEF FirstOf

LEMMA PlansOfSubset == ASSUME NEW r \in Runs PROVE PlansOf(r) \subseteq Plans
  BY DEF PlansOf

LEMMA TypeGoes ==
  ASSUME TypeOK, NEW r \in Runs, NEW to \in RunPc, Goes(r, to)
  PROVE  runPc' \in [Runs -> RunPc]
<1>1. runPc \in [Runs -> RunPc]
  BY DEF TypeOK
<1> QED BY <1>1 DEF Goes

LEMMA TypeStartTrials ==
  ASSUME TypeOK, NEW r \in Runs, NEW to \in RunPc, NEW ps \in SUBSET Plans,
         StartTrials(r, to, ps)
  PROVE  /\ runPc' \in [Runs -> RunPc]
         /\ todo' \in [Runs -> SUBSET Plans] /\ active' \in [Runs -> SUBSET Plans]
         /\ trial' \in [Plans -> {"none", "started", "billed"}]
<1>1. /\ todo \in [Runs -> SUBSET Plans] /\ active \in [Runs -> SUBSET Plans]
      /\ trial \in [Plans -> {"none", "started", "billed"}]
  BY DEF TypeOK
<1>2. CASE Goes(r, "failing") /\ UNCHANGED <<todo, active, trial>>
  BY <1>1, <1>2, TypeGoes
<1>3. CASE /\ Goes(r, to)
           /\ \E first \in FirstOf(TrialConcurrency, ps) :
                 /\ todo' = [todo EXCEPT ![r] = ps \ first]
                 /\ active' = [active EXCEPT ![r] = first]
                 /\ trial' = [p \in Plans |-> IF p \in first THEN "started" ELSE trial[p]]
  <2>1. PICK first \in FirstOf(TrialConcurrency, ps) :
                 /\ todo' = [todo EXCEPT ![r] = ps \ first]
                 /\ active' = [active EXCEPT ![r] = first]
                 /\ trial' = [p \in Plans |-> IF p \in first THEN "started" ELSE trial[p]]
    BY <1>3
  <2>2. first \subseteq Plans
    BY FirstOfSubset
  <2>3. runPc' \in [Runs -> RunPc]
    BY <1>3, TypeGoes
  <2> QED BY <1>1, <2>1, <2>2, <2>3
<1> QED BY <1>2, <1>3 DEF StartTrials

LEMMA TypeHarnessReady == ASSUME TypeOK, NEW r \in Runs, HarnessReady(r) PROVE TypeOK'
<1>1. StartTrials(r, "trials", PlansOf(r))
  BY DEF HarnessReady
<1>2. /\ runPc' \in [Runs -> RunPc]
      /\ todo' \in [Runs -> SUBSET Plans] /\ active' \in [Runs -> SUBSET Plans]
      /\ trial' \in [Plans -> {"none", "started", "billed"}]
  BY <1>1, TypeStartTrials, PlansOfSubset
<1>3. UNCHANGED <<dbVars, queue, worker, execVars, retry, runThrew, bills, limitVars>>
  BY DEF HarnessReady
<1> QED BY <1>2, <1>3 DEF TypeOK

LEMMA TypeHarnessFails == ASSUME TypeOK, NEW r \in Runs, HarnessFails(r) PROVE TypeOK'
<1>1. runPc' \in [Runs -> RunPc]
  BY TypeGoes DEF HarnessFails
<1> QED BY <1>1 DEF TypeOK, HarnessFails

LEMMA TypeTrialsSettle == ASSUME TypeOK, NEW r \in Runs, TrialsSettle(r) PROVE TypeOK'
<1>1. runPc' \in [Runs -> RunPc]
  BY TypeGoes DEF TrialsSettle
<1> QED BY <1>1 DEF TypeOK, TrialsSettle

LEMMA TypeSelectRetries == ASSUME TypeOK, NEW r \in Runs, SelectRetries(r) PROVE TypeOK'
<1>1. runPc' \in [Runs -> RunPc]
  BY TypeGoes DEF SelectRetries
<1>2. {p \in PlansOf(r) : Retryable(p)} \subseteq Plans
  BY PlansOfSubset
<1>3. todo' \in [Runs -> SUBSET Plans] /\ retry' \in [Runs -> SUBSET Plans]
  BY <1>2 DEF TypeOK, SelectRetries
<1> QED BY <1>1, <1>3 DEF TypeOK, SelectRetries

LEMMA TypeResetPlan == ASSUME TypeOK, NEW r \in Runs, ResetPlan(r) PROVE TypeOK'
<1>1. /\ todo \in [Runs -> SUBSET Plans] /\ lifecycle \in [Plans -> Lifecycle]
      /\ judged \in [Plans -> Outcome \cup {NoOutcome}] /\ attempts \in [Plans -> 1..2]
  BY DEF TypeOK
<1>2. PICK p \in todo[r] :
         /\ todo' = [todo EXCEPT ![r] = @ \ {p}]
         /\ IF attempts[p] = 1
            THEN /\ lifecycle' = [lifecycle EXCEPT ![p] = "queued"]
                 /\ judged' = [judged EXCEPT ![p] = NoOutcome]
                 /\ attempts' = [attempts EXCEPT ![p] = 2]
            ELSE UNCHANGED <<lifecycle, judged, attempts>>
  BY DEF ResetPlan
<1>3. todo' \in [Runs -> SUBSET Plans]
  BY <1>1, <1>2
<1>4. /\ lifecycle' \in [Plans -> Lifecycle] /\ attempts' \in [Plans -> 1..2]
      /\ judged' \in [Plans -> Outcome \cup {NoOutcome}]
  BY <1>1, <1>2
<1>5. UNCHANGED <<jobVars, runStatus, ledger, queue, worker, execVars, runPc, active, retry,
                  runThrew, trialVars, limitVars>>
  BY DEF ResetPlan
<1> QED BY <1>3, <1>4, <1>5 DEF TypeOK

LEMMA TypeBeginRetry == ASSUME TypeOK, NEW r \in Runs, BeginRetry(r) PROVE TypeOK'
<1>1. StartTrials(r, "retrying", retry[r]) /\ retry[r] \in SUBSET Plans
  BY DEF BeginRetry, TypeOK
<1>2. /\ runPc' \in [Runs -> RunPc]
      /\ todo' \in [Runs -> SUBSET Plans] /\ active' \in [Runs -> SUBSET Plans]
      /\ trial' \in [Plans -> {"none", "started", "billed"}]
  BY <1>1, TypeStartTrials
<1>3. UNCHANGED <<dbVars, queue, worker, execVars, retry, runThrew, bills, limitVars>>
  BY DEF BeginRetry
<1> QED BY <1>2, <1>3 DEF TypeOK

LEMMA TypeFinishBenchmarkRun ==
  ASSUME TypeOK, NEW r \in Runs, NEW to \in EndedStatus, FinishBenchmarkRun(r, to)
  PROVE  runStatus' \in [Runs -> RunStatus]
<1>1. runStatus \in [Runs -> RunStatus]
  BY DEF TypeOK
<1> QED BY <1>1 DEF FinishBenchmarkRun

LEMMA TypeReportRun == ASSUME TypeOK, NEW r \in Runs, ReportRun(r) PROVE TypeOK'
<1>1. runPc' \in [Runs -> RunPc]
  BY TypeGoes DEF ReportRun
<1>2. runStatus' \in [Runs -> RunStatus]
  BY TypeFinishBenchmarkRun DEF ReportRun
<1> QED BY <1>1, <1>2 DEF TypeOK, ReportRun

LEMMA TypeFailRun == ASSUME TypeOK, NEW r \in Runs, FailRun(r) PROVE TypeOK'
<1>1. runPc' \in [Runs -> RunPc]
  BY TypeGoes DEF FailRun
<1>2. runStatus' \in [Runs -> RunStatus] /\ faults' \in 0..MaxFaults
  <2>1. runStatus \in [Runs -> RunStatus] /\ faults \in 0..MaxFaults
    BY DEF TypeOK
  <2>2. CASE FinishBenchmarkRun(r, IF Aborted(RunJob[r]) THEN "cancelled" ELSE "failed")
             /\ UNCHANGED faults
    BY <2>1, <2>2, TypeFinishBenchmarkRun
  <2>3. CASE Fault /\ UNCHANGED runStatus
    BY <2>1, <2>3, ConstantsAssumption DEF Fault
  <2> QED BY <2>2, <2>3 DEF FailRun
<1>3. runThrew' \in [Runs -> BOOLEAN]
  BY DEF TypeOK, FailRun
<1>4. UNCHANGED <<jobVars, planVars, queue, worker, execVars, todo, active, retry, trialVars, stops>>
  BY DEF FailRun
<1> QED BY <1>1, <1>2, <1>3, <1>4 DEF TypeOK

LEMMA TypeRunFault == ASSUME TypeOK, NEW r \in Runs, RunFault(r) PROVE TypeOK'
<1>1. runPc' \in [Runs -> RunPc]
  BY TypeGoes DEF RunFault
<1>2. faults' \in 0..MaxFaults
  BY ConstantsAssumption DEF TypeOK, RunFault, Fault
<1> QED BY <1>1, <1>2 DEF TypeOK, RunFault

LEMMA TypeDisposeRun == ASSUME TypeOK, NEW r \in Runs, DisposeRun(r) PROVE TypeOK'
<1>1. runPc \in [Runs -> RunPc] /\ threw \in [Jobs -> BOOLEAN]
  BY DEF TypeOK
<1>2. runPc' \in [Runs -> RunPc]
  BY <1>1 DEF DisposeRun, Goes
<1>3. threw' \in [Jobs -> BOOLEAN]
  BY <1>1 DEF DisposeRun
<1>4. UNCHANGED <<dbVars, queue, worker, pc, host, abort, beating, result, todo, active, retry,
                  runThrew, trialVars, limitVars>>
  BY DEF DisposeRun
<1> QED BY <1>2, <1>3, <1>4 DEF TypeOK

LEMMA TypeBillTrial == ASSUME TypeOK, NEW p \in Plans, BillTrial(p) PROVE TypeOK'
  BY DEF TypeOK, BillTrial

LEMMA DeriveType == ASSUME NEW res \in TrialResult PROVE DeriveTrialOutcome(res) \in Outcome
<1>1. \A v \in Verdict, c \in ErrorCategory, s \in FailureStage : Judged(v, c, s) \in Outcome
  BY DEF Judged, Outcome
<1>2. \A c \in ErrorCategory : FailureCategoryOf(res, c) \in ErrorCategory
  BY DEF FailureCategoryOf, ErrorCategory
<1> QED BY <1>1, <1>2 DEF DeriveTrialOutcome, Verdict, ErrorCategory, FailureStage

LEMMA JobPlansFinite ==
  ASSUME NEW j \in Jobs, NEW S, S \subseteq JobPlans(j)
  PROVE  IsFiniteSet(S) /\ Cardinality(S) \in Nat /\ Cardinality(S) <= Cardinality(JobPlans(j))
<1>1. IsFiniteSet(JobPlans(j))
  BY ConstantsAssumption, FS_Subset DEF JobPlans
<1> QED BY <1>1, FS_Subset, FS_CardinalityType

LEMMA JobOfType == ASSUME NEW p \in Plans PROVE JobOf(p) \in Jobs /\ p \in JobPlans(JobOf(p))
  BY ConstantsAssumption DEF JobOf, JobPlans

LEMMA TypeSaveTrial ==
  ASSUME TypeOK, NEW p \in Plans, NEW res \in Results, SaveTrial(p, res)
  PROVE  /\ status' \in [Jobs -> JobStatus] /\ fresh' \in [Jobs -> BOOLEAN]
         /\ runStatus' \in [Runs -> RunStatus] /\ completed' \in [Jobs -> Nat]
         /\ lifecycle' \in [Plans -> Lifecycle] /\ attempts' \in [Plans -> 1..2]
         /\ judged' \in [Plans -> Outcome \cup {NoOutcome}] /\ ledger' \in [Plans -> Seq(Attempt)]
<1> DEFINE j == JobOf(p)
           outcome == DeriveTrialOutcome(res)
           decided == {q \in JobPlans(j) : lifecycle'[q] = "completed"}
<1>1. /\ completed \in [Jobs -> Nat] /\ lifecycle \in [Plans -> Lifecycle]
      /\ judged \in [Plans -> Outcome \cup {NoOutcome}] /\ ledger \in [Plans -> Seq(Attempt)]
  BY DEF TypeOK
<1>2. outcome \in Outcome /\ res.billed \in BOOLEAN
  BY ConstantsAssumption, DeriveType DEF TrialResult
<1>3. ledger' \in [Plans -> Seq(Attempt)]
  <2>1. [outcome |-> outcome, billed |-> res.billed] \in Attempt
    BY <1>2 DEF Attempt
  <2>2. ledger[p] \in Seq(Attempt)
    BY <1>1
  <2>3. Append(ledger[p], [outcome |-> outcome, billed |-> res.billed]) \in Seq(Attempt)
    BY <2>1, <2>2, AppendProperties
  <2>4. ledger' = [ledger EXCEPT ![p] = Append(ledger[p], [outcome |-> outcome, billed |-> res.billed])]
    BY DEF SaveTrial
  <2> QED BY <1>1, <2>3, <2>4
<1>4. /\ lifecycle' \in [Plans -> Lifecycle]
      /\ judged' \in [Plans -> Outcome \cup {NoOutcome}]
  BY <1>1, <1>2 DEF SaveTrial
<1>5. completed' \in [Jobs -> Nat]
  <2>1. Cardinality(decided) \in Nat
    BY JobOfType, JobPlansFinite
  <2>2. completed' = completed \/ completed' = [completed EXCEPT ![j] = Cardinality(decided)]
    BY DEF SaveTrial
  <2> QED BY <1>1, <2>1, <2>2
<1>6. UNCHANGED <<status, fresh, runStatus, attempts>>
  BY DEF SaveTrial
<1> QED BY <1>3, <1>4, <1>5, <1>6 DEF TypeOK

LEMMA TypeAdvance ==
  ASSUME TypeOK, NEW p \in Plans, Advance(p)
  PROVE  /\ todo' \in [Runs -> SUBSET Plans] /\ active' \in [Runs -> SUBSET Plans]
         /\ runThrew' \in [Runs -> BOOLEAN] /\ trial' \in [Plans -> {"none", "started", "billed"}]
<1> DEFINE r == PlanRun[p]
<1>1. /\ todo \in [Runs -> SUBSET Plans] /\ active \in [Runs -> SUBSET Plans]
      /\ runThrew \in [Runs -> BOOLEAN] /\ trial \in [Plans -> {"none", "started", "billed"}]
  BY DEF TypeOK
<1>2. r \in Runs
  BY ConstantsAssumption
<1>3. CASE /\ \E q \in todo[r] :
                 /\ todo' = [todo EXCEPT ![r] = @ \ {q}]
                 /\ active' = [active EXCEPT ![r] = (@ \ {p}) \cup {q}]
                 /\ trial' = [trial EXCEPT ![p] = "none", ![q] = "started"]
           /\ UNCHANGED runThrew
  <2>1. PICK q \in todo[r] :
                 /\ todo' = [todo EXCEPT ![r] = @ \ {q}]
                 /\ active' = [active EXCEPT ![r] = (@ \ {p}) \cup {q}]
                 /\ trial' = [trial EXCEPT ![p] = "none", ![q] = "started"]
    BY <1>3
  <2>2. q \in Plans
    BY <1>1, <1>2
  <2> QED BY <1>1, <1>2, <1>3, <2>1, <2>2
<1>4. CASE /\ active' = [active EXCEPT ![r] = @ \ {p}]
           /\ runThrew' = [runThrew EXCEPT ![r] = @ \/ Aborted(JobOf(p))]
           /\ trial' = [trial EXCEPT ![p] = "none"]
           /\ UNCHANGED todo
  BY <1>1, <1>2, <1>4 DEF Aborted
<1> QED BY <1>3, <1>4 DEF Advance

LEMMA TypeLoopThrows ==
  ASSUME TypeOK, NEW p \in Plans, LoopThrows(p)
  PROVE  /\ todo' \in [Runs -> SUBSET Plans] /\ active' \in [Runs -> SUBSET Plans]
         /\ runThrew' \in [Runs -> BOOLEAN] /\ trial' \in [Plans -> {"none", "started", "billed"}]
  BY ConstantsAssumption DEF TypeOK, LoopThrows

LEMMA TypeEndTrial == ASSUME TypeOK, NEW p \in Plans, EndTrial(p) PROVE TypeOK'
<1>1. UNCHANGED <<queue, worker, execVars, runPc, retry, bills, limitVars>>
  BY DEF EndTrial
<1>2. CASE Accepts(p)
  <2>1. PICK res \in Results : SaveTrial(p, res)
    BY <1>2 DEF EndTrial
  <2>2. Advance(p)
    BY <1>2 DEF EndTrial
  <2> QED BY <1>1, <2>1, <2>2, TypeSaveTrial, TypeAdvance DEF TypeOK
<1>3. CASE ~Accepts(p)
  <2>1. LoopThrows(p) /\ UNCHANGED dbVars
    BY <1>3 DEF EndTrial
  <2> QED BY <1>1, <2>1, TypeLoopThrows DEF TypeOK
<1> QED BY <1>2, <1>3

LEMMA TypeEndTrialFault == ASSUME TypeOK, NEW p \in Plans, EndTrialFault(p) PROVE TypeOK'
<1>1. LoopThrows(p) /\ UNCHANGED <<queue, worker, execVars, runPc, retry, bills, stops>>
  BY DEF EndTrialFault
<1>2. faults' \in 0..MaxFaults
  BY ConstantsAssumption DEF EndTrialFault, Fault, TypeOK
<1>3. CASE UNCHANGED dbVars
  BY <1>1, <1>2, <1>3, TypeLoopThrows DEF TypeOK
<1>4. CASE \E res \in Results : SaveTrial(p, res)
  <2>1. PICK res \in Results : SaveTrial(p, res)
    BY <1>4
  <2> QED BY <1>1, <1>2, <2>1, TypeSaveTrial, TypeLoopThrows DEF TypeOK
<1> QED BY <1>3, <1>4 DEF EndTrialFault

-----------------------------------------------------------------------------
LEMMA TypeStep == TypeOK /\ [Next]_vars => TypeOK'
<1> SUFFICES ASSUME TypeOK, [Next]_vars PROVE TypeOK'
  OBVIOUS
<1>1. CASE UNCHANGED vars
  BY <1>1 DEF TypeOK
<1>2. CASE \E j \in Jobs : Create(j) \/ Cancel(j) \/ Delete(j)
  BY <1>2, TypeCreate, TypeCancel, TypeDelete
<1>3. CASE \E j \in Jobs, w \in Workers : Fetch(w, j)
  BY <1>3, TypeFetch
<1>4. CASE \E j \in Jobs : QueueExpire(j) \/ Heartbeat(j) \/ HeartbeatAges(j) \/ JobTimeout(j)
  BY <1>4, TypeQueueExpire, TypeHeartbeat, TypeHeartbeatAges, TypeJobTimeout
<1>5. CASE \E j \in Jobs : JobStep(j)
  BY <1>5, TypeEnterRun, TypeClaim, TypeBeginExecution, TypeStartFails, TypeExecutionSettles,
     TypeFinishJob DEF JobStep
<1>6. CASE \E r \in Runs : RunStep(r)
  BY <1>6, TypeHarnessReady, TypeHarnessFails, TypeTrialsSettle, TypeSelectRetries,
     TypeResetPlan, TypeBeginRetry, TypeReportRun, TypeFailRun, TypeDisposeRun DEF RunStep
<1>7. CASE \E p \in Plans : EndTrial(p) \/ BillTrial(p)
  BY <1>7, TypeEndTrial, TypeBillTrial
<1>8. CASE \E w \in Workers : \/ Recover(w) \/ StopWorker(w) \/ ExitWorker(w)
                              \/ CrashWorker(w) \/ StartWorker(w)
  BY <1>8, TypeRecover, TypeStopWorker, TypeExitWorker, TypeCrashWorker, TypeStartWorker
<1>9. CASE Faults
  BY <1>9, TypeClaimFault, TypeHeartbeatFault, TypeFinishFault, TypeRunFault, TypeEndTrialFault
     DEF Faults
<1>10. CASE \E j \in Jobs : Executor(j)
  BY <1>5, <1>6, <1>7, <1>10 DEF Executor, RunsOf, JobPlans
<1> QED BY <1>1, <1>2, <1>3, <1>4, <1>7, <1>8, <1>9, <1>10 DEF Next

(* Type correctness of the job machinery: every row, queue item and local    *)
(* variable of a worker stays in its domain, counters within their bounds.   *)
THEOREM TypeCorrect == Spec => []TypeOK
  BY TypeInit, TypeStep, PTL DEF Spec

-----------------------------------------------------------------------------
(* Final statuses.                                                           *)

LEMMA EndedStep ==
  ASSUME TypeOK, [Next]_vars, NEW j \in Jobs, status[j] \in EndedStatus
  PROVE  status'[j] \in {status[j], "deleted"}
<1>1. CASE UNCHANGED status
  BY <1>1
<1>2. CASE \E i \in Jobs : Create(i) \/ Cancel(i) \/ Delete(i) \/ Claim(i)
  BY <1>2 DEF TypeOK, Create, Cancel, Delete, Claim
<1>3. CASE \E i \in Jobs : FinishJob(i)
  BY <1>3 DEF TypeOK, FinishJob
<1>4. CASE \E w \in Workers : Recover(w)
  BY <1>4 DEF TypeOK, Recover, Stale
<1> QED BY <1>1, <1>2, <1>3, <1>4, StatusStep

(* No worker, recovery, cancellation or late finish changes a job that has   *)
(* ended: the WHERE clauses of the transactions are enough, whatever the     *)
(* processes that run them have read before.                                 *)
THEOREM EndedStaysEnded == Spec => EndedIsFinal
<1>1. TypeOK /\ [Next]_vars
      => [\A j \in Jobs : status[j] \in EndedStatus => status'[j] \in {status[j], "deleted"}]_vars
  BY EndedStep
<1> QED BY <1>1, TypeCorrect, PTL DEF Spec, EndedIsFinal

LEMMA CancellingStep ==
  ASSUME TypeOK, [Next]_vars, NEW j \in Jobs, status[j] = "cancelling"
  PROVE  status'[j] \in {"cancelling", "cancelled", "interrupted"}
<1>1. CASE UNCHANGED status
  BY <1>1
<1>2. CASE \E i \in Jobs : Create(i) \/ Cancel(i) \/ Delete(i) \/ Claim(i)
  BY <1>2 DEF TypeOK, Create, Cancel, Delete, Claim
<1>3. CASE \E i \in Jobs : FinishJob(i)
  BY <1>3 DEF TypeOK, FinishJob
<1>4. CASE \E w \in Workers : Recover(w)
  BY <1>4 DEF TypeOK, Recover, Stale
<1> QED BY <1>1, <1>2, <1>3, <1>4, StatusStep

(* An acknowledged cancellation is never overtaken by the end of the         *)
(* execution: finish of a cancelling job writes cancelled.                   *)
THEOREM CancellationKept == Spec => CancellingNeverCompletes
<1>1. TypeOK /\ [Next]_vars
      => [\A j \in Jobs : status[j] = "cancelling" =>
            status'[j] \in {"cancelling", "cancelled", "interrupted"}]_vars
  BY CancellingStep
<1> QED BY <1>1, TypeCorrect, PTL DEF Spec, CancellingNeverCompletes

-----------------------------------------------------------------------------
(* The plans and their ledger.  LedgerExact is not inductive: that a reset   *)
(* only meets plans with one unbilled preparation fault is known when they   *)
(* are selected, one step at a time before the reset; and that a plan has a  *)
(* row exactly when its job was created must be known when a result comes.   *)

RowExists(p) ==
    IF JobOf(p) \in LegacyJobs THEN lifecycle[p] = "absent"
    ELSE lifecycle[p] = "absent" <=> status[JobOf(p)] = "absent"

Unstarted(p) ==
    lifecycle[p] = "absent" => /\ attempts[p] = 1
                               /\ JobOf(p) \notin LegacyJobs => ledger[p] = <<>> /\ judged[p] = NoOutcome

PlanExact(p) ==
    lifecycle[p] # "absent" =>
        IF lifecycle[p] = "completed"
        THEN Len(ledger[p]) = attempts[p] /\ judged[p] = ledger[p][attempts[p]].outcome
        ELSE Len(ledger[p]) = attempts[p] - 1 /\ judged[p] = NoOutcome

SecondUnbilled(p) ==
    attempts[p] = 2 => /\ Len(ledger[p]) >= 1
                       /\ PrepareFault(ledger[p][1].outcome) /\ ~ledger[p][1].billed

PlanInv(p) == RowExists(p) /\ Unstarted(p) /\ PlanExact(p) /\ SecondUnbilled(p)

FaultyOnce(p) == /\ lifecycle[p] = "completed" /\ attempts[p] = 1
                 /\ PrepareFault(judged[p]) /\ ~ledger[p][1].billed

ResetsFaulty ==
    \A r \in Runs : runPc[r] = "resetting" =>
        \A p \in todo[r] : PlanRun[p] = r /\ FaultyOnce(p)

LegacyKnown == \A j \in LegacyJobs : status[j] # "absent"

LedgerInv == /\ \A p \in Plans : PlanInv(p)
             /\ ResetsFaulty
             /\ LegacyKnown

LEMMA LedgerInit == Init => LedgerInv
  BY ConstantsAssumption DEF Init, LedgerInv, PlanInv, RowExists, Unstarted, PlanExact,
     SecondUnbilled, ResetsFaulty, LegacyKnown, JobOf

(* Most steps touch no plan, create no job and start no reset.               *)
NoReset == \A r \in Runs : runPc'[r] = "resetting" =>
              runPc[r] = "resetting" /\ todo'[r] \subseteq todo[r]
SameJobs == \A j \in Jobs : status'[j] = "absent" <=> status[j] = "absent"
Quiet == UNCHANGED planVars /\ SameJobs /\ NoReset

LEMMA QuietKeeps == ASSUME LedgerInv, Quiet PROVE LedgerInv'
<1>1. \A p \in Plans : PlanInv(p)'
  BY JobOfType DEF LedgerInv, Quiet, SameJobs, PlanInv, RowExists, Unstarted, PlanExact,
     SecondUnbilled, JobOf
<1>2. ResetsFaulty'
  BY DEF LedgerInv, Quiet, NoReset, ResetsFaulty, FaultyOnce
<1>3. LegacyKnown'
  BY ConstantsAssumption DEF LedgerInv, Quiet, SameJobs, LegacyKnown
<1> QED BY <1>1, <1>2, <1>3 DEF LedgerInv

LEMMA QuietJobSteps ==
  ASSUME TypeOK, NEW j \in Jobs,
         \/ Delete(j) \/ QueueExpire(j) \/ EnterRun(j) \/ Claim(j) \/ StartFails(j)
         \/ ExecutionSettles(j) \/ ClaimFault(j) \/ FinishFault(j)
         \/ Heartbeat(j) \/ HeartbeatFault(j) \/ HeartbeatAges(j) \/ JobTimeout(j)
  PROVE  Quiet
<1>1. UNCHANGED planVars /\ UNCHANGED runVars
  BY DEF Delete, QueueExpire, EnterRun, Claim, StartFails, ExecutionSettles, ClaimFault,
         FinishFault, Heartbeat, HeartbeatFault, HeartbeatAges, JobTimeout
<1>2. SameJobs
  <2>1. CASE UNCHANGED status
    BY <2>1 DEF SameJobs
  <2>2. CASE Delete(j)
    BY <2>2 DEF TypeOK, Delete, SameJobs
  <2>3. CASE Claim(j)
    BY <2>3 DEF TypeOK, Claim, SameJobs
  <2> QED BY <2>1, <2>2, <2>3, HandlerStepsKeepStatus
<1> QED BY <1>1, <1>2 DEF Quiet, NoReset

LEMMA QuietBegin == ASSUME TypeOK, NEW j \in Jobs, BeginExecution(j) PROVE Quiet
<1>1. UNCHANGED <<planVars, status, todo>>
  BY DEF BeginExecution
<1>2. \A r \in Runs : runPc'[r] = "resetting" => runPc[r] = "resetting"
  BY DEF BeginExecution, StartRuns
<1> QED BY <1>1, <1>2 DEF Quiet, SameJobs, NoReset

LEMMA QuietWorkerSteps ==
  ASSUME TypeOK, NEW w \in Workers,
         \/ \E j \in Jobs : Fetch(w, j)
         \/ StopWorker(w) \/ ExitWorker(w) \/ CrashWorker(w) \/ StartWorker(w)
  PROVE  Quiet
<1>1. UNCHANGED planVars /\ UNCHANGED status
  BY DEF Fetch, StopWorker, ExitWorker, CrashWorker, Dies, StartWorker
<1>2. CASE UNCHANGED runVars
  BY <1>1, <1>2 DEF Quiet, SameJobs, NoReset
<1>3. CASE Dies(w)
  BY <1>1, <1>3 DEF Quiet, SameJobs, NoReset, Dies
<1> QED BY <1>2, <1>3 DEF Fetch, StopWorker, ExitWorker, CrashWorker, StartWorker

LEMMA QuietRunSteps ==
  ASSUME TypeOK, NEW r \in Runs,
         \/ HarnessReady(r) \/ HarnessFails(r) \/ TrialsSettle(r) \/ BeginRetry(r)
         \/ ReportRun(r) \/ FailRun(r) \/ DisposeRun(r) \/ RunFault(r)
  PROVE  Quiet
<1>1. UNCHANGED planVars /\ UNCHANGED status
  BY DEF HarnessReady, HarnessFails, TrialsSettle, BeginRetry, ReportRun, FailRun, DisposeRun,
     RunFault
<1>2. runPc \in [Runs -> RunPc] /\ todo \in [Runs -> SUBSET Plans]
  BY DEF TypeOK
<1>3. NoReset
  <2>1. CASE HarnessReady(r) \/ BeginRetry(r)
    <3>0. PICK to \in {"trials", "retrying"} : \E ps \in {PlansOf(r), retry[r]} : StartTrials(r, to, ps)
      BY <2>1 DEF HarnessReady, BeginRetry
    <3>1. PICK ps \in {PlansOf(r), retry[r]} : StartTrials(r, to, ps)
      BY <3>0
    <3>2. runPc' = [runPc EXCEPT ![r] = to] \/ runPc' = [runPc EXCEPT ![r] = "failing"]
      BY <3>1 DEF StartTrials, Goes
    <3>3. \A s \in Runs : s # r => todo'[s] = todo[s]
      BY <1>2, <3>1 DEF StartTrials
    <3> QED BY <1>2, <3>2, <3>3 DEF NoReset
  <2>2. CASE UNCHANGED todo /\ \E to \in RunPc \ {"resetting"} : Goes(r, to)
    BY <1>2, <2>2 DEF NoReset, Goes
  <2>3. CASE DisposeRun(r)
    <3>1. UNCHANGED todo
      BY <2>3 DEF DisposeRun
    <3>2. \A s \in Runs : runPc'[s] = "resetting" => runPc[s] = "resetting"
      BY <1>2, <2>3 DEF DisposeRun, Goes
    <3> QED BY <3>1, <3>2 DEF NoReset
  <2>4. CASE HarnessFails(r) \/ TrialsSettle(r) \/ ReportRun(r) \/ FailRun(r) \/ RunFault(r)
    <3>1. UNCHANGED todo
      BY <2>4 DEF HarnessFails, TrialsSettle, ReportRun, FailRun, RunFault
    <3>2. \E to \in RunPc \ {"resetting"} : Goes(r, to)
      BY <2>4 DEF HarnessFails, TrialsSettle, ReportRun, FailRun, RunFault
    <3> QED BY <2>2, <3>1, <3>2
  <2> QED BY <2>1, <2>3, <2>4
<1> QED BY <1>1, <1>3 DEF Quiet, SameJobs

LEMMA QuietBill == ASSUME NEW p \in Plans, BillTrial(p) PROVE Quiet
  BY DEF BillTrial, Quiet, SameJobs, NoReset

(* The loops of a trial only ever shrink what is left to do.                 *)
LEMMA LoopsKeepResets ==
  ASSUME TypeOK, NEW p \in Plans, Advance(p) \/ LoopThrows(p), UNCHANGED runPc
  PROVE  NoReset
<1>1. todo \in [Runs -> SUBSET Plans]
  BY DEF TypeOK
<1>2. \A r \in Runs : todo'[r] \subseteq todo[r]
  <2>1. CASE UNCHANGED todo
    BY <2>1
  <2>2. CASE \E q \in todo[PlanRun[p]] : todo' = [todo EXCEPT ![PlanRun[p]] = @ \ {q}]
    BY <1>1, <2>2
  <2> QED BY <2>1, <2>2 DEF Advance, LoopThrows
<1> QED BY <1>2 DEF NoReset

(* The plans of ended jobs are closed, completed ones apart.                 *)
LEMMA ClosingKeeps ==
  ASSUME TypeOK, LedgerInv, NEW js, NEW to \in {"cancelled", "interrupted"}, ClosePlans(js, to),
         UNCHANGED <<judged, attempts, ledger>>, SameJobs, NoReset
  PROVE  LedgerInv'
<1>1. \A p \in Plans : /\ (lifecycle'[p] = "absent") <=> (lifecycle[p] = "absent")
                       /\ (lifecycle'[p] = "completed") <=> (lifecycle[p] = "completed")
  BY DEF ClosePlans
<1>2. \A p \in Plans : PlanInv(p)'
  BY <1>1, JobOfType DEF LedgerInv, SameJobs, PlanInv, RowExists, Unstarted, PlanExact,
     SecondUnbilled, JobOf
<1>3. ResetsFaulty'
  <2> SUFFICES ASSUME NEW r \in Runs, runPc'[r] = "resetting", NEW p \in todo'[r]
               PROVE  PlanRun[p] = r /\ FaultyOnce(p)'
    BY DEF ResetsFaulty
  <2>1. p \in todo[r] /\ runPc[r] = "resetting"
    BY DEF NoReset
  <2>2. PlanRun[p] = r /\ FaultyOnce(p) /\ p \in Plans
    BY <2>1 DEF LedgerInv, ResetsFaulty, TypeOK
  <2> QED BY <1>1, <2>2 DEF FaultyOnce
<1>4. LegacyKnown'
  BY ConstantsAssumption DEF LedgerInv, SameJobs, LegacyKnown
<1> QED BY <1>2, <1>3, <1>4 DEF LedgerInv

LEMMA LedgerCancel == ASSUME TypeOK, LedgerInv, NEW j \in Jobs, Cancel(j) PROVE LedgerInv'
<1>1. UNCHANGED <<judged, attempts, ledger, runPc, todo>>
  BY DEF Cancel
<1>2. SameJobs
  BY DEF TypeOK, Cancel, SameJobs
<1>3. NoReset
  BY <1>1 DEF NoReset
<1>4. CASE ClosePlans({j}, "cancelled")
  BY <1>1, <1>2, <1>3, <1>4, ClosingKeeps
<1>5. CASE UNCHANGED lifecycle
  BY <1>1, <1>2, <1>3, <1>5, QuietKeeps DEF Quiet
<1> QED BY <1>4, <1>5 DEF Cancel

LEMMA LedgerFinishJob == ASSUME TypeOK, LedgerInv, NEW j \in Jobs, FinishJob(j) PROVE LedgerInv'
<1> DEFINE final == IF status[j] = "cancelling" THEN "cancelled" ELSE result[j]
<1>1. UNCHANGED <<judged, attempts, ledger, runPc, todo>>
  BY DEF FinishJob
<1>2. SameJobs
  <2>1. final \in EndedStatus /\ status \in [Jobs -> JobStatus]
    BY DEF TypeOK
  <2>2. \/ status[j] \in ExecutingStatus /\ status' = [status EXCEPT ![j] = final]
        \/ UNCHANGED status
    BY DEF FinishJob
  <2> QED BY <2>1, <2>2 DEF SameJobs
<1>3. NoReset
  BY <1>1 DEF NoReset
<1>4. CASE final \in {"cancelled", "interrupted"} /\ ClosePlans({j}, final)
  BY <1>1, <1>2, <1>3, <1>4, ClosingKeeps
<1>5. CASE UNCHANGED lifecycle
  BY <1>1, <1>2, <1>3, <1>5, QuietKeeps DEF Quiet
<1> QED BY <1>4, <1>5 DEF FinishJob

LEMMA LedgerRecover == ASSUME TypeOK, LedgerInv, NEW w \in Workers, Recover(w) PROVE LedgerInv'
<1>1. UNCHANGED <<judged, attempts, ledger, runPc, todo>> /\ ClosePlans(Stale, "interrupted")
  BY DEF Recover
<1>2. SameJobs
  BY DEF TypeOK, Recover, Stale, SameJobs
<1>3. NoReset
  BY <1>1 DEF NoReset
<1> QED BY <1>1, <1>2, <1>3, ClosingKeeps

LEMMA LedgerCreate == ASSUME TypeOK, LedgerInv, NEW j \in Jobs, Create(j) PROVE LedgerInv'
<1>1. UNCHANGED <<judged, attempts, ledger, runPc, todo>> /\ status[j] = "absent"
  BY DEF Create
<1>2. j \notin LegacyJobs
  BY <1>1 DEF LedgerInv, LegacyKnown
<1>3. /\ status' = [status EXCEPT ![j] = "queued"] /\ status \in [Jobs -> JobStatus]
      /\ lifecycle' = [p \in Plans |-> IF JobOf(p) = j THEN "queued" ELSE lifecycle[p]]
  BY DEF Create, TypeOK
<1>4. \A p \in Plans : PlanInv(p)'
  <2> SUFFICES ASSUME NEW p \in Plans PROVE PlanInv(p)'
    OBVIOUS
  <2>1. PlanInv(p) /\ JobOf(p) \in Jobs
    BY JobOfType DEF LedgerInv
  <2>2. CASE JobOf(p) = j
    <3>1. lifecycle[p] = "absent"
      BY <1>1, <1>2, <2>1, <2>2 DEF PlanInv, RowExists
    <3>2. attempts[p] = 1 /\ ledger[p] = <<>> /\ judged[p] = NoOutcome
      BY <1>2, <2>1, <2>2, <3>1 DEF PlanInv, Unstarted
    <3>3. lifecycle'[p] = "queued" /\ status'[j] = "queued"
      BY <1>3, <2>2
    <3> QED BY <1>1, <1>2, <2>2, <3>2, <3>3 DEF PlanInv, RowExists, Unstarted, PlanExact,
               SecondUnbilled, JobOf
  <2>3. CASE JobOf(p) # j
    <3>1. lifecycle'[p] = lifecycle[p] /\ status'[JobOf(p)] = status[JobOf(p)]
      BY <1>3, <2>1, <2>3
    <3> QED BY <1>1, <2>1, <3>1 DEF PlanInv, RowExists, Unstarted, PlanExact, SecondUnbilled, JobOf
  <2> QED BY <2>2, <2>3
<1>5. ResetsFaulty'
  <2> SUFFICES ASSUME NEW r \in Runs, runPc'[r] = "resetting", NEW p \in todo'[r]
               PROVE  PlanRun[p] = r /\ FaultyOnce(p)'
    BY DEF ResetsFaulty
  <2>1. PlanRun[p] = r /\ FaultyOnce(p) /\ p \in Plans
    BY <1>1 DEF LedgerInv, ResetsFaulty, TypeOK
  <2>2. JobOf(p) # j
    BY <1>1, <1>2, <2>1 DEF LedgerInv, PlanInv, RowExists, FaultyOnce
  <2>3. lifecycle'[p] = lifecycle[p]
    BY <1>3, <2>1, <2>2
  <2> QED BY <1>1, <2>1, <2>3 DEF FaultyOnce
<1>6. LegacyKnown'
  BY <1>2, <1>3, ConstantsAssumption DEF LedgerInv, LegacyKnown
<1> QED BY <1>4, <1>5, <1>6 DEF LedgerInv

LEMMA LedgerSelect == ASSUME TypeOK, LedgerInv, NEW r \in Runs, SelectRetries(r) PROVE LedgerInv'
<1> DEFINE faulty == {p \in PlansOf(r) : Retryable(p)}
<1>1. UNCHANGED planVars /\ UNCHANGED status
  BY DEF SelectRetries
<1>2. todo' = [todo EXCEPT ![r] = faulty] /\ todo \in [Runs -> SUBSET Plans]
  BY DEF SelectRetries, TypeOK
<1>3. \A s \in Runs : s # r => runPc'[s] = runPc[s]
  BY DEF SelectRetries, Goes, TypeOK
<1>4. \A p \in faulty : PlanRun[p] = r /\ FaultyOnce(p)
  BY DEF PlansOf, Retryable, FaultyOnce
<1>5. \A p \in Plans : PlanInv(p)'
  BY <1>1 DEF LedgerInv, PlanInv, RowExists, Unstarted, PlanExact, SecondUnbilled, JobOf
<1>6. ResetsFaulty'
  <2> SUFFICES ASSUME NEW s \in Runs, runPc'[s] = "resetting", NEW p \in todo'[s]
               PROVE  PlanRun[p] = s /\ FaultyOnce(p)'
    BY DEF ResetsFaulty
  <2>1. PlanRun[p] = s /\ FaultyOnce(p)
    <3>1. CASE s = r
      BY <1>2, <1>4, <3>1
    <3>2. CASE s # r
      BY <1>2, <1>3, <3>2 DEF LedgerInv, ResetsFaulty
    <3> QED BY <3>1, <3>2
  <2> QED BY <1>1, <2>1 DEF FaultyOnce
<1> QED BY <1>1, <1>5, <1>6 DEF LedgerInv, LegacyKnown

LEMMA LedgerReset == ASSUME TypeOK, LedgerInv, NEW r \in Runs, ResetPlan(r) PROVE LedgerInv'
<1>1. UNCHANGED <<status, ledger, runPc>>
  BY DEF ResetPlan
<1>2. PICK p \in todo[r] :
         /\ todo' = [todo EXCEPT ![r] = @ \ {p}]
         /\ IF attempts[p] = 1
            THEN /\ lifecycle' = [lifecycle EXCEPT ![p] = "queued"]
                 /\ judged' = [judged EXCEPT ![p] = NoOutcome]
                 /\ attempts' = [attempts EXCEPT ![p] = 2]
            ELSE UNCHANGED <<lifecycle, judged, attempts>>
  BY DEF ResetPlan
<1>3. PlanRun[p] = r /\ FaultyOnce(p) /\ p \in Plans /\ PlanInv(p)
  BY <1>2 DEF ResetPlan, LedgerInv, ResetsFaulty, TypeOK
<1>4. /\ lifecycle' = [lifecycle EXCEPT ![p] = "queued"]
      /\ judged' = [judged EXCEPT ![p] = NoOutcome]
      /\ attempts' = [attempts EXCEPT ![p] = 2]
  BY <1>2, <1>3 DEF FaultyOnce
<1>5. /\ lifecycle \in [Plans -> Lifecycle] /\ attempts \in [Plans -> 1..2]
      /\ judged \in [Plans -> Outcome \cup {NoOutcome}]
      /\ todo \in [Runs -> SUBSET Plans]
  BY DEF TypeOK
<1>6. \A q \in Plans : q # p => /\ lifecycle'[q] = lifecycle[q] /\ judged'[q] = judged[q]
                                /\ attempts'[q] = attempts[q]
  BY <1>4, <1>5
<1>7. PlanInv(p)'
  <2>1. lifecycle'[p] = "queued" /\ judged'[p] = NoOutcome /\ attempts'[p] = 2
    BY <1>3, <1>4, <1>5
  <2>2. Len(ledger[p]) = 1 /\ judged[p] = ledger[p][1].outcome
    BY <1>3 DEF PlanInv, PlanExact, FaultyOnce
  <2>3. PrepareFault(ledger[p][1].outcome) /\ ~ledger[p][1].billed
    BY <1>3, <2>2 DEF FaultyOnce
  <2>4. lifecycle[p] # "absent"
    BY <1>3 DEF FaultyOnce
  <2> QED BY <1>1, <1>3, <2>1, <2>2, <2>3, <2>4 DEF PlanInv, RowExists, Unstarted, PlanExact,
             SecondUnbilled, JobOf
<1>8. \A q \in Plans : PlanInv(q)'
  BY <1>1, <1>6, <1>7 DEF LedgerInv, PlanInv, RowExists, Unstarted, PlanExact, SecondUnbilled, JobOf
<1>9. ResetsFaulty'
  <2> SUFFICES ASSUME NEW s \in Runs, runPc'[s] = "resetting", NEW q \in todo'[s]
               PROVE  PlanRun[q] = s /\ FaultyOnce(q)'
    BY DEF ResetsFaulty
  <2>1. q \in todo[s] /\ q \in Plans
    BY <1>2, <1>5
  <2>2. PlanRun[q] = s /\ FaultyOnce(q)
    BY <1>1, <2>1 DEF LedgerInv, ResetsFaulty
  <2>3. q # p
    BY <1>2, <1>3, <1>5, <2>2
  <2> QED BY <1>1, <1>6, <2>1, <2>2, <2>3 DEF FaultyOnce
<1> QED BY <1>1, <1>8, <1>9 DEF LedgerInv, LegacyKnown

(* A plan whose result is accepted is one that waits for a result.           *)
LEMMA AcceptedWaits ==
  ASSUME TypeOK, LedgerInv, NEW p \in Plans, Accepts(p), lifecycle[p] # "absent"
  PROVE  lifecycle[p] # "completed"
  BY JobOfType DEF Accepts, HasPlanRows

LEMMA LedgerSave ==
  ASSUME TypeOK, LedgerInv, NEW p \in Plans, NEW res \in Results, Accepts(p), SaveTrial(p, res),
         NoReset
  PROVE  LedgerInv'
<1> DEFINE a == [outcome |-> DeriveTrialOutcome(res), billed |-> res.billed]
<1>1. /\ UNCHANGED <<status, attempts>> /\ ledger' = [ledger EXCEPT ![p] = Append(ledger[p], a)]
  BY DEF SaveTrial
<1>2. /\ lifecycle \in [Plans -> Lifecycle] /\ judged \in [Plans -> Outcome \cup {NoOutcome}]
      /\ ledger \in [Plans -> Seq(Attempt)] /\ attempts \in [Plans -> 1..2]
      /\ todo \in [Runs -> SUBSET Plans]
  BY DEF TypeOK
<1>3. PlanInv(p) /\ JobOf(p) \in Jobs /\ p \in JobPlans(JobOf(p))
  BY JobOfType DEF LedgerInv
<1>4. \A q \in Plans : q # p => /\ ledger'[q] = ledger[q] /\ lifecycle'[q] = lifecycle[q]
                                /\ judged'[q] = judged[q]
  BY <1>1, <1>2 DEF SaveTrial
<1>5. a \in Attempt
  BY ConstantsAssumption, DeriveType DEF Attempt, TrialResult
<1>6. /\ Len(ledger'[p]) = Len(ledger[p]) + 1 /\ ledger'[p][Len(ledger[p]) + 1] = a
      /\ Len(ledger[p]) >= 1 => ledger'[p][1] = ledger[p][1]
      /\ Len(ledger[p]) \in Nat
  <2>1. ledger'[p] = Append(ledger[p], a) /\ ledger[p] \in Seq(Attempt)
    BY <1>1, <1>2
  <2> QED BY <1>5, <2>1, AppendProperties, LenProperties
<1>7. PlanInv(p)'
  <2>1. CASE lifecycle[p] = "absent"
    <3>1. JobOf(p) \in LegacyJobs
      BY <1>3, <2>1 DEF Accepts, PlanInv, RowExists
    <3>2. ~HasPlanRows(JobOf(p))
      BY <2>1 DEF Accepts
    <3>3. lifecycle' = lifecycle
      BY <3>2 DEF SaveTrial
    <3> QED BY <1>1, <1>3, <2>1, <3>1, <3>3 DEF PlanInv, RowExists, Unstarted, PlanExact,
               SecondUnbilled, JobOf
  <2>2. CASE lifecycle[p] # "absent"
    <3>1. Len(ledger[p]) = attempts[p] - 1 /\ attempts[p] \in 1..2
      BY <1>2, <1>3, <2>2, AcceptedWaits DEF PlanInv, PlanExact
    <3>2. HasPlanRows(JobOf(p))
      BY <1>3, <2>2 DEF HasPlanRows
    <3>3. lifecycle'[p] = "completed" /\ judged'[p] = DeriveTrialOutcome(res)
      BY <1>2, <3>2 DEF SaveTrial
    <3>4. Len(ledger'[p]) = attempts[p] /\ judged'[p] = ledger'[p][attempts[p]].outcome
      <4>1. attempts[p] = Len(ledger[p]) + 1
        BY <1>6, <3>1
      <4>2. Len(ledger'[p]) = attempts[p] /\ ledger'[p][attempts[p]] = a
        BY <1>6, <4>1
      <4>3. a.outcome = DeriveTrialOutcome(res)
        OBVIOUS
      <4> QED BY <3>3, <4>2, <4>3
    <3>5. SecondUnbilled(p)'
      BY <1>1, <1>3, <1>6, <3>1 DEF PlanInv, SecondUnbilled
    <3>6. RowExists(p)'
      BY <1>1, <1>3, <2>2, <3>3 DEF PlanInv, RowExists, JobOf
    <3> QED BY <1>1, <3>3, <3>4, <3>5, <3>6 DEF PlanInv, Unstarted, PlanExact
  <2> QED BY <2>1, <2>2
<1>8. \A q \in Plans : PlanInv(q)'
  BY <1>1, <1>4, <1>7 DEF LedgerInv, PlanInv, RowExists, Unstarted, PlanExact, SecondUnbilled, JobOf
<1>9. ResetsFaulty'
  <2> SUFFICES ASSUME NEW s \in Runs, runPc'[s] = "resetting", NEW q \in todo'[s]
               PROVE  PlanRun[q] = s /\ FaultyOnce(q)'
    BY DEF ResetsFaulty
  <2>1. q \in todo[s] /\ q \in Plans /\ runPc[s] = "resetting"
    BY <1>2 DEF NoReset
  <2>2. PlanRun[q] = s /\ FaultyOnce(q)
    BY <2>1 DEF LedgerInv, ResetsFaulty
  <2>3. q # p
    BY <2>2, AcceptedWaits DEF FaultyOnce
  <2> QED BY <1>1, <1>4, <2>1, <2>2, <2>3 DEF FaultyOnce
<1> QED BY <1>1, <1>8, <1>9 DEF LedgerInv, LegacyKnown

LEMMA LedgerTrial ==
  ASSUME TypeOK, LedgerInv, NEW p \in Plans, EndTrial(p) \/ EndTrialFault(p)
  PROVE  LedgerInv'
<1>1. NoReset
  BY LoopsKeepResets DEF EndTrial, EndTrialFault
<1>2. CASE UNCHANGED dbVars
  BY <1>1, <1>2, QuietKeeps DEF Quiet, SameJobs
<1>3. CASE Accepts(p) /\ \E res \in Results : SaveTrial(p, res)
  BY <1>1, <1>3, LedgerSave
<1> QED BY <1>2, <1>3 DEF EndTrial, EndTrialFault

LEMMA LedgerStep == ASSUME TypeOK, LedgerInv, [Next]_vars PROVE LedgerInv'
<1>1. CASE UNCHANGED vars
  BY <1>1, QuietKeeps DEF Quiet, SameJobs, NoReset
<1>2. CASE \E j \in Jobs : Create(j) \/ Cancel(j) \/ Delete(j)
  BY <1>2, LedgerCreate, LedgerCancel, QuietJobSteps, QuietKeeps
<1>3. CASE \E j \in Jobs, w \in Workers : Fetch(w, j)
  BY <1>3, QuietWorkerSteps, QuietKeeps
<1>4. CASE \E j \in Jobs : QueueExpire(j) \/ Heartbeat(j) \/ HeartbeatAges(j) \/ JobTimeout(j)
  BY <1>4, QuietJobSteps, QuietKeeps
<1>5. CASE \E j \in Jobs : JobStep(j)
  BY <1>5, QuietJobSteps, QuietBegin, QuietKeeps, LedgerFinishJob DEF JobStep
<1>6. CASE \E r \in Runs : RunStep(r)
  BY <1>6, QuietRunSteps, QuietKeeps, LedgerSelect, LedgerReset DEF RunStep
<1>7. CASE \E p \in Plans : EndTrial(p) \/ BillTrial(p)
  BY <1>7, LedgerTrial, QuietBill, QuietKeeps
<1>8. CASE \E w \in Workers : \/ Recover(w) \/ StopWorker(w) \/ ExitWorker(w)
                              \/ CrashWorker(w) \/ StartWorker(w)
  BY <1>8, LedgerRecover, QuietWorkerSteps, QuietKeeps
<1>9. CASE Faults
  BY <1>9, QuietJobSteps, QuietRunSteps, QuietKeeps, LedgerTrial DEF Faults
<1>10. CASE \E j \in Jobs : Executor(j)
  BY <1>5, <1>6, <1>7, <1>10 DEF Executor, RunsOf, JobPlans
<1> QED BY <1>1, <1>2, <1>3, <1>4, <1>7, <1>8, <1>9, <1>10 DEF Next

LEMMA LedgerInvariant == Spec => [](TypeOK /\ LedgerInv)
<1>1. Init => TypeOK /\ LedgerInv
  BY TypeInit, LedgerInit
<1>2. TypeOK /\ LedgerInv /\ [Next]_vars => (TypeOK /\ LedgerInv)'
  BY TypeStep, LedgerStep
<1> QED BY <1>1, <1>2, PTL DEF Spec

(* For any number of workers, crashes, faults, retries and cancellations the *)
(* plan row, its attempt count and the ledger of attempts agree.             *)
THEOREM LedgerCorrect == Spec => []LedgerExact
<1>1. LedgerInv => LedgerExact
  BY DEF LedgerInv, PlanInv, PlanExact, LedgerExact
<1> QED BY <1>1, LedgerInvariant, PTL

(* A trial is attempted again only after a preparation fault that did not    *)
(* call the model.                                                           *)
THEOREM RetriesUnbilled == Spec => []RetryOnlyUnbilled
<1>1. LedgerInv => RetryOnlyUnbilled
  BY DEF LedgerInv, PlanInv, SecondUnbilled, RetryOnlyUnbilled
<1> QED BY <1>1, LedgerInvariant, PTL

-----------------------------------------------------------------------------
(* Results enter the database through saveTrial only, while their job is     *)
(* running or cancelling.                                                    *)

SavesResult(p, res) == Accepts(p) /\ SaveTrial(p, res)
NoResult == /\ UNCHANGED <<completed, ledger>>
            /\ \A p \in Plans : lifecycle'[p] = "completed" => lifecycle[p] = "completed"

LEMMA NoResultJobSteps ==
  ASSUME TypeOK, NEW j \in Jobs,
         \/ Create(j) \/ Cancel(j) \/ Delete(j) \/ QueueExpire(j) \/ JobStep(j)
         \/ ClaimFault(j) \/ FinishFault(j)
         \/ Heartbeat(j) \/ HeartbeatFault(j) \/ HeartbeatAges(j) \/ JobTimeout(j)
  PROVE  NoResult
<1>1. CASE Create(j)
  BY <1>1 DEF Create, NoResult
<1>2. CASE Cancel(j)
  BY <1>2 DEF Cancel, ClosePlans, NoResult
<1>3. CASE FinishJob(j)
  <2>1. UNCHANGED <<completed, ledger>>
    BY <1>3 DEF FinishJob
  <2>2. CASE UNCHANGED lifecycle
    BY <2>1, <2>2 DEF NoResult
  <2>3. CASE \E to \in {"cancelled", "interrupted"} : ClosePlans({j}, to)
    BY <2>1, <2>3 DEF NoResult, ClosePlans
  <2> QED BY <1>3, <2>2, <2>3 DEF FinishJob
<1>4. CASE UNCHANGED <<completed, planVars>>
  BY <1>4 DEF NoResult
<1>5. CASE \/ Delete(j) \/ QueueExpire(j) \/ EnterRun(j) \/ Claim(j) \/ BeginExecution(j)
           \/ StartFails(j) \/ ExecutionSettles(j) \/ ClaimFault(j) \/ FinishFault(j)
           \/ Heartbeat(j) \/ HeartbeatFault(j) \/ HeartbeatAges(j) \/ JobTimeout(j)
  <2>1. UNCHANGED <<completed, planVars>>
    BY <1>5 DEF Delete, QueueExpire, EnterRun, Claim, BeginExecution, StartFails,
       ExecutionSettles, ClaimFault, FinishFault, Heartbeat, HeartbeatFault, HeartbeatAges,
       JobTimeout
  <2> QED BY <1>4, <2>1
<1> QED BY <1>1, <1>2, <1>3, <1>5 DEF JobStep

LEMMA NoResultWorkerSteps ==
  ASSUME TypeOK, NEW w \in Workers,
         \/ \E j \in Jobs : Fetch(w, j)
         \/ Recover(w) \/ StopWorker(w) \/ ExitWorker(w) \/ CrashWorker(w) \/ StartWorker(w)
  PROVE  NoResult
<1>1. CASE Recover(w)
  BY <1>1 DEF Recover, ClosePlans, NoResult
<1>2. CASE UNCHANGED <<completed, planVars>>
  BY <1>2 DEF NoResult
<1> QED BY <1>1, <1>2 DEF Fetch, StopWorker, ExitWorker, CrashWorker, Dies, StartWorker

LEMMA NoResultRunSteps ==
  ASSUME TypeOK, NEW r \in Runs, RunStep(r) \/ RunFault(r)
  PROVE  NoResult
<1>1. CASE ResetPlan(r)
  BY <1>1 DEF ResetPlan, NoResult, TypeOK
<1>2. CASE UNCHANGED <<completed, planVars>>
  BY <1>2 DEF NoResult
<1> QED BY <1>1, <1>2 DEF RunStep, HarnessReady, HarnessFails, TrialsSettle, SelectRetries,
       BeginRetry, ReportRun, FailRun, DisposeRun, RunFault

LEMMA ResultTrialSteps ==
  ASSUME NEW p \in Plans, EndTrial(p) \/ EndTrialFault(p) \/ BillTrial(p)
  PROVE  NoResult \/ \E res \in Results : SavesResult(p, res)
<1>1. CASE UNCHANGED dbVars
  BY <1>1 DEF NoResult
<1>2. CASE Accepts(p) /\ \E res \in Results : SaveTrial(p, res)
  BY <1>2 DEF SavesResult
<1> QED BY <1>1, <1>2 DEF EndTrial, EndTrialFault, BillTrial

LEMMA ResultStep ==
  ASSUME TypeOK, [Next]_vars
  PROVE  NoResult \/ \E p \in Plans, res \in Results : SavesResult(p, res)
<1>1. CASE UNCHANGED vars
  BY <1>1 DEF NoResult
<1>2. CASE \E j \in Jobs : Create(j) \/ Cancel(j) \/ Delete(j)
  BY <1>2, NoResultJobSteps
<1>3. CASE \E j \in Jobs, w \in Workers : Fetch(w, j)
  BY <1>3, NoResultWorkerSteps
<1>4. CASE \E j \in Jobs : QueueExpire(j) \/ Heartbeat(j) \/ HeartbeatAges(j) \/ JobTimeout(j)
  BY <1>4, NoResultJobSteps
<1>5. CASE \E j \in Jobs : Executor(j)
  BY <1>5, NoResultJobSteps, NoResultRunSteps, ResultTrialSteps DEF Executor, RunsOf, JobPlans
<1>6. CASE \E p \in Plans : BillTrial(p)
  BY <1>6, ResultTrialSteps
<1>7. CASE \E w \in Workers : \/ Recover(w) \/ StopWorker(w) \/ ExitWorker(w)
                              \/ CrashWorker(w) \/ StartWorker(w)
  BY <1>7, NoResultWorkerSteps
<1>8. CASE Faults
  BY <1>8, NoResultJobSteps, NoResultRunSteps, ResultTrialSteps DEF Faults
<1> QED BY <1>1, <1>2, <1>3, <1>4, <1>5, <1>6, <1>7, <1>8 DEF Next

(* What a saved result changes: one plan, and the counter of its job.        *)
LEMMA SaveChanges ==
  ASSUME TypeOK, NEW p \in Plans, NEW res \in Results, SaveTrial(p, res)
  PROVE  /\ \A q \in Plans : q # p => ledger'[q] = ledger[q] /\ lifecycle'[q] = lifecycle[q]
         /\ \A i \in Jobs : i # JobOf(p) => completed'[i] = completed[i]
         /\ UNCHANGED status
<1>1. /\ ledger \in [Plans -> Seq(Attempt)] /\ lifecycle \in [Plans -> Lifecycle]
      /\ completed \in [Jobs -> Nat]
  BY DEF TypeOK
<1> QED BY <1>1 DEF SaveTrial

LEMMA LateStep ==
  ASSUME TypeOK, [Next]_vars, NEW j \in Jobs, status[j] \in EndedStatus
  PROVE  /\ completed'[j] = completed[j]
         /\ \A p \in JobPlans(j) :
               /\ ledger'[p] = ledger[p]
               /\ lifecycle'[p] = "completed" => lifecycle[p] = "completed"
<1>1. CASE NoResult
  BY <1>1 DEF NoResult, JobPlans
<1>2. CASE \E p \in Plans, res \in Results : SavesResult(p, res)
  <2>1. PICK p \in Plans, res \in Results : Accepts(p) /\ SaveTrial(p, res)
    BY <1>2 DEF SavesResult
  <2>2. JobOf(p) # j /\ p \notin JobPlans(j)
    BY <2>1 DEF Accepts, JobPlans
  <2> QED BY <2>1, <2>2, SaveChanges DEF JobPlans
<1> QED BY <1>1, <1>2, ResultStep

(* After a job has ended, no worker that still runs its trials changes its   *)
(* ledger, its counter or the set of its completed plans.                    *)
THEOREM LateResultsRefused == Spec => NoLateResult
<1>1. TypeOK /\ [Next]_vars
      => [\A j \in Jobs : status[j] \in EndedStatus =>
            /\ completed'[j] = completed[j]
            /\ \A p \in JobPlans(j) :
                  /\ ledger'[p] = ledger[p]
                  /\ lifecycle'[p] = "completed" => lifecycle[p] = "completed"]_vars
  BY LateStep
<1> QED BY <1>1, TypeCorrect, PTL DEF Spec, NoLateResult

-----------------------------------------------------------------------------
(* The progress counter.                                                     *)

Decided(j) == {p \in JobPlans(j) : lifecycle[p] = "completed"}

LEMMA ProgressInit == Init => ProgressBounded
<1> SUFFICES ASSUME Init, NEW j \in Jobs
             PROVE  completed[j] <= Cardinality(JobPlans(j)) /\ Cardinality(Decided(j)) <= completed[j]
  BY DEF ProgressBounded, Decided
<1>1. completed[j] = 0 /\ Decided(j) = {}
  BY DEF Init, Decided, JobPlans
<1>2. Cardinality(JobPlans(j)) \in Nat
  BY JobPlansFinite
<1> QED BY <1>1, <1>2, FS_EmptySet

LEMMA ProgressStep == ASSUME TypeOK, ProgressBounded, [Next]_vars PROVE ProgressBounded'
<1> SUFFICES ASSUME NEW j \in Jobs
             PROVE  /\ completed'[j] <= Cardinality(JobPlans(j))
                    /\ Cardinality(Decided(j)') <= completed'[j]
  BY DEF ProgressBounded, Decided, JobPlans, JobOf
<1>0. /\ completed[j] <= Cardinality(JobPlans(j)) /\ Cardinality(Decided(j)) <= completed[j]
      /\ completed[j] \in Nat
  BY DEF ProgressBounded, Decided, TypeOK
<1>1. /\ IsFiniteSet(Decided(j)) /\ Cardinality(Decided(j)) \in Nat
      /\ Decided(j)' \subseteq JobPlans(j) /\ Cardinality(JobPlans(j)) \in Nat
      /\ Cardinality(Decided(j)') \in Nat
      /\ Cardinality(Decided(j)') <= Cardinality(JobPlans(j))
  <2>1. Decided(j) \subseteq JobPlans(j) /\ Decided(j)' \subseteq JobPlans(j)
    BY DEF Decided, JobPlans, JobOf
  <2> QED BY <2>1, JobPlansFinite
<1>2. CASE completed'[j] = completed[j] /\ Decided(j)' \subseteq Decided(j)
  <2>1. Cardinality(Decided(j)') <= Cardinality(Decided(j))
    BY <1>1, <1>2, FS_Subset
  <2> QED BY <1>0, <1>1, <1>2, <2>1
<1>3. CASE NoResult
  BY <1>2, <1>3 DEF NoResult, Decided, JobPlans, JobOf
<1>4. CASE \E p \in Plans, res \in Results : SavesResult(p, res)
  <2>1. PICK p \in Plans, res \in Results : SaveTrial(p, res)
    BY <1>4 DEF SavesResult
  <2>2. CASE JobOf(p) # j
    <3>1. p \notin JobPlans(j)
      BY <2>2 DEF JobPlans
    <3>2. completed'[j] = completed[j] /\ Decided(j)' = Decided(j)
      BY <2>1, <2>2, <3>1, SaveChanges DEF Decided, JobPlans, JobOf
    <3> QED BY <1>2, <3>2
  <2>3. CASE JobOf(p) = j /\ HasPlanRows(j)
    <3>1. completed' = [completed EXCEPT ![j] =
                Cardinality({q \in JobPlans(j) : lifecycle'[q] = "completed"})]
      BY <2>1, <2>3 DEF SaveTrial
    <3>2. {q \in JobPlans(j) : lifecycle'[q] = "completed"} = Decided(j)'
      BY DEF Decided, JobPlans, JobOf
    <3>3. completed \in [Jobs -> Nat]
      BY DEF TypeOK
    <3>4. completed'[j] = Cardinality({q \in JobPlans(j) : lifecycle'[q] = "completed"})
      BY <3>1, <3>3
    <3>5. completed'[j] = Cardinality(Decided(j)')
      BY <3>2, <3>4
    <3> QED BY <1>1, <3>5
  <2>4. CASE JobOf(p) = j /\ ~HasPlanRows(j)
    <3>1. UNCHANGED <<completed, lifecycle>>
      BY <2>1, <2>4 DEF SaveTrial
    <3> QED BY <1>2, <3>1 DEF Decided, JobPlans, JobOf
  <2> QED BY <2>2, <2>3, <2>4
<1> QED BY <1>3, <1>4, ResultStep

(* The counter is at most the number of planned trials and at least the      *)
(* number of completed ones, however often results are retried.              *)
THEOREM ProgressCorrect == Spec => []ProgressBounded
<1>1. Init => ProgressBounded
  BY ProgressInit
<1>2. TypeOK /\ ProgressBounded /\ [Next]_vars => ProgressBounded'
  BY ProgressStep
<1> QED BY <1>1, <1>2, TypeCorrect, PTL DEF Spec

-----------------------------------------------------------------------------
(* EvalJobs implements ExperimentLedger.                                     *)

Phase == [j \in Jobs \ LegacyJobs |->
            IF status[j] \in {"absent", "queued"} THEN "waiting"
            ELSE IF status[j] \in ExecutingStatus THEN "open" ELSE "closed"]
Entries == [p \in {q \in Plans : JobOf(q) \notin LegacyJobs} |-> ledger[p]]

LEMMA PromiseInit == Init => Promise!Init
<1> SUFFICES ASSUME Init PROVE Promise!Init
  OBVIOUS
<1>1. Phase = [j \in Jobs \ LegacyJobs |-> "waiting"]
  BY DEF Init, Phase
<1>2. Entries = [p \in {q \in Plans : JobOf(q) \notin LegacyJobs} |-> <<>>]
  BY DEF Init, Entries
<1> QED BY <1>1, <1>2 DEF Promise!Init, Phase, Entries

(* Jobs of a set js close; the phases of the others stay.                    *)
LEMMA PromiseClose ==
  ASSUME TypeOK, NEW js, js \subseteq Jobs, UNCHANGED ledger,
         \A j \in js : status[j] \in ActiveStatus /\ status'[j] \in EndedStatus,
         \A j \in Jobs \ js : status'[j] = status[j]
  PROVE  Promise!Next
<1> DEFINE cs == js \ LegacyJobs
<1>1. cs \in SUBSET (Jobs \ LegacyJobs)
  OBVIOUS
<1>2. \A j \in cs : Phase[j] \in {"waiting", "open"}
  BY DEF Phase
<1>3. Phase' = [j \in Jobs \ LegacyJobs |-> IF j \in cs THEN "closed" ELSE Phase[j]]
  BY DEF Phase
<1>4. Entries' = Entries
  BY DEF Entries, JobOf
<1>5. Promise!Close(cs)
  BY <1>2, <1>3, <1>4 DEF Promise!Close, Phase, Entries
<1> QED BY <1>1, <1>5 DEF Promise!Next

LEMMA PromiseStutter ==
  ASSUME UNCHANGED <<Phase, Entries>> PROVE UNCHANGED Promise!vars
  BY DEF Promise!vars, Phase, Entries

(* Status changes that leave the phase alone.                                *)
LEMMA PromiseSamePhase ==
  ASSUME TypeOK, UNCHANGED ledger, NEW j \in Jobs,
         \A i \in Jobs : i # j => status'[i] = status[i],
         \/ status'[j] = status[j]
         \/ status[j] = "absent" /\ status'[j] = "queued"
         \/ status[j] = "running" /\ status'[j] = "cancelling"
         \/ status[j] \in EndedStatus /\ status'[j] = "deleted"
  PROVE  UNCHANGED Promise!vars
<1>1. UNCHANGED Phase
  BY DEF Phase
<1>2. UNCHANGED Entries
  BY DEF Entries, JobOf
<1> QED BY <1>1, <1>2, PromiseStutter

LEMMA PromiseOpen ==
  ASSUME TypeOK, UNCHANGED ledger, NEW j \in Jobs, status[j] = "queued",
         status' = [status EXCEPT ![j] = "running"]
  PROVE  [Promise!Next]_(Promise!vars)
<1>1. UNCHANGED Entries
  BY DEF Entries, JobOf
<1>2. status \in [Jobs -> JobStatus]
  BY DEF TypeOK
<1>3. CASE j \in LegacyJobs
  <2>1. UNCHANGED Phase
    BY <1>2, <1>3 DEF Phase
  <2> QED BY <1>1, <2>1, PromiseStutter
<1>4. CASE j \notin LegacyJobs
  <2>1. Phase[j] = "waiting" /\ Phase' = [Phase EXCEPT ![j] = "open"]
    BY <1>2, <1>4 DEF Phase
  <2>2. Promise!Open(j)
    BY <1>1, <2>1 DEF Promise!Open, Phase, Entries
  <2> QED BY <1>4, <2>2 DEF Promise!Next
<1> QED BY <1>3, <1>4

LEMMA PromiseRecord ==
  ASSUME TypeOK, LedgerInv, NEW p \in Plans, NEW res \in Results, SavesResult(p, res)
  PROVE  [Promise!Next]_(Promise!vars)
<1> DEFINE a == [outcome |-> DeriveTrialOutcome(res), billed |-> res.billed]
<1>1. /\ UNCHANGED status /\ ledger' = [ledger EXCEPT ![p] = Append(ledger[p], a)]
      /\ ledger \in [Plans -> Seq(Attempt)]
  BY DEF SavesResult, SaveTrial, TypeOK
<1>2. UNCHANGED Phase
  BY <1>1 DEF Phase
<1>3. CASE JobOf(p) \in LegacyJobs
  <2>1. UNCHANGED Entries
    BY <1>1, <1>3 DEF Entries, JobOf
  <2> QED BY <1>2, <2>1, PromiseStutter
<1>4. CASE JobOf(p) \notin LegacyJobs
  <2>1. status[JobOf(p)] \in ExecutingStatus /\ JobOf(p) \in Jobs /\ PlanInv(p) /\ Accepts(p)
    BY JobOfType DEF SavesResult, Accepts, LedgerInv
  <2>2. lifecycle[p] \notin {"absent", "completed"}
    BY <1>4, <2>1, AcceptedWaits DEF PlanInv, RowExists
  <2>3. Len(ledger[p]) = attempts[p] - 1 /\ attempts[p] \in 1..2
    BY <2>1, <2>2 DEF PlanInv, PlanExact, TypeOK
  <2>4. \/ ledger[p] = <<>>
        \/ /\ Len(ledger[p]) = 1
           /\ PrepareFault(ledger[p][1].outcome) /\ ~ledger[p][1].billed
    <3>1. CASE attempts[p] = 1
      <4>1. Len(ledger[p]) = 0 /\ ledger[p] \in Seq(Attempt)
        BY <1>1, <2>3, <3>1
      <4> QED BY <4>1, EmptySeq
    <3>2. CASE attempts[p] = 2
      BY <2>1, <2>3, <3>2 DEF PlanInv, SecondUnbilled
    <3> QED BY <2>3, <3>1, <3>2
  <2>5. p \in {q \in Plans : JobOf(q) \notin LegacyJobs} /\ Entries[p] = ledger[p]
    BY <1>4 DEF Entries
  <2>6. Promise!MayRecord(p)
    BY <2>4, <2>5 DEF Promise!MayRecord, Promise!PrepareFault, PrepareFault, Entries
  <2>7. Phase[JobOf(p)] = "open"
    BY <1>4, <2>1 DEF Phase
  <2>8. Entries' = [Entries EXCEPT ![p] = Append(@, a)]
    BY <1>1, <2>5 DEF Entries, JobOf
  <2>9. a \in Promise!Attempt
    <3>1. Promise!Outcome = Outcome
      BY DEF Promise!Outcome, Promise!Verdict, Promise!ErrorCategory, Promise!FailureStage,
             Outcome, Verdict, ErrorCategory, FailureStage
    <3>2. DeriveTrialOutcome(res) \in Outcome /\ res.billed \in BOOLEAN
      BY ConstantsAssumption, DeriveType DEF TrialResult
    <3> QED BY <3>1, <3>2 DEF Promise!Attempt
  <2>10. Promise!Record(p, a)
    BY <1>2, <2>5, <2>6, <2>7, <2>8 DEF Promise!Record, Phase, Entries
  <2> QED BY <2>5, <2>9, <2>10 DEF Promise!Next
<1> QED BY <1>3, <1>4

LEMMA PromiseStep ==
  ASSUME TypeOK, LedgerInv, [Next]_vars
  PROVE  [Promise!Next]_(Promise!vars)
<1>1. CASE \E p \in Plans, res \in Results : SavesResult(p, res)
  BY <1>1, PromiseRecord
<1>2. CASE NoResult
  <2>1. UNCHANGED ledger /\ status \in [Jobs -> JobStatus]
    BY <1>2 DEF NoResult, TypeOK
  <2>2. CASE UNCHANGED status
    <3>1. UNCHANGED <<Phase, Entries>>
      BY <2>1, <2>2 DEF Phase, Entries, JobOf
    <3> QED BY <3>1, PromiseStutter
  <2>3. CASE \E j \in Jobs : Create(j) \/ Delete(j)
    <3>1. PICK j \in Jobs :
             \/ status[j] = "absent" /\ status' = [status EXCEPT ![j] = "queued"]
             \/ status[j] \in EndedStatus /\ status' = [status EXCEPT ![j] = "deleted"]
      BY <2>3 DEF Create, Delete
    <3>2. /\ \A i \in Jobs : i # j => status'[i] = status[i]
          /\ \/ status[j] = "absent" /\ status'[j] = "queued"
             \/ status[j] \in EndedStatus /\ status'[j] = "deleted"
      BY <2>1, <3>1
    <3> QED BY <2>1, <3>2, PromiseSamePhase
  <2>4. CASE \E j \in Jobs : Claim(j)
    BY <2>1, <2>2, <2>4, PromiseOpen DEF Claim
  <2>5. CASE \E j \in Jobs : Cancel(j)
    <3>1. PICK j \in Jobs :
             \/ status[j] = "running" /\ status' = [status EXCEPT ![j] = "cancelling"]
             \/ status[j] = "queued" /\ status' = [status EXCEPT ![j] = "cancelled"]
      BY <2>5 DEF Cancel
    <3>2. CASE status[j] = "running" /\ status' = [status EXCEPT ![j] = "cancelling"]
      <4>1. status'[j] = "cancelling" /\ \A i \in Jobs : i # j => status'[i] = status[i]
        BY <2>1, <3>2
      <4> QED BY <2>1, <3>2, <4>1, PromiseSamePhase
    <3>3. CASE status[j] = "queued" /\ status' = [status EXCEPT ![j] = "cancelled"]
      <4>1. /\ {j} \subseteq Jobs
            /\ \A i \in {j} : status[i] \in ActiveStatus /\ status'[i] \in EndedStatus
            /\ \A i \in Jobs \ {j} : status'[i] = status[i]
        BY <2>1, <3>3
      <4> QED BY <2>1, <4>1, PromiseClose
    <3> QED BY <3>1, <3>2, <3>3
  <2>6. CASE \E j \in Jobs : FinishJob(j)
    <3>1. PICK j \in Jobs : FinishJob(j)
      BY <2>6
    <3>2. CASE status[j] \in ExecutingStatus
      <4> DEFINE final == IF status[j] = "cancelling" THEN "cancelled" ELSE result[j]
      <4>1. final \in EndedStatus
        BY DEF TypeOK
      <4>2. status' = [status EXCEPT ![j] = final]
        BY <3>1, <3>2 DEF FinishJob
      <4>3. /\ {j} \subseteq Jobs
            /\ \A i \in {j} : status[i] \in ActiveStatus /\ status'[i] \in EndedStatus
            /\ \A i \in Jobs \ {j} : status'[i] = status[i]
        BY <2>1, <3>2, <4>1, <4>2
      <4> QED BY <2>1, <4>3, PromiseClose
    <3> QED BY <2>2, <3>1, <3>2 DEF FinishJob
  <2>7. CASE \E w \in Workers : Recover(w)
    <3>1. status' = [j \in Jobs |-> IF j \in Stale THEN "interrupted" ELSE status[j]]
      BY <2>7 DEF Recover
    <3>2. /\ Stale \subseteq Jobs
          /\ \A j \in Stale : status[j] \in ActiveStatus /\ status'[j] \in EndedStatus
          /\ \A j \in Jobs \ Stale : status'[j] = status[j]
      BY <3>1 DEF Stale
    <3> QED BY <2>1, <3>2, PromiseClose
  <2>8. CASE UNCHANGED vars
    BY <2>2, <2>8
  <2> QED BY <2>2, <2>3, <2>4, <2>5, <2>6, <2>7, <2>8, StatusStep
<1> QED BY <1>1, <1>2, ResultStep

(* Whatever workers, queue and database do, an attempt is recorded only      *)
(* while its job is open, never changed, and repeated at most once, after a  *)
(* preparation fault that did not call the model.                            *)
THEOREM LedgerImplemented == Spec => ImplementsLedger
<1>1. TypeOK /\ LedgerInv /\ [Next]_vars => [Promise!Next]_(Promise!vars)
  BY PromiseStep
<1> QED BY <1>1, PromiseInit, LedgerInvariant, PTL DEF Spec, ImplementsLedger, Promise!Spec

=============================================================================
