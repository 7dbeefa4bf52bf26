--------------------------- MODULE EvalRunsProofs ---------------------------
(***************************************************************************)
(* Proofs about EvalJobs that follow a benchmark run through its trials:   *)
(* no plan is billed twice, and a job that completed has a result for      *)
(* every plan, whatever loops of it went on after another one threw.       *)
(***************************************************************************)
EXTENDS EvalJobsProofs

-----------------------------------------------------------------------------
(* Where a job is: its queue item is handed out once, so it is executed once. *)
BeforeRuns == {"none", "fetched", "claiming", "starting"}
Unclaimed == {"absent", "queued"}

Stage(j) ==
    /\ status[j] = "absent" => queue[j] = "absent"
    /\ queue[j] \in {"absent", "created"} => pc[j] = "none"
    /\ pc[j] = "none" => host[j] = NoWorker
    /\ pc[j] \in BeforeRuns => \A r \in RunsOf(j) : runPc[r] = "waiting"
    /\ pc[j] \in {"starting", "executing", "settled"} => status[j] \notin Unclaimed
    /\ \A r \in RunsOf(j) : runPc[r] \notin {"waiting", "left"} => status[j] \notin Unclaimed

StageInv == \A j \in Jobs : Stage(j)

-----------------------------------------------------------------------------
(* The trial loops of a run: what they run, have yet to take, and repeat.    *)
Fresh(p) == bills[p] = 0 /\ trial[p] = "none"

Loops(r) ==
    /\ todo[r] \subseteq PlansOf(r) /\ active[r] \subseteq PlansOf(r)
    /\ retry[r] \subseteq PlansOf(r)
    /\ runPc[r] \in {"waiting", "preparing"} =>
           \A p \in PlansOf(r) : Fresh(p) /\ attempts[p] = 1 /\ ledger[p] = <<>>
    /\ runPc[r] \in {"selecting", "resetting", "reporting"} => active[r] = {}
    /\ runPc[r] = "resetting" =>
           \A p \in retry[r] : bills[p] = 0 /\ (p \in todo[r] \/ attempts[p] = 2)
    /\ \A p \in PlansOf(r) : trial[p] # "none" <=> p \in active[r]
    /\ \A p \in todo[r] : bills[p] = 0 /\ p \notin active[r]
    /\ active[r] # {} =>
           \A p \in todo[r] \cup active[r] : attempts[p] = 1 => ledger[p] = <<>>

Billing(p) ==
    /\ trial[p] = "started" => bills[p] = 0
    /\ bills[p] <= 1
    /\ attempts[p] = 1 /\ ledger[p] # <<>> /\ ~ledger[p][1].billed => bills[p] = 0

LoopsInv == (\A r \in Runs : Loops(r)) /\ (\A p \in Plans : Billing(p))

-----------------------------------------------------------------------------
(* The row of a benchmark run.                                               *)
Row(r) ==
    LET s == status[RunJob[r]] IN
    /\ s = "absent" => runStatus[r] = "absent"
    /\ s = "queued" => runStatus[r] = "queued"
    /\ s \in ExecutingStatus => runStatus[r] # "absent"
    /\ s \in ExecutingStatus /\ runPc[r] \notin {"disposing", "left"} =>
           runStatus[r] \in {"queued", "running"}
    /\ s \in EndedStatus => runStatus[r] \in EndedStatus

RowsInv == \A r \in Runs : Row(r)

-----------------------------------------------------------------------------
(* What a loop leaves undecided is in a loop, or something threw.            *)
HasResult(p) == ledger[p] # <<>> /\ lifecycle[p] \in {"absent", "completed"}

Reported(r) == runStatus[r] = "completed" /\ \A p \in PlansOf(r) : HasResult(p)

Progress(r) ==
    /\ runPc[r] \in {"trials", "retrying"} /\ ~runThrew[r] =>
           /\ active[r] = {} => todo[r] = {}
           /\ \A p \in PlansOf(r) : HasResult(p) \/ p \in todo[r] \cup active[r]
    /\ runPc[r] \in {"selecting", "reporting"} => \A p \in PlansOf(r) : HasResult(p)
    /\ runPc[r] = "resetting" => /\ todo[r] \subseteq retry[r]
                                 /\ \A p \in PlansOf(r) : HasResult(p) \/ p \in retry[r]
    /\ runPc[r] = "disposing" /\ ~runThrew[r] => Reported(r)
    /\ runPc[r] = "left" /\ pc[RunJob[r]] = "executing" /\ ~threw[RunJob[r]] => Reported(r)

AllLeft(j) == \A r \in RunsOf(j) : runPc[r] = "left"

Decision(j) ==
    /\ status[j] \in ExecutingStatus => \A r \in RunsOf(j) : Progress(r)
    /\ pc[j] = "settled" /\ result[j] = "completed" =>
           /\ AllLeft(j)
           /\ status[j] \in ExecutingStatus => \A r \in RunsOf(j) : Reported(r)
    /\ status[j] = "completed" => AllLeft(j) /\ \A r \in RunsOf(j) : Reported(r)

DecisionInv == \A j \in Jobs : Decision(j)

USE DEF vars, dbVars, jobVars, planVars, execVars, runVars, trialVars, limitVars
USE DEF ActiveStatus, ExecutingStatus, EndedStatus, JobStatus, RunStatus, Lifecycle,
        AbortReason, Pc, RunPc

-----------------------------------------------------------------------------
(* The steps, one group for each set of variables they share.                *)

LEMMA NextCases ==
  ASSUME Next
  PROVE  \/ \E j \in Jobs : Create(j) \/ Cancel(j) \/ Delete(j)
         \/ \E j \in Jobs, w \in Workers : Fetch(w, j)
         \/ \E j \in Jobs : \/ QueueExpire(j) \/ Heartbeat(j) \/ HeartbeatAges(j) \/ JobTimeout(j)
                          \/ HeartbeatFault(j)
         \/ \E j \in Jobs : JobStep(j) \/ ClaimFault(j) \/ FinishFault(j)
         \/ \E r \in Runs : RunStep(r) \/ RunFault(r)
         \/ \E p \in Plans : EndTrial(p) \/ EndTrialFault(p) \/ BillTrial(p)
         \/ \E w \in Workers : \/ Recover(w) \/ StopWorker(w) \/ ExitWorker(w)
                             \/ CrashWorker(w) \/ StartWorker(w)
<1>1. CASE \E j \in Jobs : Executor(j)
  BY <1>1 DEF Executor, RunsOf, JobPlans
<1>2. CASE Faults
  BY <1>2 DEF Faults
<1> QED BY <1>1, <1>2 DEF Next

LEMMA RunsOfJob == ASSUME NEW r \in Runs PROVE RunJob[r] \in Jobs /\ r \in RunsOf(RunJob[r])
  BY ConstantsAssumption DEF RunsOf

(* A step of a benchmark run moves runs of its own job only.                 *)
LEMMA RunStepFrame ==
  ASSUME TypeOK, NEW r \in Runs, RunStep(r) \/ RunFault(r)
  PROVE  /\ runPc[r] \notin {"waiting", "left"}
         /\ UNCHANGED <<status, queue, worker, pc, host, abort, beating, result, bills, stops>>
         /\ \A s \in Runs : RunJob[s] # RunJob[r] => runPc'[s] = runPc[s]
<1>1. runPc \in [Runs -> RunPc]
  BY DEF TypeOK
<1>2. CASE DisposeRun(r)
  <2>1. CASE Goes(r, "left")
    BY <1>1, <1>2, <2>1 DEF DisposeRun, Goes
  <2>2. CASE \E next \in FirstOf(1, {s \in RunsOf(RunJob[r]) : runPc[s] = "waiting"}) :
                runPc' = [s \in Runs |-> IF s = r THEN "left"
                                        ELSE IF s \in next THEN "preparing" ELSE runPc[s]]
    <3>1. PICK next \in FirstOf(1, {s \in RunsOf(RunJob[r]) : runPc[s] = "waiting"}) :
                runPc' = [s \in Runs |-> IF s = r THEN "left"
                                        ELSE IF s \in next THEN "preparing" ELSE runPc[s]]
      BY <2>2
    <3>2. next \subseteq RunsOf(RunJob[r])
      BY FirstOfSubset
    <3> QED BY <1>2, <3>1, <3>2 DEF DisposeRun, RunsOf
  <2> QED BY <1>2, <2>1, <2>2 DEF DisposeRun
<1>3. CASE ~DisposeRun(r)
  BY <1>1, <1>3 DEF RunStep, RunFault, HarnessReady, HarnessFails, TrialsSettle, SelectRetries,
     ResetPlan, BeginRetry, ReportRun, FailRun, StartTrials, Goes
<1> QED BY <1>2, <1>3

(* The loop of executeJob that disposes of a run may take a waiting one.     *)
LEMMA DisposeMoves ==
  ASSUME TypeOK, NEW r \in Runs, DisposeRun(r)
  PROVE  /\ runPc'[r] = "left"
         /\ \A s \in Runs : s # r => \/ runPc'[s] = runPc[s]
                                     \/ runPc[s] = "waiting" /\ runPc'[s] = "preparing"
<1>1. runPc \in [Runs -> RunPc]
  BY DEF TypeOK
<1>2. CASE Goes(r, "left")
  BY <1>1, <1>2 DEF Goes
<1>3. CASE \E next \in FirstOf(1, {s \in RunsOf(RunJob[r]) : runPc[s] = "waiting"}) :
              runPc' = [s \in Runs |-> IF s = r THEN "left"
                                      ELSE IF s \in next THEN "preparing" ELSE runPc[s]]
  BY <1>3, FirstOfSubset
<1> QED BY <1>2, <1>3 DEF DisposeRun

(* A trial moves neither jobs nor runs.                                      *)
LEMMA TrialStepFrame ==
  ASSUME NEW p \in Plans, EndTrial(p) \/ EndTrialFault(p) \/ BillTrial(p)
  PROVE  UNCHANGED <<status, runStatus, queue, worker, execVars, runPc, retry, stops>>
<1>1. CASE EndTrial(p)
  BY <1>1 DEF EndTrial, SaveTrial
<1>2. CASE EndTrialFault(p)
  BY <1>2 DEF EndTrialFault, SaveTrial
<1>3. CASE BillTrial(p)
  BY <1>3 DEF BillTrial
<1> QED BY <1>1, <1>2, <1>3

-----------------------------------------------------------------------------
(* StageInv is inductive.                                                    *)

LEMMA StageInit == Init => StageInv
  BY ConstantsAssumption DEF Init, StageInv, Stage, BeforeRuns, Unclaimed, RunsOf

(* What keeps the stage of a job whose own handler does not step.            *)
LEMMA StageKept ==
  ASSUME NEW j \in Jobs, Stage(j),
         pc'[j] = pc[j], queue'[j] = queue[j], host'[j] = host[j],
         status'[j] \in Unclaimed => status'[j] = status[j],
         \/ \A r \in RunsOf(j) : runPc'[r] = runPc[r]
         \/ \E r \in RunsOf(j) : runPc[r] \notin {"waiting", "left"}
  PROVE  Stage(j)'
  BY DEF Stage, Unclaimed, RunsOf

LEMMA StageRequests ==
  ASSUME TypeOK, StageInv, NEW j \in Jobs, Create(j) \/ Cancel(j) \/ Delete(j)
  PROVE  StageInv'
<1>1. status \in [Jobs -> JobStatus] /\ queue \in [Jobs -> {"absent", "created", "active", "ended"}]
  BY DEF TypeOK
<1>2. UNCHANGED <<pc, host, runPc>>
  BY DEF Create, Cancel, Delete
<1>3. ASSUME NEW i \in Jobs PROVE Stage(i)'
  <2>1. Stage(i)
    BY DEF StageInv
  <2>2. CASE Create(j) /\ i = j
    <3>1. /\ status[j] = "absent" /\ status'[j] = "queued" /\ queue'[j] = "created"
      BY <1>1, <2>2 DEF Create
    <3> QED BY <1>2, <2>1, <2>2, <3>1 DEF Stage, BeforeRuns, Unclaimed, RunsOf
  <2>3. CASE ~(Create(j) /\ i = j)
    <3>1. /\ queue'[i] = queue[i]
          /\ status'[i] \in Unclaimed => status'[i] = status[i]
      BY <1>1, <2>3 DEF Create, Cancel, Delete, Unclaimed
    <3> QED BY <1>2, <2>1, <3>1, StageKept
  <2> QED BY <2>2, <2>3
<1> QED BY <1>3 DEF StageInv

LEMMA StageFetch ==
  ASSUME TypeOK, StageInv, NEW j \in Jobs, NEW w \in Workers, Fetch(w, j)
  PROVE  StageInv'
<1>1. /\ queue \in [Jobs -> {"absent", "created", "active", "ended"}]
      /\ pc \in [Jobs -> Pc] /\ host \in [Jobs -> Workers \cup {NoWorker}]
  BY DEF TypeOK
<1>2. UNCHANGED <<status, runPc>>
  BY DEF Fetch
<1>3. ASSUME NEW i \in Jobs PROVE Stage(i)'
  <2>1. Stage(i)
    BY DEF StageInv
  <2>2. CASE i = j
    <3>1. queue[j] = "created" /\ queue'[j] = "active" /\ pc'[j] = "fetched"
      BY <1>1 DEF Fetch
    <3> QED BY <1>2, <2>1, <2>2, <3>1 DEF Stage, BeforeRuns, Unclaimed, RunsOf
  <2>3. CASE i # j
    <3>1. queue'[i] = queue[i] /\ pc'[i] = pc[i] /\ host'[i] = host[i]
      BY <1>1, <2>3 DEF Fetch
    <3> QED BY <1>2, <2>1, <3>1, StageKept
  <2> QED BY <2>2, <2>3
<1> QED BY <1>3 DEF StageInv

LEMMA StageBeats ==
  ASSUME TypeOK, StageInv, NEW j \in Jobs,
         \/ QueueExpire(j) \/ Heartbeat(j) \/ HeartbeatAges(j) \/ JobTimeout(j)
         \/ HeartbeatFault(j)
  PROVE  StageInv'
<1>1. UNCHANGED <<status, pc, host, runPc>>
  BY DEF QueueExpire, Heartbeat, HeartbeatAges, JobTimeout, HeartbeatFault
<1>2. \A i \in Jobs : \/ queue'[i] = queue[i]
                      \/ queue[i] = "active" /\ queue'[i] = "ended"
  BY DEF TypeOK, QueueExpire, Heartbeat, HeartbeatAges, JobTimeout, HeartbeatFault
<1>3. ASSUME NEW i \in Jobs PROVE Stage(i)'
  BY <1>1, <1>2 DEF StageInv, Stage, RunsOf
<1> QED BY <1>3 DEF StageInv

LEMMA StageJobSteps ==
  ASSUME TypeOK, StageInv, NEW j \in Jobs, JobStep(j) \/ ClaimFault(j) \/ FinishFault(j)
  PROVE  StageInv'
<1>1. /\ queue \in [Jobs -> {"absent", "created", "active", "ended"}]
      /\ status \in [Jobs -> JobStatus] /\ pc \in [Jobs -> Pc] /\ runPc \in [Runs -> RunPc]
      /\ result \in [Jobs -> EndedStatus]
  BY DEF TypeOK
<1>2. host' = host
  BY DEF JobStep, ClaimFault, FinishFault, EnterRun, Claim, BeginExecution, StartFails,
     ExecutionSettles, FinishJob, HandlerEnds
<1>3. ASSUME NEW i \in Jobs, i # j PROVE Stage(i)'
  <2>1. Stage(i)
    BY DEF StageInv
  <2>2. pc'[i] = pc[i] /\ queue'[i] = queue[i] /\ status'[i] = status[i]
    BY <1>1, <1>3 DEF JobStep, ClaimFault, FinishFault, EnterRun, Claim, BeginExecution,
       StartFails, ExecutionSettles, FinishJob, HandlerEnds
  <2>3. \A r \in RunsOf(i) : runPc'[r] = runPc[r]
    <3>1. CASE BeginExecution(j)
      <4>1. CASE \E rs \in FirstOf(BenchConcurrency, RunsOf(j)) : StartRuns(rs)
        BY <1>3, <4>1, FirstOfSubset DEF StartRuns, RunsOf
      <4> QED BY <3>1, <4>1 DEF BeginExecution
    <3>2. CASE ~BeginExecution(j)
      BY <3>2 DEF JobStep, ClaimFault, FinishFault, EnterRun, Claim, StartFails,
         ExecutionSettles, FinishJob
    <3> QED BY <3>1, <3>2
  <2> QED BY <1>2, <2>1, <2>2, <2>3, StageKept
<1>4. Stage(j)'
  <2>1. Stage(j)
    BY DEF StageInv
  <2>2. CASE ClaimFault(j) \/ EnterRun(j)
    <3>1. UNCHANGED <<status, runPc>> /\ pc[j] \in {"fetched", "claiming"}
      BY <2>2 DEF ClaimFault, EnterRun
    <3>2. \/ queue'[j] = queue[j] /\ pc'[j] = "claiming"
          \/ queue'[j] = "ended" /\ pc'[j] = "over"
      BY <1>1, <2>2 DEF ClaimFault, EnterRun, HandlerEnds
    <3> QED BY <1>2, <2>1, <3>1, <3>2 DEF Stage, BeforeRuns, Unclaimed, RunsOf
  <2>3. CASE Claim(j)
    <3>1. UNCHANGED runPc /\ pc[j] = "claiming"
      BY <2>3 DEF Claim
    <3>2. \/ queue'[j] = queue[j] /\ pc'[j] = "starting" /\ status'[j] = "running"
          \/ queue'[j] = "ended" /\ pc'[j] = "over" /\ status'[j] = status[j]
      BY <1>1, <2>3 DEF Claim, HandlerEnds
    <3> QED BY <1>2, <2>1, <3>1, <3>2 DEF Stage, BeforeRuns, Unclaimed, RunsOf
  <2>4. CASE BeginExecution(j) \/ StartFails(j)
    <3>1. UNCHANGED <<status, queue>> /\ pc[j] = "starting" /\ pc'[j] = "executing"
      BY <1>1, <2>4 DEF BeginExecution, StartFails
    <3> QED BY <1>2, <2>1, <3>1 DEF Stage, BeforeRuns, Unclaimed, RunsOf
  <2>5. CASE ExecutionSettles(j)
    <3>1. UNCHANGED <<status, queue, runPc>> /\ pc[j] = "executing" /\ pc'[j] = "settled"
      BY <1>1, <2>5 DEF ExecutionSettles
    <3> QED BY <1>2, <2>1, <3>1 DEF Stage, BeforeRuns, Unclaimed, RunsOf
  <2>6. CASE FinishJob(j) \/ FinishFault(j)
    <3>1. UNCHANGED runPc /\ pc[j] = "settled"
      BY <2>6 DEF FinishJob, FinishFault
    <3>2. \/ queue'[j] = queue[j] /\ pc'[j] = "settled"
          \/ queue'[j] = "ended" /\ pc'[j] = "over"
      BY <1>1, <2>6, <3>1 DEF FinishJob, FinishFault, HandlerEnds
    <3>3. status'[j] = status[j] \/ status'[j] \in EndedStatus
      BY <1>1, <2>6 DEF FinishJob, FinishFault
    <3> QED BY <1>2, <2>1, <3>1, <3>2, <3>3 DEF Stage, BeforeRuns, Unclaimed, RunsOf
  <2> QED BY <2>2, <2>3, <2>4, <2>5, <2>6 DEF JobStep
<1> QED BY <1>3, <1>4 DEF StageInv

LEMMA StageRunSteps ==
  ASSUME TypeOK, StageInv, NEW r \in Runs, RunStep(r) \/ RunFault(r)
  PROVE  StageInv'
<1>1. ASSUME NEW i \in Jobs PROVE Stage(i)'
  <2>1. Stage(i)
    BY DEF StageInv
  <2>2. /\ UNCHANGED <<status, queue, pc, host>> /\ runPc[r] \notin {"waiting", "left"}
        /\ \A s \in Runs : RunJob[s] # RunJob[r] => runPc'[s] = runPc[s]
    BY RunStepFrame
  <2>3. \/ \A s \in RunsOf(i) : runPc'[s] = runPc[s]
        \/ \E s \in RunsOf(i) : runPc[s] \notin {"waiting", "left"}
    BY <2>2 DEF RunsOf
  <2> QED BY <2>1, <2>2, <2>3, StageKept
<1> QED BY <1>1 DEF StageInv

LEMMA StageWorkers ==
  ASSUME TypeOK, StageInv, NEW w \in Workers,
         Recover(w) \/ StopWorker(w) \/ StartWorker(w)
  PROVE  StageInv'
<1>1. UNCHANGED <<pc, queue, host, runPc>>
  BY DEF Recover, StopWorker, StartWorker
<1>2. \A i \in Jobs : status'[i] \in Unclaimed => status'[i] = status[i]
  BY DEF TypeOK, Recover, StopWorker, StartWorker, Unclaimed
<1>3. ASSUME NEW i \in Jobs PROVE Stage(i)'
  BY <1>1, <1>2, StageKept DEF StageInv
<1> QED BY <1>3 DEF StageInv

LEMMA StageDies ==
  ASSUME TypeOK, StageInv, NEW w \in Workers, Dies(w) PROVE StageInv'
<1>1. UNCHANGED <<status, queue, host>>
  BY DEF Dies
<1>2. ASSUME NEW i \in Jobs PROVE Stage(i)'
  <2>1. Stage(i)
    BY DEF StageInv
  <2>2. CASE host[i] = w
    <3>1. pc'[i] = "over" /\ \A r \in RunsOf(i) : runPc'[r] = "left"
      BY <2>2 DEF Dies, RunsOf
    <3>2. pc[i] # "none"
      BY <2>1, <2>2, ConstantsAssumption DEF Stage
    <3> QED BY <1>1, <2>1, <3>1, <3>2 DEF Stage, BeforeRuns, RunsOf
  <2>3. CASE host[i] # w
    <3>1. pc'[i] = pc[i] /\ \A r \in RunsOf(i) : runPc'[r] = runPc[r]
      BY <2>3 DEF Dies, RunsOf
    <3> QED BY <1>1, <2>1, <3>1, StageKept
  <2> QED BY <2>2, <2>3
<1> QED BY <1>2 DEF StageInv

LEMMA StageStep == ASSUME TypeOK, StageInv, [Next]_vars PROVE StageInv'
<1>1. CASE UNCHANGED vars
  BY <1>1 DEF StageInv, Stage, RunsOf
<1>2. CASE \E p \in Plans : EndTrial(p) \/ EndTrialFault(p) \/ BillTrial(p)
  <2>1. UNCHANGED <<status, queue, pc, host, runPc>>
    BY <1>2, TrialStepFrame
  <2> QED BY <2>1 DEF StageInv, Stage, RunsOf
<1>3. CASE \E w \in Workers : \/ Recover(w) \/ StopWorker(w) \/ ExitWorker(w)
                              \/ CrashWorker(w) \/ StartWorker(w)
  BY <1>3, StageWorkers, StageDies DEF ExitWorker, CrashWorker
<1> QED BY <1>1, <1>2, <1>3, NextCases, StageRequests, StageFetch, StageBeats, StageJobSteps,
        StageRunSteps

LEMMA StageInvariant == Spec => [](TypeOK /\ StageInv)
  BY StageInit, StageStep, TypeInit, TypeStep, PTL DEF Spec

-----------------------------------------------------------------------------
(* LoopsInv is inductive.                                                    *)

LEMMA LoopsInit == Init => LoopsInv
  BY ConstantsAssumption DEF Init, LoopsInv, Loops, Billing, Fresh, PlansOf

(* A step that leaves the trials alone, and lets a run start to prepare that *)
(* was waiting, or go on to a stage without trials of its own.               *)
LoopVars == <<todo, active, retry, trial, bills, attempts, ledger>>
Idle == {"left", "disposing", "failing"}

LEMMA LoopsKept ==
  ASSUME LoopsInv, UNCHANGED LoopVars,
         \A r \in Runs : \/ runPc'[r] = runPc[r]
                         \/ runPc'[r] \in Idle
                         \/ runPc[r] = "waiting" /\ runPc'[r] = "preparing"
                         \/ active[r] = {} /\ runPc'[r] \in {"selecting", "reporting"}
  PROVE  LoopsInv'
<1>1. ASSUME NEW r \in Runs PROVE Loops(r)'
  BY DEF LoopsInv, Loops, LoopVars, Idle, Fresh, PlansOf
<1>2. ASSUME NEW p \in Plans PROVE Billing(p)'
  BY DEF LoopsInv, Billing, LoopVars
<1> QED BY <1>1, <1>2 DEF LoopsInv

LEMMA LoopsJobSteps ==
  ASSUME TypeOK, StageInv, LoopsInv, NEW j \in Jobs,
         \/ Create(j) \/ Cancel(j) \/ Delete(j)
         \/ QueueExpire(j) \/ Heartbeat(j) \/ HeartbeatAges(j) \/ JobTimeout(j)
         \/ HeartbeatFault(j)
         \/ JobStep(j) \/ ClaimFault(j) \/ FinishFault(j)
  PROVE  LoopsInv'
<1>1. CASE BeginExecution(j)
  <2>1. UNCHANGED LoopVars /\ pc[j] = "starting"
    BY <1>1 DEF BeginExecution, LoopVars
  <2>2. \A r \in RunsOf(j) : runPc[r] = "waiting"
    BY <2>1 DEF StageInv, Stage, BeforeRuns
  <2>3. \A r \in Runs : runPc'[r] = runPc[r] \/ (runPc[r] = "waiting" /\ runPc'[r] = "preparing")
    BY <1>1, <2>2, FirstOfSubset DEF BeginExecution, StartRuns
  <2> QED BY <2>1, <2>3, LoopsKept
<1>2. CASE ~BeginExecution(j)
  <2>1. UNCHANGED <<LoopVars, runPc>>
    BY <1>2 DEF LoopVars, Create, Cancel, Delete, QueueExpire, Heartbeat, HeartbeatAges,
       JobTimeout, HeartbeatFault, JobStep, ClaimFault, FinishFault, EnterRun, Claim, StartFails,
       ExecutionSettles, FinishJob
  <2> QED BY <2>1, LoopsKept
<1> QED BY <1>1, <1>2

LEMMA LoopsQuietWorkers ==
  ASSUME LoopsInv, NEW w \in Workers,
         \/ \E j \in Jobs : Fetch(w, j)
         \/ Recover(w) \/ StopWorker(w) \/ StartWorker(w)
  PROVE  LoopsInv'
<1>1. UNCHANGED <<LoopVars, runPc>>
  BY DEF LoopVars, Fetch, Recover, StopWorker, StartWorker
<1> QED BY <1>1, LoopsKept

LEMMA LoopsDies ==
  ASSUME TypeOK, LoopsInv, NEW w \in Workers, Dies(w) PROVE LoopsInv'
<1>1. UNCHANGED <<retry, bills, attempts, ledger>>
  BY DEF Dies
<1>2. ASSUME NEW r \in Runs PROVE Loops(r)'
  <2>1. Loops(r)
    BY DEF LoopsInv
  <2>2. CASE host[RunJob[r]] = w
    <3>1. runPc'[r] = "left" /\ todo'[r] = {} /\ active'[r] = {}
      BY <2>2, RunsOfJob DEF Dies
    <3>2. \A p \in PlansOf(r) : trial'[p] = "none"
      BY <2>2, RunsOfJob DEF Dies, PlansOf, JobOf
    <3> QED BY <1>1, <2>1, <3>1, <3>2 DEF Loops, PlansOf
  <2>3. CASE host[RunJob[r]] # w
    <3>1. runPc'[r] = runPc[r] /\ todo'[r] = todo[r] /\ active'[r] = active[r]
      BY <2>3, RunsOfJob DEF Dies
    <3>2. \A p \in PlansOf(r) : trial'[p] = trial[p]
      BY <2>3, RunsOfJob DEF Dies, PlansOf, JobOf
    <3> QED BY <1>1, <2>1, <3>1, <3>2 DEF Loops, PlansOf, Fresh
  <2> QED BY <2>2, <2>3
<1>3. ASSUME NEW p \in Plans PROVE Billing(p)'
  <2>1. trial'[p] \in {"none", trial[p]}
    BY DEF Dies
  <2> QED BY <1>1, <2>1 DEF LoopsInv, Billing
<1> QED BY <1>2, <1>3 DEF LoopsInv

-----------------------------------------------------------------------------
(* The steps of a run that leave its trials alone.                           *)
LEMMA LoopsQuietRuns ==
  ASSUME TypeOK, LoopsInv, NEW r \in Runs,
         \/ HarnessFails(r) \/ TrialsSettle(r) \/ ReportRun(r) \/ FailRun(r) \/ DisposeRun(r)
         \/ RunFault(r)
  PROVE  LoopsInv'
<1>1. runPc \in [Runs -> RunPc]
  BY DEF TypeOK
<1>2. UNCHANGED LoopVars
  BY DEF LoopVars, HarnessFails, TrialsSettle, ReportRun, FailRun, DisposeRun, RunFault
<1>3. CASE DisposeRun(r)
  <2>1. \A s \in Runs : \/ runPc'[s] = runPc[s] \/ runPc'[s] \in Idle
                        \/ runPc[s] = "waiting" /\ runPc'[s] = "preparing"
    BY <1>3, DisposeMoves DEF Idle
  <2> QED BY <1>2, <2>1, LoopsKept
<1>4. CASE TrialsSettle(r)
  <2>1. \A s \in Runs : \/ runPc'[s] = runPc[s] \/ runPc'[s] \in Idle
                        \/ active[s] = {} /\ runPc'[s] \in {"selecting", "reporting"}
    BY <1>1, <1>4 DEF TrialsSettle, Goes, Idle
  <2> QED BY <1>2, <2>1, LoopsKept
<1>5. CASE HarnessFails(r) \/ ReportRun(r) \/ FailRun(r) \/ RunFault(r)
  <2>1. \A s \in Runs : runPc'[s] = runPc[s] \/ runPc'[s] \in Idle
    BY <1>1, <1>5 DEF HarnessFails, ReportRun, FailRun, RunFault, Goes, Idle
  <2> QED BY <1>2, <2>1, LoopsKept
<1> QED BY <1>3, <1>4, <1>5

(* EvalRunner.run over plans that were not billed and are not running.       *)
LEMMA LoopsStart ==
  ASSUME TypeOK, LoopsInv, NEW r \in Runs, NEW to \in {"trials", "retrying"},
         NEW ps \in SUBSET PlansOf(r), StartTrials(r, to, ps),
         UNCHANGED <<retry, bills, attempts, ledger>>,
         active[r] = {},
         \A p \in ps : bills[p] = 0 /\ (attempts[p] = 1 => ledger[p] = <<>>)
  PROVE  LoopsInv'
<1>1. /\ runPc \in [Runs -> RunPc] /\ todo \in [Runs -> SUBSET Plans]
      /\ active \in [Runs -> SUBSET Plans] /\ trial \in [Plans -> {"none", "started", "billed"}]
  BY DEF TypeOK
<1>2. CASE Goes(r, "failing") /\ UNCHANGED <<todo, active, trial>>
  <2>1. \A s \in Runs : runPc'[s] = runPc[s] \/ runPc'[s] \in Idle
    BY <1>1, <1>2 DEF Goes, Idle
  <2> QED BY <1>2, <2>1, LoopsKept DEF LoopVars
<1>3. ASSUME Goes(r, to), NEW first \in FirstOf(TrialConcurrency, ps),
             todo' = [todo EXCEPT ![r] = ps \ first],
             active' = [active EXCEPT ![r] = first],
             trial' = [p \in Plans |-> IF p \in first THEN "started" ELSE trial[p]]
      PROVE  LoopsInv'
  <2>1. first \subseteq ps /\ first \subseteq PlansOf(r) /\ PlansOf(r) \subseteq Plans
    BY FirstOfSubset, PlansOfSubset
  <2>2. runPc'[r] = to /\ todo'[r] = ps \ first /\ active'[r] = first
    BY <1>1, <1>3 DEF Goes
  <2>3. \A s \in Runs : s # r => runPc'[s] = runPc[s] /\ todo'[s] = todo[s] /\ active'[s] = active[s]
    BY <1>1, <1>3 DEF Goes
  <2>4. \A p \in Plans : trial'[p] = IF p \in first THEN "started" ELSE trial[p]
    BY <1>3
  <2>5. \A p \in PlansOf(r) : trial[p] = "none"
    BY DEF LoopsInv, Loops
  <2>6. Loops(r)'
    <3>1. Loops(r)
      BY DEF LoopsInv
    <3> QED BY <2>1, <2>2, <2>4, <2>5, <3>1 DEF Loops, PlansOf
  <2>7. ASSUME NEW s \in Runs, s # r PROVE Loops(s)'
    <3>1. \A p \in PlansOf(s) : trial'[p] = trial[p]
      BY <2>1, <2>4, <2>7 DEF PlansOf
    <3>2. Loops(s)
      BY DEF LoopsInv
    <3> QED BY <2>3, <2>7, <3>1, <3>2 DEF Loops, Fresh, PlansOf
  <2>8. ASSUME NEW p \in Plans PROVE Billing(p)'
    <3>1. Billing(p)
      BY DEF LoopsInv
    <3> QED BY <2>1, <2>4, <3>1 DEF Billing
  <2> QED BY <2>6, <2>7, <2>8 DEF LoopsInv
<1> QED BY <1>2, <1>3 DEF StartTrials

LEMMA LoopsReady == ASSUME TypeOK, LoopsInv, NEW r \in Runs, HarnessReady(r) PROVE LoopsInv'
<1>1. /\ StartTrials(r, "trials", PlansOf(r)) /\ UNCHANGED <<retry, bills, attempts, ledger>>
      /\ runPc[r] = "preparing"
  BY DEF HarnessReady
<1>2. \A p \in PlansOf(r) : bills[p] = 0 /\ trial[p] = "none" /\ ledger[p] = <<>>
  BY <1>1 DEF LoopsInv, Loops, Fresh
<1>3. active[r] = {}
  BY <1>2 DEF LoopsInv, Loops
<1> QED BY <1>1, <1>2, <1>3, LoopsStart

LEMMA LoopsRetry == ASSUME TypeOK, LoopsInv, NEW r \in Runs, BeginRetry(r) PROVE LoopsInv'
<1>1. /\ StartTrials(r, "retrying", retry[r]) /\ UNCHANGED <<retry, bills, attempts, ledger>>
      /\ runPc[r] = "resetting" /\ todo[r] = {}
  BY DEF BeginRetry
<1>2. /\ retry[r] \in SUBSET PlansOf(r) /\ active[r] = {}
      /\ \A p \in retry[r] : bills[p] = 0 /\ attempts[p] = 2
  BY <1>1 DEF LoopsInv, Loops
<1> QED BY <1>1, <1>2, LoopsStart

(* What is selected was not billed: that is what the ledger says of it.      *)
LEMMA LoopsSelect == ASSUME TypeOK, LoopsInv, NEW r \in Runs, SelectRetries(r) PROVE LoopsInv'
<1> DEFINE faulty == {p \in PlansOf(r) : Retryable(p)}
<1>1. /\ runPc \in [Runs -> RunPc] /\ todo \in [Runs -> SUBSET Plans]
      /\ retry \in [Runs -> SUBSET Plans] /\ ledger \in [Plans -> Seq(Attempt)]
  BY DEF TypeOK
<1>2. /\ runPc[r] = "selecting" /\ runPc'[r] \in {"resetting", "reporting"}
      /\ todo'[r] = faulty /\ retry'[r] = faulty
  BY <1>1 DEF SelectRetries, Goes
<1>3. /\ UNCHANGED <<active, trial, bills, attempts, ledger>>
      /\ \A s \in Runs : s # r => /\ runPc'[s] = runPc[s] /\ todo'[s] = todo[s]
                                  /\ retry'[s] = retry[s]
  BY <1>1 DEF SelectRetries, Goes
<1>4. \A p \in faulty : bills[p] = 0
  <2>1. TAKE p \in faulty
  <2>2. p \in Plans /\ attempts[p] = 1 /\ 1 \in DOMAIN ledger[p] /\ ~ledger[p][1].billed
    BY <2>1, PlansOfSubset DEF Retryable
  <2>3. ledger[p] # <<>>
    BY <2>2
  <2> QED BY <2>2, <2>3 DEF LoopsInv, Billing
<1>5. active[r] = {} /\ \A p \in PlansOf(r) : trial[p] = "none"
  BY <1>2 DEF LoopsInv, Loops
<1>6. faulty \subseteq PlansOf(r)
  OBVIOUS
<1>7. Loops(r)'
  BY <1>2, <1>3, <1>4, <1>5, <1>6 DEF Loops, PlansOf
<1>8. ASSUME NEW s \in Runs, s # r PROVE Loops(s)'
  BY <1>3, <1>8 DEF LoopsInv, Loops, Fresh, PlansOf
<1>9. ASSUME NEW p \in Plans PROVE Billing(p)'
  BY <1>3 DEF LoopsInv, Billing
<1> QED BY <1>7, <1>8, <1>9 DEF LoopsInv

LEMMA LoopsReset == ASSUME TypeOK, LoopsInv, NEW r \in Runs, ResetPlan(r) PROVE LoopsInv'
<1>1. todo \in [Runs -> SUBSET Plans] /\ attempts \in [Plans -> 1..2]
  BY DEF TypeOK
<1>2. runPc[r] = "resetting" /\ UNCHANGED <<runPc, active, retry, trial, bills, ledger>>
  BY DEF ResetPlan
<1>3. PICK p \in todo[r] :
         /\ todo' = [todo EXCEPT ![r] = @ \ {p}]
         /\ IF attempts[p] = 1 THEN attempts' = [attempts EXCEPT ![p] = 2]
            ELSE UNCHANGED attempts
  BY DEF ResetPlan
<1>4. p \in Plans /\ p \in PlansOf(r)
  BY <1>1, <1>3 DEF LoopsInv, Loops
<1>5. /\ todo'[r] = todo[r] \ {p} /\ attempts'[p] = 2
      /\ \A q \in Plans : q # p => attempts'[q] = attempts[q]
      /\ \A s \in Runs : s # r => todo'[s] = todo[s]
  BY <1>1, <1>3, <1>4
<1>6. Loops(r)'
  <2>1. Loops(r) /\ active[r] = {}
    BY <1>2 DEF LoopsInv, Loops
  <2>2. PlansOf(r) \subseteq Plans
    BY PlansOfSubset
  <2> QED BY <1>2, <1>5, <2>1, <2>2 DEF Loops, PlansOf
<1>7. ASSUME NEW s \in Runs, s # r PROVE Loops(s)'
  <2>1. p \notin PlansOf(s) /\ PlansOf(s) \subseteq Plans
    BY <1>4, <1>7, PlansOfSubset DEF PlansOf
  <2>2. \A q \in PlansOf(s) : attempts'[q] = attempts[q]
    BY <1>5, <2>1
  <2>3. Loops(s)
    BY DEF LoopsInv
  <2> QED BY <1>2, <1>5, <1>7, <2>2, <2>3 DEF Loops, Fresh, PlansOf
<1>8. ASSUME NEW q \in Plans PROVE Billing(q)'
  <2>1. Billing(q)
    BY DEF LoopsInv
  <2> QED BY <1>2, <1>5, <2>1 DEF Billing
<1> QED BY <1>6, <1>7, <1>8 DEF LoopsInv

-----------------------------------------------------------------------------
(* The steps of a trial.                                                     *)

LEMMA LoopsBill == ASSUME TypeOK, LoopsInv, NEW p \in Plans, BillTrial(p) PROVE LoopsInv'
<1>1. /\ trial \in [Plans -> {"none", "started", "billed"}] /\ bills \in [Plans -> Nat]
      /\ PlanRun[p] \in Runs /\ p \in PlansOf(PlanRun[p])
  BY ConstantsAssumption DEF TypeOK, PlansOf
<1>2. trial[p] = "started" /\ UNCHANGED <<runPc, todo, active, retry, attempts, ledger>>
  BY DEF BillTrial
<1>3. /\ trial'[p] = "billed" /\ bills'[p] = bills[p] + 1
      /\ \A q \in Plans : q # p => trial'[q] = trial[q] /\ bills'[q] = bills[q]
  BY <1>1 DEF BillTrial
<1>4. p \in active[PlanRun[p]]
  BY <1>1, <1>2 DEF LoopsInv, Loops
<1>5. ASSUME NEW r \in Runs PROVE Loops(r)'
  <2>1. Loops(r)
    BY DEF LoopsInv
  <2>2. PlansOf(r) \subseteq Plans
    BY PlansOfSubset
  <2>3. CASE r = PlanRun[p]
    <3>1. p \notin todo[r] /\ runPc[r] \notin {"waiting", "preparing", "resetting"}
      BY <1>1, <1>2, <1>4, <2>1, <2>3 DEF Loops, Fresh
    <3> QED BY <1>2, <1>3, <1>4, <2>1, <2>2, <2>3, <3>1 DEF Loops, PlansOf
  <2>4. CASE r # PlanRun[p]
    <3>1. \A q \in PlansOf(r) : trial'[q] = trial[q] /\ bills'[q] = bills[q]
      BY <1>3, <2>2, <2>4 DEF PlansOf
    <3> QED BY <1>2, <2>1, <3>1 DEF Loops, Fresh, PlansOf
  <2> QED BY <2>3, <2>4
<1>6. ASSUME NEW q \in Plans PROVE Billing(q)'
  <2>1. Billing(q) /\ Billing(p)
    BY DEF LoopsInv
  <2>2. CASE q = p
    <3>1. bills[p] = 0
      BY <1>2, <2>1 DEF Billing
    <3>2. attempts[p] = 1 => ledger[p] = <<>>
      BY <1>1, <1>4 DEF LoopsInv, Loops
    <3> QED BY <1>2, <1>3, <2>2, <3>1, <3>2 DEF Billing
  <2>3. CASE q # p
    BY <1>2, <1>3, <2>1, <2>3 DEF Billing
  <2> QED BY <2>2, <2>3
<1> QED BY <1>5, <1>6 DEF LoopsInv

(* The result of a trial in flight, if one is saved, is the first entry of   *)
(* the first attempt, or not the first.                                      *)
Saved(p) == /\ \A q \in Plans : q # p => ledger'[q] = ledger[q]
            /\ \/ ledger'[p] = ledger[p]
               \/ /\ ledger[p] = <<>> /\ ledger'[p] # <<>>
                  /\ ledger'[p][1].billed = (trial[p] = "billed")
               \/ ledger[p] # <<>> /\ ledger'[p] # <<>> /\ ledger'[p][1] = ledger[p][1]

LEMMA SavedByTrial ==
  ASSUME TypeOK, NEW p \in Plans, EndTrial(p) \/ EndTrialFault(p)
  PROVE  Saved(p) /\ UNCHANGED <<attempts, bills>>
<1>1. ledger \in [Plans -> Seq(Attempt)]
  BY DEF TypeOK
<1>2. CASE UNCHANGED dbVars
  BY <1>2 DEF Saved, EndTrial, EndTrialFault
<1>3. ASSUME NEW res \in Results, res.billed = (trial[p] = "billed"), SaveTrial(p, res)
      PROVE  Saved(p) /\ UNCHANGED <<attempts, bills>>
  <2> DEFINE a == [outcome |-> DeriveTrialOutcome(res), billed |-> res.billed]
  <2>1. ledger' = [ledger EXCEPT ![p] = Append(ledger[p], a)] /\ ledger[p] \in Seq(Attempt)
    BY <1>1, <1>3 DEF SaveTrial
  <2>2. ledger'[p] = Append(ledger[p], a) /\ \A q \in Plans : q # p => ledger'[q] = ledger[q]
    BY <1>1, <2>1
  <2>3. a \in Attempt /\ a.billed = (trial[p] = "billed")
    BY <1>3, ConstantsAssumption, DeriveType DEF Attempt, TrialResult
  <2>4. ledger'[p] # <<>>
    BY <2>1, <2>2, <2>3, AppendProperties
  <2>5. Saved(p)
    <3>1. CASE ledger[p] = <<>>
      <4>1. ledger'[p][1] = a
        BY <2>1, <2>2, <3>1
      <4> QED BY <2>2, <2>3, <2>4, <3>1, <4>1 DEF Saved
    <3>2. CASE ledger[p] # <<>>
      <4>1. ledger'[p][1] = ledger[p][1]
        BY <2>1, <2>2, <3>2, AppendProperties, EmptySeq
      <4> QED BY <2>2, <2>4, <3>2, <4>1 DEF Saved
    <3> QED BY <3>1, <3>2
  <2> QED BY <1>3, <2>5 DEF SaveTrial, EndTrial, EndTrialFault
<1> QED BY <1>2, <1>3 DEF EndTrial, EndTrialFault

(* Its loop takes another plan, or none.                                     *)
Takes(p) ==
  LET r == PlanRun[p] IN
  \/ /\ UNCHANGED todo
     /\ active' = [active EXCEPT ![r] = @ \ {p}]
     /\ trial' = [trial EXCEPT ![p] = "none"]
  \/ \E q \in todo[r] :
        /\ todo' = [todo EXCEPT ![r] = @ \ {q}]
        /\ active' = [active EXCEPT ![r] = (@ \ {p}) \cup {q}]
        /\ trial' = [trial EXCEPT ![p] = "none", ![q] = "started"]

LEMMA LoopsTrial ==
  ASSUME TypeOK, LoopsInv, NEW p \in Plans, EndTrial(p) \/ EndTrialFault(p)
  PROVE  LoopsInv'
<1> DEFINE R == PlanRun[p]
<1>1. /\ todo \in [Runs -> SUBSET Plans] /\ active \in [Runs -> SUBSET Plans]
      /\ trial \in [Plans -> {"none", "started", "billed"}]
      /\ R \in Runs /\ p \in PlansOf(R)
  BY ConstantsAssumption DEF TypeOK, PlansOf
<1>2. trial[p] # "none" /\ UNCHANGED <<runPc, retry>>
  BY TrialStepFrame DEF EndTrial, EndTrialFault
<1>3. Takes(p)
  BY DEF EndTrial, EndTrialFault, Advance, LoopThrows, Takes
<1>4. Saved(p) /\ UNCHANGED <<attempts, bills>>
  BY SavedByTrial
<1>5. Loops(R)
  BY <1>1 DEF LoopsInv
<1>6. p \in active[R] /\ p \notin todo[R]
  BY <1>1, <1>2, <1>5 DEF Loops
<1>7. runPc[R] \notin {"waiting", "preparing", "selecting", "resetting", "reporting"}
  BY <1>1, <1>2, <1>5, <1>6 DEF Loops, Fresh
<1>8. attempts[p] = 1 => ledger[p] = <<>>
  BY <1>5, <1>6 DEF Loops
<1>9. \A s \in Runs : s # R => todo'[s] = todo[s] /\ active'[s] = active[s]
  BY <1>1, <1>3 DEF Takes
<1>10. \A q \in Plans : \/ trial'[q] = trial[q] \/ trial'[q] = "none"
                        \/ q \in todo[R] /\ trial'[q] = "started"
  BY <1>1, <1>3 DEF Takes
<1>11. ASSUME NEW s \in Runs, s # R PROVE Loops(s)'
  <2>1. Loops(s) /\ PlansOf(s) \subseteq Plans /\ p \notin PlansOf(s)
    BY <1>11, PlansOfSubset DEF LoopsInv, PlansOf
  <2>2. \A q \in PlansOf(s) : q # p /\ q \notin todo[R]
    BY <1>5, <1>11, <2>1 DEF Loops, PlansOf
  <2>3. \A q \in PlansOf(s) : trial'[q] = trial[q]
    <3>1. TAKE q \in PlansOf(s)
    <3>2. q \in Plans /\ q # p /\ q \notin todo[R]
      BY <2>1, <2>2, <3>1
    <3> QED BY <1>1, <1>3, <3>2 DEF Takes
  <2>4. \A q \in PlansOf(s) : ledger'[q] = ledger[q]
    BY <1>4, <2>1, <2>2 DEF Saved
  <2> QED BY <1>2, <1>4, <1>9, <1>11, <2>1, <2>3, <2>4 DEF Loops, Fresh, PlansOf
<1>12. Loops(R)'
  <2>1. PlansOf(R) \subseteq Plans
    BY <1>1, PlansOfSubset
  <2>2. \A q \in PlansOf(R) : q # p => ledger'[q] = ledger[q]
    BY <1>4, <2>1 DEF Saved
  <2>3. CASE /\ UNCHANGED todo
             /\ active' = [active EXCEPT ![R] = @ \ {p}]
             /\ trial' = [trial EXCEPT ![p] = "none"]
    <3>1. /\ todo'[R] = todo[R] /\ active'[R] = active[R] \ {p}
          /\ \A q \in PlansOf(R) : trial'[q] = IF q = p THEN "none" ELSE trial[q]
      BY <1>1, <2>1, <2>3
    <3> QED BY <1>2, <1>4, <1>5, <1>6, <1>7, <2>2, <3>1 DEF Loops, PlansOf
  <2>4. CASE \E q \in todo[R] :
                /\ todo' = [todo EXCEPT ![R] = @ \ {q}]
                /\ active' = [active EXCEPT ![R] = (@ \ {p}) \cup {q}]
                /\ trial' = [trial EXCEPT ![p] = "none", ![q] = "started"]
    <3>1. PICK t \in todo[R] :
                /\ todo' = [todo EXCEPT ![R] = @ \ {t}]
                /\ active' = [active EXCEPT ![R] = (@ \ {p}) \cup {t}]
                /\ trial' = [trial EXCEPT ![p] = "none", ![t] = "started"]
      BY <2>4
    <3>2. t # p /\ t \in Plans /\ t \in PlansOf(R)
      BY <1>5, <1>6, <2>1, <3>1 DEF Loops
    <3>3. /\ todo'[R] = todo[R] \ {t} /\ active'[R] = (active[R] \ {p}) \cup {t}
          /\ \A q \in PlansOf(R) : trial'[q] = IF q = t THEN "started"
                                               ELSE IF q = p THEN "none" ELSE trial[q]
      BY <1>1, <2>1, <3>1, <3>2
    <3> QED BY <1>2, <1>4, <1>5, <1>6, <1>7, <2>2, <3>2, <3>3 DEF Loops, PlansOf
  <2> QED BY <1>3, <2>3, <2>4 DEF Takes
<1>13. ASSUME NEW q \in Plans PROVE Billing(q)'
  <2>1. Billing(q)
    BY DEF LoopsInv
  <2>2. trial'[q] = "started" => bills[q] = 0
    BY <1>5, <1>10, <2>1 DEF Loops, Billing
  <2>3. CASE q = p
    <3>1. CASE ledger'[p] = ledger[p] \/ ledger[p] # <<>>
      BY <1>4, <1>8, <2>1, <2>2, <2>3, <3>1 DEF Saved, Billing
    <3>2. CASE ledger[p] = <<>> /\ ledger'[p][1].billed = (trial[p] = "billed")
      <4>1. ~ledger'[p][1].billed => trial[p] = "started"
        BY <1>1, <1>2, <3>2
      <4> QED BY <1>4, <2>1, <2>2, <2>3, <4>1 DEF Billing
    <3> QED BY <1>4, <3>1, <3>2 DEF Saved
  <2>4. CASE q # p
    BY <1>4, <2>1, <2>2, <2>4 DEF Saved, Billing
  <2> QED BY <2>3, <2>4
<1> QED BY <1>11, <1>12, <1>13 DEF LoopsInv

LEMMA LoopsStep == ASSUME TypeOK, StageInv, LoopsInv, [Next]_vars PROVE LoopsInv'
<1>1. CASE UNCHANGED vars
  BY <1>1, LoopsKept DEF LoopVars
<1>2. CASE \E r \in Runs : RunStep(r) \/ RunFault(r)
  BY <1>2, LoopsQuietRuns, LoopsReady, LoopsRetry, LoopsSelect, LoopsReset DEF RunStep
<1>3. CASE \E w \in Workers : \/ Recover(w) \/ StopWorker(w) \/ ExitWorker(w)
                              \/ CrashWorker(w) \/ StartWorker(w)
  BY <1>3, LoopsQuietWorkers, LoopsDies DEF ExitWorker, CrashWorker
<1>4. CASE \E p \in Plans : EndTrial(p) \/ EndTrialFault(p) \/ BillTrial(p)
  BY <1>4, LoopsTrial, LoopsBill
<1>5. CASE \E j \in Jobs, w \in Workers : Fetch(w, j)
  BY <1>5, LoopsQuietWorkers
<1> QED BY <1>1, <1>2, <1>3, <1>4, <1>5, NextCases, LoopsJobSteps

LEMMA LoopsInvariant == Spec => [](TypeOK /\ StageInv /\ LoopsInv)
<1>1. TypeOK /\ StageInv /\ LoopsInv /\ [Next]_vars => LoopsInv'
  BY LoopsStep
<1> QED BY <1>1, LoopsInit, StageInvariant, PTL DEF Spec

(* No planned trial is paid for twice, however often its worker, the queue,  *)
(* the database or the retry of preparation faults come back to it.          *)
THEOREM BilledOnce == Spec => []EachPlanBilledOnce
<1>1. LoopsInv => EachPlanBilledOnce
  BY DEF LoopsInv, Billing, EachPlanBilledOnce
<1> QED BY <1>1, LoopsInvariant, PTL

-----------------------------------------------------------------------------
(* RowsInv is inductive.                                                     *)

LEMMA RowsInit == Init => RowsInv
  BY ConstantsAssumption DEF Init, RowsInv, Row

(* A step that leaves the rows alone and takes no run back to its trials.    *)
LEMMA RowKept ==
  ASSUME NEW r \in Runs, Row(r), runStatus'[r] = runStatus[r],
         status'[RunJob[r]] = status[RunJob[r]],
         runPc'[r] \notin {"disposing", "left"} => runPc[r] \notin {"disposing", "left"}
  PROVE  Row(r)'
  BY DEF Row

LEMMA RowsRequests ==
  ASSUME TypeOK, RowsInv, NEW j \in Jobs, Create(j) \/ Cancel(j) \/ Delete(j)
  PROVE  RowsInv'
<1>1. status \in [Jobs -> JobStatus] /\ runStatus \in [Runs -> RunStatus]
  BY DEF TypeOK
<1>2. runPc' = runPc
  BY DEF Create, Cancel, Delete
<1>3. ASSUME NEW r \in Runs PROVE Row(r)'
  <2>1. Row(r) /\ RunJob[r] \in Jobs
    BY RunsOfJob DEF RowsInv
  <2>2. CASE RunJob[r] = j
    <3>1. CASE Create(j)
      BY <1>1, <2>1, <2>2, <3>1 DEF Create, SetRuns, Row
    <3>2. CASE Cancel(j)
      BY <1>1, <1>2, <2>1, <2>2, <3>2 DEF Cancel, SetRuns, Row
    <3>3. CASE Delete(j)
      BY <1>1, <2>1, <2>2, <3>3 DEF Delete, SetRuns, Row
    <3> QED BY <3>1, <3>2, <3>3
  <2>3. CASE RunJob[r] # j
    <3>1. status'[RunJob[r]] = status[RunJob[r]] /\ runStatus'[r] = runStatus[r]
      BY <1>1, <2>1, <2>3 DEF Create, Cancel, Delete, SetRuns
    <3> QED BY <1>2, <2>1, <3>1, RowKept
  <2> QED BY <2>2, <2>3
<1> QED BY <1>3 DEF RowsInv

LEMMA RowsJobSteps ==
  ASSUME TypeOK, StageInv, RowsInv, NEW j \in Jobs, JobStep(j) \/ ClaimFault(j) \/ FinishFault(j)
  PROVE  RowsInv'
<1>1. /\ status \in [Jobs -> JobStatus] /\ runStatus \in [Runs -> RunStatus]
      /\ result \in [Jobs -> EndedStatus]
  BY DEF TypeOK
<1>2. CASE BeginExecution(j)
  <2>1. /\ UNCHANGED <<status, runStatus>> /\ pc[j] = "starting"
    BY <1>2 DEF BeginExecution
  <2>2. \A r \in RunsOf(j) : runPc[r] = "waiting"
    BY <2>1 DEF StageInv, Stage, BeforeRuns
  <2>3. \A r \in Runs : runPc'[r] \notin {"disposing", "left"} => runPc[r] \notin {"disposing", "left"}
    BY <1>2, <2>2, FirstOfSubset DEF BeginExecution, StartRuns
  <2> QED BY <2>1, <2>3, RowKept DEF RowsInv
<1>3. CASE Claim(j) /\ status[j] = "queued"
  <2>1. status' = [status EXCEPT ![j] = "running"] /\ SetRuns({j}, {"queued"}, "running")
    BY <1>3 DEF Claim
  <2>2. runPc' = runPc
    BY <1>3 DEF Claim
  <2>3. ASSUME NEW r \in Runs PROVE Row(r)'
    <3>1. Row(r) /\ RunJob[r] \in Jobs
      BY RunsOfJob DEF RowsInv
    <3>2. CASE RunJob[r] = j
      <4>1. status'[j] = "running" /\ runStatus'[r] = "running"
        BY <1>1, <1>3, <2>1, <3>1, <3>2 DEF SetRuns, Row
      <4> QED BY <3>2, <4>1 DEF Row
    <3>3. CASE RunJob[r] # j
      <4>1. status'[RunJob[r]] = status[RunJob[r]] /\ runStatus'[r] = runStatus[r]
        BY <1>1, <2>1, <3>1, <3>3 DEF SetRuns
      <4> QED BY <2>2, <3>1, <4>1, RowKept
    <3> QED BY <3>2, <3>3
  <2> QED BY <2>3 DEF RowsInv
<1>4. CASE FinishJob(j) /\ status[j] \in ExecutingStatus
  <2> DEFINE final == IF status[j] = "cancelling" THEN "cancelled" ELSE result[j]
  <2>1. /\ final \in EndedStatus /\ status' = [status EXCEPT ![j] = final]
        /\ runPc' = runPc /\ SetRuns({j}, {"queued", "running"}, final)
    BY <1>1, <1>4 DEF FinishJob
  <2>2. ASSUME NEW r \in Runs PROVE Row(r)'
    <3>1. Row(r) /\ RunJob[r] \in Jobs
      BY RunsOfJob DEF RowsInv
    <3>2. CASE RunJob[r] = j
      <4>1. runStatus[r] \in {"queued", "running"} \cup EndedStatus
        BY <1>1, <1>4, <3>1, <3>2 DEF Row
      <4>2. runStatus'[r] \in EndedStatus /\ status'[j] \in EndedStatus
        BY <1>1, <2>1, <3>2, <4>1 DEF SetRuns
      <4> QED BY <3>2, <4>2 DEF Row
    <3>3. CASE RunJob[r] # j
      <4>1. status'[RunJob[r]] = status[RunJob[r]] /\ runStatus'[r] = runStatus[r]
        BY <1>1, <2>1, <3>1, <3>3 DEF SetRuns
      <4> QED BY <2>1, <3>1, <4>1, RowKept
    <3> QED BY <3>2, <3>3
  <2> QED BY <2>2 DEF RowsInv
<1>5. CASE \/ EnterRun(j) \/ StartFails(j) \/ ExecutionSettles(j) \/ ClaimFault(j) \/ FinishFault(j)
           \/ (Claim(j) /\ status[j] # "queued")
           \/ (FinishJob(j) /\ status[j] \notin ExecutingStatus)
  <2>1. UNCHANGED <<status, runStatus, runPc>>
    BY <1>5 DEF EnterRun, StartFails, ExecutionSettles, ClaimFault, FinishFault, Claim, FinishJob
  <2> QED BY <2>1, RowKept DEF RowsInv
<1> QED BY <1>2, <1>3, <1>4, <1>5 DEF JobStep

LEMMA RowsRunSteps ==
  ASSUME TypeOK, StageInv, RowsInv, NEW r \in Runs, RunStep(r) \/ RunFault(r)
  PROVE  RowsInv'
<1>1. /\ runStatus \in [Runs -> RunStatus] /\ runPc \in [Runs -> RunPc]
  BY DEF TypeOK
<1>2. /\ runPc[r] \notin {"waiting", "left"} /\ UNCHANGED status
  BY RunStepFrame
<1>3. \A s \in Runs : runPc'[s] \notin {"disposing", "left"} => runPc[s] \notin {"disposing", "left"}
  <2>1. CASE DisposeRun(r)
    BY <2>1, DisposeMoves
  <2>2. CASE ~DisposeRun(r)
    BY <1>1, <2>2 DEF RunStep, RunFault, HarnessReady, HarnessFails, TrialsSettle, SelectRetries,
       ResetPlan, BeginRetry, ReportRun, FailRun, StartTrials, Goes
  <2> QED BY <2>1, <2>2
<1>4. CASE ReportRun(r) \/ FailRun(r)
  <2>1. \A s \in Runs : s # r => runStatus'[s] = runStatus[s]
    BY <1>1, <1>4 DEF ReportRun, FailRun, FinishBenchmarkRun
  <2>2. /\ runPc'[r] = "disposing"
        /\ \/ runStatus'[r] = runStatus[r]
           \/ runStatus'[r] \in EndedStatus
    BY <1>1, <1>4 DEF ReportRun, FailRun, FinishBenchmarkRun, Goes
  <2>3. status[RunJob[r]] \notin Unclaimed
    BY <1>2, RunsOfJob DEF StageInv, Stage
  <2>4. ASSUME NEW s \in Runs PROVE Row(s)'
    <3>1. Row(s)
      BY DEF RowsInv
    <3>2. CASE s = r
      BY <1>2, <2>2, <2>3, <3>1, <3>2 DEF Row, Unclaimed
    <3>3. CASE s # r
      BY <1>2, <1>3, <2>1, <3>1, <3>3, RowKept
    <3> QED BY <3>2, <3>3
  <2> QED BY <2>4 DEF RowsInv
<1>5. CASE ~(ReportRun(r) \/ FailRun(r))
  <2>1. UNCHANGED runStatus
    BY <1>5 DEF RunStep, RunFault, HarnessReady, HarnessFails, TrialsSettle, SelectRetries,
       ResetPlan, BeginRetry, DisposeRun
  <2> QED BY <1>2, <1>3, <2>1, RowKept DEF RowsInv
<1> QED BY <1>4, <1>5

LEMMA RowsRecover == ASSUME TypeOK, RowsInv, NEW w \in Workers, Recover(w) PROVE RowsInv'
<1>1. /\ status \in [Jobs -> JobStatus] /\ runStatus \in [Runs -> RunStatus]
  BY DEF TypeOK
<1>2. /\ status' = [j \in Jobs |-> IF j \in Stale THEN "interrupted" ELSE status[j]]
      /\ SetRuns(Stale, {"queued", "running"}, "interrupted") /\ runPc' = runPc
  BY DEF Recover
<1>3. ASSUME NEW r \in Runs PROVE Row(r)'
  <2>1. Row(r) /\ RunJob[r] \in Jobs
    BY RunsOfJob DEF RowsInv
  <2>2. CASE RunJob[r] \in Stale
    <3>1. runStatus[r] \in {"queued", "running"} \cup EndedStatus
      BY <1>1, <2>1, <2>2 DEF Row, Stale
    <3>2. runStatus'[r] \in EndedStatus /\ status'[RunJob[r]] = "interrupted"
      BY <1>1, <1>2, <2>1, <2>2, <3>1 DEF SetRuns
    <3> QED BY <3>2 DEF Row
  <2>3. CASE RunJob[r] \notin Stale
    <3>1. status'[RunJob[r]] = status[RunJob[r]] /\ runStatus'[r] = runStatus[r]
      BY <1>1, <1>2, <2>1, <2>3 DEF SetRuns
    <3> QED BY <1>2, <2>1, <3>1, RowKept
  <2> QED BY <2>2, <2>3
<1> QED BY <1>3 DEF RowsInv

LEMMA RowsDies == ASSUME TypeOK, RowsInv, NEW w \in Workers, Dies(w) PROVE RowsInv'
<1>1. UNCHANGED <<status, runStatus>>
  BY DEF Dies
<1>2. \A r \in Runs : runPc'[r] \in {runPc[r], "left"}
  BY DEF Dies
<1> QED BY <1>1, <1>2, RowKept DEF RowsInv

LEMMA RowsStep == ASSUME TypeOK, StageInv, RowsInv, [Next]_vars PROVE RowsInv'
<1>1. CASE UNCHANGED <<status, runStatus, runPc>>
  BY <1>1, RowKept DEF RowsInv
<1>2. CASE \E j \in Jobs : \/ QueueExpire(j) \/ Heartbeat(j) \/ HeartbeatAges(j) \/ JobTimeout(j)
                           \/ HeartbeatFault(j)
  BY <1>1, <1>2 DEF QueueExpire, Heartbeat, HeartbeatAges, JobTimeout, HeartbeatFault
<1>3. CASE \E j \in Jobs, w \in Workers : Fetch(w, j)
  BY <1>1, <1>3 DEF Fetch
<1>4. CASE \E p \in Plans : EndTrial(p) \/ EndTrialFault(p) \/ BillTrial(p)
  BY <1>1, <1>4, TrialStepFrame
<1>5. CASE \E w \in Workers : \/ Recover(w) \/ StopWorker(w) \/ ExitWorker(w)
                              \/ CrashWorker(w) \/ StartWorker(w)
  BY <1>1, <1>5, RowsRecover, RowsDies DEF StopWorker, StartWorker, ExitWorker, CrashWorker
<1> QED BY <1>1, <1>2, <1>3, <1>4, <1>5, NextCases, RowsRequests, RowsJobSteps, RowsRunSteps

LEMMA RowsInvariant == Spec => [](TypeOK /\ StageInv /\ LoopsInv /\ RowsInv)
<1>1. TypeOK /\ StageInv /\ RowsInv /\ [Next]_vars => RowsInv'
  BY RowsStep
<1> QED BY <1>1, RowsInit, LoopsInvariant, PTL DEF Spec

-----------------------------------------------------------------------------
(* DecisionInv is inductive.                                                 *)

LEMMA DecisionInit == Init => DecisionInv
  BY ConstantsAssumption DEF Init, DecisionInv, Decision, Progress, RunsOf

(* What the invariant says of a run besides the stage it is in.              *)
SameRun(r) ==
    /\ runThrew'[r] = runThrew[r] /\ todo'[r] = todo[r] /\ active'[r] = active[r]
    /\ retry'[r] = retry[r] /\ runStatus'[r] = runStatus[r]
    /\ \A p \in PlansOf(r) : ledger'[p] = ledger[p] /\ lifecycle'[p] = lifecycle[p]

(* A job whose own handler and runs do not step.                             *)
LEMMA DecisionKept ==
  ASSUME NEW j \in Jobs, Decision(j),
         status'[j] \in ExecutingStatus => status[j] \in ExecutingStatus,
         status'[j] = "completed" => status[j] = "completed",
         status'[j] \in ExecutingStatus \cup {"completed"} => \A r \in RunsOf(j) : SameRun(r),
         pc'[j] \in {pc[j], "over"}, result'[j] = result[j], threw'[j] = threw[j],
         \A r \in RunsOf(j) : runPc'[r] = runPc[r]
  PROVE  Decision(j)'
<1>1. \A r \in RunsOf(j) : RunJob[r] = j /\ r \in Runs
  BY DEF RunsOf
<1>2. ASSUME NEW r \in RunsOf(j), Reported(r), SameRun(r) PROVE Reported(r)'
  BY <1>2 DEF Reported, HasResult, SameRun, PlansOf
<1>3. ASSUME NEW r \in RunsOf(j), Progress(r), SameRun(r) PROVE Progress(r)'
  <2>1. runPc'[r] = runPc[r] /\ (pc'[RunJob[r]] = "executing" => pc[RunJob[r]] = "executing")
    BY <1>1
  <2>2. Reported(r) => Reported(r)'
    BY <1>2, <1>3
  <2> QED BY <1>1, <1>3, <2>1, <2>2 DEF Progress, HasResult, SameRun, PlansOf
<1>4. AllLeft(j) => AllLeft(j)'
  BY DEF AllLeft, RunsOf
<1>5. CASE status'[j] \in ExecutingStatus
  <2>1. \A r \in RunsOf(j) : Progress(r)'
    BY <1>3, <1>5 DEF Decision
  <2>2. (pc'[j] = "settled" /\ result'[j] = "completed") =>
            AllLeft(j)' /\ \A r \in RunsOf(j) : Reported(r)'
    BY <1>2, <1>4, <1>5 DEF Decision
  <2> QED BY <1>5, <2>1, <2>2 DEF Decision, RunsOf
<1>6. CASE status'[j] = "completed"
  <2>1. AllLeft(j)' /\ \A r \in RunsOf(j) : Reported(r)'
    BY <1>2, <1>4, <1>6 DEF Decision
  <2> QED BY <1>6, <2>1 DEF Decision, RunsOf
<1>7. CASE status'[j] \notin ExecutingStatus \cup {"completed"}
  BY <1>4, <1>7 DEF Decision
<1> QED BY <1>5, <1>6, <1>7

(* A run that steps has not left: the decision about its job is still to     *)
(* come, and only the progress of this run is at stake.                      *)
LEMMA RunStepOthers ==
  ASSUME TypeOK, LoopsInv, NEW r \in Runs, RunStep(r) \/ RunFault(r)
  PROVE  /\ \A s \in Runs : s # r =>
                /\ SameRun(s)
                /\ \/ runPc'[s] = runPc[s]
                   \/ runPc[s] = "waiting" /\ runPc'[s] = "preparing"
         /\ \A j \in Jobs : threw[j] => threw'[j]
         /\ \A j \in Jobs : j # RunJob[r] => threw'[j] = threw[j]
<1>1. /\ runPc \in [Runs -> RunPc] /\ threw \in [Jobs -> BOOLEAN] /\ todo \in [Runs -> SUBSET Plans]
      /\ active \in [Runs -> SUBSET Plans] /\ retry \in [Runs -> SUBSET Plans]
      /\ runThrew \in [Runs -> BOOLEAN] /\ runStatus \in [Runs -> RunStatus]
      /\ lifecycle \in [Plans -> Lifecycle]
  BY DEF TypeOK
<1>2. ASSUME NEW s \in Runs, s # r PROVE SameRun(s)
  <2>1. /\ runThrew'[s] = runThrew[s] /\ todo'[s] = todo[s] /\ active'[s] = active[s]
        /\ retry'[s] = retry[s]
    BY <1>1, <1>2 DEF RunStep, RunFault, HarnessReady, HarnessFails, TrialsSettle, SelectRetries,
       ResetPlan, BeginRetry, ReportRun, FailRun, DisposeRun, StartTrials
  <2>2. runStatus'[s] = runStatus[s]
    BY <1>1, <1>2 DEF RunStep, RunFault, HarnessReady, HarnessFails, TrialsSettle, SelectRetries,
       ResetPlan, BeginRetry, ReportRun, FailRun, DisposeRun, FinishBenchmarkRun
  <2>3. UNCHANGED ledger
    BY DEF RunStep, RunFault, HarnessReady, HarnessFails, TrialsSettle, SelectRetries,
       ResetPlan, BeginRetry, ReportRun, FailRun, DisposeRun
  <2>4. \A p \in PlansOf(s) : lifecycle'[p] = lifecycle[p]
    <3>1. CASE ResetPlan(r)
      <4>1. PICK q \in todo[r] : \/ lifecycle' = lifecycle
                                 \/ lifecycle' = [lifecycle EXCEPT ![q] = "queued"]
        BY <3>1 DEF ResetPlan
      <4>2. q \in PlansOf(r)
        BY <4>1 DEF LoopsInv, Loops
      <4>3. q \notin PlansOf(s) /\ PlansOf(s) \subseteq Plans
        BY <1>2, <4>2, PlansOfSubset DEF PlansOf
      <4> QED BY <1>1, <4>1, <4>3
    <3>2. CASE ~ResetPlan(r)
      BY <3>2 DEF RunStep, RunFault, HarnessReady, HarnessFails, TrialsSettle, SelectRetries,
         BeginRetry, ReportRun, FailRun, DisposeRun
    <3> QED BY <3>1, <3>2
  <2> QED BY <2>1, <2>2, <2>3, <2>4 DEF SameRun
<1>3. ASSUME NEW s \in Runs, s # r
      PROVE  runPc'[s] = runPc[s] \/ (runPc[s] = "waiting" /\ runPc'[s] = "preparing")
  <2>1. CASE DisposeRun(r)
    BY <1>3, <2>1, DisposeMoves
  <2>2. CASE ~DisposeRun(r)
    BY <1>1, <1>3, <2>2 DEF RunStep, RunFault, HarnessReady, HarnessFails, TrialsSettle,
       SelectRetries, ResetPlan, BeginRetry, ReportRun, FailRun, StartTrials, Goes
  <2> QED BY <2>1, <2>2
<1>4. /\ \A j \in Jobs : threw[j] => threw'[j]
      /\ \A j \in Jobs : j # RunJob[r] => threw'[j] = threw[j]
  <2>1. UNCHANGED threw \/ threw' = [threw EXCEPT ![RunJob[r]] = TRUE]
    BY DEF RunStep, RunFault, HarnessReady, HarnessFails, TrialsSettle, SelectRetries,
       ResetPlan, BeginRetry, ReportRun, FailRun, DisposeRun
  <2> QED BY <1>1, <2>1
<1> QED BY <1>2, <1>3, <1>4

LEMMA DecisionRun ==
  ASSUME TypeOK, LoopsInv, DecisionInv, NEW r \in Runs, RunStep(r) \/ RunFault(r),
         status[RunJob[r]] \in ExecutingStatus /\ Progress(r) => Progress(r)'
  PROVE  DecisionInv'
<1>1. /\ \A s \in Runs : s # r =>
             /\ SameRun(s)
             /\ \/ runPc'[s] = runPc[s]
                \/ runPc[s] = "waiting" /\ runPc'[s] = "preparing"
      /\ \A j \in Jobs : threw[j] => threw'[j]
      /\ \A j \in Jobs : j # RunJob[r] => threw'[j] = threw[j]
  BY RunStepOthers
<1>2. /\ runPc[r] \notin {"waiting", "left"} /\ UNCHANGED <<status, pc, result>>
      /\ \A s \in Runs : RunJob[s] # RunJob[r] => runPc'[s] = runPc[s]
  BY RunStepFrame
<1>3. ASSUME NEW j \in Jobs, j # RunJob[r] PROVE Decision(j)'
  <2>1. \A s \in RunsOf(j) : s # r /\ s \in Runs /\ RunJob[s] # RunJob[r]
    BY <1>3 DEF RunsOf
  <2> QED BY <1>1, <1>2, <1>3, <2>1, DecisionKept DEF DecisionInv
<1>4. Decision(RunJob[r])'
  <2> DEFINE j == RunJob[r]
  <2>1. j \in Jobs /\ r \in RunsOf(j) /\ Decision(j)
    BY RunsOfJob DEF DecisionInv
  <2>2. ~AllLeft(j)
    BY <1>2, <2>1 DEF AllLeft
  <2>3. status[j] # "completed" /\ ~(pc[j] = "settled" /\ result[j] = "completed")
    BY <2>1, <2>2 DEF Decision
  <2>4. ASSUME status[j] \in ExecutingStatus, NEW s \in RunsOf(j) PROVE Progress(s)'
    <3>1. Progress(s) /\ s \in Runs /\ RunJob[s] = j
      BY <2>1, <2>4 DEF Decision, RunsOf
    <3>2. CASE s = r
      BY <2>4, <3>1, <3>2
    <3>3. CASE s # r /\ runPc'[s] = "preparing"
      BY <3>3 DEF Progress
    <3>4. CASE s # r /\ runPc'[s] = runPc[s]
      <4>1. SameRun(s) /\ (threw[j] => threw'[j]) /\ pc'[j] = pc[j]
        BY <1>1, <1>2, <2>1, <3>1, <3>4
      <4>2. Reported(s) => Reported(s)'
        BY <4>1 DEF Reported, HasResult, SameRun, PlansOf
      <4> QED BY <3>1, <3>4, <4>1, <4>2 DEF Progress, HasResult, SameRun, PlansOf
    <3> QED BY <1>1, <3>1, <3>2, <3>3, <3>4
  <2> QED BY <1>2, <2>3, <2>4 DEF Decision, RunsOf
<1> QED BY <1>3, <1>4, RunsOfJob DEF DecisionInv

-----------------------------------------------------------------------------
(* The steps of a benchmark run, one by one.                                 *)

(* At least one loop finds something to do when there is anything to do.     *)
LEMMA FirstOfNone ==
  ASSUME NEW limit \in Nat \ {0}, NEW s, IsFiniteSet(s), NEW t \in FirstOf(limit, s), t = {}
  PROVE  s = {}
<1>1. Cardinality(t) = 0 /\ Cardinality(s) \in Nat
  BY FS_EmptySet, FS_CardinalityType
<1>2. Cardinality(t) = IF limit < Cardinality(s) THEN limit ELSE Cardinality(s)
  BY DEF FirstOf
<1>3. Cardinality(s) = 0
  BY <1>1, <1>2
<1> QED BY <1>3, FS_EmptySet

LEMMA ProgressStart ==
  ASSUME TypeOK, NEW r \in Runs, NEW to \in {"trials", "retrying"},
         NEW ps \in SUBSET PlansOf(r), StartTrials(r, to, ps), UNCHANGED <<ledger, lifecycle>>,
         \A p \in PlansOf(r) : HasResult(p) \/ p \in ps
  PROVE  Progress(r)'
<1>1. /\ runPc \in [Runs -> RunPc] /\ todo \in [Runs -> SUBSET Plans]
      /\ active \in [Runs -> SUBSET Plans]
  BY DEF TypeOK
<1>2. CASE Goes(r, "failing")
  <2>1. runPc'[r] = "failing"
    BY <1>1, <1>2 DEF Goes
  <2> QED BY <2>1 DEF Progress
<1>3. ASSUME Goes(r, to), NEW first \in FirstOf(TrialConcurrency, ps),
             todo' = [todo EXCEPT ![r] = ps \ first], active' = [active EXCEPT ![r] = first]
      PROVE  Progress(r)'
  <2>1. runPc'[r] = to /\ todo'[r] = ps \ first /\ active'[r] = first
    BY <1>1, <1>3 DEF Goes
  <2>2. IsFiniteSet(ps)
    BY ConstantsAssumption, FS_Subset, PlansOfSubset
  <2>3. first = {} => ps = {}
    BY <2>2, ConstantsAssumption, FirstOfNone
  <2> QED BY <2>1, <2>3 DEF Progress, HasResult, PlansOf
<1> QED BY <1>2, <1>3 DEF StartTrials

LEMMA ProgressRunSteps ==
  ASSUME TypeOK, LoopsInv, RowsInv, NEW r \in Runs, RunStep(r) \/ RunFault(r),
         status[RunJob[r]] \in ExecutingStatus, Progress(r)
  PROVE  Progress(r)'
<1>1. /\ runPc \in [Runs -> RunPc] /\ todo \in [Runs -> SUBSET Plans]
      /\ retry \in [Runs -> SUBSET Plans] /\ runThrew \in [Runs -> BOOLEAN]
      /\ threw \in [Jobs -> BOOLEAN] /\ lifecycle \in [Plans -> Lifecycle]
      /\ runStatus \in [Runs -> RunStatus] /\ RunJob[r] \in Jobs
  BY RunsOfJob DEF TypeOK
<1>2. CASE HarnessReady(r)
  <2>1. StartTrials(r, "trials", PlansOf(r)) /\ UNCHANGED <<ledger, lifecycle>>
    BY <1>2 DEF HarnessReady
  <2> QED BY <2>1, ProgressStart
<1>3. CASE BeginRetry(r)
  <2>1. /\ StartTrials(r, "retrying", retry[r]) /\ UNCHANGED <<ledger, lifecycle>>
        /\ runPc[r] = "resetting"
    BY <1>3 DEF BeginRetry
  <2>2. retry[r] \in SUBSET PlansOf(r) /\ \A p \in PlansOf(r) : HasResult(p) \/ p \in retry[r]
    BY <2>1 DEF LoopsInv, Loops, Progress
  <2> QED BY <2>1, <2>2, ProgressStart
<1>4. CASE HarnessFails(r) \/ RunFault(r)
  <2>1. runPc'[r] = "failing"
    BY <1>1, <1>4 DEF HarnessFails, RunFault, Goes
  <2> QED BY <2>1 DEF Progress
<1>5. CASE FailRun(r)
  <2>1. runPc'[r] = "disposing" /\ runThrew'[r]
    BY <1>1, <1>5 DEF FailRun, Goes
  <2> QED BY <2>1 DEF Progress
<1>6. CASE TrialsSettle(r)
  <2>1. /\ runPc[r] \in {"trials", "retrying"} /\ UNCHANGED <<ledger, lifecycle>>
        /\ \/ runPc'[r] = "failing"
           \/ /\ runPc'[r] \in {"selecting", "reporting"}
              /\ ~runThrew[r] /\ active[r] = {}
    BY <1>1, <1>6 DEF TrialsSettle, Goes
  <2>2. runPc'[r] # "failing" => \A p \in PlansOf(r) : HasResult(p)
    BY <2>1 DEF Progress
  <2> QED BY <2>1, <2>2 DEF Progress, HasResult, PlansOf
<1>7. CASE SelectRetries(r)
  <2>1. /\ runPc[r] = "selecting" /\ UNCHANGED <<ledger, lifecycle>>
        /\ runPc'[r] \in {"resetting", "reporting"} /\ todo'[r] = retry'[r]
    BY <1>1, <1>7 DEF SelectRetries, Goes
  <2>2. \A p \in PlansOf(r) : HasResult(p)
    BY <2>1 DEF Progress
  <2> QED BY <2>1, <2>2 DEF Progress, HasResult, PlansOf
<1>8. CASE ResetPlan(r)
  <2>1. runPc[r] = "resetting" /\ UNCHANGED <<runPc, retry, ledger>>
    BY <1>8 DEF ResetPlan
  <2>2. PICK q \in todo[r] : /\ todo' = [todo EXCEPT ![r] = @ \ {q}]
                             /\ \/ lifecycle' = lifecycle
                                \/ lifecycle' = [lifecycle EXCEPT ![q] = "queued"]
    BY <1>8 DEF ResetPlan
  <2>3. q \in retry[r] /\ todo'[r] \subseteq todo[r]
    BY <1>1, <2>1, <2>2 DEF Progress
  <2>4. \A p \in PlansOf(r) : p = q \/ lifecycle'[p] = lifecycle[p]
    BY <1>1, <2>2, PlansOfSubset
  <2> QED BY <2>1, <2>3, <2>4 DEF Progress, HasResult, PlansOf
<1>9. CASE ReportRun(r)
  <2>1. /\ runPc[r] = "reporting" /\ runPc'[r] = "disposing" /\ UNCHANGED <<ledger, lifecycle>>
        /\ FinishBenchmarkRun(r, "completed")
    BY <1>1, <1>9 DEF ReportRun, Goes
  <2>2. runStatus[r] \in {"queued", "running"}
    BY <2>1 DEF RowsInv, Row
  <2>3. runStatus'[r] = "completed"
    BY <1>1, <2>1, <2>2 DEF FinishBenchmarkRun
  <2> QED BY <2>1, <2>3 DEF Progress, Reported, HasResult, PlansOf
<1>10. CASE DisposeRun(r)
  <2>1. /\ runPc[r] = "disposing" /\ UNCHANGED <<ledger, lifecycle, runStatus>>
        /\ threw'[RunJob[r]] \/ ~runThrew[r]
    BY <1>1, <1>10 DEF DisposeRun
  <2>2. runPc'[r] = "left"
    BY <1>10, DisposeMoves
  <2> QED BY <2>1, <2>2 DEF Progress, Reported, HasResult, PlansOf
<1> QED BY <1>2, <1>3, <1>4, <1>5, <1>6, <1>7, <1>8, <1>9, <1>10 DEF RunStep

LEMMA DecisionRunSteps ==
  ASSUME TypeOK, LoopsInv, RowsInv, DecisionInv, NEW r \in Runs, RunStep(r) \/ RunFault(r)
  PROVE  DecisionInv'
  BY ProgressRunSteps, DecisionRun

-----------------------------------------------------------------------------
(* Jobs, workers and trials.                                                 *)

LEMMA DecisionRequests ==
  ASSUME TypeOK, StageInv, DecisionInv, NEW j \in Jobs, Create(j) \/ Cancel(j) \/ Delete(j)
  PROVE  DecisionInv'
<1>1. /\ status \in [Jobs -> JobStatus] /\ runStatus \in [Runs -> RunStatus]
      /\ lifecycle \in [Plans -> Lifecycle]
  BY DEF TypeOK
<1>2. UNCHANGED <<pc, result, threw, runPc, runThrew, todo, active, retry, ledger>>
  BY DEF Create, Cancel, Delete
<1>3. ASSUME NEW i \in Jobs PROVE Decision(i)'
  <2>1. Decision(i)
    BY DEF DecisionInv
  <2>2. CASE i # j
    <3>1. status'[i] = status[i]
      BY <1>1, <2>2 DEF Create, Cancel, Delete
    <3>2. \A r \in RunsOf(i) : runStatus'[r] = runStatus[r]
      BY <1>1, <2>2 DEF Create, Cancel, Delete, SetRuns, RunsOf
    <3>3. \A r \in RunsOf(i) : \A p \in PlansOf(r) : lifecycle'[p] = lifecycle[p]
      BY <1>1, <2>2 DEF Create, Cancel, Delete, ClosePlans, RunsOf, PlansOf, JobOf
    <3>4. \A r \in RunsOf(i) : SameRun(r)
      BY <1>2, <3>2, <3>3 DEF SameRun
    <3> QED BY <1>2, <2>1, <3>1, <3>4, DecisionKept
  <2>3. CASE i = j /\ ~(Cancel(j) /\ status[j] = "running")
    <3>1. status'[j] \in {"queued", "cancelled", "deleted"}
      BY <1>1, <2>3 DEF Create, Cancel, Delete
    <3> QED BY <1>2, <2>1, <2>3, <3>1, DecisionKept
  <2>4. CASE i = j /\ Cancel(j) /\ status[j] = "running"
    <3>1. status'[j] = "cancelling" /\ UNCHANGED <<runStatus, lifecycle>>
      BY <1>1, <2>4 DEF Cancel
    <3>2. \A r \in RunsOf(i) : SameRun(r)
      BY <1>2, <3>1 DEF SameRun
    <3> QED BY <1>2, <2>1, <2>4, <3>1, <3>2, DecisionKept
  <2> QED BY <2>2, <2>3, <2>4
<1> QED BY <1>3 DEF DecisionInv

LEMMA DecisionJobSteps ==
  ASSUME TypeOK, StageInv, RowsInv, DecisionInv, NEW j \in Jobs,
         JobStep(j) \/ ClaimFault(j) \/ FinishFault(j)
  PROVE  DecisionInv'
<1>1. /\ status \in [Jobs -> JobStatus] /\ runStatus \in [Runs -> RunStatus]
      /\ lifecycle \in [Plans -> Lifecycle] /\ pc \in [Jobs -> Pc]
      /\ result \in [Jobs -> EndedStatus] /\ threw \in [Jobs -> BOOLEAN]
  BY DEF TypeOK
<1>2. UNCHANGED <<runThrew, todo, active, retry, ledger>>
  BY DEF JobStep, ClaimFault, FinishFault, EnterRun, Claim, BeginExecution, StartFails,
     ExecutionSettles, FinishJob
<1>3. ASSUME NEW i \in Jobs, i # j PROVE Decision(i)'
  <2>1. Decision(i)
    BY DEF DecisionInv
  <2>2. pc'[i] = pc[i] /\ status'[i] = status[i] /\ result'[i] = result[i] /\ threw'[i] = threw[i]
    BY <1>1, <1>3 DEF JobStep, ClaimFault, FinishFault, EnterRun, Claim, BeginExecution,
       StartFails, ExecutionSettles, FinishJob, HandlerEnds
  <2>3. \A r \in RunsOf(i) : runPc'[r] = runPc[r]
    <3>1. CASE BeginExecution(j)
      <4>1. CASE \E rs \in FirstOf(BenchConcurrency, RunsOf(j)) : StartRuns(rs)
        BY <1>3, <4>1, FirstOfSubset DEF StartRuns, RunsOf
      <4> QED BY <3>1, <4>1 DEF BeginExecution
    <3>2. CASE ~BeginExecution(j)
      BY <3>2 DEF JobStep, ClaimFault, FinishFault, EnterRun, Claim, StartFails,
         ExecutionSettles, FinishJob
    <3> QED BY <3>1, <3>2
  <2>4. \A r \in RunsOf(i) : runStatus'[r] = runStatus[r]
    BY <1>1, <1>3 DEF JobStep, ClaimFault, FinishFault, EnterRun, Claim, BeginExecution,
       StartFails, ExecutionSettles, FinishJob, SetRuns, RunsOf
  <2>5. \A r \in RunsOf(i) : \A p \in PlansOf(r) : lifecycle'[p] = lifecycle[p]
    BY <1>1, <1>3 DEF JobStep, ClaimFault, FinishFault, EnterRun, Claim, BeginExecution,
       StartFails, ExecutionSettles, FinishJob, ClosePlans, RunsOf, PlansOf, JobOf
  <2>6. \A r \in RunsOf(i) : SameRun(r)
    BY <1>2, <2>4, <2>5 DEF SameRun
  <2> QED BY <2>1, <2>2, <2>3, <2>6, DecisionKept
<1>4. Decision(j)'
  <2>1. Decision(j) /\ Stage(j)
    BY DEF DecisionInv, StageInv
  <2>2. CASE EnterRun(j) \/ Claim(j) \/ ClaimFault(j)
    <3>1. /\ pc[j] \in {"fetched", "claiming"} /\ pc'[j] \in {"claiming", "starting", "over"}
          /\ runPc' = runPc
      BY <1>1, <2>2 DEF EnterRun, Claim, ClaimFault, HandlerEnds
    <3>2. \A r \in RunsOf(j) : runPc'[r] = "waiting"
      BY <2>1, <3>1 DEF Stage, BeforeRuns
    <3>3. \A r \in RunsOf(j) : Progress(r)'
      BY <3>2 DEF Progress
    <3>4. status'[j] = status[j] \/ status'[j] = "running"
      BY <1>1, <2>2 DEF EnterRun, Claim, ClaimFault
    <3>5. CASE status'[j] = "completed"
      <4>1. UNCHANGED <<status, runStatus, lifecycle, result, threw>> /\ pc'[j] # "settled"
        BY <1>1, <2>2, <3>5 DEF EnterRun, Claim, ClaimFault, HandlerEnds
      <4>2. status[j] = "completed" /\ (AllLeft(j) => AllLeft(j)')
        BY <3>1, <3>5, <4>1 DEF AllLeft, RunsOf
      <4>3. \A r \in RunsOf(j) : Reported(r) => Reported(r)'
        BY <1>2, <4>1 DEF Reported, HasResult, PlansOf
      <4> QED BY <2>1, <3>3, <4>1, <4>2, <4>3 DEF Decision, RunsOf
    <3> QED BY <3>1, <3>3, <3>5 DEF Decision, RunsOf
  <2>3. CASE BeginExecution(j) \/ StartFails(j)
    <3>1. /\ pc[j] = "starting" /\ pc'[j] = "executing" /\ UNCHANGED <<status, runStatus, lifecycle>>
      BY <1>1, <2>3 DEF BeginExecution, StartFails
    <3>2. \A r \in RunsOf(j) : runPc[r] = "waiting"
      BY <2>1, <3>1 DEF Stage, BeforeRuns
    <3>3. \A r \in RunsOf(j) : runPc'[r] \in {"waiting", "preparing"}
      BY <2>3, <3>2 DEF BeginExecution, StartFails, StartRuns, RunsOf
    <3>4. \A r \in RunsOf(j) : Progress(r)'
      BY <3>3 DEF Progress
    <3>5. CASE status[j] = "completed"
      <4>1. RunsOf(j) = {}
        BY <2>1, <3>2, <3>5 DEF Decision, AllLeft
      <4> QED BY <3>1, <3>4, <4>1 DEF Decision, AllLeft, RunsOf
    <3> QED BY <3>1, <3>4, <3>5 DEF Decision, RunsOf
  <2>4. CASE ExecutionSettles(j)
    <3>1. /\ pc[j] = "executing" /\ pc'[j] = "settled"
          /\ UNCHANGED <<status, runStatus, lifecycle, threw, runPc>>
      BY <1>1, <2>4 DEF ExecutionSettles
    <3>2. \A r \in RunsOf(j) : Progress(r) => Progress(r)'
      BY <1>2, <3>1 DEF Progress, Reported, HasResult, PlansOf, RunsOf
    <3>3. \A r \in RunsOf(j) : Reported(r) => Reported(r)'
      BY <1>2, <3>1 DEF Reported, HasResult, PlansOf
    <3>4. AllLeft(j) => AllLeft(j)'
      BY <3>1 DEF AllLeft, RunsOf
    <3>5. result'[j] = "completed" => ~threw[j] /\ AllLeft(j)
      BY <1>1, <2>4 DEF ExecutionSettles, OutcomeOf, AllLeft
    <3>6. result'[j] = "completed" /\ status[j] \in ExecutingStatus =>
             \A r \in RunsOf(j) : Reported(r)
      BY <2>1, <3>1, <3>5 DEF Decision, Progress, AllLeft, RunsOf
    <3> QED BY <2>1, <3>1, <3>2, <3>3, <3>4, <3>5, <3>6 DEF Decision, RunsOf
  <2>5. CASE FinishJob(j) /\ status[j] \in ExecutingStatus
    <3> DEFINE final == IF status[j] = "cancelling" THEN "cancelled" ELSE result[j]
    <3>1. /\ pc[j] = "settled" /\ pc'[j] = "over" /\ status' = [status EXCEPT ![j] = final]
          /\ UNCHANGED <<runPc, result, threw>>
      BY <1>1, <2>5 DEF FinishJob, HandlerEnds
    <3>2. status'[j] = final /\ final \in EndedStatus
      BY <1>1, <3>1
    <3>3. CASE final = "completed"
      <4>1. result[j] = "completed"
        BY <3>3
      <4>2. AllLeft(j) /\ \A r \in RunsOf(j) : Reported(r)
        BY <2>1, <2>5, <3>1, <4>1 DEF Decision
      <4>3. UNCHANGED lifecycle /\ SetRuns({j}, {"queued", "running"}, final)
        BY <2>5, <3>3 DEF FinishJob
      <4>4. \A r \in RunsOf(j) : runStatus'[r] = runStatus[r]
        BY <4>2, <4>3 DEF SetRuns, Reported, RunsOf
      <4>5. AllLeft(j)' /\ \A r \in RunsOf(j) : Reported(r)'
        BY <1>2, <3>1, <4>2, <4>3, <4>4 DEF Reported, HasResult, PlansOf, AllLeft, RunsOf
      <4> QED BY <3>1, <3>2, <3>3, <4>5 DEF Decision, RunsOf
    <3> QED BY <3>1, <3>2, <3>3 DEF Decision, RunsOf
  <2>6. CASE FinishJob(j) /\ status[j] \notin ExecutingStatus
    <3>1. /\ pc'[j] = "over" /\ UNCHANGED <<status, runStatus, lifecycle, runPc, result, threw>>
      BY <1>1, <2>6 DEF FinishJob, HandlerEnds
    <3>2. \A r \in RunsOf(j) : SameRun(r)
      BY <1>2, <3>1 DEF SameRun
    <3> QED BY <2>1, <3>1, <3>2, DecisionKept
  <2>7. CASE FinishFault(j)
    <3>1. UNCHANGED <<status, runStatus, lifecycle, runPc, threw>> /\ pc[j] = "settled"
      BY <2>7 DEF FinishFault, HandlerEnds
    <3>2. \A r \in RunsOf(j) : SameRun(r)
      BY <1>2, <3>1 DEF SameRun
    <3>3. CASE result[j] = "completed"
      <4>1. pc'[j] = "settled" /\ result'[j] # "completed"
        BY <1>1, <2>7, <3>1, <3>3 DEF FinishFault, OutcomeOf
      <4>2. \A r \in RunsOf(j) : Progress(r) => Progress(r)'
        BY <1>2, <3>1, <4>1 DEF Progress, Reported, HasResult, PlansOf, RunsOf
      <4>3. \A r \in RunsOf(j) : Reported(r) => Reported(r)'
        BY <1>2, <3>1 DEF Reported, HasResult, PlansOf
      <4>4. AllLeft(j) => AllLeft(j)'
        BY <3>1 DEF AllLeft, RunsOf
      <4> QED BY <2>1, <3>1, <4>1, <4>2, <4>3, <4>4 DEF Decision, RunsOf
    <3>4. CASE result[j] # "completed"
      <4>1. pc'[j] = "over" /\ result' = result
        BY <1>1, <2>7, <3>4 DEF FinishFault, HandlerEnds
      <4> QED BY <2>1, <3>1, <3>2, <4>1, DecisionKept
    <3> QED BY <3>3, <3>4
  <2> QED BY <2>2, <2>3, <2>4, <2>5, <2>6, <2>7 DEF JobStep
<1> QED BY <1>3, <1>4 DEF DecisionInv

LEMMA DecisionRecover ==
  ASSUME TypeOK, DecisionInv, NEW w \in Workers, Recover(w) PROVE DecisionInv'
<1>1. /\ status \in [Jobs -> JobStatus] /\ runStatus \in [Runs -> RunStatus]
      /\ lifecycle \in [Plans -> Lifecycle]
  BY DEF TypeOK
<1>2. /\ status' = [j \in Jobs |-> IF j \in Stale THEN "interrupted" ELSE status[j]]
      /\ SetRuns(Stale, {"queued", "running"}, "interrupted") /\ ClosePlans(Stale, "interrupted")
      /\ UNCHANGED <<pc, result, threw, runPc, runThrew, todo, active, retry, ledger>>
  BY DEF Recover
<1>3. ASSUME NEW i \in Jobs PROVE Decision(i)'
  <2>1. Decision(i)
    BY DEF DecisionInv
  <2>2. CASE i \in Stale
    <3>1. status'[i] = "interrupted"
      BY <1>2, <2>2
    <3> QED BY <1>2, <2>1, <3>1, DecisionKept
  <2>3. CASE i \notin Stale
    <3>1. status'[i] = status[i]
      BY <1>2, <2>3
    <3>2. \A r \in RunsOf(i) : runStatus'[r] = runStatus[r]
      BY <1>1, <1>2, <2>3 DEF SetRuns, RunsOf
    <3>3. \A r \in RunsOf(i) : \A p \in PlansOf(r) : lifecycle'[p] = lifecycle[p]
      BY <1>1, <1>2, <2>3 DEF ClosePlans, RunsOf, PlansOf, JobOf
    <3>4. \A r \in RunsOf(i) : SameRun(r)
      BY <1>2, <3>2, <3>3 DEF SameRun
    <3> QED BY <1>2, <2>1, <3>1, <3>4, DecisionKept
  <2> QED BY <2>2, <2>3
<1> QED BY <1>3 DEF DecisionInv

LEMMA DecisionDies ==
  ASSUME TypeOK, DecisionInv, NEW w \in Workers, Dies(w) PROVE DecisionInv'
<1>1. UNCHANGED <<status, runStatus, lifecycle, ledger, threw, result, retry, runThrew>>
  BY DEF Dies
<1>2. ASSUME NEW i \in Jobs PROVE Decision(i)'
  <2>1. Decision(i)
    BY DEF DecisionInv
  <2>2. CASE host[i] = w
    <3>1. pc'[i] = "over" /\ \A r \in RunsOf(i) : runPc'[r] = "left"
      BY <2>2 DEF Dies, RunsOf
    <3>2. \A r \in RunsOf(i) : Progress(r)'
      BY <3>1 DEF Progress, RunsOf
    <3>3. \A r \in RunsOf(i) : Reported(r) => Reported(r)'
      BY <1>1 DEF Reported, HasResult, PlansOf
    <3> QED BY <1>1, <2>1, <3>1, <3>2, <3>3 DEF Decision, AllLeft, RunsOf
  <2>3. CASE host[i] # w
    <3>1. pc'[i] = pc[i] /\ \A r \in RunsOf(i) : /\ runPc'[r] = runPc[r] /\ todo'[r] = todo[r]
                                                 /\ active'[r] = active[r]
      BY <2>3 DEF Dies, RunsOf
    <3>2. \A r \in RunsOf(i) : SameRun(r)
      BY <1>1, <3>1 DEF SameRun
    <3> QED BY <1>1, <2>1, <3>1, <3>2, DecisionKept
  <2> QED BY <2>2, <2>3
<1> QED BY <1>2 DEF DecisionInv

(* A result that is saved is a result of its plan, and takes none away.      *)
LEMMA SavedResult ==
  ASSUME TypeOK, NEW p \in Plans, NEW res \in Results, SaveTrial(p, res)
  PROVE  HasResult(p)' /\ \A q \in Plans : HasResult(q) => HasResult(q)'
<1> DEFINE a == [outcome |-> DeriveTrialOutcome(res), billed |-> res.billed]
<1>1. ledger \in [Plans -> Seq(Attempt)] /\ lifecycle \in [Plans -> Lifecycle]
  BY DEF TypeOK
<1>2. a \in Attempt
  BY ConstantsAssumption, DeriveType DEF Attempt, TrialResult
<1>3. ledger'[p] = Append(ledger[p], a) /\ \A q \in Plans : q # p => ledger'[q] = ledger[q]
  BY <1>1 DEF SaveTrial
<1>4. ledger'[p] # <<>>
  BY <1>1, <1>2, <1>3, AppendProperties
<1>5. CASE HasPlanRows(JobOf(p))
  <2>1. lifecycle' = [lifecycle EXCEPT ![p] = "completed"]
    BY <1>5 DEF SaveTrial
  <2>2. lifecycle'[p] = "completed" /\ \A q \in Plans : q # p => lifecycle'[q] = lifecycle[q]
    BY <1>1, <2>1
  <2> QED BY <1>3, <1>4, <2>2 DEF HasResult
<1>6. CASE ~HasPlanRows(JobOf(p))
  <2>1. lifecycle' = lifecycle /\ lifecycle[p] = "absent"
    BY <1>6, JobOfType DEF SaveTrial, HasPlanRows
  <2> QED BY <1>3, <1>4, <2>1 DEF HasResult
<1> QED BY <1>5, <1>6

LEMMA DecisionTrial ==
  ASSUME TypeOK, LoopsInv, DecisionInv, NEW p \in Plans, EndTrial(p) \/ EndTrialFault(p)
  PROVE  DecisionInv'
<1> DEFINE R == PlanRun[p]
<1>1. /\ todo \in [Runs -> SUBSET Plans] /\ active \in [Runs -> SUBSET Plans]
      /\ runThrew \in [Runs -> BOOLEAN] /\ R \in Runs /\ p \in PlansOf(R) /\ JobOf(p) = RunJob[R]
      /\ runStatus \in [Runs -> RunStatus]
  BY ConstantsAssumption DEF TypeOK, PlansOf, JobOf
<1>2. UNCHANGED <<status, runStatus, pc, result, threw, runPc, retry>>
  BY TrialStepFrame
<1>3. \A q \in Plans : HasResult(q) => HasResult(q)'
  <2>1. CASE UNCHANGED dbVars
    BY <2>1 DEF HasResult
  <2> QED BY <2>1, SavedResult DEF EndTrial, EndTrialFault
<1>4. \A r \in Runs : Reported(r) => Reported(r)'
  BY <1>2, <1>3, PlansOfSubset DEF Reported, PlansOf
<1>5. ASSUME NEW r \in Runs, r # R, Progress(r) PROVE Progress(r)'
  <2>1. todo'[r] = todo[r] /\ active'[r] = active[r] /\ runThrew'[r] = runThrew[r]
    BY <1>1, <1>5 DEF EndTrial, EndTrialFault, Advance, LoopThrows
  <2>2. \A q \in PlansOf(r) : HasResult(q) => HasResult(q)'
    BY <1>3, PlansOfSubset
  <2> QED BY <1>2, <1>4, <1>5, <2>1, <2>2 DEF Progress, PlansOf
<1>6. ASSUME Progress(R) PROVE Progress(R)'
  <2>1. \A q \in PlansOf(R) : HasResult(q) => HasResult(q)'
    BY <1>1, <1>3, PlansOfSubset
  <2>2. CASE runThrew'[R]
    <3>1. runPc[R] \notin {"selecting", "reporting", "resetting"}
      <4>1. trial[p] # "none"
        BY DEF EndTrial, EndTrialFault
      <4> QED BY <1>1, <4>1 DEF LoopsInv, Loops
    <3> QED BY <1>1, <1>2, <1>4, <1>6, <2>2, <3>1 DEF Progress
  <2>3. CASE ~runThrew'[R]
    <3>1. EndTrial(p) /\ Accepts(p)
      BY <1>1, <2>3 DEF EndTrial, EndTrialFault, LoopThrows
    <3>2. Advance(p) /\ \E res \in Results : SaveTrial(p, res)
      BY <3>1 DEF EndTrial
    <3>3. HasResult(p)'
      BY <3>2, SavedResult
    <3>4. ~runThrew[R]
      BY <1>1, <2>3, <3>2 DEF Advance
    <3>5. trial[p] # "none" /\ p \in active[R]
      <4>1. trial[p] # "none"
        BY <3>1 DEF EndTrial
      <4> QED BY <1>1, <4>1 DEF LoopsInv, Loops
    <3>6. runPc[R] \notin {"selecting", "reporting", "resetting"}
      BY <1>1, <3>5 DEF LoopsInv, Loops
    <3>7. /\ active'[R] = {} => todo'[R] = {}
          /\ \A q \in todo[R] \cup active[R] : q = p \/ q \in todo'[R] \cup active'[R]
      <4>1. CASE \E q \in todo[R] : /\ todo' = [todo EXCEPT ![R] = @ \ {q}]
                                    /\ active' = [active EXCEPT ![R] = (@ \ {p}) \cup {q}]
        BY <1>1, <4>1
      <4>2. CASE /\ todo[R] = {} \/ Aborted(JobOf(p))
                 /\ active' = [active EXCEPT ![R] = @ \ {p}]
                 /\ runThrew' = [runThrew EXCEPT ![R] = @ \/ Aborted(JobOf(p))]
                 /\ UNCHANGED todo
        <5>1. ~Aborted(JobOf(p))
          <6>1. runThrew'[R] = (runThrew[R] \/ Aborted(JobOf(p)))
            BY <1>1, <4>2
          <6> QED BY <2>3, <6>1
        <5> QED BY <1>1, <4>2, <5>1
      <4> QED BY <3>2, <4>1, <4>2 DEF Advance
    <3> QED BY <1>1, <1>2, <1>4, <1>6, <2>1, <2>3, <3>3, <3>4, <3>6, <3>7 DEF Progress, PlansOf
  <2> QED BY <2>2, <2>3
<1>7. ASSUME NEW j \in Jobs PROVE Decision(j)'
  <2>1. Decision(j) /\ (AllLeft(j) => AllLeft(j)') /\ RunsOf(j) \subseteq Runs
    BY <1>2 DEF DecisionInv, AllLeft, RunsOf
  <2> QED BY <1>2, <1>4, <1>5, <1>6, <2>1 DEF Decision, RunsOf
<1> QED BY <1>7 DEF DecisionInv

LEMMA DecisionStep ==
  ASSUME TypeOK, StageInv, LoopsInv, RowsInv, DecisionInv, [Next]_vars
  PROVE  DecisionInv'
<1> DEFINE Calm == UNCHANGED <<status, runStatus, lifecycle, ledger, result, threw, runPc, todo,
                               active, retry, runThrew>>
<1>1. ASSUME Calm, \A i \in Jobs : pc'[i] = pc[i] PROVE DecisionInv'
  <2>1. \A r \in Runs : SameRun(r)
    BY <1>1 DEF SameRun
  <2> QED BY <1>1, <2>1, DecisionKept DEF DecisionInv, RunsOf
<1>2. CASE \E j \in Jobs : \/ QueueExpire(j) \/ Heartbeat(j) \/ HeartbeatAges(j) \/ JobTimeout(j)
                           \/ HeartbeatFault(j)
  BY <1>1, <1>2 DEF QueueExpire, Heartbeat, HeartbeatAges, JobTimeout, HeartbeatFault
<1>3. CASE \E j \in Jobs, w \in Workers : Fetch(w, j)
  <2>1. PICK j \in Jobs, w \in Workers : Fetch(w, j)
    BY <1>3
  <2>2. Calm /\ pc \in [Jobs -> Pc] /\ pc' = [pc EXCEPT ![j] = "fetched"] /\ queue[j] = "created"
    BY <2>1 DEF Fetch, TypeOK
  <2>3. \A r \in Runs : SameRun(r)
    BY <2>2 DEF SameRun
  <2>4. ASSUME NEW i \in Jobs, i # j PROVE Decision(i)'
    BY <2>2, <2>3, <2>4, DecisionKept DEF DecisionInv, RunsOf
  <2>5. Decision(j)'
    <3>1. pc[j] = "none" /\ pc'[j] = "fetched" /\ \A r \in RunsOf(j) : runPc[r] = "waiting"
      BY <2>2 DEF StageInv, Stage, BeforeRuns
    <3>2. \A r \in RunsOf(j) : Progress(r)'
      BY <2>2, <3>1 DEF Progress, RunsOf
    <3>3. \A r \in RunsOf(j) : Reported(r) => Reported(r)'
      BY <2>2 DEF Reported, HasResult, PlansOf
    <3> QED BY <2>2, <3>1, <3>2, <3>3 DEF DecisionInv, Decision, AllLeft, RunsOf
  <2> QED BY <2>4, <2>5 DEF DecisionInv
<1>4. CASE \E p \in Plans : BillTrial(p)
  BY <1>1, <1>4 DEF BillTrial
<1>5. CASE \E w \in Workers : \/ Recover(w) \/ StopWorker(w) \/ ExitWorker(w)
                              \/ CrashWorker(w) \/ StartWorker(w)
  BY <1>1, <1>5, DecisionRecover, DecisionDies DEF StopWorker, StartWorker, ExitWorker, CrashWorker
<1>6. CASE UNCHANGED vars
  BY <1>1, <1>6
<1> QED BY <1>2, <1>3, <1>4, <1>5, <1>6, NextCases, DecisionRequests, DecisionJobSteps,
        DecisionRunSteps, DecisionTrial

LEMMA DecisionInvariant == Spec => [](TypeOK /\ RowsInv /\ DecisionInv)
<1>1. TypeOK /\ StageInv /\ LoopsInv /\ RowsInv /\ DecisionInv /\ [Next]_vars => DecisionInv'
  BY DecisionStep
<1> QED BY <1>1, DecisionInit, RowsInvariant, PTL DEF Spec

(* A job is only called completed with a result for every trial it planned:  *)
(* the loops that go on after another one threw, the retry of preparation    *)
(* faults and a cancellation in the middle of them leave none behind.        *)
THEOREM CompletedDecided == Spec => []CompletedJobDecided
<1>1. DecisionInv => CompletedJobDecided
  <2> SUFFICES ASSUME DecisionInv, NEW j \in Jobs, status[j] = "completed", NEW p \in JobPlans(j)
               PROVE  ledger[p] # <<>> /\ lifecycle[p] \in {"absent", "completed"}
    BY DEF CompletedJobDecided
  <2>1. PlanRun[p] \in RunsOf(j) /\ p \in PlansOf(PlanRun[p])
    BY ConstantsAssumption DEF JobPlans, JobOf, RunsOf, PlansOf
  <2>2. Reported(PlanRun[p])
    BY <2>1 DEF DecisionInv, Decision
  <2> QED BY <2>1, <2>2 DEF Reported, HasResult
<1> QED BY <1>1, DecisionInvariant, PTL

(* No benchmark run is left open under a job that ended, however it ended,   *)
(* and none of a completed job failed.                                       *)
THEOREM RunsEnded == Spec => []EndedJobHasEndedRuns
<1>1. RowsInv /\ DecisionInv => EndedJobHasEndedRuns
  <2> SUFFICES ASSUME RowsInv, DecisionInv, NEW r \in Runs
               PROVE  /\ status[RunJob[r]] \in EndedStatus => runStatus[r] \in EndedStatus
                      /\ status[RunJob[r]] = "completed" => runStatus[r] = "completed"
    BY DEF EndedJobHasEndedRuns
  <2>1. Row(r) /\ Decision(RunJob[r]) /\ r \in RunsOf(RunJob[r])
    BY RunsOfJob DEF RowsInv, DecisionInv
  <2> QED BY <2>1 DEF Row, Decision, Reported
<1> QED BY <1>1, DecisionInvariant, PTL
=============================================================================
