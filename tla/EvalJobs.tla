------------------------------ MODULE EvalJobs ------------------------------
(***************************************************************************)
(* The evaluation platform's job machinery (apps/eval-platform):           *)
(*   job-store.ts        the PostgreSQL rows of jobs, benchmark runs,      *)
(*                       trial plans and execution attempts                *)
(*   worker.ts           worker processes, their heartbeat monitor, the    *)
(*                       recovery timer, the stop and the time limit       *)
(*   executor.ts         the execution of a claimed job, its benchmark     *)
(*                       runs and the retry of preparation faults          *)
(*   eval-repository.ts  saveTrial, the transaction of one result          *)
(*   eval-runner.ts      the concurrent loops over trials                  *)
(* and of pg-boss, the queue, what that code relies on.                    *)
(*                                                                         *)
(* A database transaction, or a single statement outside one, is one       *)
(* action; everything between two awaits of a process is one action.       *)
(* Requests that change nothing (an idempotent create, a refused request,  *)
(* cancelling an ended job) are stuttering steps.                          *)
(***************************************************************************)
EXTENDS Integers, FiniteSets, Sequences, TrialOutcome

CONSTANTS
    Jobs,              \* job identities, one per requestId
    LegacyJobs,        \* jobs queued before trial plans existed: no plan rows
    Runs, RunJob,      \* benchmark runs and the job each belongs to
    Plans, PlanRun,    \* planned trials and the run each belongs to
    Workers,           \* worker processes
    NoWorker,
    Results,           \* the trial results considered
    MaxActive,         \* job-store.ts: 20
    BenchConcurrency,  \* CODEDEN_EVAL_BENCHMARK_CONCURRENCY
    TrialConcurrency,  \* CODEDEN_EVAL_TRIAL_CONCURRENCY
    SlowMonitor,       \* a beating monitor may still let 30 s pass (stall, clock skew)
    MaxFaults,         \* bound: failing database calls
    MaxStops           \* bound: worker processes that stop or die

ASSUME ConstantsAssumption ==
    /\ IsFiniteSet(Jobs) /\ IsFiniteSet(Runs) /\ IsFiniteSet(Plans)
    /\ LegacyJobs \subseteq Jobs
    /\ RunJob \in [Runs -> Jobs] /\ PlanRun \in [Plans -> Runs]
    /\ NoWorker \notin Workers
    /\ Results \subseteq TrialResult
    /\ MaxActive \in Nat /\ MaxFaults \in Nat /\ MaxStops \in Nat
    /\ BenchConcurrency \in Nat \ {0} /\ TrialConcurrency \in Nat \ {0}
    /\ SlowMonitor \in BOOLEAN

VARIABLES
    status,      \* eval_jobs.status, or "absent" / "deleted"
    completed,   \* eval_jobs.completed
    fresh,       \* eval_jobs.heartbeat_at is younger than 30 s
    runStatus,   \* eval_benchmark_runs.status
    lifecycle,   \* eval_trial_plans.lifecycle, "absent" without a row
    judged,      \* eval_trial_plans verdict and attribution, or NoOutcome
    attempts,    \* eval_trial_plans.attempt_count
    ledger,      \* eval_execution_attempts of a plan, by attempt_index
    queue,       \* the pg-boss item of a job
    worker,      \* worker processes
    pc, host,    \* EvalWorker.run of a job, and the worker it runs on
    abort,       \* the reason in the job's AbortController
    beating,     \* its monitor is in its loop
    threw,       \* a loop over the benchmark runs threw, or executeJob did before
    result,      \* what the worker is about to pass to finish
    runPc,       \* executeBenchmarkRun of a benchmark run
    todo,        \* plans its trial loops have yet to take (resetting: to reset)
    active,      \* plans its trial loops are running
    retry,       \* plans selected for the retry
    runThrew,    \* one of its trial loops threw
    trial,       \* TrialRunner.run of a plan in flight
    bills,       \* history: trials of a plan that called the model
    faults, stops

jobVars    == <<status, completed, fresh>>
planVars   == <<lifecycle, judged, attempts, ledger>>
dbVars     == <<jobVars, runStatus, planVars>>
trialVars  == <<trial, bills>>
execVars   == <<pc, host, abort, beating, threw, result>>
runVars    == <<runPc, todo, active, retry, runThrew>>
limitVars  == <<faults, stops>>
vars       == <<dbVars, queue, worker, execVars, runVars, trialVars, limitVars>>

-----------------------------------------------------------------------------
ActiveStatus    == {"queued", "running", "cancelling"}
ExecutingStatus == {"running", "cancelling"}
EndedStatus     == {"completed", "failed", "cancelled", "interrupted"}
JobStatus       == {"absent", "deleted"} \cup ActiveStatus \cup EndedStatus
RunStatus       == {"absent", "queued", "running"} \cup EndedStatus
Lifecycle       == {"absent", "queued", "completed", "cancelled", "interrupted"}
AbortReason     == {"none", "USER_CANCELLED", "LEASE_LOST", "JOB_TIMEOUT", "WORKER_STOPPED"}

NoOutcome == [none |-> TRUE]
Attempt   == [outcome : Outcome, billed : BOOLEAN]

(* EvalWorker.run: "fetched" before the stopped check, "claiming" before the *)
(* claim, "starting" and "executing" in executeJob, "settled" before finish. *)
Pc    == {"none", "fetched", "claiming", "starting", "executing", "settled", "over"}
RunPc == {"waiting", "preparing", "trials", "selecting", "resetting", "retrying",
          "reporting", "failing", "disposing", "left"}

RunsOf(j)  == {r \in Runs : RunJob[r] = j}
PlansOf(r) == {p \in Plans : PlanRun[p] = r}
JobOf(p)   == RunJob[PlanRun[p]]
JobPlans(j) == {p \in Plans : JobOf(p) = j}
HasPlanRows(j) == \E p \in JobPlans(j) : lifecycle[p] # "absent"
Aborted(j) == abort[j] # "none"

TypeOK ==
    /\ status \in [Jobs -> JobStatus]
    /\ completed \in [Jobs -> Nat]
    /\ fresh \in [Jobs -> BOOLEAN]
    /\ runStatus \in [Runs -> RunStatus]
    /\ lifecycle \in [Plans -> Lifecycle]
    /\ judged \in [Plans -> Outcome \cup {NoOutcome}]
    /\ attempts \in [Plans -> 1..2]
    /\ ledger \in [Plans -> Seq(Attempt)]
    /\ queue \in [Jobs -> {"absent", "created", "active", "ended"}]
    /\ worker \in [Workers -> {"up", "stopping", "down"}]
    /\ pc \in [Jobs -> Pc]
    /\ host \in [Jobs -> Workers \cup {NoWorker}]
    /\ abort \in [Jobs -> AbortReason]
    /\ beating \in [Jobs -> BOOLEAN]
    /\ threw \in [Jobs -> BOOLEAN]
    /\ result \in [Jobs -> EndedStatus]
    /\ runPc \in [Runs -> RunPc]
    /\ todo \in [Runs -> SUBSET Plans]
    /\ active \in [Runs -> SUBSET Plans]
    /\ retry \in [Runs -> SUBSET Plans]
    /\ runThrew \in [Runs -> BOOLEAN]
    /\ trial \in [Plans -> {"none", "started", "billed"}]
    /\ bills \in [Plans -> Nat]
    /\ faults \in 0..MaxFaults
    /\ stops \in 0..MaxStops

Init ==
    /\ status = [j \in Jobs |-> IF j \in LegacyJobs THEN "queued" ELSE "absent"]
    /\ completed = [j \in Jobs |-> 0]
    /\ fresh = [j \in Jobs |-> TRUE]
    /\ runStatus = [r \in Runs |-> IF RunJob[r] \in LegacyJobs THEN "queued" ELSE "absent"]
    /\ lifecycle = [p \in Plans |-> "absent"]
    /\ judged = [p \in Plans |-> NoOutcome]
    /\ attempts = [p \in Plans |-> 1]
    /\ ledger = [p \in Plans |-> <<>>]
    /\ queue = [j \in Jobs |-> IF j \in LegacyJobs THEN "created" ELSE "absent"]
    /\ worker = [w \in Workers |-> "up"]
    /\ pc = [j \in Jobs |-> "none"]
    /\ host = [j \in Jobs |-> NoWorker]
    /\ abort = [j \in Jobs |-> "none"]
    /\ beating = [j \in Jobs |-> FALSE]
    /\ threw = [j \in Jobs |-> FALSE]
    /\ result = [j \in Jobs |-> "failed"]
    /\ runPc = [r \in Runs |-> "waiting"]
    /\ todo = [r \in Runs |-> {}]
    /\ active = [r \in Runs |-> {}]
    /\ retry = [r \in Runs |-> {}]
    /\ runThrew = [r \in Runs |-> FALSE]
    /\ trial = [p \in Plans |-> "none"]
    /\ bills = [p \in Plans |-> 0]
    /\ faults = 0
    /\ stops = 0

-----------------------------------------------------------------------------
(* Statements shared by several transactions.                               *)

(* UPDATE eval_benchmark_runs ... WHERE job_id = j AND status IN from.       *)
SetRuns(js, from, to) ==
    runStatus' = [r \in Runs |-> IF RunJob[r] \in js /\ runStatus[r] \in from
                                 THEN to ELSE runStatus[r]]

(* UPDATE eval_trial_plans ... WHERE job_id = j AND lifecycle <> 'completed'. *)
ClosePlans(js, to) ==
    lifecycle' = [p \in Plans |->
        IF JobOf(p) \in js /\ lifecycle[p] \notin {"absent", "completed"}
        THEN to ELSE lifecycle[p]]

-----------------------------------------------------------------------------
(* The HTTP side: create, cancel, delete.                                   *)

Create(j) ==
    /\ status[j] = "absent"
    /\ Cardinality({i \in Jobs : status[i] \in ActiveStatus}) < MaxActive
    /\ status' = [status EXCEPT ![j] = "queued"]
    /\ SetRuns({j}, {"absent"}, "queued")
    /\ lifecycle' = [p \in Plans |-> IF JobOf(p) = j THEN "queued" ELSE lifecycle[p]]
    /\ queue' = [queue EXCEPT ![j] = "created"]
    /\ UNCHANGED <<completed, fresh, judged, attempts, ledger, worker, execVars, runVars,
                   trialVars, limitVars>>

Cancel(j) ==
    /\ \/ /\ status[j] = "queued"
          /\ status' = [status EXCEPT ![j] = "cancelled"]
          /\ SetRuns({j}, {"queued"}, "cancelled")
          /\ ClosePlans({j}, "cancelled")
       \/ /\ status[j] = "running"
          /\ status' = [status EXCEPT ![j] = "cancelling"]
          /\ UNCHANGED <<runStatus, lifecycle>>
    /\ UNCHANGED <<completed, fresh, judged, attempts, ledger, queue, worker, execVars, runVars,
                   trialVars, limitVars>>

(* eval_trial_plans and eval_execution_attempts refer to the job and to its *)
(* runs without ON DELETE CASCADE: a row left there fails the transaction.  *)
DeleteCommits(j) == \A p \in JobPlans(j) : lifecycle[p] = "absent" /\ ledger[p] = <<>>

Delete(j) ==
    /\ status[j] \in EndedStatus
    /\ DeleteCommits(j)
    /\ status' = [status EXCEPT ![j] = "deleted"]
    /\ SetRuns({j}, RunStatus, "absent")
    /\ UNCHANGED <<completed, fresh, planVars, queue, worker, execVars, runVars, trialVars, limitVars>>

-----------------------------------------------------------------------------
(* pg-boss hands a worker one item at a time (batchSize 1); an item that is  *)
(* older than 900 s expires, and the worker then fetches another one while   *)
(* EvalWorker.run of the first goes on.                                      *)

Holds(w, j) == host[j] = w /\ pc[j] # "over" /\ queue[j] = "active"

Fetch(w, j) ==
    /\ worker[w] # "down"
    /\ queue[j] = "created"
    /\ ~\E i \in Jobs : Holds(w, i)
    /\ queue' = [queue EXCEPT ![j] = "active"]
    /\ pc' = [pc EXCEPT ![j] = "fetched"]
    /\ host' = [host EXCEPT ![j] = w]
    /\ UNCHANGED <<dbVars, worker, abort, beating, threw, result, runVars, trialVars, limitVars>>

QueueExpire(j) ==
    /\ queue[j] = "active"
    /\ queue' = [queue EXCEPT ![j] = "ended"]
    /\ UNCHANGED <<dbVars, worker, execVars, runVars, trialVars, limitVars>>

(* Mutant: the monitor is not stopped.                                       *)
HandlerEndsMonitored(j) ==
    /\ queue' = [queue EXCEPT ![j] = "ended"]
    /\ pc' = [pc EXCEPT ![j] = "over"]
    /\ UNCHANGED <<host, abort, beating, threw>>

(* The handler returned or threw: retryLimit is 0, so both end the item.     *)
HandlerEnds(j) ==
    /\ queue' = [queue EXCEPT ![j] = "ended"]
    /\ pc' = [pc EXCEPT ![j] = "over"]
    /\ beating' = [beating EXCEPT ![j] = FALSE]
    /\ UNCHANGED <<host, abort, threw>>

-----------------------------------------------------------------------------
(* EvalWorker.run up to execute.                                             *)

EnterRun(j) ==
    /\ pc[j] = "fetched"
    /\ \/ /\ worker[host[j]] = "up"
          /\ pc' = [pc EXCEPT ![j] = "claiming"]
          /\ UNCHANGED <<queue, host, abort, beating, threw>>
       \/ worker[host[j]] = "stopping" /\ HandlerEnds(j)
    /\ UNCHANGED <<dbVars, worker, result, runVars, trialVars, limitVars>>

Claim(j) ==
    /\ pc[j] = "claiming"
    /\ \/ /\ status[j] = "queued"
          /\ status' = [status EXCEPT ![j] = "running"]
          /\ fresh' = [fresh EXCEPT ![j] = TRUE]
          /\ SetRuns({j}, {"queued"}, "running")
          /\ pc' = [pc EXCEPT ![j] = "starting"]
          /\ beating' = [beating EXCEPT ![j] = TRUE]
          /\ UNCHANGED <<queue, host, abort, threw>>
       \/ /\ status[j] # "queued"
          /\ HandlerEnds(j)
          /\ UNCHANGED <<status, fresh, runStatus>>
    /\ UNCHANGED <<completed, planVars, worker, result, runVars, trialVars, limitVars>>

Fault == faults < MaxFaults /\ faults' = faults + 1

ClaimFault(j) ==
    /\ pc[j] = "claiming"
    /\ Fault
    /\ HandlerEnds(j)
    /\ UNCHANGED <<dbVars, worker, result, runVars, trialVars, stops>>

-----------------------------------------------------------------------------
(* The AbortController of a job: the first reason stays.                     *)
FirstReason(j, reason) == IF Aborted(j) THEN abort[j] ELSE reason

(* monitor() aborts its job and returns: no more heartbeats.                 *)
MonitorAborts(j, reason) ==
    /\ abort' = [abort EXCEPT ![j] = FirstReason(j, reason)]
    /\ beating' = [beating EXCEPT ![j] = FALSE]

(* In worker.active: between the claim and the end of finish.                *)
Watched(j) == pc[j] \in {"starting", "executing", "settled"}

(* monitor(): a row that is no longer running leaves the loop going on, its  *)
(* failure count being reset before it is counted.                           *)
Heartbeat(j) ==
    /\ beating[j]
    /\ status[j] \in ExecutingStatus
    /\ fresh' = [fresh EXCEPT ![j] = TRUE]
    /\ IF status[j] = "cancelling" THEN MonitorAborts(j, "USER_CANCELLED")
       ELSE UNCHANGED <<abort, beating>>
    /\ UNCHANGED <<status, completed, runStatus, planVars, queue, worker, pc, host, threw, result,
                   runVars, trialVars, limitVars>>

HeartbeatFault(j) ==
    /\ beating[j]
    /\ Fault
    /\ MonitorAborts(j, "LEASE_LOST")
    /\ UNCHANGED <<dbVars, queue, worker, pc, host, threw, result, runVars, trialVars, stops>>

JobTimeout(j) ==
    /\ Watched(j) /\ ~Aborted(j)
    /\ abort' = [abort EXCEPT ![j] = "JOB_TIMEOUT"]
    /\ UNCHANGED <<dbVars, queue, worker, pc, host, beating, threw, result, runVars, trialVars,
                   limitVars>>

(* 30 s pass without a heartbeat of the job.                                 *)
HeartbeatAges(j) ==
    /\ status[j] \in ExecutingStatus /\ fresh[j]
    /\ SlowMonitor \/ ~beating[j]
    /\ fresh' = [fresh EXCEPT ![j] = FALSE]
    /\ UNCHANGED <<status, completed, runStatus, planVars, queue, worker, execVars, runVars,
                   trialVars, limitVars>>

Stale == {j \in Jobs : status[j] \in ExecutingStatus /\ ~fresh[j]}

(* Mutant: the benchmark runs of the jobs are forgotten.                     *)
RecoverJobsOnly(w) ==
    /\ worker[w] = "up"
    /\ Stale # {}
    /\ status' = [j \in Jobs |-> IF j \in Stale THEN "interrupted" ELSE status[j]]
    /\ ClosePlans(Stale, "interrupted")
    /\ UNCHANGED <<runStatus, completed, fresh, judged, attempts, ledger, queue, worker,
                   execVars, runVars, trialVars, limitVars>>

(* recoverInterrupted, on the timer of any live worker.                      *)
Recover(w) ==
    /\ worker[w] = "up"
    /\ Stale # {}
    /\ status' = [j \in Jobs |-> IF j \in Stale THEN "interrupted" ELSE status[j]]
    /\ SetRuns(Stale, {"queued", "running"}, "interrupted")
    /\ ClosePlans(Stale, "interrupted")
    /\ UNCHANGED <<completed, fresh, judged, attempts, ledger, queue, worker, execVars, runVars,
                   trialVars, limitVars>>

-----------------------------------------------------------------------------
(* Worker processes.                                                         *)

StopWorker(w) ==
    /\ worker[w] = "up" /\ stops < MaxStops
    /\ worker' = [worker EXCEPT ![w] = "stopping"]
    /\ stops' = stops + 1
    /\ abort' = [j \in Jobs |-> IF host[j] = w /\ Watched(j)
                                THEN FirstReason(j, "WORKER_STOPPED") ELSE abort[j]]
    /\ UNCHANGED <<dbVars, queue, pc, host, beating, threw, result, runVars, trialVars, faults>>

(* Everything in the memory of the process is gone.                          *)
Dies(w) ==
    LET lost == {j \in Jobs : host[j] = w}
        gone(r) == RunJob[r] \in lost
    IN
    /\ worker' = [worker EXCEPT ![w] = "down"]
    /\ pc' = [j \in Jobs |-> IF j \in lost THEN "over" ELSE pc[j]]
    /\ beating' = [j \in Jobs |-> IF j \in lost THEN FALSE ELSE beating[j]]
    /\ runPc' = [r \in Runs |-> IF gone(r) THEN "left" ELSE runPc[r]]
    /\ todo' = [r \in Runs |-> IF gone(r) THEN {} ELSE todo[r]]
    /\ active' = [r \in Runs |-> IF gone(r) THEN {} ELSE active[r]]
    /\ trial' = [p \in Plans |-> IF JobOf(p) \in lost THEN "none" ELSE trial[p]]
    /\ UNCHANGED <<dbVars, queue, host, abort, threw, result, retry, runThrew, bills, faults>>

ExitWorker(w)  == worker[w] = "stopping" /\ Dies(w) /\ UNCHANGED stops
CrashWorker(w) == worker[w] = "up" /\ stops < MaxStops /\ stops' = stops + 1 /\ Dies(w)

StartWorker(w) ==
    /\ worker[w] = "down"
    /\ worker' = [worker EXCEPT ![w] = "up"]
    /\ UNCHANGED <<dbVars, queue, execVars, runVars, trialVars, limitVars>>

-----------------------------------------------------------------------------
(* executeJob: loops over the benchmark runs.  A loop throws at its next     *)
(* item when the job was aborted; the others go on, also after Promise.all   *)
(* has rejected.                                                             *)

(* What `limit' loops take first from the items s; their order is left open. *)
FirstOf(limit, s) ==
    {t \in SUBSET s : Cardinality(t) = IF limit < Cardinality(s) THEN limit ELSE Cardinality(s)}

StartRuns(rs) == runPc' = [r \in Runs |-> IF r \in rs THEN "preparing" ELSE runPc[r]]

BeginExecution(j) ==
    /\ pc[j] = "starting"
    /\ pc' = [pc EXCEPT ![j] = "executing"]
    /\ \/ /\ Aborted(j)
          /\ threw' = [threw EXCEPT ![j] = TRUE]
          /\ UNCHANGED runPc
       \/ /\ ~Aborted(j)
          /\ \E rs \in FirstOf(BenchConcurrency, RunsOf(j)) : StartRuns(rs)
          /\ UNCHANGED threw
    /\ UNCHANGED <<dbVars, queue, worker, host, abort, beating, result, todo, active, retry,
                   runThrew, trialVars, limitVars>>

(* The snapshot changed, a setting is invalid, a query failed.               *)
StartFails(j) ==
    /\ pc[j] = "starting"
    /\ pc' = [pc EXCEPT ![j] = "executing"]
    /\ threw' = [threw EXCEPT ![j] = TRUE]
    /\ UNCHANGED <<dbVars, queue, worker, host, abort, beating, result, runVars, trialVars,
                   limitVars>>

(* What EvalWorker.run passes to finish.                                     *)
OutcomeOf(j) ==
    IF abort[j] = "USER_CANCELLED" THEN "cancelled"
    ELSE IF abort[j] \in {"WORKER_STOPPED", "LEASE_LOST"} THEN "interrupted"
    ELSE IF Aborted(j) \/ threw[j] THEN "failed" ELSE "completed"

ExecutionSettles(j) ==
    /\ pc[j] = "executing"
    /\ threw[j] \/ \A r \in RunsOf(j) : runPc[r] = "left"
    /\ pc' = [pc EXCEPT ![j] = "settled"]
    /\ \/ /\ result' = [result EXCEPT ![j] = OutcomeOf(j)]
          /\ UNCHANGED faults
       \/ \* planCounts failed
          /\ Fault /\ ~Aborted(j)
          /\ result' = [result EXCEPT ![j] = "failed"]
    /\ UNCHANGED <<dbVars, queue, worker, host, abort, beating, threw, runVars, trialVars, stops>>

(* Mutant: without the WHERE on the status.                                  *)
FinishAnyJob(j) ==
    /\ pc[j] = "settled"
    /\ HandlerEnds(j)
    /\ LET final == IF status[j] = "cancelling" THEN "cancelled" ELSE result[j] IN
       /\ status' = [status EXCEPT ![j] = final]
       /\ SetRuns({j}, {"queued", "running"}, final)
       /\ IF final \in {"cancelled", "interrupted"} THEN ClosePlans({j}, final)
                                                   ELSE UNCHANGED lifecycle
    /\ UNCHANGED <<completed, fresh, judged, attempts, ledger, worker, result, runVars, trialVars,
                   limitVars>>

(* Mutant: without the CASE that lets a cancellation win.                    *)
FinishIgnoringCancel(j) ==
    /\ pc[j] = "settled"
    /\ HandlerEnds(j)
    /\ \/ /\ status[j] \in ExecutingStatus
          /\ LET final == result[j] IN
             /\ status' = [status EXCEPT ![j] = final]
             /\ SetRuns({j}, {"queued", "running"}, final)
             /\ IF final \in {"cancelled", "interrupted"} THEN ClosePlans({j}, final)
                                                         ELSE UNCHANGED lifecycle
       \/ status[j] \notin ExecutingStatus /\ UNCHANGED <<status, runStatus, lifecycle>>
    /\ UNCHANGED <<completed, fresh, judged, attempts, ledger, worker, result, runVars, trialVars,
                   limitVars>>

FinishJob(j) ==
    /\ pc[j] = "settled"
    /\ HandlerEnds(j)
    /\ \/ /\ status[j] \in ExecutingStatus
          /\ LET final == IF status[j] = "cancelling" THEN "cancelled" ELSE result[j] IN
             /\ status' = [status EXCEPT ![j] = final]
             /\ SetRuns({j}, {"queued", "running"}, final)
             /\ IF final \in {"cancelled", "interrupted"} THEN ClosePlans({j}, final)
                                                         ELSE UNCHANGED lifecycle
       \/ status[j] \notin ExecutingStatus /\ UNCHANGED <<status, runStatus, lifecycle>>
    /\ UNCHANGED <<completed, fresh, judged, attempts, ledger, worker, result, runVars, trialVars,
                   limitVars>>

(* A failed finish("completed") is caught and followed by another finish;    *)
(* when that one fails too the row stays as it is.                           *)
FinishFault(j) ==
    /\ pc[j] = "settled"
    /\ Fault
    /\ \/ /\ result[j] = "completed"
          /\ result' = [result EXCEPT ![j] = IF Aborted(j) THEN OutcomeOf(j) ELSE "failed"]
          /\ UNCHANGED <<queue, pc, host, abort, beating, threw>>
       \/ result[j] # "completed" /\ HandlerEnds(j) /\ UNCHANGED result
    /\ UNCHANGED <<dbVars, worker, runVars, trialVars, stops>>

-----------------------------------------------------------------------------
(* executeBenchmarkRun: prepare the harness, EvalRunner.run over the cases,  *)
(* reset the preparation faults and run those once more, report, dispose.    *)

Goes(r, to) == runPc' = [runPc EXCEPT ![r] = to]

(* EvalRunner.run: its loops take the first cases, or throw when aborted.    *)
StartTrials(r, to, ps) ==
    \/ /\ Aborted(RunJob[r])
       /\ Goes(r, "failing")
       /\ UNCHANGED <<todo, active, trial>>
    \/ /\ ~Aborted(RunJob[r])
       /\ Goes(r, to)
       /\ \E first \in FirstOf(TrialConcurrency, ps) :
             /\ todo' = [todo EXCEPT ![r] = ps \ first]
             /\ active' = [active EXCEPT ![r] = first]
             /\ trial' = [p \in Plans |-> IF p \in first THEN "started" ELSE trial[p]]

HarnessReady(r) ==
    /\ runPc[r] = "preparing"
    /\ StartTrials(r, "trials", PlansOf(r))
    /\ UNCHANGED <<dbVars, queue, worker, execVars, retry, runThrew, bills, limitVars>>

(* harness.prepare threw: no image, no workspace, aborted.                   *)
HarnessFails(r) ==
    /\ runPc[r] = "preparing"
    /\ Goes(r, "failing")
    /\ UNCHANGED <<dbVars, queue, worker, execVars, todo, active, retry, runThrew, trialVars,
                   limitVars>>

(* The agent of a trial reaches the model: see TrialRun for what precedes.   *)
BillTrial(p) ==
    /\ trial[p] = "started" /\ ~Aborted(JobOf(p))
    /\ trial' = [trial EXCEPT ![p] = "billed"]
    /\ bills' = [bills EXCEPT ![p] = @ + 1]
    /\ UNCHANGED <<dbVars, queue, worker, execVars, runVars, limitVars>>

(* saveTrial commits only for an executing job and a plan without a result;  *)
(* a job from before the plans has no rows and keeps its counter.            *)
(* Mutant: the status of the job is not looked at.                           *)
AcceptsLate(p) == lifecycle[p] \in {"absent", "completed"} => ~HasPlanRows(JobOf(p))

Accepts(p) == /\ status[JobOf(p)] \in ExecutingStatus
              /\ lifecycle[p] \in {"absent", "completed"} => ~HasPlanRows(JobOf(p))

(* Mutant: the counter is incremented instead of counted.                    *)
SaveTrialIncrements(p, res) ==
    LET j == JobOf(p)
        outcome == DeriveTrialOutcome(res)
    IN /\ ledger' = [ledger EXCEPT ![p] = Append(@, [outcome |-> outcome, billed |-> res.billed])]
       /\ IF HasPlanRows(j)
          THEN /\ lifecycle' = [lifecycle EXCEPT ![p] = "completed"]
               /\ judged' = [judged EXCEPT ![p] = outcome]
               /\ completed' = [completed EXCEPT ![j] = @ + 1]
          ELSE UNCHANGED <<lifecycle, judged, completed>>
       /\ UNCHANGED <<status, fresh, runStatus, attempts>>

(* Mutant: a retry overwrites the attempt it repeats.                        *)
SaveTrialOverwrites(p, res) ==
    LET j == JobOf(p)
        outcome == DeriveTrialOutcome(res)
    IN /\ ledger' = [ledger EXCEPT ![p] = <<[outcome |-> outcome, billed |-> res.billed]>>]
       /\ IF HasPlanRows(j)
          THEN /\ lifecycle' = [lifecycle EXCEPT ![p] = "completed"]
               /\ judged' = [judged EXCEPT ![p] = outcome]
               /\ completed' = [completed EXCEPT ![j] =
                      Cardinality({q \in JobPlans(j) : lifecycle'[q] = "completed"})]
          ELSE UNCHANGED <<lifecycle, judged, completed>>
       /\ UNCHANGED <<status, fresh, runStatus, attempts>>

SaveTrial(p, res) ==
    LET j == JobOf(p)
        outcome == DeriveTrialOutcome(res)
    IN /\ ledger' = [ledger EXCEPT ![p] = Append(@, [outcome |-> outcome, billed |-> res.billed])]
       /\ IF HasPlanRows(j)
          THEN /\ lifecycle' = [lifecycle EXCEPT ![p] = "completed"]
               /\ judged' = [judged EXCEPT ![p] = outcome]
               /\ completed' = [completed EXCEPT ![j] =
                      Cardinality({q \in JobPlans(j) : lifecycle'[q] = "completed"})]
          ELSE UNCHANGED <<lifecycle, judged, completed>>
       /\ UNCHANGED <<status, fresh, runStatus, attempts>>

(* After the trial: its loop takes the next case, or ends, or throws.        *)
Advance(p) ==
    LET r == PlanRun[p] IN
    \/ /\ todo[r] # {} /\ ~Aborted(JobOf(p))
       /\ \E q \in todo[r] :
             /\ todo' = [todo EXCEPT ![r] = @ \ {q}]
             /\ active' = [active EXCEPT ![r] = (@ \ {p}) \cup {q}]
             /\ trial' = [trial EXCEPT ![p] = "none", ![q] = "started"]
       /\ UNCHANGED runThrew
    \/ /\ todo[r] = {} \/ Aborted(JobOf(p))
       /\ active' = [active EXCEPT ![r] = @ \ {p}]
       /\ runThrew' = [runThrew EXCEPT ![r] = @ \/ Aborted(JobOf(p))]
       /\ trial' = [trial EXCEPT ![p] = "none"]
       /\ UNCHANGED todo

LoopThrows(p) ==
    /\ active' = [active EXCEPT ![PlanRun[p]] = @ \ {p}]
    /\ runThrew' = [runThrew EXCEPT ![PlanRun[p]] = TRUE]
    /\ trial' = [trial EXCEPT ![p] = "none"]
    /\ UNCHANGED todo

EndTrial(p) ==
    /\ trial[p] # "none"
    /\ IF Accepts(p)
       THEN /\ \E res \in Results :
                   res.billed = (trial[p] = "billed") /\ SaveTrial(p, res)
            /\ Advance(p)
       ELSE LoopThrows(p) /\ UNCHANGED dbVars
    /\ UNCHANGED <<queue, worker, execVars, runPc, retry, bills, limitVars>>

(* Both saves of a trial failed; the last may have committed all the same.   *)
EndTrialFault(p) ==
    /\ trial[p] # "none"
    /\ Fault
    /\ \/ UNCHANGED dbVars
       \/ /\ Accepts(p)
          /\ \E res \in Results :
                 res.billed = (trial[p] = "billed") /\ SaveTrial(p, res)
    /\ LoopThrows(p)
    /\ UNCHANGED <<queue, worker, execVars, runPc, retry, bills, stops>>

(* Mutant: Promise.allSettled.                                               *)
TrialsAllSettle(r) ==
    /\ runPc[r] \in {"trials", "retrying"}
    /\ active[r] = {}
    /\ Goes(r, IF Aborted(RunJob[r]) THEN "failing"
               ELSE IF runPc[r] = "trials" THEN "selecting" ELSE "reporting")
    /\ runThrew' = [runThrew EXCEPT ![r] = FALSE]
    /\ UNCHANGED <<dbVars, queue, worker, execVars, todo, active, retry, trialVars, limitVars>>

(* Promise.all rejects with the first loop that threw, or all have ended.    *)
TrialsSettle(r) ==
    /\ runPc[r] \in {"trials", "retrying"}
    /\ runThrew[r] \/ active[r] = {}
    /\ Goes(r, IF runThrew[r] \/ Aborted(RunJob[r]) THEN "failing"
               ELSE IF runPc[r] = "trials" THEN "selecting" ELSE "reporting")
    /\ UNCHANGED <<dbVars, queue, worker, execVars, todo, active, retry, runThrew, trialVars,
                   limitVars>>

(* Mutant: whatever failed without a model request is retried.               *)
RetryableAnyFault(p) ==
    /\ lifecycle[p] = "completed" /\ attempts[p] = 1
    /\ attempts[p] \in DOMAIN ledger[p] /\ ~ledger[p][attempts[p]].billed

(* Mutant: without the EXISTS on the ledger.                                 *)
RetryableBilled(p) ==
    /\ lifecycle[p] = "completed" /\ PrepareFault(judged[p])
    /\ attempts[p] = 1

Retryable(p) ==
    /\ lifecycle[p] = "completed" /\ PrepareFault(judged[p])
    /\ attempts[p] = 1
    /\ attempts[p] \in DOMAIN ledger[p] /\ ~ledger[p][attempts[p]].billed

SelectRetries(r) ==
    LET faulty == {p \in PlansOf(r) : Retryable(p)} IN
    /\ runPc[r] = "selecting"
    /\ Goes(r, IF faulty = {} THEN "reporting" ELSE "resetting")
    /\ todo' = [todo EXCEPT ![r] = faulty]
    /\ retry' = [retry EXCEPT ![r] = faulty]
    /\ UNCHANGED <<dbVars, queue, worker, execVars, active, runThrew, trialVars, limitVars>>

(* Mutant: attempt_count stays.                                              *)
ResetPlanUncounted(r) ==
    /\ runPc[r] = "resetting"
    /\ \E p \in todo[r] :
          /\ todo' = [todo EXCEPT ![r] = @ \ {p}]
          /\ lifecycle' = [lifecycle EXCEPT ![p] = "queued"]
          /\ judged' = [judged EXCEPT ![p] = NoOutcome]
    /\ UNCHANGED <<jobVars, attempts, runStatus, ledger, queue, worker, execVars, runPc, active,
                   retry, runThrew, trialVars, limitVars>>

(* One statement of resetPlansForRetry; it does not look at the job.         *)
ResetPlan(r) ==
    /\ runPc[r] = "resetting"
    /\ \E p \in todo[r] :
          /\ todo' = [todo EXCEPT ![r] = @ \ {p}]
          /\ IF attempts[p] = 1
             THEN /\ lifecycle' = [lifecycle EXCEPT ![p] = "queued"]
                  /\ judged' = [judged EXCEPT ![p] = NoOutcome]
                  /\ attempts' = [attempts EXCEPT ![p] = 2]
             ELSE UNCHANGED <<lifecycle, judged, attempts>>
    /\ UNCHANGED <<jobVars, runStatus, ledger, queue, worker, execVars, runPc, active, retry,
                   runThrew, trialVars, limitVars>>

BeginRetry(r) ==
    /\ runPc[r] = "resetting" /\ todo[r] = {}
    /\ StartTrials(r, "retrying", retry[r])
    /\ UNCHANGED <<dbVars, queue, worker, execVars, retry, runThrew, bills, limitVars>>

FinishBenchmarkRun(r, to) ==
    runStatus' = IF runStatus[r] \in {"queued", "running"} THEN [runStatus EXCEPT ![r] = to]
                 ELSE runStatus

ReportRun(r) ==
    /\ runPc[r] = "reporting"
    /\ FinishBenchmarkRun(r, "completed")
    /\ Goes(r, "disposing")
    /\ UNCHANGED <<jobVars, planVars, queue, worker, execVars, todo, active, retry, runThrew,
                   trialVars, limitVars>>

(* The catch of executeBenchmarkRun; its own statement may fail.             *)
FailRun(r) ==
    /\ runPc[r] = "failing"
    /\ \/ FinishBenchmarkRun(r, IF Aborted(RunJob[r]) THEN "cancelled" ELSE "failed")
          /\ UNCHANGED faults
       \/ Fault /\ UNCHANGED runStatus
    /\ Goes(r, "disposing")
    /\ runThrew' = [runThrew EXCEPT ![r] = TRUE]
    /\ UNCHANGED <<jobVars, planVars, queue, worker, execVars, todo, active, retry, trialVars, stops>>

(* A query or update between the trials and the report failed.               *)
RunFault(r) ==
    /\ runPc[r] \in {"preparing", "selecting", "resetting", "reporting"}
    /\ Fault
    /\ Goes(r, "failing")
    /\ UNCHANGED <<dbVars, queue, worker, execVars, todo, active, retry, runThrew, trialVars, stops>>

(* harness.dispose may throw; then the loop of executeJob takes the next     *)
(* run, or ends, or throws.                                                  *)
DisposeRun(r) ==
    LET j == RunJob[r]
        waiting == {s \in RunsOf(j) : runPc[s] = "waiting"}
    IN
    /\ runPc[r] = "disposing"
    /\ \/ /\ threw' = [threw EXCEPT ![j] = TRUE]
          /\ Goes(r, "left")
       \/ /\ ~runThrew[r] /\ ~Aborted(j)
          /\ \E next \in FirstOf(1, waiting) :
                runPc' = [s \in Runs |-> IF s = r THEN "left"
                                        ELSE IF s \in next THEN "preparing" ELSE runPc[s]]
          /\ UNCHANGED threw
    /\ UNCHANGED <<dbVars, queue, worker, pc, host, abort, beating, result, todo, active, retry,
                   runThrew, trialVars, limitVars>>

-----------------------------------------------------------------------------
RunStep(r) == \/ HarnessReady(r) \/ HarnessFails(r) \/ TrialsSettle(r)
              \/ SelectRetries(r) \/ ResetPlan(r) \/ BeginRetry(r)
              \/ ReportRun(r) \/ FailRun(r) \/ DisposeRun(r)

JobStep(j) == \/ EnterRun(j) \/ Claim(j) \/ BeginExecution(j) \/ StartFails(j)
              \/ ExecutionSettles(j) \/ FinishJob(j)

Executor(j) == \/ JobStep(j)
               \/ \E r \in RunsOf(j) : RunStep(r)
               \/ \E p \in JobPlans(j) : EndTrial(p)

Faults == \/ \E j \in Jobs : ClaimFault(j) \/ HeartbeatFault(j) \/ FinishFault(j)
          \/ \E r \in Runs : RunFault(r)
          \/ \E p \in Plans : EndTrialFault(p)

Next ==
    \/ \E j \in Jobs : Create(j) \/ Cancel(j) \/ Delete(j)
    \/ \E j \in Jobs, w \in Workers : Fetch(w, j)
    \/ \E j \in Jobs : \/ QueueExpire(j) \/ Executor(j)
                       \/ Heartbeat(j) \/ HeartbeatAges(j) \/ JobTimeout(j)
    \/ \E p \in Plans : BillTrial(p)
    \/ \E w \in Workers : \/ Recover(w) \/ StopWorker(w) \/ ExitWorker(w)
                          \/ CrashWorker(w) \/ StartWorker(w)
    \/ Faults

(* Every promise the executor awaits settles (a trial by its own timer, see  *)
(* TrialRun, a query by the driver), a monitor beats every 500 ms, time      *)
(* passes for a job without a monitor, and the workers that are up run their *)
(* recovery timer.  Nothing is assumed of users, the queue or restarts.      *)
Fairness ==
    /\ \A j \in Jobs : /\ WF_vars(Executor(j))
                       /\ WF_vars(Heartbeat(j))
                       /\ WF_vars(HeartbeatAges(j) /\ ~beating[j])
    /\ WF_vars(\E w \in Workers : Recover(w))

Spec == Init /\ [][Next]_vars /\ Fairness

-----------------------------------------------------------------------------
(* The ledger and the plan tell the same story: attempt_count attempts were  *)
(* begun, the ledger holds one entry for each that produced a result, and    *)
(* the verdict statistics count is the one of the last entry.                *)
LedgerExact ==
    \A p \in Plans : lifecycle[p] # "absent" =>
        IF lifecycle[p] = "completed"
        THEN /\ Len(ledger[p]) = attempts[p]
             /\ judged[p] = ledger[p][attempts[p]].outcome
        ELSE /\ Len(ledger[p]) = attempts[p] - 1
             /\ judged[p] = NoOutcome

(* A second attempt only ever follows a preparation fault whose ledger entry *)
(* shows no model request.                                                   *)
RetryOnlyUnbilled ==
    \A p \in Plans : attempts[p] = 2 =>
        /\ Len(ledger[p]) >= 1
        /\ PrepareFault(ledger[p][1].outcome) /\ ~ledger[p][1].billed

(* A job that ended as completed has a result for every trial it planned.    *)
CompletedJobDecided ==
    \A j \in Jobs : status[j] = "completed" =>
        \A p \in JobPlans(j) : ledger[p] # <<>> /\ lifecycle[p] \in {"absent", "completed"}

(* No benchmark run is left queued or running under an ended job, and none   *)
(* of a job that completed ended otherwise.                                  *)
EndedJobHasEndedRuns ==
    \A r \in Runs : /\ status[RunJob[r]] \in EndedStatus => runStatus[r] \in EndedStatus
                    /\ status[RunJob[r]] = "completed" => runStatus[r] = "completed"

(* The progress counter never passes the plan and never lags behind the      *)
(* results, retries and lost replies included.                               *)
ProgressBounded ==
    \A j \in Jobs :
        /\ completed[j] <= Cardinality(JobPlans(j))
        /\ Cardinality({p \in JobPlans(j) : lifecycle[p] = "completed"}) <= completed[j]

(* No planned trial pays for the model twice: not through the retry, a       *)
(* crash, the recovery, an expired or redelivered queue item.                *)
EachPlanBilledOnce == \A p \in Plans : bills[p] <= 1

(* Once a job has ended no late result enters its ledger or its counter, and *)
(* no plan of it becomes completed.                                          *)
NoLateResult ==
    [][\A j \in Jobs : status[j] \in EndedStatus =>
          /\ completed'[j] = completed[j]
          /\ \A p \in JobPlans(j) :
                /\ ledger'[p] = ledger[p]
                /\ lifecycle'[p] = "completed" => lifecycle[p] = "completed"]_vars

(* An ended job stays as it ended, whatever the worker that still runs it    *)
(* reports later; all that can happen to it is its deletion.                 *)
EndedIsFinal ==
    [][\A j \in Jobs : status[j] \in EndedStatus => status'[j] \in {status[j], "deleted"}]_vars

(* A cancellation that was acknowledged is never answered by a completed or  *)
(* failed job, however it races with the end of the execution.               *)
CancellingNeverCompletes ==
    [][\A j \in Jobs : status[j] = "cancelling" =>
          status'[j] \in {"cancelling", "cancelled", "interrupted"}]_vars

(* Every claimed job ends, through its worker or through the recovery,       *)
(* as long as one worker is up.                                              *)
ExecutingEnds ==
    \A j \in Jobs : (status[j] \in ExecutingStatus) ~> (status[j] \in EndedStatus \cup {"deleted"})

(* What the job machinery promises of the attempts of a planned trial.       *)
Promise == INSTANCE ExperimentLedger WITH
    Jobs  <- Jobs \ LegacyJobs,
    Plans <- {p \in Plans : JobOf(p) \notin LegacyJobs},
    PlanJob <- [p \in {q \in Plans : JobOf(q) \notin LegacyJobs} |-> JobOf(p)],
    phase <- [j \in Jobs \ LegacyJobs |->
                IF status[j] \in {"absent", "queued"} THEN "waiting"
                ELSE IF status[j] \in ExecutingStatus THEN "open" ELSE "closed"],
    ledger <- [p \in {q \in Plans : JobOf(q) \notin LegacyJobs} |-> ledger[p]]

(* The detailed machinery implements the experiment ledger.                  *)
ImplementsLedger == Promise!Spec

=============================================================================
