CONSTANTS
    Jobs = {"j1"}
    LegacyJobs = {}
    Runs = {"r1"}
    RunJob <- OneRun
    Plans = {"p1"}
    PlanRun <- SoleTrial
    Workers = {w1, w2}
    NoWorker = NoWorker
    Results <- AllResults
    MaxActive = 1
    BenchConcurrency = 1
    TrialConcurrency = 1
    SlowMonitor = TRUE
    MaxFaults = 1
    MaxStops = 1
SPECIFICATION Spec
INVARIANTS LedgerExact RetryOnlyUnbilled ProgressBounded EachPlanBilledOnce
PROPERTIES NoLateResult ImplementsLedger ExecutingEnds
\* jobs end and processes may stay down
CHECK_DEADLOCK FALSE
