CONSTANTS
    Jobs = {"j1", "j2"}
    LegacyJobs = {"j1"}
    Runs = {"r1", "r2"}
    RunJob <- TwoJobs
    Plans = {"p1", "p2"}
    PlanRun <- OneTrial
    Workers = {w1}
    NoWorker = NoWorker
    Results <- OnePass
    MaxActive = 2
    BenchConcurrency = 1
    TrialConcurrency = 1
    SlowMonitor = FALSE
    MaxFaults = 0
    MaxStops = 1
SPECIFICATION Spec
PROPERTIES EndedIsFinal CancellingNeverCompletes
\* jobs end and processes may stay down
CHECK_DEADLOCK FALSE
