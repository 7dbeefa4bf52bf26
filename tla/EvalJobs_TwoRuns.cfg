CONSTANTS
    j1 = j1
    r1 = r1
    r2 = r2
    p1 = p1
    p2 = p2
    p3 = p3
    Jobs = {j1}
    LegacyJobs = {}
    Runs = {r1, r2}
    RunJob <- BothRuns
    Plans = {p1, p2, p3}
    PlanRun <- TwoAndOne
    Workers = {w1}
    NoWorker = NoWorker
    Results <- FewResults
    MaxActive = 1
    BenchConcurrency = 2
    TrialConcurrency = 2
    SlowMonitor = TRUE
    MaxFaults = 1
    MaxStops = 0
SPECIFICATION Spec
INVARIANTS CompletedJobDecided EndedJobHasEndedRuns
SYMMETRY TwinTrials
\* jobs end
CHECK_DEADLOCK FALSE
