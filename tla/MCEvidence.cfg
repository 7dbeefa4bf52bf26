SPECIFICATION Spec
CONSTANTS
    MaxModelRequests = 2
    CompareCases = {"a", "b"}
    Repetitions = 2
    SuiteOf <- OnePerSuite
    Batches <- WholeOrSplit
    MinHoldoutCases = 1
    MaxRuns = 3
    MaxMishaps = 2
    Candidates <- Clashing
    Promoters = {"p", "q"}
    MaxCrashes = 1
    Tests = {"t1"}
    MaxEdits = 2
    Traces = {1, 2}
    Processes = {"p", "q"}
    RecoveryLimit = 2
    MaxTorn = 1
    MaxFaults = 1
INVARIANTS TrialVerdictSound ComparedIsFinal PromotionSound
    DatasetReadable AcceptedWork CapturedKept
PROPERTIES NothingHalfDone
CHECK_DEADLOCK FALSE
