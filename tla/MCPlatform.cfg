SPECIFICATION Spec
CONSTANTS
    MaxPieces = 1
    MaxReplyCalls = 2
    MaxReplies = 3
    MaxModelRetries = 1
    Keys = {"a", "y", "left", "wheel", "return", "escape", "backspace"}
    MaxKeys = 3
    MaxTurns = 1
    MaxStreams = 3
    MaxText = 2
    MaxOthers = 2
    MaxAgentEdits = 2
    Builders = {"a", "b"}
    MaxLockAttempts = 2
    MaxWorkerDeaths = 1
    MaxPrunes = 1
    SetupTrials = {"t", "u", "v"}
    SetupConcurrency = 1
    SetupCommands = 1
    Uploads = {"t"}
    Drafts = {1, 2}
    Reviewers = {"r", "s"}
    MaxVersions = 2
    MaxEvents = 4
    PageLimit = 2
    LastEvents = 1
    MaxDrops = 2
    Jobs = {"j", "k"}
    MaxUserSteps = 2
    MaxInFlight = 2
INVARIANTS RepliesTakenWhole TerminalFaithful GradedAsSubmitted SlotsAndRootsExact NothingSkipped
PROPERTIES ReadyHasImage DecisionsStand PlatformSettles
CHECK_DEADLOCK FALSE
