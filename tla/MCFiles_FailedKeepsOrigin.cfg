SPECIFICATION Spec
CONSTANTS
    Paths = {"f", "g"}
    AgentContents = {"a", "b"}
    UserContents = {"a", "u"}
    BaseCommit <- OneTracked
    Failing = {"backup"}
    MaxUserEdits = 0
    MaxAgentEdits = 2
    MaxTurns = 1
    MaxSaves = 1
    MaxFaults = 1
    MaxCrashes = 1
    MaxDamages = 0
PROPERTY FailedKeepsOrigin
CHECK_DEADLOCK FALSE
