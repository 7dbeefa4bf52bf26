SPECIFICATION Spec
CONSTANTS
    Paths = {"f", "g"}
    AgentContents = {"a", "b"}
    UserContents = {"a", "u"}
    BaseCommit <- OneTracked
    Failing = {}
    MaxUserEdits = 0
    MaxAgentEdits = 2
    MaxTurns = 1
    MaxSaves = 3
    MaxFaults = 1
    MaxCrashes = 1
    MaxDamages = 0
INVARIANT TornTailIgnored
CHECK_DEADLOCK FALSE
