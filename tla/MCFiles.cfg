SPECIFICATION Spec
CONSTANTS
    Paths = {"f", "g"}
    AgentContents = {"a", "b"}
    UserContents = {"a", "u"}
    BaseCommit <- OneTracked
    Failing = {"inspect", "stage", "backup", "commit", "rollback", "patch", "record", "refresh"}
    MaxUserEdits = 1
    MaxAgentEdits = 2
    MaxTurns = 2
    MaxSaves = 5
    MaxFaults = 1
    MaxCrashes = 1
    MaxDamages = 1
INVARIANTS AllOrNothing NothingLost LoadsCommitted InterruptedKept ClearedIsGone
PROPERTIES UserEditsKept
CHECK_DEADLOCK FALSE
