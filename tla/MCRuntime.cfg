SPECIFICATION Spec
CONSTANTS
    MaxOutput = 2
    MaxTotal = 4
    Calls = {"c1", "c2", "c3", "c4"}
    MaxConcurrent = 2
    MaxServers = 2
    MaxRequests = 3
    MaxTurns = 3
    KeepTurns = 1
    MaxSessions = 2
INVARIANTS ToolCallsAccounted ConversationFaithful SessionsApart
PROPERTIES NothingLeftOver
CHECK_DEADLOCK FALSE
