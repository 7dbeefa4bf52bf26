CONSTANTS
    MaxTurns = 3
    MaxToolCalls = 3
    MaxCalls = 2
    ModelRetries = 2
    Signatures = {"a", "b"}
    Window = 2
    RepeatLimit = 2
SPECIFICATION Spec
INVARIANTS RequestsSound StatusHasVerdict
PROPERTIES ImplementsTask RunEnds
\* the run ends
CHECK_DEADLOCK FALSE
