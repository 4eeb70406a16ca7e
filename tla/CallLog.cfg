CONSTANTS
    MaxCalls = 5
    RingSizes = {1, 2}
    PendingMax = 2
    RotateAt = 1
    Tails = {0, 2}
    MaxClears = 2
    MaxCrashes = 1
SPECIFICATION Spec
INVARIANTS
    ClearedStaysCleared
    LogInOrder
    ReadInOrder
CHECK_DEADLOCK FALSE
