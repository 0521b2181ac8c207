SPECIFICATION Spec
CONSTANTS
    MaxUpdates = 2
    MaxWrites = 1
INVARIANT
    CloseNotifyIsRead
CHECK_DEADLOCK FALSE
