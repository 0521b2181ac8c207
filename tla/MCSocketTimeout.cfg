SPECIFICATION Spec
CONSTANTS
    Modes = {"timeout"}
    SendBuffer = 3
    Rounds = 1
    MaxWrites = 2
    MaxPeer = 1
    Faults = {"bad", "close_notify", "eof"}
INVARIANT
    StreamIntact
CHECK_DEADLOCK FALSE
