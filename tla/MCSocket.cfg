SPECIFICATION Spec
CONSTANTS
    Modes = {"blocking", "nonblocking", "timeout"}
    SendBuffer = 3
    Rounds = 1
    MaxWrites = 2
    MaxPeer = 1
    Faults = {"bad", "close_notify", "eof"}
INVARIANTS
    TypeOK CiphertextConserved NothingPending BlockingWritesOnce FailureIsTold
PROPERTIES
    HandshakeCompletes CloseArrives
CHECK_DEADLOCK FALSE
