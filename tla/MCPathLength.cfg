SPECIFICATION Spec
CONSTANTS
    Inputs <- AllInputs
    Now <- MCNow
INVARIANTS
    PathLengthRespected
CHECK_DEADLOCK FALSE
