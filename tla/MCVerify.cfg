SPECIFICATION FairSpec
CONSTANTS
    Inputs <- AllInputs
    Now <- MCNow
INVARIANTS
    TypeOK Sound Complete ShortestFirst UnknownCaIsNoPath
PROPERTIES
    Terminates
CHECK_DEADLOCK FALSE
