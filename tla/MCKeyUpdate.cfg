SPECIFICATION Spec
CONSTANTS
    MaxUpdates = 2
    MaxWrites = 1
INVARIANTS
    TypeOK ChainInvariant RequestsAnswered
PROPERTIES
    CloseFailsOnlyBehindUpdate ImplementsChannel
CHECK_DEADLOCK FALSE
