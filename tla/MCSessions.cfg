SPECIFICATION Spec
CONSTANTS
    MaxConns = 2
    MaxNow = 6
    MaxWait = 1
    MaxFaults = 1
    Kinds <- MCKinds
    Lags <- MCLags
INVARIANTS
    TypeOK SecretsAgree IdentityKept
PROPERTIES
    ServerHonoursLifetime ClientHonoursLifetime RefusedOnlyAtExpiry RenewalBounded
CHECK_DEADLOCK FALSE
