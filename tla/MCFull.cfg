SPECIFICATION Spec
CONSTANTS
    RecordLimit = 4
    Overhead = 1
    MaxEarlyData = 0
    WriteSizes = {1}
    Configs <- FullConfigs
INVARIANTS
    AssertionsHold OnlyPolicyFailures AlertsAreUnderstood
    Agreement Authentication
