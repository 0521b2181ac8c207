SPECIFICATION Spec
CONSTANTS
    RecordLimit = 4
    Overhead = 1
    MaxEarlyData = 0
    WriteSizes = {1}
    Configs <- OldServerConfigs
INVARIANT
    VersionsAgree
