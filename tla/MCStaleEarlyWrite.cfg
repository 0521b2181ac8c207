SPECIFICATION Spec
CONSTANTS
    RecordLimit = 8
    Overhead = 1
    MaxEarlyData = 3
    WriteSizes = {1, 3}
    Configs <- RejectConfigs
INVARIANT
    AppDataEpoch
