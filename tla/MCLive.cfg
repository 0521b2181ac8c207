SPECIFICATION FairSpec
CONSTANTS
    RecordLimit = 8
    Overhead = 1
    MaxEarlyData = 2
    WriteSizes = {2}
    Configs <- LiveConfigs
PROPERTIES
    CompatibleCompletes FailureIsShared
