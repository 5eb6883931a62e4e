SPECIFICATION Spec
CONSTANTS
    NameMax = 8
    ExtMax = 3
    maxFileNameTotal = 30
    maxDirIDLen = 31
    jolietMaxNameLen = 64
    Calls <- MCAlikeCalls
    HostTree <- MCAlikeTree
    OptionSets <- MCAlikeOptions
    MaxCalls = 1
    LogicalSectorSize = 256
    LbaMod = 2048
    IndexMod = 64
    MaxLevel = 3
    MaxLenFI = 30
    udfMaxExtentLength = 512
    BootUnit = 64
    MaxBootSectors = 60
INVARIANT CounterWithinLimit
CHECK_DEADLOCK FALSE
