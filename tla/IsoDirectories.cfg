SPECIFICATION Spec
CONSTANTS
    NameMax = 3
    ExtMax = 2
    maxFileNameTotal = 6
    maxDirIDLen = 4
    jolietMaxNameLen = 3
    Calls <- MCCalls
    HostTree <- MCHostTree
    OptionSets <- MCOptionSets
    MaxCalls = 3
    LogicalSectorSize = 256
    LbaMod = 2048
    IndexMod = 64
    MaxLevel = 3
    MaxLenFI = 14
    udfMaxExtentLength = 512
    BootUnit = 64
    MaxBootSectors = 60
INVARIANT DirectoriesFit
CHECK_DEADLOCK FALSE
