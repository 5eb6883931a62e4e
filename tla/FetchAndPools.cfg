SPECIFICATION CallSpec
CONSTANTS
    Versions <- MCVersions
    Configs <- MCConfigs
    Offered <- MCOffered
    Links <- MCLinks
    MaxAttempts = 3
    Requests <- MCRequests
    Indexes <- MCIndexes
    FileLists <- MCFileLists
    KnownFamilies <- MCFamilies
    ArchNames <- MCArchNames
    MaxBlocks = 3
    MaxChunks = 5
    Procs = 3
    StoreDirectories <- MCStoreDirectories
    Identities <- MCIdentities
INVARIANTS
    SkusKeepTheirSession
    AnswersAreUsed
    PayloadAsAsked
    OneWriterPerChunk
    ErrorIsTruthful
    ReportsLowest
PROPERTIES
    Ends
    CallsReturn
CHECK_DEADLOCK FALSE
