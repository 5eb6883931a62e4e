SPECIFICATION RegistrySpec
CONSTANTS
    Names <- MCNames
    Fold <- MCFold
    Packages <- MCPackages
    DirIDs <- MCDirIDs
    Requests <- MCRequests
    Existing <- MCExisting
    MaxCalls = 4
    Installations <- MCInstallations
    Winners <- MCWinners
    IdentityOf <- MCIdentityOf
    LongNames <- MCLongNames
    StoreTrees <- MCStoreTrees
    MaxStoreCalls = 3
    Factory <- MCFactory
    Families <- MCFamilies
    FoldFamily <- MCFoldFamily
    MaxRemovals = 2
    Trees <- MCTrees
    Descriptors <- MCDescriptors
    DescriptorLen <- MCDescriptorLen
    Width16 = 4
    MaxKeyTreeDepth = 4
    DBSegmentMaxSize = 8
    BinAlign = 64
INVARIANTS
    PackageRegistered
    FirstRemovalDecides
    SkListCircular
    SkCountsExact
    RoundTrip
PROPERTIES
    CallsDoAsTheySay
    RepeatChangesNothing
    HalvesAgree
CHECK_DEADLOCK FALSE
