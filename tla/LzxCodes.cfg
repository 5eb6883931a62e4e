SPECIFICATION Spec
CONSTANTS
    MaxMainLen = 4
    MaxLenLen = 2
    MaxPreLen = 3
    MaxAlignedLen = 1
    PreElementBits = 2
    ZeroRunBits = 2
    LongRunBits = 3
    NumChars = 8
    MaxMatchLen = 5
    NumPrimaryLens = 1
    MinOrder = 3
    MinOffsetSlots = 6
    SlotBase <- MCSlotBase
    ExtraBits <- MCExtraBits
    Buckets = 2
    MaxFresh = 2
    BeamWidth = 2
    LongRepeat = 3
    CallByte = 6
    Operand = 2
    Magic = 20
    DefaultBlockSize = 8
    SizeBits = 3
    WideSizeBits = 5
    MinAlignedSlot = 4
    AlignedBits = 1
    MinStatsBlock = 2
    MaxRounds = 2
    CabFrame = 8
    Damaged = 1
    Unit = 4
    XNumChars = 4
    LenHeaders = 2
    OffsetClasses = 2
    FlatBits = 2
    FallbackBits = 3
    XBuckets = 2
    XSearchDepth = 3
    Word = 4
    ProbBits = 2
    LzmsMaxLen = 6
    LNumChars = 7
    MainStates = 4
    MatchStates = 2
    LzStates = 2
    LitEvery = 3
    OffsetEvery = 2
    LengthEvery = 2
    LOffsetBase <- MCOffsetBase
    LOffsetExtra <- MCOffsetExtra
    LLengthBase <- MCLengthBase
    LLengthExtra <- MCLengthExtra
    HashBytes = 3
    LBuckets = 2
    MinEncodeMatch = 2
    MaxEncodeMatch = 20
    X86Tail = 3
    X86Operand = 2
    X86Reach = 6
    X86Window = 5
    X86Call = 3
    X86Jump = 4
    X86Long <- MCX86Long
    NameLimit = 8
    MaxTreeDepth = 3
    NarrowLimit = 832
    Calls <- LzxCodeCalls
INVARIANT CodesValid
CHECK_DEADLOCK FALSE
