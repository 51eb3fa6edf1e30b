SPECIFICATION StackSpec
CONSTANTS
    Tokens = {a, b}
    Capacity = 3
    MaxEncode = 3
    MaxCalls = 6
    Align = 2
    MaxBufferBytes = 4
    BufferSizes = {0, 2, 3, 5}
    Bytes = {1}
    MaxTransfers = 2
    MaxLeaks = 1
    Largest = 4
    Slip = 1
    Values <- MCValues
    MaxLength = 3
    MaxOperand = 2
    MaxScratch = 3
    MaxGroups = 2
    InputShapes <- MCShapes
    MaxNodes = 2
    MaxTensor = 3
    MaxLive = 9
    MaxNodeScratch = 2
    MaxWorkItems = 26
    LastPosition = 2
    RowWidth = 2
    Layers = 3
    MaxGeneration = 2
    RowWidthFp4 = 3
    GroupSize = 2
    MaxRows = 2
    RowSamples <- MCRows
    ShadowLayers = 2
    Drafts <- MCDrafts
    Schedules <- MCSchedules
    TargetLogits <- MCLogits
    Vocabulary = 2
    MaxDraft = 2
    SignBit = 4
    Certain = 2
    MaxCount = 2
    PvpLayouts <- MCLayouts
    Narrow = 2
    PvpGroup = 4
    MaxExecutions = 2
    Artifacts <- MCArtifacts
    DeviceLimits <- MCLimits
    Unlimited = 3
    MaxBindings = 3
    AddWorkgroup = 2
    MaxAdded = 3
    OracleBits = 3
    LowestExponent <- MCLowestExponent
    InfiniteBiased = 10
    StickyGap = 8
    OracleInputs = {0, 1, 3, 4, 21, 26, 39}
    ReplayRows = 4
    CommandLines <- MCLines
    AdapterReports <- MCReports
    MaxSuites = 8
    Registrations <- MCRegistrations
INVARIANTS
    SumIsCommitted
    LogitsCurrent
    MemoryAgrees
    ErrorsReported
    KernelsAgree
    GraphExecutes
    ReplayExact
    Fp4Nearest
    VerifyGreedy
    ZetaIsSubsetXor
    BoundFits
    EvidenceHonest
PROPERTY
    EncodePrefix
CHECK_DEADLOCK FALSE
