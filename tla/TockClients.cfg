\* Each board boots, and is reset at any moment; two processes reserve, call with
\* good and bad memory and release.
SPECIFICATION FairSpec
CONSTANTS
    AddressSpace = 1610612736
    TtGranule = 32
    PSA_MAX_IOVEC = 4
    WordBits = 32
    PPC_REGION_COUNT = 222
    REGIONS_PER_ATTR_REG = 32
    REGIONS_PER_PC_MASK_REG = 4
    NS_SECURE_ONLY_REGIONS = {191}
    NS_UNPRIVILEGED_REGIONS = {126, 185}
    PC_MASK_EXCLUDED_REGIONS = {126, 185, 191}
    Boards <- MCBoards
    SauCount = 8
    LastNsIrq <- MCLastNsIrq
    NvicWords <- MCNvicWords
    DataWords = 2
    Message = 2
    Console <- MCConsole
    SauRegions <- MCSauRegions
    MpcJobs <- MCMpcJobs
    p1 = p1
    p2 = p2
    Procs = {p1, p2}
    NoProc = nobody
    Interactive = {p1}
    Lines <- MCLines
    NonceBytes = 2
    MpuRegions <- MCMpuRegions
    Buffers <- MCBuffers
INVARIANTS
    TypeOK
    MpcOpensExactly
    StaticsFresh
    PeripheralsAsMeant
    NonceAsTyped
    OnlyReachableBytes
    InputsApart
    HonestCallServed
    ReleaseSucceeds
PROPERTIES
    OwnerGivesBack
    BootEnds
