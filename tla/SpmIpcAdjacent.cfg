\* The board's memory map, calls up to two deep (a third is refused), one
\* vector of each direction; the output of a call right behind its input.
SPECIFICATION Spec
CONSTANTS
    attest = attest
    crypto = crypto
    storage = storage
    other = other
    Client = client
    NoProcess = none
    Absent = absent
    MaxConnections = 2
    PSA_MAX_IOVEC = 1
    Sizes = {0, 2}
    Granule = 32
    MaxRegions = 8
    Handles <- MCHandles
    Processes <- MCProcesses
    HasRoom <- MCHasRoom
    Rank <- MCRank
    Rom <- MCRom
    Ram <- MCRam
    Custom <- MCCustom
    InBuffers <- MCInBuffers
    OutBuffers <- MCAdjacentOut
INVARIANTS
    AccessedReachable
