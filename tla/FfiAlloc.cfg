\* A heap of five and a half units of 8 bytes and three descriptors; requests on
\* both sides of a unit, and one that never fits.
SPECIFICATION FairSpec
CONSTANTS
    HEAP_SIZE = 44
    MAX_ALLOCS = 3
    Requests = {0, 1, 8, 9, 17, 24, 41}
INVARIANTS
    TypeOK
    BlocksApart
    BlocksAligned
    NullOnlyWhenFull
    DescriptorsMatchBlocks
PROPERTIES
    SearchEnds
