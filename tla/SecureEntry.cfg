\* Two client threads behind the veneers, calls nested up to two deep (a third
\* is refused), one vector of each direction of one byte.
SPECIFICATION FairSpec
CONSTANTS
    Threads = {c1, c2}
    NoThread = nobody
    Handles = {crypto, attest}
    MaxConnections = 2
    Absent = absent
    PSA_MAX_IOVEC = 1
    Sizes = {1}
INVARIANTS
    TypeOK
    NeverBusy
    OwnConnection
    AccessFindsConnection
    NothingLeaks
PROPERTIES
    KeepsPromise
    GateReopens
