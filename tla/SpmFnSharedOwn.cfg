\* Two threads share the dispatcher without the veneers, three levels each.
SPECIFICATION SpmSpec
CONSTANTS
    Threads = {t1, t2}
    NoThread = nobody
    Handles = {crypto}
    MaxConnections = 2
    Absent = absent
    PSA_MAX_IOVEC = 1
    Sizes = {1}
INVARIANTS
    OwnConnection
