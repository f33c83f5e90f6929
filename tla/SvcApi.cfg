SPECIFICATION Spec
CONSTANTS
    PSA_MAX_IOVEC = 2
    Sizes = {0, 2}
    Handles <- MCHandles
    Msg = 259
    InBase <- MCInBase
    OutBase <- MCOutBase
    Types = {0, 1001, 32768}
    Lens = {0, 1, 2, 8}
    Statuses <- MCStatuses
    Versions <- MCVersions
    Ids = {256, 258, 260}
    MaxCalls = 3
INVARIANTS BuildsAgree HeldOnlyAfterFailure
CHECK_DEADLOCK FALSE
