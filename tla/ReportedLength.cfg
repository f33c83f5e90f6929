\* Expected to fail: the client is told the length of its own buffer.
SPECIFICATION Spec
CONSTANTS
    SeedWords = 2
    WordValues = {v1, v2}
    ReadClears = TRUE
    Sizes <- MCSizes
    Rooms <- MCRooms
    BootRecords <- MCBootRecords
INVARIANT
    ReportsWritten
