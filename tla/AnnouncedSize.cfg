\* Expected to fail: the announced size leaves most of the claims out.
SPECIFICATION Spec
CONSTANTS
    SeedWords = 2
    WordValues = {v1, v2}
    ReadClears = TRUE
    Sizes <- MCSizes
    Rooms <- MCRooms
    BootRecords <- MCBootRecords
INVARIANT
    AnnouncedSizeSuffices
