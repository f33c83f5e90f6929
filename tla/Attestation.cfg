\* A seed of two words of two values, requests of every kind around every limit.
SPECIFICATION FairSpec
CONSTANTS
    SeedWords = 2
    WordValues = {v1, v2}
    ReadClears = TRUE
    Sizes <- MCSizes
    Rooms <- MCRooms
    BootRecords <- MCBootRecords
INVARIANTS
    TypeOK
    AllOrNothing
    OneSeedPerBoot
    SeedFromFreshWords
    ComputedIsEncoded
    TooSmallIsTheClients
PROPERTIES
    EveryRequestAnswered
