SPECIFICATION Spec
CONSTANTS
    MaxEntries = 4
    Names = {"a", "b"}
    Listings <- MCListings
INVARIANTS
    TypeOK
    ParentsAreTrue
    ListedOnce
    EveryEntryIsListed
    LookupFindsEntry
CHECK_DEADLOCK FALSE
