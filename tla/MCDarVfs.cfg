SPECIFICATION FairSpec
CONSTANTS
    Workers = {w1, w2}
    entries <- MCEntries
    Offsets = {0, 1}
    Lengths = {2}
    MaxCalls = 2
    NoWorker = NoWorker
INVARIANTS
    TypeOK
    ReaderIsOwned
    CacheIsTrue
    ExtractsOnce
PROPERTIES
    ReadsAreAtomic
    ReadsComplete
CHECK_DEADLOCK FALSE
