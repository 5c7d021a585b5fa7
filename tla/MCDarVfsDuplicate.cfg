SPECIFICATION Spec
CONSTANTS
    Workers = {w1, w2}
    entries <- MCDuplicate
    Offsets = {0}
    Lengths = {2}
    MaxCalls = 2
    NoWorker = NoWorker
INVARIANT
    CacheIsTrue
CHECK_DEADLOCK FALSE
