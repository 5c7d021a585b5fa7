SPECIFICATION FairSpec
CONSTANTS
    Slicings <- MCSlicings
    Asks = {1, 3}
    Seeks <- MCSeeks
    MaxPos = 6
    Faults = {"missing", "error", "interrupt", "cut", "truncate"}
    Lost = Lost
INVARIANTS
    TypeOK
    SpansTileArchive
PROPERTIES
    ReadsAsUnsliced
    ReadEnds
CHECK_DEADLOCK FALSE
