SPECIFICATION Spec
CONSTANTS
    None = None
    Listings <- MCListings
    FAR_FUTURE <- MCFarFuture
    Code <- MCCode
    Invalid <- MCInvalid
    REPLACEMENT = "?"
    ToText <- MCToText
INVARIANTS
    TypeOK
    ReportsExactly
    WorstFirst
    LinesAreEntries
CHECK_DEADLOCK FALSE
