SPECIFICATION Spec
CONSTANTS
    Formats = {1, 2, 7, 8, 9, 11}
    Catalogues <- MCCatalogues
    GlobalComp = "y"
    WORD = 16
    SHORT = 8
    MAX_NUL_STRING = 3
    MAX_CRC_SIZE = 2
    None = None
INVARIANTS
    TypeOK
    NeverMisreads
    ReadsWhatWasWritten
    ErrorsAreEarned
CHECK_DEADLOCK FALSE
