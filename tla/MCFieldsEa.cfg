SPECIFICATION Spec
CONSTANTS
    Formats = {1, 2, 7, 8, 9, 11}
    Catalogues <- MCWithEa
    GlobalComp = "y"
    WORD = 16
    SHORT = 8
    MAX_NUL_STRING = 3
    MAX_CRC_SIZE = 2
    None = None
INVARIANT NeverMisreads
CHECK_DEADLOCK FALSE
