SPECIFICATION FairOpen
CONSTANTS
    SEQT_LEN = 2
    LABEL_LEN = 3
    CHUNK = 3
    OVERLAP = 2
    TAIL_SCAN = 6
    MaxEnd = 13
    TG = 2
    MAX_BITS = 8
    Files <- MCFiles
    Archives <- MCArchives
    NoArchive <- MCNoArchive
    Labels = {"A", "B", "zero"}
    ZeroLabel = "zero"
    FORMAT_11_1 = 2817
    PATH_LEN = 1
    MAX_BLOCK_SIZE = 2
    None = None
INVARIANTS
    TypeOK
    NoMarkerPassed
    MissingOnlyIfAbsent
    LocatesCatalogue
    ParsesTheEntries
    GenuineOpens
    LocatesInfinint
PROPERTIES
    OpenEnds
CHECK_DEADLOCK FALSE
