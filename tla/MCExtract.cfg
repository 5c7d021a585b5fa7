SPECIFICATION FairSpec
CONSTANTS
    Archives <- MCArchives
    BlockSize = 4
    MaxCalls = 2
    Faults = {"error", "shrink"}
INVARIANTS
    TypeOK
    SoundIsWhole
    WholeIfDecoded
    OutputIsCapped
    OutputIsPrefix
PROPERTIES
    CallEnds
CHECK_DEADLOCK FALSE
