SPECIFICATION Spec
CONSTANTS
    Archives <- MCLegacy
    BlockSize = 4
    MaxCalls = 1
    Faults = {}
INVARIANT SoundIsWhole
CHECK_DEADLOCK FALSE
