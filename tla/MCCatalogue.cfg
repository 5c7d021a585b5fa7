SPECIFICATION Spec
CONSTANTS
    ROOT = "<ROOT>"
    RootNames = {"<ROOT>", "root"}
    Names = {"a", "b"}
    MaxEntries = 4
    MaxDepth = 4
INVARIANTS
    TypeOK
    ListsTheTree
    CompleteIffClosed
CHECK_DEADLOCK FALSE
