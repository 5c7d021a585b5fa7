SPECIFICATION Spec
CONSTANTS
    ROOT = "<ROOT>"
    RootNames = {"<ROOT>", "root"}
    Names = {"a", "<ROOT>"}
    MaxEntries = 3
    MaxDepth = 4
INVARIANT
    ListsTheTree
CHECK_DEADLOCK FALSE
