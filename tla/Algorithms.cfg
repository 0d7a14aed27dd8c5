SPECIFICATION MCSpec
CONSTANTS
    Values = {1, 2, 3}
    MaxNodes = 5
    Keys = {1, 2, 3, 4, 5}
    MaxSize = 5
INVARIANTS
    SearchOrder
    MidOrderSorted
    BreadthIsInsertionOrder
    PreLoopIsRecursion
    FreesExactlyTheTree
    SortsSort
PROPERTY SortsEnd
CHECK_DEADLOCK FALSE
