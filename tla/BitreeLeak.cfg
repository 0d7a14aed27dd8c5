SPECIFICATION Spec
CONSTANTS
    Values = {1, 2}
    MaxNodes = 3
INVARIANT DestructorDeletesTree
CHECK_DEADLOCK FALSE
