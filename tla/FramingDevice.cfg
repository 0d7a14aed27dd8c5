SPECIFICATION Spec
CONSTANTS
    N = 3
    Start <- MCStart
    Field <- MCField
    OverloadSize = 1
    HeadSize = 2
    MaxMsg = 12
    Device = TRUE
    Json1 = 1
    Json2 = 2
    Json3 = 1
    Junk = 1
INVARIANT WholeMessages
CHECK_DEADLOCK FALSE
