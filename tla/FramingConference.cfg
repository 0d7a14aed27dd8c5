SPECIFICATION FairSpec
CONSTANTS
    N = 3
    Start <- MCStart
    Field <- MCField
    OverloadSize = 1
    HeadSize = 2
    MaxMsg = 9
    Device = FALSE
    Json1 = 1
    Json2 = 2
    Json3 = 1
    Junk = 0
INVARIANTS
    WholeMessages
    NothingLeftBehind
    ReadHasRoom
PROPERTY MessagesProcessed
CHECK_DEADLOCK FALSE
