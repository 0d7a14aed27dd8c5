SPECIFICATION FairSpec
CONSTANTS
    Callers = {c1}
    Messages = {m1, m2}
    Torn = Torn
    NoMessage = NoMessage
    Background = Background
    SharedBuffer = FALSE
    StopsWhenEmpty = FALSE
    OpenMayFail = FALSE
    MaxLines = 1
    KeepLines = 1
PROPERTY ThreadShutsDown
CHECK_DEADLOCK FALSE
