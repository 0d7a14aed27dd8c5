SPECIFICATION Spec
CONSTANTS
    Callers = {c1, c2}
    Messages = {m1, m2}
    Torn = Torn
    NoMessage = NoMessage
    Background = Background
    SharedBuffer = TRUE
    StopsWhenEmpty = TRUE
    OpenMayFail = FALSE
    MaxLines = 1
    KeepLines = 1
PROPERTY EntryIsCallersMessage
CHECK_DEADLOCK FALSE
