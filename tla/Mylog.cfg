SPECIFICATION MCSpec
CONSTANTS
    Callers = {c1, c2}
    Messages = {m1, m2, m3}
    Torn = Torn
    NoMessage = NoMessage
    Background = Background
    SharedBuffer = TRUE
    StopsWhenEmpty = TRUE
    OpenMayFail = TRUE
    MaxLines = 1
    KeepLines = 1
INVARIANTS
    NoSleepOnEntries
    FileInOrder
PROPERTIES
    EntriesWritten
    OversizeShrinks
CHECK_DEADLOCK FALSE
