SPECIFICATION MCSpec
CONSTANTS
    Clients = {c1, c2, c3}
    Fds = {f1, f2, f3}
    Listening = Listening
    NoClient = NoClient
INVARIANTS
    WatchedAreOpen
    VectorSound
PROPERTIES
    OnlyGoneAreClosed
    FirstClosedIsRemoved
    BacklogServed
CHECK_DEADLOCK FALSE
