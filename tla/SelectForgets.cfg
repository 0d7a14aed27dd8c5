SPECIFICATION Spec
CONSTANTS
    Clients = {c1, c2}
    Fds = {f1, f2}
    Listening = Listening
    NoClient = NoClient
INVARIANT EveryClientIsListed
CHECK_DEADLOCK FALSE
