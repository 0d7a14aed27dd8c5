SPECIFICATION FairSpec
CONSTANTS
    Conns = {k1, k2, k3}
    NoConn = NoConn
    MaxWrites = 2
INVARIANTS
    RegistryExact
    NeverDeaf
PROPERTY GoneIsRemoved
CHECK_DEADLOCK FALSE
