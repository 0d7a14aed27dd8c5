SPECIFICATION FairSpec
CONSTANT Messages = {m1, m2, m3, m4}
INVARIANTS
    OnceInOrder
    SleepsOnEntriesOnlyAtStart
PROPERTIES
    ImplementsEntryLog
    QueueIsEmptied
CHECK_DEADLOCK FALSE
