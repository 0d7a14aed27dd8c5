SPECIFICATION MCSpec
CONSTANTS
    Clients = {c1, c2}
    Tasks = {t1, t2, t3}
    NoTask = NoTask
    NoClient = NoClient
    InitThreads = 1
    InitQueueLimit = 1
    MaxThreads = 3
    PoolSizes = {0, 3}
    QueueLimits = {0, 2}
    OverlapDestroy = TRUE
INVARIANTS
    InFlightAccounting
    DestroyedDrained
    WorkersCoverPool
    NoLostConsumerWakeup
    NoLostProducerWakeup
    NoLostFlightWakeup
    NoLostDestructorWakeup
PROPERTIES
    FlightWaitMeansDone
    ImplementsTaskPool
    EnqueueReturns
    WaitsReturn
    SurplusWorkersLeave
CHECK_DEADLOCK FALSE
