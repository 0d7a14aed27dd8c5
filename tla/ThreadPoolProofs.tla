--------------------------- MODULE ThreadPoolProofs ---------------------------
(***************************************************************************)
(* Proofs about ThreadPool, for every number of clients, tasks, threads    *)
(* and every queue limit.                                                  *)
(***************************************************************************)
EXTENDS ThreadPool, FiniteSetTheorems, TLAPS

-------------------------------------------------------------------------------
(***************************************************************************)
(* Facts about the notifications and the slots.                            *)
(***************************************************************************)

\* Waking clients up only changes the program counters of sleepers.
LEMMA WakeClients ==
    ASSUME TypeOK
    PROVE  /\ WakeProducers(client) \in [Clients -> ClientStates]
           /\ WakeDestructor(client) \in [Clients -> ClientStates]
           /\ WakeFlight(client) \in [Clients -> ClientStates]
           /\ \A c \in Clients :
                /\ client[c] = "enqueueAsleep" => WakeProducers(client)[c] = "enqueueAwake"
                /\ client[c] = "emptyAsleep" => WakeProducers(client)[c] = "emptyAwake"
                /\ client[c] \notin {"enqueueAsleep", "emptyAsleep"}
                     => WakeProducers(client)[c] = client[c]
                /\ WakeDestructor(client)[c] =
                     IF client[c] = "destroyAsleep" THEN "destroyAwake" ELSE client[c]
                /\ WakeFlight(client)[c] =
                     IF client[c] = "flightAsleep" THEN "flightAwake" ELSE client[c]
  BY DEF TypeOK, WakeProducers, WakeDestructor, WakeFlight, ClientStates

\* Waking the workers makes the sleeping ones ready.
LEMMA WakeAllWorkers ==
    ASSUME TypeOK
    PROVE  /\ WakeWorkers(worker) \in [Slots -> WorkerStates]
           /\ \A n \in Slots : WakeWorkers(worker)[n] =
                IF worker[n] = "asleep" THEN "ready" ELSE worker[n]
  BY DEF TypeOK, WakeWorkers, WorkerStates

\* The vector of workers is finite.
LEMMA SlotsFinite == IsFiniteSet(Slots)
  BY ThreadPoolAssumption, FS_Interval DEF Slots

-------------------------------------------------------------------------------
\* A stopped pool wants no thread.
StopInv == stop => poolSize = 0

\* What the shape of the steps rests on: the types, who owns what, and that
\* no running thread has fallen off the vector of workers.
TypeInv == /\ TypeOK
           /\ Ownership
           /\ WorkersCoverPool
           /\ StopInv

\* The constructor establishes it.
LEMMA TypeInit == Init => TypeInv
  BY ThreadPoolAssumption
  DEF Init, TypeInv, TypeOK, Ownership, WorkersCoverPool, StopInv, Joinable, Slots,
      WorkerStates, ClientStates

\* notify_one turns at most one sleeping worker into a ready one.
LEMMA NotifyOneFacts ==
    ASSUME TypeOK, NotifyOneConsumer
    PROVE  \/ worker' = worker /\ \A n \in Slots : worker[n] # "asleep"
           \/ \E n \in Slots : worker[n] = "asleep"
                               /\ worker' = [worker EXCEPT ![n] = "ready"]
  BY DEF NotifyOneConsumer

\* The end of enqueue and its wait preserve the base invariant.
LEMMA StoreType ==
    ASSUME TypeInv, NEW c \in Clients, NEW t \in Tasks,
           client[c] # "flightChecked",
           Store(c, t) \/ BlockEnqueue(c, t)
    PROVE  TypeInv'
  <1> USE ThreadPoolAssumption DEF TypeInv
  <1>1. CASE Store(c, t)
    <2>1. /\ worker' \in [Slots -> WorkerStates]
          /\ \A n \in Slots : \/ worker'[n] = worker[n]
                              \/ worker[n] = "asleep" /\ worker'[n] = "ready"
      BY <1>1, NotifyOneFacts DEF Store, Accept, Reject, TypeOK, WorkerStates
    <2>2. /\ tasks' \in Seq(Tasks)
          /\ inFlight' \in Int
      BY <1>1 DEF Store, Accept, Reject, TypeOK
    <2>3. /\ client' \in [Clients -> ClientStates]
          /\ arg' \in [Clients -> Tasks \cup {NoTask}]
          /\ \A d \in Clients : d # c => client'[d] = client[d] /\ arg'[d] = arg[d]
          /\ client'[c] = "idle"
      BY <1>1 DEF Store, Accept, Reject, TypeOK, ClientStates
    <2>4. UNCHANGED <<poolSize, maxQueueSize, stop, size, held, flightOwner,
                      done, destroyed>>
      BY <1>1 DEF Store, Accept, Reject
    <2>5. TypeOK'
      BY <2>1, <2>2, <2>3, <2>4 DEF TypeOK
    <2>6. Ownership'
      BY <2>1, <2>3, <2>4 DEF Ownership
    <2>7. WorkersCoverPool'
      BY <2>1, <2>4 DEF WorkersCoverPool, Joinable
    <2> QED
      BY <2>4, <2>5, <2>6, <2>7 DEF StopInv
  <1>2. CASE BlockEnqueue(c, t)
    BY <1>2 DEF TypeOK, Ownership, WorkersCoverPool, StopInv, Joinable, BlockEnqueue,
       ClientStates
  <1> QED
    BY <1>1, <1>2

\* What a worker that leaves does: its slot and the stopped slots behind it
\* are popped as far as the target size allows, no other thread is touched.
LEMMA ExitFacts ==
    ASSUME TypeInv, NEW n \in Slots, WorkerExit(n)
    PROVE  /\ worker[n] = "ready" /\ MustExit(n)
           /\ worker'[n] \in {"stopped", "none"}
           /\ \A i \in Slots \ {n} :
                \/ worker'[i] = worker[i]
                \/ worker[i] = "stopped" /\ worker'[i] = "none"
           /\ n >= poolSize
           /\ size' \in poolSize..size
           /\ client' = IF size' = 0 THEN WakeDestructor(client) ELSE client
           /\ \A i \in Slots : worker'[i] = "none" <=> i >= size'
           /\ UNCHANGED <<tasks, poolSize, maxQueueSize, stop, inFlight, held,
                          flightOwner, arg, done, destroyed>>
  <1> USE ThreadPoolAssumption DEF TypeInv
  <1>1. PICK k \in 0..MaxThreads :
           /\ PopStopped([worker EXCEPT ![n] = "stopped"], k)
           /\ size' = k
           /\ worker' = [i \in Slots |->
                IF i < k THEN IF i = n THEN "stopped" ELSE worker[i] ELSE "none"]
           /\ client' = IF k = 0 THEN WakeDestructor(client) ELSE client
    BY DEF WorkerExit
  <1>2. /\ worker[n] = "ready" /\ MustExit(n)
        /\ UNCHANGED <<tasks, poolSize, maxQueueSize, stop, inFlight, held,
                       flightOwner, arg, done, destroyed>>
    BY DEF WorkerExit, queueVars
  <1>3. n >= poolSize /\ n < size
    BY <1>2 DEF MustExit, StopInv, TypeOK, WorkersCoverPool, Slots
  <1>4. /\ k <= size
        /\ \A i \in Slots : i >= k /\ i < size /\ i # n
                            => i >= poolSize /\ worker[i] = "stopped"
    BY <1>1, <1>2 DEF PopStopped, TypeOK, Slots
  <1>5. k >= poolSize
    <2> SUFFICES ASSUME k < poolSize PROVE FALSE
      BY <1>1 DEF TypeOK
    <2>1. k \in Slots /\ k < size
      BY <1>1 DEF TypeOK, WorkersCoverPool, Slots
    <2> QED
      BY <1>1, <1>3, <1>4, <2>1 DEF TypeOK, Slots
  <1>6. \A i \in Slots \ {n} : \/ worker'[i] = worker[i]
                               \/ worker[i] = "stopped" /\ worker'[i] = "none"
    BY <1>1, <1>4 DEF TypeOK, WorkersCoverPool, Slots
  <1>7. \A i \in Slots : worker'[i] = "none" <=> i >= k
    BY <1>1, <1>4 DEF TypeOK, WorkersCoverPool, Slots
  <1> QED
    BY <1>1, <1>2, <1>3, <1>4, <1>5, <1>6, <1>7 DEF TypeOK

\* Every step of every thread preserves it.
LEMMA TypeStep == TypeInv /\ [Next]_vars => TypeInv'
  <1> SUFFICES ASSUME TypeInv, [Next]_vars PROVE TypeInv'
    OBVIOUS
  <1> USE ThreadPoolAssumption DEF TypeInv
  <1>1. ASSUME NEW c \in Clients, NEW t \in Tasks, Enqueue(c, t) PROVE TypeInv'
    BY <1>1, StoreType DEF Enqueue, MayCall, Ownership
  <1>2. ASSUME NEW c \in Clients, EnqueueResume(c) PROVE TypeInv'
    BY <1>2, StoreType DEF EnqueueResume, TypeOK, Ownership
  <1>3. ASSUME NEW c \in Clients, WaitUntilEmpty(c) PROVE TypeInv'
    BY <1>3 DEF TypeOK, Ownership, WorkersCoverPool, StopInv, Joinable, WaitUntilEmpty, MayCall, ClientStates, queueVars, workerVars
  <1>4. ASSUME NEW c \in Clients, FlightCheck(c) PROVE TypeInv'
    BY <1>4 DEF TypeOK, Ownership, WorkersCoverPool, StopInv, Joinable, FlightCheck, NothingInFlight, MayCall, ClientStates, queueVars, workerVars
  <1>5. ASSUME NEW c \in Clients, FlightSleep(c) PROVE TypeInv'
    BY <1>5 DEF TypeOK, Ownership, WorkersCoverPool, StopInv, Joinable, FlightSleep, ClientStates, queueVars, workerVars
  <1>6. ASSUME NEW c \in Clients, NEW limit \in QueueLimits, SetQueueSizeLimit(c, limit) PROVE TypeInv'
    BY <1>6, WakeClients DEF TypeOK, Ownership, WorkersCoverPool, StopInv, Joinable, SetQueueSizeLimit, AtLeastOne, workerVars
  <1>7. ASSUME NEW c \in Clients, NEW limit \in PoolSizes, SetPoolSize(c, limit) PROVE TypeInv'
    <2>1. /\ poolSize' \in 1..MaxThreads
          /\ UNCHANGED <<tasks, maxQueueSize, stop, inFlight, held, flightOwner,
                         client, arg, done, destroyed>>
      BY <1>7 DEF SetPoolSize, AtLeastOne, TypeOK, queueVars, clientVars
    <2>2. CASE poolSize' > poolSize /\ StartWorkers(poolSize, poolSize')
      <3>1. /\ worker' \in [Slots -> WorkerStates]
            /\ size' \in 0..MaxThreads
            /\ size' >= size /\ size' >= poolSize'
            /\ size' = size \/ size' = poolSize'
        BY <2>1, <2>2 DEF StartWorkers, TypeOK, WorkerStates
      <3>2. \A n \in Slots :
               worker'[n] = IF poolSize <= n /\ n < poolSize' /\ ~Joinable(n)
                            THEN "ready" ELSE worker[n]
        BY <2>1, <2>2 DEF StartWorkers, TypeOK, Slots
      <3>3. TypeOK' /\ Ownership'
        BY <2>1, <3>1, <3>2 DEF TypeOK, Ownership, Joinable
      <3>4. WorkersCoverPool'
        <4>1. \A n \in Slots : worker'[n] = "none" <=> n >= size'
          BY <2>1, <3>1, <3>2 DEF TypeOK, WorkersCoverPool, Joinable, Slots
        <4>2. ASSUME NEW n \in Slots, n < poolSize'
              PROVE  worker'[n] \notin {"none", "stopped"}
          <5>1. CASE n < poolSize
            BY <3>2, <4>2, <5>1 DEF TypeOK, WorkersCoverPool, Joinable, Slots
          <5>2. CASE n >= poolSize
            BY <3>2, <4>2, <5>2 DEF Joinable
          <5> QED
            BY <5>1, <5>2 DEF TypeOK, Slots
        <4> QED
          BY <3>1, <4>1, <4>2 DEF WorkersCoverPool, Joinable
      <3> QED
        BY <1>7, <2>1, <3>3, <3>4 DEF StopInv, SetPoolSize
    <2>3. CASE poolSize' < poolSize /\ worker' = WakeWorkers(worker) /\ UNCHANGED size
      <3>1. TypeOK' /\ Ownership'
        BY <2>1, <2>3, WakeAllWorkers DEF TypeOK, Ownership
      <3>2. WorkersCoverPool'
        BY <2>1, <2>3, WakeAllWorkers DEF TypeOK, WorkersCoverPool, Joinable, Slots
      <3> QED
        BY <1>7, <2>1, <3>1, <3>2 DEF StopInv, SetPoolSize
    <2>4. CASE poolSize' = poolSize /\ UNCHANGED <<worker, size>>
      BY <2>1, <2>4 DEF TypeOK, Ownership, WorkersCoverPool, StopInv, Joinable
    <2> QED
      BY <1>7, <2>2, <2>3, <2>4 DEF SetPoolSize
  <1>8. ASSUME NEW c \in Clients, Destroy(c) PROVE TypeInv'
    <2>1. /\ poolSize' = 0 /\ stop' = TRUE
          /\ destroyed' \in BOOLEAN
          /\ worker' = WakeWorkers(worker)
          /\ UNCHANGED <<tasks, maxQueueSize, inFlight, size, held, flightOwner,
                         arg, done>>
      BY <1>8 DEF Destroy, AwaitWorkers, TypeOK, queueVars
    <2>2. /\ client' \in [Clients -> ClientStates]
          /\ client[c] = "idle"
          /\ client'[c] \in {"idle", "destroyAsleep"}
          /\ \A d \in Clients \ {c} : client'[d] = WakeProducers(client)[d]
      BY <1>8, WakeClients DEF Destroy, AwaitWorkers, MayCall, ClientStates
    <2>3. TypeOK'
      BY <2>1, <2>2, WakeAllWorkers DEF TypeOK
    <2>4. Ownership'
      BY <2>1, <2>2, WakeClients, WakeAllWorkers DEF Ownership
    <2>5. WorkersCoverPool'
      BY <2>1, WakeAllWorkers DEF WorkersCoverPool, Joinable, TypeOK, Slots
    <2> QED
      BY <2>1, <2>3, <2>4, <2>5 DEF StopInv
  <1>9. ASSUME NEW c \in Clients, DestroyResume(c) PROVE TypeInv'
    BY <1>9 DEF TypeOK, Ownership, WorkersCoverPool, StopInv, Joinable, DestroyResume, AwaitWorkers, ClientStates, queueVars, workerVars
  <1>10. ASSUME NEW c \in Clients, SpuriousClient(c) PROVE TypeInv'
    BY <1>10, WakeClients DEF TypeOK, Ownership, WorkersCoverPool, StopInv, Joinable, SpuriousClient, queueVars, workerVars
  <1>11. ASSUME NEW n \in Slots, WorkerSleep(n) PROVE TypeInv'
    BY <1>11 DEF TypeOK, Ownership, WorkersCoverPool, StopInv, Joinable, WorkerSleep, WorkerStates, queueVars, clientVars
  <1>12. ASSUME NEW n \in Slots, WorkerExit(n) PROVE TypeInv'
    <2>1. TypeOK'
      <3>1. worker' \in [Slots -> WorkerStates]
        BY <1>12 DEF WorkerExit, TypeOK, WorkerStates
      <3> QED
        BY <1>12, <3>1, ExitFacts, WakeClients DEF TypeOK
    <2>2. Ownership'
      BY <1>12, ExitFacts, WakeClients DEF Ownership
    <2>3. WorkersCoverPool'
      BY <1>12, ExitFacts DEF WorkersCoverPool, Joinable, TypeOK, Slots
    <2> QED
      BY <1>12, <2>1, <2>2, <2>3, ExitFacts DEF StopInv
  <1>13. ASSUME NEW n \in Slots, WorkerTake(n) PROVE TypeInv'
    BY <1>13 DEF TypeOK, Ownership, WorkersCoverPool, StopInv, Joinable, WorkerTake, WorkerStates, clientVars
  <1>14. ASSUME NEW n \in Slots, WorkerNotify(n) PROVE TypeInv'
    BY <1>14, WakeClients DEF TypeOK, Ownership, WorkersCoverPool, StopInv, Joinable, WorkerNotify, WorkerStates, queueVars
  <1>15. ASSUME NEW n \in Slots, WorkerRun(n) PROVE TypeInv'
    BY <1>15 DEF TypeOK, Ownership, WorkersCoverPool, StopInv, Joinable, WorkerRun, WorkerStates, queueVars, clientVars
  <1>16. ASSUME NEW n \in Slots, WorkerDecrement(n) PROVE TypeInv'
    BY <1>16 DEF TypeOK, Ownership, WorkersCoverPool, StopInv, Joinable, WorkerDecrement, WorkerStates, queueVars, clientVars
  <1>17. ASSUME NEW n \in Slots, WorkerNotifyFlight(n) PROVE TypeInv'
    BY <1>17, WakeClients DEF TypeOK, Ownership, WorkersCoverPool, StopInv, Joinable, WorkerNotifyFlight, WorkerStates, queueVars
  <1>18. ASSUME NEW n \in Slots, SpuriousWorker(n) PROVE TypeInv'
    BY <1>18 DEF TypeOK, Ownership, WorkersCoverPool, StopInv, Joinable, SpuriousWorker, WorkerStates, queueVars, clientVars
  <1>19. CASE UNCHANGED vars
    BY <1>19 DEF TypeOK, Ownership, WorkersCoverPool, StopInv, Joinable, vars
  <1> QED
    BY <1>1, <1>2, <1>3, <1>4, <1>5, <1>6, <1>7, <1>8, <1>9, <1>10, <1>11, <1>12, <1>13, <1>14, <1>15, <1>16, <1>17, <1>18, <1>19
    DEF Next, WorkerStep, ClientCall, ClientResume

\* Type correctness of the pool, for every instance.
THEOREM TypeCorrect == Spec => []TypeOK
  <1>1. TypeInv => TypeOK
    BY DEF TypeInv
  <1> QED
    BY <1>1, TypeInit, TypeStep, PTL DEF Spec

\* A worker has a task, a blocked producer an argument and the flight mutex an
\* owner exactly when their program counters say so.
THEOREM OwnershipHolds == Spec => []Ownership
  <1>1. TypeInv => Ownership
    BY DEF TypeInv
  <1> QED
    BY <1>1, TypeInit, TypeStep, PTL DEF Spec
-------------------------------------------------------------------------------
(***************************************************************************)
(* in_flight counts the queued tasks and the tasks in the hands of workers *)
(***************************************************************************)

\* Counting the workers that carry a task makes sense.
LEMMA CarryingFinite == IsFiniteSet(Carrying) /\ Cardinality(Carrying) \in Nat
  BY SlotsFinite, FS_Subset, FS_CardinalityType DEF Carrying

\* A step that takes no worker into or out of the carrying states.
LEMMA CarryingSame ==
    ASSUME \A n \in Slots : worker'[n] \in InFlightStates <=> worker[n] \in InFlightStates,
           Len(tasks') = Len(tasks), inFlight' = inFlight, InFlightAccounting
    PROVE  InFlightAccounting'
  <1>1. Carrying' = Carrying
    BY DEF Carrying
  <1> QED
    BY <1>1 DEF InFlightAccounting

\* The accounting survives an enqueue.
LEMMA AccountStore ==
    ASSUME TypeInv, InFlightAccounting, NEW c \in Clients, NEW t \in Tasks,
           Store(c, t)
    PROVE  InFlightAccounting'
  <1> USE DEF TypeInv
  <1>1. CASE stop
    BY <1>1, CarryingSame DEF Store, Accept, Reject
  <1>2. CASE ~stop
    <2>1. tasks' = Append(tasks, t) /\ inFlight' = inFlight + 1
      BY <1>2 DEF Store, Accept, Reject
    <2>2. Len(tasks') = Len(tasks) + 1 /\ Len(tasks) \in Nat
      BY <2>1 DEF TypeOK
    <2>3. Carrying' = Carrying
      BY <1>2, NotifyOneFacts DEF Store, Accept, Reject, Carrying, InFlightStates, TypeOK
    <2> QED
      BY <2>1, <2>2, <2>3, CarryingFinite DEF InFlightAccounting, TypeOK
  <1> QED
    BY <1>1, <1>2 DEF TypeOK

\* Every step preserves the accounting.
LEMMA AccountStep == TypeInv /\ InFlightAccounting /\ [Next]_vars => InFlightAccounting'
  <1> SUFFICES ASSUME TypeInv, InFlightAccounting, [Next]_vars
               PROVE  InFlightAccounting'
    OBVIOUS
  <1> USE DEF TypeInv
  <1>1. ASSUME NEW c \in Clients, NEW t \in Tasks, Store(c, t) \/ BlockEnqueue(c, t)
        PROVE  InFlightAccounting'
    BY <1>1, AccountStore, CarryingSame DEF BlockEnqueue
  <1>2. ASSUME NEW c \in Clients,
               \/ WaitUntilEmpty(c) \/ FlightCheck(c) \/ FlightSleep(c)
               \/ DestroyResume(c) \/ SpuriousClient(c)
        PROVE  InFlightAccounting'
    BY <1>2, CarryingSame
    DEF WaitUntilEmpty, FlightCheck, NothingInFlight, FlightSleep, DestroyResume, SpuriousClient,
        queueVars, workerVars
  <1>3. ASSUME NEW c \in Clients, NEW limit \in QueueLimits, SetQueueSizeLimit(c, limit)
        PROVE  InFlightAccounting'
    BY <1>3, CarryingSame DEF SetQueueSizeLimit, workerVars
  <1>4. ASSUME NEW c \in Clients, NEW limit \in PoolSizes, SetPoolSize(c, limit)
        PROVE  InFlightAccounting'
    <2>1. \A n \in Slots : worker'[n] \in InFlightStates <=> worker[n] \in InFlightStates
      BY <1>4, WakeAllWorkers
      DEF SetPoolSize, StartWorkers, Joinable, InFlightStates, TypeOK
    <2> QED
      BY <1>4, <2>1, CarryingSame DEF SetPoolSize, queueVars
  <1>5. ASSUME NEW c \in Clients, Destroy(c) PROVE InFlightAccounting'
    <2>1. \A n \in Slots : worker'[n] \in InFlightStates <=> worker[n] \in InFlightStates
      BY <1>5, WakeAllWorkers DEF Destroy, InFlightStates
    <2> QED
      BY <1>5, <2>1, CarryingSame DEF Destroy, queueVars
  <1>6. ASSUME NEW n \in Slots,
               \/ WorkerSleep(n) \/ WorkerNotify(n) \/ WorkerRun(n)
               \/ WorkerNotifyFlight(n) \/ SpuriousWorker(n)
        PROVE  InFlightAccounting'
    <2>1. \A i \in Slots : worker'[i] \in InFlightStates <=> worker[i] \in InFlightStates
      BY <1>6 DEF WorkerSleep, WorkerNotify, WorkerRun, WorkerNotifyFlight,
         SpuriousWorker, InFlightStates, TypeOK
    <2>2. UNCHANGED <<tasks, inFlight>>
      BY <1>6 DEF WorkerSleep, WorkerNotify, WorkerRun, WorkerNotifyFlight,
         SpuriousWorker, queueVars
    <2> QED
      BY <2>1, <2>2, CarryingSame
  <1>7. ASSUME NEW n \in Slots, WorkerExit(n) PROVE InFlightAccounting'
    <2>1. \A i \in Slots : worker'[i] \in InFlightStates <=> worker[i] \in InFlightStates
      BY <1>7, ExitFacts DEF InFlightStates
    <2> QED
      BY <1>7, <2>1, ExitFacts, CarryingSame
  <1>8. ASSUME NEW n \in Slots, WorkerTake(n) PROVE InFlightAccounting'
    <2>1. Carrying' = Carrying \cup {n} /\ n \notin Carrying
      BY <1>8 DEF WorkerTake, Carrying, InFlightStates, TypeOK
    <2>2. Cardinality(Carrying') = Cardinality(Carrying) + 1
      BY <2>1, CarryingFinite, FS_AddElement
    <2>3. Len(tasks') = Len(tasks) - 1 /\ inFlight' = inFlight /\ Len(tasks) \in Nat
      BY <1>8 DEF WorkerTake, TypeOK
    <2> QED
      BY <2>2, <2>3, CarryingFinite DEF InFlightAccounting, TypeOK
  <1>9. ASSUME NEW n \in Slots, WorkerDecrement(n) PROVE InFlightAccounting'
    <2>1. Carrying' = Carrying \ {n} /\ n \in Carrying
      BY <1>9 DEF WorkerDecrement, Carrying, InFlightStates, TypeOK
    <2>2. Cardinality(Carrying') = Cardinality(Carrying) - 1
      BY <2>1, CarryingFinite, FS_RemoveElement
    <2>3. tasks' = tasks /\ inFlight' = inFlight - 1 /\ Len(tasks) \in Nat
      BY <1>9 DEF WorkerDecrement, queueVars, TypeOK
    <2> QED
      BY <2>2, <2>3, CarryingFinite DEF InFlightAccounting, TypeOK
  <1>10. CASE UNCHANGED vars
    BY <1>10, CarryingSame DEF vars
  <1>11. ASSUME NEW c \in Clients, EnqueueResume(c) PROVE InFlightAccounting'
    <2>1. arg[c] \in Tasks
      BY <1>11 DEF EnqueueResume, Ownership, TypeOK
    <2> QED
      BY <1>1, <1>11, <2>1 DEF EnqueueResume
  <1> QED
    BY <1>1, <1>2, <1>3, <1>4, <1>5, <1>6, <1>7, <1>8, <1>9, <1>10, <1>11
    DEF Next, WorkerStep, ClientCall, ClientResume, Enqueue

\* The constructor's pool has nothing in flight.
LEMMA AccountInit == Init => InFlightAccounting
  <1> SUFFICES ASSUME Init PROVE InFlightAccounting
    OBVIOUS
  <1>1. Carrying = {}
    BY ThreadPoolAssumption DEF Init, Carrying, InFlightStates, Slots
  <1> QED
    BY <1>1, FS_EmptySet DEF Init, InFlightAccounting

\* in_flight counts the queued tasks and those in the hands of workers, in
\* every state of every instance.
THEOREM InFlightCounts == Spec => []InFlightAccounting
  BY TypeInit, TypeStep, AccountInit, AccountStep, PTL DEF Spec
-------------------------------------------------------------------------------
(***************************************************************************)
(* The destructor's assert, for a pool constructed with at least one       *)
(* thread.  Worker 0 is the witness: it leaves only when the pool is       *)
(* stopped and the queue is empty, so as long as there is a task there is  *)
(* a thread to run it and the destructor waits.                            *)
(***************************************************************************)
Staffed ==
    /\ ~stop => poolSize >= 1
    /\ ~stop \/ tasks # <<>> => worker[0] \notin {"none", "stopped"}
    /\ destroyed => stop /\ size = 0

\* The target size stays positive until the destructor runs.
LEMMA StaffedInit == InitThreads # 0 /\ Init => Staffed
  BY ThreadPoolAssumption DEF Init, Staffed, Slots

\* Only a stopped pool has a destructor in progress.
DestroyerStops ==
    \A c \in Clients : client[c] \in {"destroyAsleep", "destroyAwake"} => stop

\* Every step preserves that.
LEMMA DestroyerStep == TypeInv /\ DestroyerStops /\ [Next]_vars => DestroyerStops'
  <1> SUFFICES ASSUME TypeInv, DestroyerStops, [Next]_vars,
                      NEW d \in Clients, client'[d] \in {"destroyAsleep", "destroyAwake"}
               PROVE  stop'
    BY DEF DestroyerStops
  <1> USE DEF TypeInv
  <1>1. ASSUME NEW c \in Clients, Destroy(c) PROVE stop'
    BY <1>1 DEF Destroy
  <1>2. ASSUME NEW c \in Clients, DestroyResume(c) PROVE stop'
    BY <1>2 DEF DestroyResume, DestroyerStops
  <1>3. ASSUME stop' = stop, client[d] \in {"destroyAsleep", "destroyAwake"} PROVE stop'
    BY <1>3 DEF DestroyerStops
  <1>4. ASSUME NEW c \in Clients, NEW t \in Tasks \cup {NoTask},
               Store(c, t) \/ BlockEnqueue(c, t)
        PROVE  stop'
    BY <1>3, <1>4 DEF Store, Accept, Reject, BlockEnqueue, TypeOK
  <1>5. ASSUME NEW c \in Clients,
               WaitUntilEmpty(c) \/ FlightCheck(c) \/ FlightSleep(c)
        PROVE  stop'
    BY <1>3, <1>5 DEF WaitUntilEmpty, FlightCheck, NothingInFlight, FlightSleep, TypeOK
  <1>6. ASSUME NEW c \in Clients, SpuriousClient(c) PROVE stop'
    BY <1>3, <1>6, WakeClients DEF SpuriousClient, TypeOK
  <1>7. ASSUME NEW c \in Clients, NEW limit \in QueueLimits, SetQueueSizeLimit(c, limit)
        PROVE  stop'
    BY <1>3, <1>7, WakeClients DEF SetQueueSizeLimit
  <1>8. ASSUME NEW c \in Clients, NEW limit \in PoolSizes, SetPoolSize(c, limit)
        PROVE  stop'
    BY <1>3, <1>8 DEF SetPoolSize, clientVars
  <1>9. ASSUME NEW n \in Slots,
               \/ WorkerSleep(n) \/ WorkerTake(n) \/ WorkerRun(n)
               \/ WorkerDecrement(n) \/ SpuriousWorker(n)
        PROVE  stop'
    BY <1>3, <1>9 DEF WorkerSleep, WorkerTake, WorkerRun, WorkerDecrement,
       SpuriousWorker, clientVars
  <1>10. ASSUME NEW n \in Slots, WorkerNotify(n) \/ WorkerNotifyFlight(n) PROVE stop'
    BY <1>3, <1>10, WakeClients DEF WorkerNotify, WorkerNotifyFlight
  <1>11. ASSUME NEW n \in Slots, WorkerExit(n) PROVE stop'
    BY <1>3, <1>11, ExitFacts, WakeClients
  <1>12. CASE UNCHANGED vars
    BY <1>3, <1>12 DEF vars
  <1>13. ASSUME NEW c \in Clients, EnqueueResume(c) PROVE stop'
    BY <1>4, <1>13 DEF EnqueueResume, TypeOK
  <1> QED
    BY <1>1, <1>2, <1>4, <1>5, <1>6, <1>7, <1>8, <1>9, <1>10, <1>11, <1>12, <1>13
    DEF Next, WorkerStep, ClientCall, ClientResume, Enqueue

\* Every step of every thread keeps the pool staffed.
LEMMA StaffedStep == TypeInv /\ DestroyerStops /\ Staffed /\ [Next]_vars => Staffed'
  <1> SUFFICES ASSUME TypeInv, DestroyerStops, Staffed, [Next]_vars PROVE Staffed'
    OBVIOUS
  <1>a. 0 \in Slots
    BY ThreadPoolAssumption DEF Slots
  <1> USE ThreadPoolAssumption, <1>a DEF TypeInv
  <1>1. ASSUME NEW c \in Clients, NEW t \in Tasks, Store(c, t) \/ BlockEnqueue(c, t)
        PROVE  Staffed'
    <2>1. CASE BlockEnqueue(c, t)
      BY <2>1 DEF BlockEnqueue, Staffed
    <2>2. CASE Store(c, t) /\ stop
      BY <2>2 DEF Store, Accept, Reject, Staffed
    <2>3. CASE Store(c, t) /\ ~stop
      <3>1. worker'[0] \notin {"none", "stopped"}
        BY <2>3, NotifyOneFacts DEF Store, Accept, Reject, Staffed, TypeOK
      <3> QED
        BY <2>3, <3>1 DEF Store, Accept, Reject, Staffed
    <2> QED
      BY <1>1, <2>1, <2>2, <2>3
  <1>2. ASSUME NEW c \in Clients,
               \/ WaitUntilEmpty(c) \/ FlightCheck(c) \/ FlightSleep(c)
               \/ SpuriousClient(c)
        PROVE  Staffed'
    BY <1>2 DEF WaitUntilEmpty, FlightCheck, NothingInFlight, FlightSleep, SpuriousClient,
       queueVars, workerVars, Staffed
  <1>3. ASSUME NEW c \in Clients, NEW limit \in QueueLimits, SetQueueSizeLimit(c, limit)
        PROVE  Staffed'
    BY <1>3 DEF SetQueueSizeLimit, workerVars, Staffed
  <1>4. ASSUME NEW c \in Clients, NEW limit \in PoolSizes, SetPoolSize(c, limit)
        PROVE  Staffed'
    <2>1. poolSize' >= 1 /\ ~stop /\ ~destroyed
      BY <1>4 DEF SetPoolSize, AtLeastOne, MayCall
    <2>2. worker'[0] \notin {"none", "stopped"}
      BY <1>4, <2>1, WakeAllWorkers
      DEF SetPoolSize, StartWorkers, Staffed, Joinable, TypeOK
    <2> QED
      BY <1>4, <2>1, <2>2 DEF SetPoolSize, Staffed
  <1>5. ASSUME NEW c \in Clients, Destroy(c) PROVE Staffed'
    <2>1. ~stop /\ stop' /\ tasks' = tasks /\ size' = size
      BY <1>5 DEF Destroy, queueVars
    <2>2. worker'[0] \notin {"none", "stopped"}
      BY <1>5, <2>1, WakeAllWorkers DEF Destroy, Staffed
    <2>3. destroyed' => size' = 0
      BY <1>5 DEF Destroy, AwaitWorkers, MayCall
    <2> QED
      BY <2>1, <2>2, <2>3 DEF Staffed
  <1>6. ASSUME NEW c \in Clients, DestroyResume(c) PROVE Staffed'
    BY <1>6 DEF DestroyerStops, DestroyResume, AwaitWorkers, queueVars, workerVars, Staffed
  <1>7. ASSUME NEW n \in Slots,
               \/ WorkerSleep(n) \/ WorkerNotify(n) \/ WorkerRun(n)
               \/ WorkerDecrement(n) \/ WorkerNotifyFlight(n) \/ SpuriousWorker(n)
        PROVE  Staffed'
    <2>1. worker[0] \notin {"none", "stopped"} => worker'[0] \notin {"none", "stopped"}
      BY <1>7 DEF WorkerSleep, WorkerNotify, WorkerRun, WorkerDecrement,
         WorkerNotifyFlight, SpuriousWorker, TypeOK
    <2>2. UNCHANGED <<tasks, poolSize, stop, size, destroyed>>
      BY <1>7 DEF WorkerSleep, WorkerNotify, WorkerRun, WorkerDecrement,
         WorkerNotifyFlight, SpuriousWorker, queueVars
    <2> QED
      BY <2>1, <2>2 DEF Staffed
  <1>8. ASSUME NEW n \in Slots, WorkerExit(n) PROVE Staffed'
    <2>1. CASE n = 0
      BY <1>8, <2>1, ExitFacts DEF Staffed, MustExit, TypeOK
    <2>2. CASE n # 0
      BY <1>8, <2>2, ExitFacts DEF Staffed, TypeOK
    <2> QED
      BY <2>1, <2>2
  <1>9. ASSUME NEW n \in Slots, WorkerTake(n) PROVE Staffed'
    BY <1>9 DEF WorkerTake, Staffed, TypeOK
  <1>10. CASE UNCHANGED vars
    BY <1>10 DEF vars, Staffed
  <1>11. ASSUME NEW c \in Clients, EnqueueResume(c) PROVE Staffed'
    <2>1. arg[c] \in Tasks
      BY <1>11 DEF EnqueueResume, Ownership, TypeOK
    <2> QED
      BY <1>1, <1>11, <2>1 DEF EnqueueResume
  <1> QED
    BY <1>1, <1>2, <1>3, <1>4, <1>5, <1>6, <1>7, <1>8, <1>9, <1>10, <1>11
    DEF Next, WorkerStep, ClientCall, ClientResume, Enqueue

\* A staffed pool that has been destroyed is drained.
LEMMA StaffedDrains ==
    TypeInv /\ InFlightAccounting /\ Staffed
        => AssertNothingInFlight /\ DestroyedDrained
  <1> SUFFICES ASSUME TypeInv, InFlightAccounting, Staffed, destroyed
               PROVE  /\ inFlight = 0 /\ tasks = <<>> /\ size = 0
                      /\ \A n \in Slots : worker[n] = "none" /\ held[n] = NoTask
    BY DEF AssertNothingInFlight, DestroyedDrained
  <1>1. \A n \in Slots : worker[n] = "none" /\ held[n] = NoTask
    BY DEF TypeInv, TypeOK, WorkersCoverPool, Ownership, Staffed, Slots
  <1>2. tasks = <<>>
    BY <1>1, ThreadPoolAssumption DEF Staffed, Slots
  <1>3. Carrying = {}
    BY <1>1 DEF Carrying, InFlightStates
  <1> QED
    BY <1>1, <1>2, <1>3, FS_EmptySet DEF InFlightAccounting, Staffed

\* A pool constructed with at least one thread runs every task it accepted
\* before its destructor returns: assert(in_flight == 0) cannot fail.
THEOREM DestructorAssertHolds ==
    ASSUME InitThreads # 0
    PROVE  Spec => []AssertNothingInFlight
  <1>1. Init => TypeInv /\ InFlightAccounting /\ DestroyerStops /\ Staffed
    BY TypeInit, AccountInit, StaffedInit DEF Init, DestroyerStops
  <1> QED
    BY <1>1, TypeStep, AccountStep, DestroyerStep, StaffedStep, StaffedDrains, PTL
    DEF Spec

\* And it leaves no thread and no task behind.
THEOREM DestructorDrains ==
    ASSUME InitThreads # 0
    PROVE  Spec => []DestroyedDrained
  <1>1. Init => TypeInv /\ InFlightAccounting /\ DestroyerStops /\ Staffed
    BY TypeInit, AccountInit, StaffedInit DEF Init, DestroyerStops
  <1> QED
    BY <1>1, TypeStep, AccountStep, DestroyerStep, StaffedStep, StaffedDrains, PTL
    DEF Spec

\* Whatever resizes are made, every slot of the target size has a thread.
THEOREM PoolIsCovered == Spec => []WorkersCoverPool
  <1>1. TypeInv => WorkersCoverPool
    BY DEF TypeInv
  <1> QED
    BY <1>1, TypeInit, TypeStep, PTL DEF Spec

-------------------------------------------------------------------------------
(***************************************************************************)
(* ThreadPool implements TaskPool: a pool constructed with at least one    *)
(* thread runs every task it accepts once, in the order of acceptance,     *)
(* whatever its clients, workers and resizes do.  The fairness of TaskPool *)
(* is left to TLC.                                                         *)
(***************************************************************************)
(***************************************************************************)
(* Queues without repetitions.                                             *)
(***************************************************************************)
Items(s) == {s[i] : i \in 1..Len(s)}
Distinct(s) == \A i, j \in 1..Len(s) : s[i] = s[j] => i = j

\* push
LEMMA AppendItems ==
    ASSUME NEW S, NEW s \in Seq(S), NEW e \in S
    PROVE  /\ Items(Append(s, e)) = Items(s) \cup {e}
           /\ Distinct(s) /\ e \notin Items(s) => Distinct(Append(s, e))
  <1>1. /\ Len(Append(s, e)) = Len(s) + 1 /\ Len(s) \in Nat
        /\ \A i \in 1..Len(s) : Append(s, e)[i] = s[i]
        /\ Append(s, e)[Len(s) + 1] = e
    OBVIOUS
  <1>2. 1..(Len(s) + 1) = 1..Len(s) \cup {Len(s) + 1}
    BY <1>1
  <1> QED
    BY <1>1, <1>2 DEF Items, Distinct

\* front and pop
LEMMA TailItems ==
    ASSUME NEW S, NEW s \in Seq(S), s # <<>>
    PROVE  /\ Head(s) \in Items(s)
           /\ Items(s) = Items(Tail(s)) \cup {Head(s)}
           /\ Distinct(s) => Distinct(Tail(s)) /\ Head(s) \notin Items(Tail(s))
  <1>1. /\ Len(s) \in Nat \ {0} /\ Len(Tail(s)) = Len(s) - 1
        /\ \A i \in 1..Len(Tail(s)) : Tail(s)[i] = s[i + 1]
        /\ Head(s) = s[1]
    OBVIOUS
  <1>2. \A i \in 1..Len(s) : i = 1 \/ i - 1 \in 1..Len(Tail(s))
    BY <1>1
  <1>3. Items(s) \subseteq Items(Tail(s)) \cup {Head(s)}
    BY <1>1, <1>2 DEF Items
  <1>4. Items(Tail(s)) \subseteq Items(s) /\ Head(s) \in Items(s)
    BY <1>1 DEF Items
  <1>5. ASSUME Distinct(s) PROVE Distinct(Tail(s)) /\ Head(s) \notin Items(Tail(s))
    BY <1>1, <1>5 DEF Items, Distinct
  <1> QED
    BY <1>3, <1>4, <1>5

-------------------------------------------------------------------------------
\* A task is in at most one place: once in the queue, with one worker, with one
\* blocked enqueue, or done.
OneHolder ==
    /\ Distinct(tasks)
    /\ Items(tasks) \cap done = {}
    /\ \A n \in Slots : held[n] # NoTask =>
          /\ held[n] \notin Items(tasks) \cup done
          /\ \A m \in Slots : held[m] = held[n] => m = n
    /\ \A c \in Clients : arg[c] # NoTask =>
          /\ arg[c] \notin Items(tasks) \cup done
          /\ \A n \in Slots : held[n] # arg[c]
          /\ \A d \in Clients : arg[d] = arg[c] => d = c

\* The initial pool has no task at all.
LEMMA HolderInit == Init => OneHolder
  BY DEF Init, OneHolder, Items, Distinct

\* A step that moves no task keeps them where they are.
LEMMA HolderSame ==
    ASSUME OneHolder, UNCHANGED <<tasks, held, arg, done>>
    PROVE  OneHolder'
  BY DEF OneHolder, Items, Distinct

\* enqueue takes a task nobody has, or the one it has carried through its wait.
LEMMA HolderStore ==
    ASSUME TypeInv, OneHolder, NEW c \in Clients, NEW t \in Tasks,
           Store(c, t) \/ BlockEnqueue(c, t),
           t \notin Items(tasks) \cup done,
           \A n \in Slots : held[n] # t,
           \A d \in Clients : arg[d] = t => d = c
    PROVE  OneHolder'
  <1> USE ThreadPoolAssumption DEF TypeInv
  <1>1. t # NoTask
    OBVIOUS
  <1>2. CASE BlockEnqueue(c, t)
    <2>1. /\ arg' = [arg EXCEPT ![c] = t]
          /\ UNCHANGED <<tasks, held, done>>
      BY <1>2 DEF BlockEnqueue
    <2>2. Items(tasks)' = Items(tasks) /\ Distinct(tasks)' = Distinct(tasks)
      BY <2>1 DEF Items, Distinct
    <2> QED
      BY <1>1, <2>1, <2>2 DEF OneHolder, TypeOK
  <1>3. CASE Store(c, t)
    <2>1. /\ arg' = [arg EXCEPT ![c] = NoTask]
          /\ UNCHANGED <<held, done>>
          /\ tasks' = tasks \/ tasks' = Append(tasks, t)
      BY <1>3 DEF Store, Accept, Reject
    <2>2. CASE tasks' = tasks
      <3>1. Items(tasks)' = Items(tasks) /\ Distinct(tasks)' = Distinct(tasks)
        BY <2>2 DEF Items, Distinct
      <3> QED
        BY <2>1, <3>1 DEF OneHolder, TypeOK
    <2>3. CASE tasks' = Append(tasks, t)
      <3>1. /\ Items(tasks') = Items(tasks) \cup {t}
            /\ Distinct(tasks')
        BY <2>3, AppendItems DEF OneHolder, TypeOK
      <3>2. \A d \in Clients : arg'[d] # NoTask => arg'[d] = arg[d] /\ arg[d] # t
        BY <2>1 DEF TypeOK
      <3> QED
        BY <2>1, <3>1, <3>2 DEF OneHolder, TypeOK
    <2> QED
      BY <2>1, <2>2, <2>3
  <1> QED
    BY <1>2, <1>3

\* Every step leaves each task in one place.
LEMMA HolderStep == TypeInv /\ OneHolder /\ [Next]_vars => OneHolder'
  <1> SUFFICES ASSUME TypeInv, OneHolder, [Next]_vars PROVE OneHolder'
    OBVIOUS
  <1> USE ThreadPoolAssumption DEF TypeInv
  <1>1. ASSUME NEW c \in Clients, NEW t \in Tasks, Enqueue(c, t) PROVE OneHolder'
    <2>1. /\ t \notin Items(tasks) \cup done
          /\ \A n \in Slots : held[n] # t
          /\ \A d \in Clients : arg[d] # t
      BY <1>1 DEF Enqueue, Fresh, Queued, Items
    <2> QED
      BY <1>1, <2>1, HolderStore DEF Enqueue
  <1>2. ASSUME NEW c \in Clients, EnqueueResume(c) PROVE OneHolder'
    <2>1. arg[c] \in Tasks
      BY <1>2 DEF EnqueueResume, Ownership, TypeOK
    <2>2. /\ arg[c] \notin Items(tasks) \cup done
          /\ \A n \in Slots : held[n] # arg[c]
          /\ \A d \in Clients : arg[d] = arg[c] => d = c
      BY <2>1 DEF OneHolder
    <2> QED
      BY <1>2, <2>1, <2>2, HolderStore DEF EnqueueResume
  <1>3. ASSUME NEW c \in Clients,
               \/ WaitUntilEmpty(c) \/ FlightCheck(c) \/ FlightSleep(c)
               \/ SpuriousClient(c) \/ Destroy(c) \/ DestroyResume(c)
        PROVE  OneHolder'
    BY <1>3, HolderSame DEF WaitUntilEmpty, FlightCheck, FlightSleep, SpuriousClient,
       Destroy, DestroyResume, queueVars, workerVars
  <1>4. ASSUME NEW c \in Clients, NEW limit \in QueueLimits, SetQueueSizeLimit(c, limit)
        PROVE  OneHolder'
    BY <1>4, HolderSame DEF SetQueueSizeLimit, workerVars
  <1>5. ASSUME NEW c \in Clients, NEW limit \in PoolSizes, SetPoolSize(c, limit)
        PROVE  OneHolder'
    BY <1>5, HolderSame DEF SetPoolSize, queueVars, clientVars
  <1>6. ASSUME NEW n \in Slots,
               \/ WorkerSleep(n) \/ WorkerExit(n) \/ WorkerNotify(n)
               \/ WorkerDecrement(n) \/ WorkerNotifyFlight(n) \/ SpuriousWorker(n)
        PROVE  OneHolder'
    BY <1>6, HolderSame DEF WorkerSleep, WorkerExit, WorkerNotify, WorkerDecrement,
       WorkerNotifyFlight, SpuriousWorker, queueVars, clientVars
  <1>7. ASSUME NEW n \in Slots, WorkerTake(n) PROVE OneHolder'
    <2>1. /\ tasks # <<>> /\ tasks' = Tail(tasks)
          /\ held' = [held EXCEPT ![n] = Head(tasks)]
          /\ UNCHANGED <<arg, done>>
      BY <1>7 DEF WorkerTake, clientVars
    <2>2. /\ Head(tasks) \in Items(tasks)
          /\ Items(tasks) = Items(tasks') \cup {Head(tasks)}
          /\ Distinct(tasks') /\ Head(tasks) \notin Items(tasks')
      BY <2>1, TailItems DEF OneHolder, TypeOK
    <2>3. \A m \in Slots : held[m] # Head(tasks)
      BY <2>1, <2>2 DEF OneHolder, TypeOK
    <2>4. \A m \in Slots : held'[m] # NoTask =>
            /\ held'[m] \notin Items(tasks') \cup done
            /\ \A k \in Slots : held'[k] = held'[m] => k = m
      BY <2>1, <2>2, <2>3 DEF OneHolder, TypeOK
    <2>5. \A c \in Clients : arg[c] # NoTask =>
            /\ arg[c] \notin Items(tasks') \cup done
            /\ \A m \in Slots : held'[m] # arg[c]
      BY <2>1, <2>2 DEF OneHolder, TypeOK
    <2> QED
      BY <2>1, <2>2, <2>4, <2>5 DEF OneHolder
  <1>8. ASSUME NEW n \in Slots, WorkerRun(n) PROVE OneHolder'
    <2>1. /\ held' = [held EXCEPT ![n] = NoTask]
          /\ done' = done \cup {held[n]} /\ held[n] # NoTask
          /\ UNCHANGED <<tasks, arg>>
      BY <1>8 DEF WorkerRun, Ownership, queueVars, clientVars
    <2>2. Items(tasks)' = Items(tasks) /\ Distinct(tasks)' = Distinct(tasks)
      BY <2>1 DEF Items, Distinct
    <2> QED
      BY <2>1, <2>2 DEF OneHolder, TypeOK
  <1>9. CASE UNCHANGED vars
    BY <1>9, HolderSame DEF vars
  <1> QED
    BY <1>1, <1>2, <1>3, <1>4, <1>5, <1>6, <1>7, <1>8, <1>9
    DEF Next, WorkerStep, ClientCall, ClientResume

-------------------------------------------------------------------------------
(***************************************************************************)
(* The refinement mapping: queue is tasks, running are the tasks in the    *)
(* hands of workers.                                                       *)
(***************************************************************************)
Running == {held[n] : n \in Slots} \ {NoTask}

\* What the steps of the pool are seen through.
LEMMA PoolVars ==
    ASSUME UNCHANGED <<tasks, held, done, stop, destroyed>>
    PROVE  UNCHANGED Pool!vars
  BY DEF Pool!vars

\* A worker that takes a task starts it, and one whose task returns finishes it.
LEMMA RunningStep ==
    ASSUME TypeInv, OneHolder, NEW n \in Slots
    PROVE  /\ WorkerTake(n) => Running' = Running \cup {Head(tasks)}
           /\ WorkerRun(n) => held[n] \in Running /\ Running' = Running \ {held[n]}
  <1> USE ThreadPoolAssumption DEF TypeInv
  <1>1. ASSUME WorkerTake(n) PROVE Running' = Running \cup {Head(tasks)}
    <2>1. /\ held[n] = NoTask
          /\ held' = [held EXCEPT ![n] = Head(tasks)]
          /\ Head(tasks) \in Tasks
      BY <1>1 DEF WorkerTake, Ownership, TypeOK
    <2> QED
      BY <2>1 DEF Running, TypeOK
  <1>2. ASSUME WorkerRun(n)
        PROVE  held[n] \in Running /\ Running' = Running \ {held[n]}
    <2>1. held[n] # NoTask /\ held' = [held EXCEPT ![n] = NoTask]
      BY <1>2 DEF WorkerRun, Ownership
    <2>2. \A m \in Slots : held[m] = held[n] => m = n
      BY <2>1 DEF OneHolder
    <2> QED
      BY <2>1, <2>2 DEF Running, TypeOK
  <1> QED
    BY <1>1, <1>2

RefinementInv == TypeInv /\ DestroyerStops /\ Staffed /\ OneHolder

\* Every step of the pool is a step of TaskPool or invisible to it.
LEMMA StepRefines == RefinementInv /\ [Next]_vars => [Pool!Next]_(Pool!vars)
  <1> SUFFICES ASSUME RefinementInv, [Next]_vars PROVE [Pool!Next]_(Pool!vars)
    OBVIOUS
  <1> USE ThreadPoolAssumption DEF RefinementInv, TypeInv
  <1>1. ASSUME NEW c \in Clients, NEW t \in Tasks, Store(c, t),
               t \notin Items(tasks) \cup done, \A n \in Slots : held[n] # t
        PROVE  [Pool!Next]_(Pool!vars)
    <2>1. CASE stop
      BY <1>1, <2>1, PoolVars DEF Store, Reject
    <2>2. CASE ~stop
      <3>1. Pool!Accept(t)
        BY <1>1, <2>2 DEF Store, Accept, Pool!Accept, Pool!Waiting, Items
      <3> QED
        BY <3>1 DEF Pool!Next
    <2> QED
      BY <2>1, <2>2
  <1>2. ASSUME NEW c \in Clients, NEW t, BlockEnqueue(c, t) PROVE UNCHANGED Pool!vars
    BY <1>2, PoolVars DEF BlockEnqueue
  <1>3. ASSUME NEW c \in Clients, NEW t \in Tasks, Enqueue(c, t)
        PROVE  [Pool!Next]_(Pool!vars)
    <2>1. t \notin Items(tasks) \cup done /\ \A n \in Slots : held[n] # t
      BY <1>3 DEF Enqueue, Fresh, Queued, Items
    <2> QED
      BY <1>1, <1>2, <1>3, <2>1 DEF Enqueue
  <1>4. ASSUME NEW c \in Clients, EnqueueResume(c) PROVE [Pool!Next]_(Pool!vars)
    <2>1. arg[c] \in Tasks
      BY <1>4 DEF EnqueueResume, Ownership, TypeOK
    <2>2. arg[c] \notin Items(tasks) \cup done /\ \A n \in Slots : held[n] # arg[c]
      BY <2>1 DEF OneHolder
    <2> QED
      BY <1>1, <1>2, <1>4, <2>1, <2>2 DEF EnqueueResume
  <1>5. ASSUME NEW c \in Clients,
               \/ WaitUntilEmpty(c) \/ FlightCheck(c) \/ FlightSleep(c)
               \/ SpuriousClient(c)
        PROVE  UNCHANGED Pool!vars
    BY <1>5, PoolVars DEF WaitUntilEmpty, FlightCheck, FlightSleep, SpuriousClient,
       queueVars, workerVars
  <1>6. ASSUME NEW c \in Clients, NEW limit \in QueueLimits, SetQueueSizeLimit(c, limit)
        PROVE  UNCHANGED Pool!vars
    BY <1>6, PoolVars DEF SetQueueSizeLimit, workerVars
  <1>7. ASSUME NEW c \in Clients, NEW limit \in PoolSizes, SetPoolSize(c, limit)
        PROVE  UNCHANGED Pool!vars
    BY <1>7, PoolVars DEF SetPoolSize, queueVars
  <1>8. ASSUME NEW c \in Clients, Destroy(c) PROVE Pool!Close
    \* The pool has a thread, so the destructor has to wait for it.
    <2>1. size # 0
      BY <1>8 DEF Destroy, Staffed, WorkersCoverPool, TypeOK
    <2>2. ~stop /\ stop' = TRUE /\ UNCHANGED <<tasks, held, done, destroyed>>
      BY <1>8, <2>1 DEF Destroy, AwaitWorkers, queueVars
    <2> QED
      BY <2>2 DEF Pool!Close
  <1>9. ASSUME NEW c \in Clients, DestroyResume(c) PROVE [Pool!Next]_(Pool!vars)
    <2>1. UNCHANGED <<tasks, held, done, stop>> /\ stop /\ ~destroyed
      BY <1>9 DEF DestroyResume, DestroyerStops, queueVars, workerVars
    <2>2. CASE size # 0
      BY <1>9, <2>1, <2>2, PoolVars DEF DestroyResume, AwaitWorkers
    <2>3. CASE size = 0
      <3>1. \A n \in Slots : worker[n] = "none" /\ held[n] = NoTask
        BY <2>3 DEF TypeOK, WorkersCoverPool, Ownership, Slots
      <3>2. tasks = <<>>
        BY <3>1 DEF Staffed, Slots
      <3>3. Running = {} /\ Running' = {}
        BY <2>1, <3>1 DEF Running
      <3>4. destroyed' = TRUE
        BY <1>9, <2>3 DEF DestroyResume, AwaitWorkers
      <3>5. Pool!Release
        BY <2>1, <3>2, <3>3, <3>4 DEF Pool!Release, Running
      <3> QED
        BY <3>5 DEF Pool!Next
    <2> QED
      BY <2>2, <2>3
  <1>10. ASSUME NEW n \in Slots,
               \/ WorkerSleep(n) \/ WorkerExit(n) \/ WorkerNotify(n)
               \/ WorkerDecrement(n) \/ WorkerNotifyFlight(n) \/ SpuriousWorker(n)
        PROVE  UNCHANGED Pool!vars
    BY <1>10, PoolVars DEF WorkerSleep, WorkerExit, WorkerNotify, WorkerDecrement,
       WorkerNotifyFlight, SpuriousWorker, queueVars
  <1>11. ASSUME NEW n \in Slots, WorkerTake(n) PROVE Pool!Start
    BY <1>11, RunningStep DEF WorkerTake, Pool!Start, Running
  <1>12. ASSUME NEW n \in Slots, WorkerRun(n) PROVE Pool!Next
    <2>1. PICK t \in Tasks : t = held[n]
      BY <1>12 DEF WorkerRun, Ownership, TypeOK
    <2>2. Pool!Finish(t)
      BY <1>12, <2>1, RunningStep DEF WorkerRun, Pool!Finish, Running, queueVars
    <2> QED
      BY <2>2 DEF Pool!Next
  <1>13. CASE UNCHANGED vars
    BY <1>13, PoolVars DEF vars
  <1> QED
    BY <1>3, <1>4, <1>5, <1>6, <1>7, <1>8, <1>9, <1>10, <1>11, <1>12, <1>13
    DEF Next, WorkerStep, ClientCall, ClientResume, Pool!Next

\* A pool constructed with at least one thread implements TaskPool: every
\* accepted task is started once, in the order of acceptance, and finishes at
\* most once; nothing is accepted after stop; and the destructor returns only
\* when nothing is queued or running.
THEOREM RefinesTaskPool ==
    ASSUME InitThreads # 0
    PROVE  Spec => ImplementsTaskPoolSafely
  <1>1. Init => RefinementInv
    BY TypeInit, StaffedInit, HolderInit DEF RefinementInv, Init, DestroyerStops
  <1>2. RefinementInv /\ [Next]_vars => RefinementInv'
    BY TypeStep, DestroyerStep, StaffedStep, HolderStep DEF RefinementInv
  <1>3. Init => Pool!Init
    BY ThreadPoolAssumption DEF Init, Pool!Init
  <1> QED
    BY <1>1, <1>2, <1>3, StepRefines, PTL DEF Spec, Pool!Spec, ImplementsTaskPoolSafely

-------------------------------------------------------------------------------
(***************************************************************************)
(* No notification is lost, on any of the three condition variables, for   *)
(* every instance and every sequence of resizes.                           *)
(***************************************************************************)

(***************************************************************************)
(* condition_consumers: tasks and the workers that will look for them      *)
(***************************************************************************)

\* Counting the ready workers makes sense.
LEMMA ReadyFinite == IsFiniteSet(Ready) /\ Cardinality(Ready) \in Nat
  BY SlotsFinite, FS_Subset, FS_CardinalityType DEF Ready

\* Without a sleeper there is nothing to show.
LEMMA NobodyAsleep ==
    ASSUME \A n \in Slots : worker'[n] # "asleep"
    PROVE  NoLostConsumerWakeup'
  BY DEF NoLostConsumerWakeup

\* A step that lets no worker fall asleep, makes no ready worker busy and
\* leaves the queue and the target size alone.
LEMMA ConsumersKept ==
    ASSUME NoLostConsumerWakeup, UNCHANGED <<tasks, poolSize, stop>>,
           \A n \in Slots : /\ worker'[n] = "asleep" => worker[n] = "asleep"
                            /\ worker[n] = "ready" /\ n < poolSize => worker'[n] = "ready",
           Len(tasks) \in Nat
    PROVE  NoLostConsumerWakeup'
  <1>1. Ready \subseteq Ready'
    BY DEF Ready
  <1>2. IsFiniteSet(Ready') /\ Cardinality(Ready') \in Nat
    BY SlotsFinite, FS_Subset, FS_CardinalityType DEF Ready
  <1>3. Cardinality(Ready) <= Cardinality(Ready')
    BY <1>1, <1>2, FS_Subset
  <1> QED
    BY <1>2, <1>3, ReadyFinite DEF NoLostConsumerWakeup

\* enqueue wakes one sleeper for the task it adds.
LEMMA ConsumersStore ==
    ASSUME TypeInv, NoLostConsumerWakeup, NEW c \in Clients, NEW t \in Tasks,
           Store(c, t)
    PROVE  NoLostConsumerWakeup'
  <1> USE DEF TypeInv
  <1>1. CASE stop
    BY <1>1, ConsumersKept DEF Store, Accept, Reject, TypeOK
  <1>2. CASE ~stop /\ \A n \in Slots : worker[n] # "asleep"
    BY <1>2, NotifyOneFacts, NobodyAsleep DEF Store, Accept, Reject
  <1>3. CASE ~stop /\ \E n \in Slots : worker[n] = "asleep"
    <2>1. PICK n \in Slots : /\ worker[n] = "asleep"
                             /\ worker' = [worker EXCEPT ![n] = "ready"]
      BY <1>3, NotifyOneFacts DEF Store, Accept, Reject
    <2>2. n < poolSize
      BY <2>1 DEF NoLostConsumerWakeup
    <2>3. /\ poolSize' = poolSize /\ stop' = stop /\ Len(tasks') = Len(tasks) + 1
          /\ Len(tasks) \in Nat
      BY <1>3 DEF Store, Accept, Reject, TypeOK
    <2>4. Ready' = Ready \cup {n} /\ n \notin Ready
      BY <2>1, <2>2, <2>3 DEF Ready, TypeOK
    <2>5. Cardinality(Ready') = Cardinality(Ready) + 1
      BY <2>4, ReadyFinite, FS_AddElement
    <2>6. \A m \in Slots : worker'[m] = "asleep" => worker[m] = "asleep"
      BY <2>1 DEF TypeOK
    <2>7. Len(tasks) <= Cardinality(Ready)
      BY <1>3 DEF NoLostConsumerWakeup
    <2> QED
      BY <1>3, <2>3, <2>5, <2>6, <2>7, ReadyFinite DEF NoLostConsumerWakeup
  <1> QED
    BY <1>1, <1>2, <1>3 DEF TypeOK

\* Every step preserves it.
LEMMA ConsumerStep ==
    TypeInv /\ NoLostConsumerWakeup /\ [Next]_vars => NoLostConsumerWakeup'
  <1> SUFFICES ASSUME TypeInv, NoLostConsumerWakeup, [Next]_vars
               PROVE  NoLostConsumerWakeup'
    OBVIOUS
  <1>0. Len(tasks) \in Nat
    BY DEF TypeInv, TypeOK
  <1> USE <1>0 DEF TypeInv
  <1>1. ASSUME NEW c \in Clients, NEW t \in Tasks, Store(c, t) \/ BlockEnqueue(c, t)
        PROVE  NoLostConsumerWakeup'
    BY <1>1, ConsumersStore, ConsumersKept DEF BlockEnqueue
  <1>2. ASSUME NEW c \in Clients,
               \/ WaitUntilEmpty(c) \/ FlightCheck(c) \/ FlightSleep(c)
               \/ DestroyResume(c) \/ SpuriousClient(c)
        PROVE  NoLostConsumerWakeup'
    BY <1>2, ConsumersKept
    DEF WaitUntilEmpty, FlightCheck, NothingInFlight, FlightSleep, DestroyResume, SpuriousClient,
        queueVars, workerVars
  <1>3. ASSUME NEW c \in Clients, NEW limit \in QueueLimits, SetQueueSizeLimit(c, limit)
        PROVE  NoLostConsumerWakeup'
    BY <1>3, ConsumersKept DEF SetQueueSizeLimit, workerVars
  <1>4. ASSUME NEW c \in Clients, NEW limit \in PoolSizes, SetPoolSize(c, limit)
        PROVE  NoLostConsumerWakeup'
    <2>1. CASE poolSize' > poolSize /\ StartWorkers(poolSize, poolSize')
      <3>1. \A n \in Slots : /\ worker'[n] = "asleep" => worker[n] = "asleep"
                             /\ worker[n] = "ready" => worker'[n] = "ready"
        BY <2>1 DEF StartWorkers, Joinable, TypeOK
      <3>2. tasks' = tasks /\ stop' = stop
        BY <1>4 DEF SetPoolSize, queueVars
      <3>3. poolSize \in Nat /\ poolSize' \in Nat /\ \A n \in Slots : n \in Nat
        BY <1>4, ThreadPoolAssumption DEF SetPoolSize, AtLeastOne, TypeOK, Slots
      <3>4. Ready \subseteq Ready'
        BY <2>1, <3>1, <3>3 DEF Ready
      <3>5. IsFiniteSet(Ready') /\ Cardinality(Ready') \in Nat
        BY SlotsFinite, FS_Subset, FS_CardinalityType DEF Ready
      <3>6. Cardinality(Ready) <= Cardinality(Ready')
        BY <3>4, <3>5, FS_Subset
      <3>7. \A n \in Slots : n < poolSize => n < poolSize'
        BY <2>1, <3>3
      <3> QED
        BY <3>1, <3>2, <3>5, <3>6, <3>7, ReadyFinite DEF NoLostConsumerWakeup
    <2>2. CASE worker' = WakeWorkers(worker)
      BY <2>2, WakeAllWorkers, NobodyAsleep
    <2>3. CASE poolSize' = poolSize /\ UNCHANGED <<worker, size>>
      BY <1>4, <2>3, ConsumersKept DEF SetPoolSize, queueVars
    <2> QED
      BY <1>4, <2>1, <2>2, <2>3 DEF SetPoolSize
  <1>5. ASSUME NEW c \in Clients, Destroy(c) PROVE NoLostConsumerWakeup'
    BY <1>5, WakeAllWorkers, NobodyAsleep DEF Destroy
  <1>6. ASSUME NEW n \in Slots,
               \/ WorkerNotify(n) \/ WorkerRun(n) \/ WorkerDecrement(n)
               \/ WorkerNotifyFlight(n) \/ SpuriousWorker(n)
        PROVE  NoLostConsumerWakeup'
    <2>1. \A m \in Slots : /\ worker'[m] = "asleep" => worker[m] = "asleep"
                           /\ worker[m] = "ready" => worker'[m] = "ready"
      BY <1>6 DEF WorkerNotify, WorkerRun, WorkerDecrement, WorkerNotifyFlight,
         SpuriousWorker, TypeOK
    <2>2. UNCHANGED <<tasks, poolSize, stop>>
      BY <1>6 DEF WorkerNotify, WorkerRun, WorkerDecrement, WorkerNotifyFlight,
         SpuriousWorker, queueVars
    <2> QED
      BY <2>1, <2>2, ConsumersKept
  <1>7. ASSUME NEW n \in Slots, WorkerSleep(n) PROVE NoLostConsumerWakeup'
    <2>1. /\ ~stop' /\ tasks' = <<>> /\ n < poolSize'
          /\ \A m \in Slots : worker'[m] = "asleep" => m = n \/ worker[m] = "asleep"
          /\ poolSize' = poolSize /\ stop' = stop
      BY <1>7 DEF WorkerSleep, queueVars, TypeOK
    <2>2. Cardinality(Ready') \in Nat
      BY SlotsFinite, FS_Subset, FS_CardinalityType DEF Ready
    <2> QED
      BY <2>1, <2>2 DEF NoLostConsumerWakeup
  <1>8. ASSUME NEW n \in Slots, WorkerExit(n) PROVE NoLostConsumerWakeup'
    <2>1. \A m \in Slots : /\ worker'[m] = "asleep" => worker[m] = "asleep"
                           /\ worker[m] = "ready" /\ m < poolSize => worker'[m] = "ready"
      BY <1>8, ExitFacts DEF TypeOK, Slots
    <2> QED
      BY <1>8, <2>1, ExitFacts, ConsumersKept
  <1>9. ASSUME NEW n \in Slots, WorkerTake(n) PROVE NoLostConsumerWakeup'
    <2>1. CASE stop
      BY <1>9, <2>1, NobodyAsleep DEF WorkerTake, NoLostConsumerWakeup, TypeOK
    <2>2. CASE ~stop
      <3>1. n < poolSize
        BY <1>9, <2>2 DEF WorkerTake, MustExit, TypeOK, Slots
      <3>2. /\ poolSize' = poolSize /\ stop' = stop /\ Len(tasks') = Len(tasks) - 1
            /\ \A m \in Slots : worker'[m] = "asleep" => worker[m] = "asleep"
        BY <1>9 DEF WorkerTake, TypeOK
      <3>3. Ready' = Ready \ {n} /\ n \in Ready
        BY <1>9, <3>1, <3>2 DEF WorkerTake, Ready, TypeOK
      <3>4. Cardinality(Ready') = Cardinality(Ready) - 1
        BY <3>3, ReadyFinite, FS_RemoveElement
      <3> QED
        BY <3>2, <3>4, ReadyFinite DEF NoLostConsumerWakeup
    <2> QED
      BY <2>1, <2>2 DEF TypeOK
  <1>10. CASE UNCHANGED vars
    BY <1>10, ConsumersKept DEF vars
  <1>11. ASSUME NEW c \in Clients, EnqueueResume(c) PROVE NoLostConsumerWakeup'
    <2>1. arg[c] \in Tasks
      BY <1>11 DEF EnqueueResume, Ownership, TypeOK
    <2> QED
      BY <1>1, <1>11, <2>1 DEF EnqueueResume
  <1> QED
    BY <1>1, <1>2, <1>3, <1>4, <1>5, <1>6, <1>7, <1>8, <1>9, <1>10, <1>11
    DEF Next, WorkerStep, ClientCall, ClientResume, Enqueue

\* No task waits while the workers that could run it sleep: with a sleeping
\* worker there is an awake worker of the pool for every queued task.
THEOREM ConsumersAreWoken == Spec => []NoLostConsumerWakeup
  <1>1. Init => NoLostConsumerWakeup
    BY DEF Init, NoLostConsumerWakeup
  <1> QED
    BY <1>1, TypeInit, TypeStep, ConsumerStep, PTL DEF Spec

-------------------------------------------------------------------------------
(***************************************************************************)
(* condition_producers: blocked enqueues and wait_until_empty              *)
(***************************************************************************)

\* A sleeper of condition_producers whose predicate is true.
Forgotten(c) == \/ client[c] = "enqueueAsleep" /\ RoomOrStop
                \/ client[c] = "emptyAsleep" /\ tasks = <<>>

\* A step that creates no such sleeper and makes no worker drop its duty.
LEMMA ProducersKept ==
    ASSUME NoLostProducerWakeup,
           \A c \in Clients : Forgotten(c)' => Forgotten(c),
           \A n \in Slots : worker[n] = "notify" => worker'[n] = "notify"
    PROVE  NoLostProducerWakeup'
  BY DEF NoLostProducerWakeup, Forgotten

\* notify_all leaves no such sleeper.
LEMMA ProducersWoken ==
    ASSUME \A c \in Clients : client'[c] \notin {"enqueueAsleep", "emptyAsleep"}
    PROVE  NoLostProducerWakeup'
  BY DEF NoLostProducerWakeup

\* A step that leaves the queue, the limit, stop and the sleepers alone.
LEMMA NotForgotten ==
    ASSUME UNCHANGED <<tasks, maxQueueSize, stop>>,
           \A c \in Clients : client'[c] \in {"enqueueAsleep", "emptyAsleep"}
                              => client[c] = client'[c]
    PROVE  \A c \in Clients : Forgotten(c)' => Forgotten(c)
  BY DEF Forgotten, RoomOrStop

\* enqueue makes the queue longer, which makes no predicate true.
LEMMA ProducersStore ==
    ASSUME TypeInv, NoLostProducerWakeup, NEW c \in Clients, NEW t \in Tasks,
           Store(c, t)
    PROVE  NoLostProducerWakeup'
  <1> USE DEF TypeInv
  <1>1. \A n \in Slots : worker[n] = "notify" => worker'[n] = "notify"
    BY NotifyOneFacts DEF Store, Accept, Reject, TypeOK
  <1>2. \A d \in Clients : client'[d] \in {"enqueueAsleep", "emptyAsleep"}
                           => client[d] = client'[d]
    BY DEF Store, Accept, Reject, TypeOK
  <1>3. CASE stop
    BY <1>1, <1>2, <1>3, NotForgotten, ProducersKept DEF Store, Accept, Reject
  <1>4. CASE ~stop
    <2>1. /\ tasks' # <<>> /\ Len(tasks') = Len(tasks) + 1 /\ Len(tasks) \in Nat
          /\ maxQueueSize' = maxQueueSize /\ stop' = stop /\ maxQueueSize \in Nat
      BY <1>4 DEF Store, Accept, Reject, TypeOK
    <2>2. \A d \in Clients : Forgotten(d)' => Forgotten(d)
      BY <1>2, <2>1 DEF Forgotten, RoomOrStop
    <2> QED
      BY <1>1, <2>2, ProducersKept
  <1> QED
    BY <1>3, <1>4 DEF TypeOK

\* Every step preserves it.
LEMMA ProducerStep ==
    TypeInv /\ NoLostProducerWakeup /\ [Next]_vars => NoLostProducerWakeup'
  <1> SUFFICES ASSUME TypeInv, NoLostProducerWakeup, [Next]_vars
               PROVE  NoLostProducerWakeup'
    OBVIOUS
  <1> USE DEF TypeInv
  <1>1. ASSUME NEW c \in Clients, NEW t \in Tasks, Store(c, t) PROVE NoLostProducerWakeup'
    BY <1>1, ProducersStore
  <1>2. ASSUME NEW c \in Clients, NEW t, BlockEnqueue(c, t), ~RoomOrStop
        PROVE  NoLostProducerWakeup'
    <2>1. \A d \in Clients : Forgotten(d)' => Forgotten(d)
      BY <1>2 DEF BlockEnqueue, Forgotten, RoomOrStop, TypeOK
    <2> QED
      BY <1>2, <2>1, ProducersKept DEF BlockEnqueue
  <1>3. ASSUME NEW c \in Clients, WaitUntilEmpty(c) PROVE NoLostProducerWakeup'
    <2>1. \A d \in Clients : Forgotten(d)' => Forgotten(d)
      BY <1>3 DEF WaitUntilEmpty, Forgotten, RoomOrStop, TypeOK, queueVars
    <2> QED
      BY <1>3, <2>1, ProducersKept DEF WaitUntilEmpty, workerVars
  <1>4. ASSUME NEW c \in Clients, FlightCheck(c) \/ FlightSleep(c)
        PROVE  NoLostProducerWakeup'
    BY <1>4, NotForgotten, ProducersKept
    DEF FlightCheck, NothingInFlight, FlightSleep, TypeOK, queueVars, workerVars
  <1>5. ASSUME NEW c \in Clients, NEW limit \in QueueLimits, SetQueueSizeLimit(c, limit)
        PROVE  NoLostProducerWakeup'
    <2>1. CASE maxQueueSize < maxQueueSize'
      BY <1>5, <2>1, WakeClients, ProducersWoken DEF SetQueueSizeLimit
    <2>2. CASE ~(maxQueueSize < maxQueueSize')
      <3>1. maxQueueSize' \in Nat /\ maxQueueSize \in Nat /\ Len(tasks) \in Nat
        BY <1>5, ThreadPoolAssumption DEF SetQueueSizeLimit, AtLeastOne, TypeOK
      <3>2. \A d \in Clients : Forgotten(d)' => Forgotten(d)
        BY <1>5, <2>2, <3>1 DEF SetQueueSizeLimit, Forgotten, RoomOrStop
      <3> QED
        BY <1>5, <3>2, ProducersKept DEF SetQueueSizeLimit, workerVars
    <2> QED
      BY <2>1, <2>2
  <1>6. ASSUME NEW c \in Clients, NEW limit \in PoolSizes, SetPoolSize(c, limit)
        PROVE  NoLostProducerWakeup'
    <2>1. \A n \in Slots : worker[n] = "notify" => worker'[n] = "notify"
      BY <1>6, WakeAllWorkers DEF SetPoolSize, StartWorkers, Joinable, TypeOK
    <2> QED
      BY <1>6, <2>1, NotForgotten, ProducersKept DEF SetPoolSize, queueVars, clientVars
  <1>7. ASSUME NEW c \in Clients, Destroy(c) PROVE NoLostProducerWakeup'
    <2>1. \A d \in Clients : client'[d] \notin {"enqueueAsleep", "emptyAsleep"}
      BY <1>7, WakeClients DEF Destroy, AwaitWorkers, TypeOK, ClientStates
    <2> QED
      BY <2>1, ProducersWoken
  <1>8. ASSUME NEW c \in Clients, DestroyResume(c) PROVE NoLostProducerWakeup'
    BY <1>8, NotForgotten, ProducersKept
    DEF DestroyResume, AwaitWorkers, TypeOK, queueVars, workerVars
  <1>9. ASSUME NEW c \in Clients, SpuriousClient(c) PROVE NoLostProducerWakeup'
    <2>1. \A d \in Clients : client'[d] \in {"enqueueAsleep", "emptyAsleep"}
                             => client[d] = client'[d]
      BY <1>9, WakeClients DEF SpuriousClient, TypeOK
    <2> QED
      BY <1>9, <2>1, NotForgotten, ProducersKept DEF SpuriousClient, queueVars, workerVars
  <1>10. ASSUME NEW n \in Slots,
                WorkerSleep(n) \/ WorkerRun(n) \/ WorkerDecrement(n) \/ SpuriousWorker(n)
         PROVE  NoLostProducerWakeup'
    <2>1. \A m \in Slots : worker[m] = "notify" => worker'[m] = "notify"
      BY <1>10 DEF WorkerSleep, WorkerRun, WorkerDecrement, SpuriousWorker, TypeOK
    <2> QED
      BY <1>10, <2>1, NotForgotten, ProducersKept
      DEF WorkerSleep, WorkerRun, WorkerDecrement, SpuriousWorker, queueVars, clientVars
  <1>11. ASSUME NEW n \in Slots, WorkerNotify(n) PROVE NoLostProducerWakeup'
    BY <1>11, WakeClients, ProducersWoken DEF WorkerNotify
  <1>12. ASSUME NEW n \in Slots, WorkerNotifyFlight(n) PROVE NoLostProducerWakeup'
    <2>1. \A m \in Slots : worker[m] = "notify" => worker'[m] = "notify"
      BY <1>12 DEF WorkerNotifyFlight, TypeOK
    <2> QED
      BY <1>12, <2>1, WakeClients, NotForgotten, ProducersKept
      DEF WorkerNotifyFlight, queueVars
  <1>13. ASSUME NEW n \in Slots, WorkerExit(n) PROVE NoLostProducerWakeup'
    <2>1. \A m \in Slots : worker[m] = "notify" => worker'[m] = "notify"
      BY <1>13, ExitFacts
    <2> QED
      BY <1>13, <2>1, ExitFacts, WakeClients, NotForgotten, ProducersKept
  <1>14. ASSUME NEW n \in Slots, WorkerTake(n) PROVE NoLostProducerWakeup'
    <2>1. /\ Len(tasks') = Len(tasks) - 1 /\ Len(tasks) \in Nat
          /\ UNCHANGED <<maxQueueSize, stop, client>> /\ maxQueueSize \in Nat
      BY <1>14 DEF WorkerTake, clientVars, TypeOK
    <2>2. \A m \in Slots : worker[m] = "notify" => worker'[m] = "notify"
      BY <1>14 DEF WorkerTake, TypeOK
    <2>3. CASE MustNotify(tasks')
      BY <1>14, <2>3 DEF WorkerTake, NoLostProducerWakeup, TypeOK
    <2>4. CASE ~MustNotify(tasks')
      <3>1. \A d \in Clients : Forgotten(d)' => Forgotten(d)
        BY <2>1, <2>4 DEF Forgotten, RoomOrStop, MustNotify
      <3> QED
        BY <2>2, <3>1, ProducersKept
    <2> QED
      BY <2>3, <2>4
  <1>15. CASE UNCHANGED vars
    BY <1>15, NotForgotten, ProducersKept DEF vars
  <1>16. ASSUME NEW c \in Clients, EnqueueResume(c) PROVE NoLostProducerWakeup'
    <2>1. arg[c] \in Tasks
      BY <1>16 DEF EnqueueResume, Ownership, TypeOK
    <2> QED
      BY <1>1, <1>2, <1>16, <2>1 DEF EnqueueResume
  <1>17. ASSUME NEW c \in Clients, NEW t \in Tasks, Enqueue(c, t)
         PROVE  NoLostProducerWakeup'
    BY <1>1, <1>2, <1>17 DEF Enqueue
  <1> QED
    BY <1>3, <1>4, <1>5, <1>6, <1>7, <1>8, <1>9, <1>10, <1>11, <1>12, <1>13,
       <1>14, <1>15, <1>16, <1>17
    DEF Next, WorkerStep, ClientCall, ClientResume

\* A producer blocked on a full queue and a thread in wait_until_empty are
\* owed a notification from the moment their predicate becomes true.
THEOREM ProducersAreWoken == Spec => []NoLostProducerWakeup
  <1>1. Init => NoLostProducerWakeup
    BY DEF Init, NoLostProducerWakeup
  <1> QED
    BY <1>1, TypeInit, TypeStep, ProducerStep, PTL DEF Spec

-------------------------------------------------------------------------------
(***************************************************************************)
(* in_flight_condition: wait_until_nothing_in_flight                       *)
(***************************************************************************)

\* A step after which in_flight is positive.
LEMMA FlightPositive ==
    ASSUME inFlight' # 0
    PROVE  NoLostFlightWakeup'
  BY DEF NoLostFlightWakeup

\* A step that keeps in_flight, adds no sleeper and drops no duty to notify.
LEMMA FlightKept ==
    ASSUME NoLostFlightWakeup, inFlight' = inFlight,
           \A c \in Clients : client'[c] \in {"flightChecked", "flightAsleep"}
                              => client[c] \in {"flightChecked", "flightAsleep"},
           \A n \in Slots : worker[n] = "last" => worker'[n] = "last"
    PROVE  NoLostFlightWakeup'
  BY DEF NoLostFlightWakeup

\* Every step preserves it; that in_flight is never negative is needed.
LEMMA FlightStep ==
    TypeInv /\ InFlightAccounting /\ NoLostFlightWakeup /\ [Next]_vars
        => NoLostFlightWakeup'
  <1> SUFFICES ASSUME TypeInv, InFlightAccounting, NoLostFlightWakeup, [Next]_vars
               PROVE  NoLostFlightWakeup'
    OBVIOUS
  <1>0. inFlight \in Nat
    BY CarryingFinite DEF InFlightAccounting, TypeInv, TypeOK
  <1> USE DEF TypeInv
  <1>1. ASSUME NEW c \in Clients, NEW t \in Tasks, Store(c, t) PROVE NoLostFlightWakeup'
    <2>1. CASE stop
      BY <1>1, <2>1, FlightKept DEF Store, Accept, Reject, TypeOK
    <2>2. CASE ~stop
      BY <1>0, <1>1, <2>2, FlightPositive DEF Store, Accept, Reject
    <2> QED
      BY <2>1, <2>2
  <1>2. ASSUME NEW c \in Clients, NEW t, BlockEnqueue(c, t) PROVE NoLostFlightWakeup'
    BY <1>2, FlightKept DEF BlockEnqueue, TypeOK
  <1>3. ASSUME NEW c \in Clients, WaitUntilEmpty(c) PROVE NoLostFlightWakeup'
    BY <1>3, FlightKept DEF WaitUntilEmpty, TypeOK, workerVars
  <1>4. ASSUME NEW c \in Clients, FlightCheck(c) PROVE NoLostFlightWakeup'
    <2>1. CASE inFlight = 0
      BY <1>4, <2>1, FlightKept DEF FlightCheck, NothingInFlight, TypeOK, workerVars
    <2>2. CASE inFlight # 0
      BY <1>4, <2>2, FlightPositive DEF FlightCheck, NothingInFlight
    <2> QED
      BY <2>1, <2>2
  <1>5. ASSUME NEW c \in Clients, FlightSleep(c) PROVE NoLostFlightWakeup'
    BY <1>5, FlightKept DEF FlightSleep, TypeOK, workerVars
  <1>6. ASSUME NEW c \in Clients, NEW limit \in QueueLimits, SetQueueSizeLimit(c, limit)
        PROVE  NoLostFlightWakeup'
    BY <1>6, WakeClients, FlightKept DEF SetQueueSizeLimit, workerVars
  <1>7. ASSUME NEW c \in Clients, NEW limit \in PoolSizes, SetPoolSize(c, limit)
        PROVE  NoLostFlightWakeup'
    <2>1. \A n \in Slots : worker[n] = "last" => worker'[n] = "last"
      BY <1>7, WakeAllWorkers DEF SetPoolSize, StartWorkers, Joinable, TypeOK
    <2> QED
      BY <1>7, <2>1, FlightKept DEF SetPoolSize, clientVars
  <1>8. ASSUME NEW c \in Clients, Destroy(c) PROVE NoLostFlightWakeup'
    <2>1. \A d \in Clients : client'[d] \in {"flightChecked", "flightAsleep"}
                             => client[d] \in {"flightChecked", "flightAsleep"}
      <3>1. /\ client'[c] \in {"idle", "destroyAsleep"}
            /\ \A d \in Clients \ {c} : client'[d] = WakeProducers(client)[d]
        BY <1>8, WakeClients DEF Destroy, AwaitWorkers
      <3> QED
        BY <3>1, WakeClients
    <2>2. inFlight' = inFlight /\ worker' = WakeWorkers(worker)
      BY <1>8 DEF Destroy
    <2> QED
      BY <2>1, <2>2, WakeAllWorkers, FlightKept
  <1>9. ASSUME NEW c \in Clients, DestroyResume(c) PROVE NoLostFlightWakeup'
    <2>1. \A d \in Clients : client'[d] \in {"flightChecked", "flightAsleep"}
                             => client[d] = client'[d]
      BY <1>9 DEF DestroyResume, AwaitWorkers, TypeOK
    <2> QED
      BY <1>9, <2>1, FlightKept DEF DestroyResume, workerVars
  <1>10. ASSUME NEW c \in Clients, SpuriousClient(c) PROVE NoLostFlightWakeup'
    <2>1. \A d \in Clients : client'[d] \in {"flightChecked", "flightAsleep"}
                             => client[d] = client'[d]
      BY <1>10, WakeClients DEF SpuriousClient, TypeOK
    <2> QED
      BY <1>10, <2>1, FlightKept DEF SpuriousClient, workerVars
  <1>11. ASSUME NEW n \in Slots,
                WorkerSleep(n) \/ WorkerTake(n) \/ WorkerRun(n) \/ SpuriousWorker(n)
         PROVE  NoLostFlightWakeup'
    <2>1. \A m \in Slots : worker[m] = "last" => worker'[m] = "last"
      BY <1>11 DEF WorkerSleep, WorkerTake, WorkerRun, SpuriousWorker, TypeOK
    <2> QED
      BY <1>11, <2>1, FlightKept
      DEF WorkerSleep, WorkerTake, WorkerRun, SpuriousWorker, clientVars
  <1>12. ASSUME NEW n \in Slots, WorkerNotify(n) PROVE NoLostFlightWakeup'
    <2>1. \A m \in Slots : worker[m] = "last" => worker'[m] = "last"
      BY <1>12 DEF WorkerNotify, TypeOK
    <2> QED
      BY <1>12, <2>1, WakeClients, FlightKept DEF WorkerNotify
  <1>13. ASSUME NEW n \in Slots, WorkerExit(n) PROVE NoLostFlightWakeup'
    <2>1. \A m \in Slots : worker[m] = "last" => worker'[m] = "last"
      BY <1>13, ExitFacts
    <2> QED
      BY <1>13, <2>1, ExitFacts, WakeClients, FlightKept
  <1>14. ASSUME NEW n \in Slots, WorkerDecrement(n) PROVE NoLostFlightWakeup'
    <2>1. CASE inFlight = 1
      BY <1>14, <2>1 DEF WorkerDecrement, NoLostFlightWakeup, TypeOK
    <2>2. CASE inFlight # 1
      BY <1>0, <1>14, <2>2, FlightPositive DEF WorkerDecrement
    <2> QED
      BY <2>1, <2>2
  <1>15. ASSUME NEW n \in Slots, WorkerNotifyFlight(n) PROVE NoLostFlightWakeup'
    <2>1. \A c \in Clients : client[c] # "flightChecked"
      BY <1>15, ThreadPoolAssumption DEF WorkerNotifyFlight, Ownership
    <2>2. \A c \in Clients : client'[c] \notin {"flightChecked", "flightAsleep"}
      BY <1>15, <2>1, WakeClients DEF WorkerNotifyFlight
    <2> QED
      BY <2>2 DEF NoLostFlightWakeup
  <1>16. CASE UNCHANGED vars
    BY <1>16, FlightKept DEF vars
  <1>17. ASSUME NEW c \in Clients, EnqueueResume(c) PROVE NoLostFlightWakeup'
    <2>1. arg[c] \in Tasks
      BY <1>17 DEF EnqueueResume, Ownership, TypeOK
    <2> QED
      BY <1>1, <1>2, <1>17, <2>1 DEF EnqueueResume
  <1> QED
    BY <1>1, <1>2, <1>3, <1>4, <1>5, <1>6, <1>7, <1>8, <1>9, <1>10, <1>11, <1>12,
       <1>13, <1>14, <1>15, <1>16, <1>17
    DEF Next, WorkerStep, ClientCall, ClientResume, Enqueue

\* wait_until_nothing_in_flight misses no notification, although in_flight is
\* decremented without in_flight_mutex.
THEOREM FlightWaitersAreWoken == Spec => []NoLostFlightWakeup
  <1>1. Init => NoLostFlightWakeup
    BY DEF Init, NoLostFlightWakeup
  <1> QED
    BY <1>1, TypeInit, TypeStep, AccountInit, AccountStep, FlightStep, PTL DEF Spec
-------------------------------------------------------------------------------
(***************************************************************************)
(* The destructor, and what wait_until_nothing_in_flight means.            *)
(***************************************************************************)

\* Every step of every thread keeps the destructor from sleeping on an empty
\* vector of workers.
LEMMA DestructorWakeupStep ==
    TypeInv /\ NoLostDestructorWakeup /\ [Next]_vars => NoLostDestructorWakeup'
  <1> SUFFICES ASSUME TypeInv, NoLostDestructorWakeup, [Next]_vars,
                      NEW d \in Clients, size' = 0, client'[d] = "destroyAsleep"
               PROVE  FALSE
    BY DEF NoLostDestructorWakeup
  <1> USE DEF TypeInv
  <1>1. ASSUME size = 0, client[d] = "destroyAsleep" PROVE FALSE
    BY <1>1 DEF NoLostDestructorWakeup
  <1>2. ASSUME NEW c \in Clients, Destroy(c) PROVE FALSE
    BY <1>1, <1>2, WakeClients DEF Destroy, AwaitWorkers
  <1>3. ASSUME NEW c \in Clients, DestroyResume(c) PROVE FALSE
    BY <1>1, <1>3 DEF DestroyResume, AwaitWorkers, workerVars, TypeOK
  <1>4. ASSUME NEW c \in Clients, NEW t \in Tasks \cup {NoTask},
               Store(c, t) \/ BlockEnqueue(c, t)
        PROVE  FALSE
    BY <1>1, <1>4 DEF Store, BlockEnqueue, TypeOK
  <1>5. ASSUME NEW c \in Clients,
               WaitUntilEmpty(c) \/ FlightCheck(c) \/ FlightSleep(c)
        PROVE  FALSE
    BY <1>1, <1>5 DEF WaitUntilEmpty, FlightCheck, FlightSleep, workerVars, TypeOK
  <1>6. ASSUME NEW c \in Clients, SpuriousClient(c) PROVE FALSE
    BY <1>1, <1>6, WakeClients DEF SpuriousClient, workerVars, TypeOK
  <1>7. ASSUME NEW c \in Clients, NEW limit \in QueueLimits, SetQueueSizeLimit(c, limit)
        PROVE  FALSE
    BY <1>1, <1>7, WakeClients DEF SetQueueSizeLimit, workerVars
  <1>8. ASSUME NEW c \in Clients, NEW limit \in PoolSizes, SetPoolSize(c, limit)
        PROVE  FALSE
    <2>1. size = 0
      BY <1>8, ThreadPoolAssumption DEF SetPoolSize, StartWorkers, AtLeastOne, TypeOK
    <2> QED
      BY <1>1, <1>8, <2>1 DEF SetPoolSize, clientVars
  <1>9. ASSUME NEW n \in Slots,
               \/ WorkerSleep(n) \/ WorkerTake(n) \/ WorkerRun(n)
               \/ WorkerDecrement(n) \/ SpuriousWorker(n)
        PROVE  FALSE
    BY <1>1, <1>9 DEF WorkerSleep, WorkerTake, WorkerRun, WorkerDecrement,
       SpuriousWorker, clientVars
  <1>10. ASSUME NEW n \in Slots, WorkerNotify(n) \/ WorkerNotifyFlight(n) PROVE FALSE
    BY <1>1, <1>10, WakeClients DEF WorkerNotify, WorkerNotifyFlight
  <1>11. ASSUME NEW n \in Slots, WorkerExit(n) PROVE FALSE
    BY <1>11, WakeClients DEF WorkerExit
  <1>12. CASE UNCHANGED vars
    BY <1>1, <1>12 DEF vars
  <1>13. ASSUME NEW c \in Clients, EnqueueResume(c) PROVE FALSE
    BY <1>4, <1>13 DEF EnqueueResume, TypeOK
  <1> QED
    BY <1>2, <1>3, <1>4, <1>5, <1>6, <1>7, <1>8, <1>9, <1>10, <1>11, <1>12, <1>13
    DEF Next, WorkerStep, ClientCall, ClientResume, Enqueue

\* The destructor shares condition_consumers with the workers, and the worker
\* that empties the vector always notifies it.
THEOREM DestructorIsWoken == Spec => []NoLostDestructorWakeup
  <1>1. Init => NoLostDestructorWakeup
    BY DEF Init, NoLostDestructorWakeup
  <1> QED
    BY <1>1, TypeInit, TypeStep, DestructorWakeupStep, PTL DEF Spec

\* Nothing in flight means that no task is queued or in the hands of a worker.
LEMMA NothingInFlightMeansDone ==
    ASSUME TypeInv, InFlightAccounting, inFlight = 0
    PROVE  Queued = {} /\ \A n \in Slots : held[n] = NoTask
  <1>1. Len(tasks) = 0 /\ Cardinality(Carrying) = 0
    BY CarryingFinite DEF TypeInv, TypeOK, InFlightAccounting
  <1>2. Carrying = {}
    BY <1>1, CarryingFinite, FS_EmptySet
  <1>3. \A n \in Slots : held[n] = NoTask
    BY <1>2 DEF Carrying, InFlightStates, TypeInv, Ownership
  <1> QED
    BY <1>1, <1>3 DEF Queued

\* A waiter in wait_until_nothing_in_flight comes back by FlightCheck alone.
LEMMA FlightWaitStep ==
    ASSUME TypeInv, [Next]_vars, NEW d \in Clients,
           client[d] \in {"flightAwake", "flightChecked"}, client'[d] = "idle"
    PROVE  inFlight = 0
  <1> USE DEF TypeInv
  <1>1. ASSUME NEW c \in Clients, FlightCheck(c) PROVE inFlight = 0
    BY <1>1 DEF FlightCheck, NothingInFlight, TypeOK
  <1>2. ASSUME client'[d] = client[d] PROVE FALSE
    BY <1>2
  <1>3. ASSUME NEW c \in Clients, NEW t \in Tasks \cup {NoTask},
               client[c] \in {"idle", "enqueueAwake"},
               Store(c, t) \/ BlockEnqueue(c, t)
        PROVE  FALSE
    BY <1>2, <1>3 DEF Store, BlockEnqueue, TypeOK
  <1>4. ASSUME NEW c \in Clients, WaitUntilEmpty(c) \/ FlightSleep(c) PROVE FALSE
    BY <1>2, <1>4 DEF WaitUntilEmpty, FlightSleep, MayCall, TypeOK
  <1>5. ASSUME NEW c \in Clients, SpuriousClient(c) PROVE FALSE
    BY <1>2, <1>5, WakeClients DEF SpuriousClient, TypeOK
  <1>6. ASSUME NEW c \in Clients, NEW limit \in QueueLimits, SetQueueSizeLimit(c, limit)
        PROVE  FALSE
    BY <1>2, <1>6, WakeClients DEF SetQueueSizeLimit
  <1>7. ASSUME NEW c \in Clients, NEW limit \in PoolSizes, SetPoolSize(c, limit)
        PROVE  FALSE
    BY <1>2, <1>7 DEF SetPoolSize, clientVars
  <1>8. ASSUME NEW c \in Clients, Destroy(c) PROVE FALSE
    BY <1>2, <1>8, WakeClients DEF Destroy, AwaitWorkers, MayCall
  <1>9. ASSUME NEW c \in Clients, DestroyResume(c) PROVE FALSE
    BY <1>2, <1>9 DEF DestroyResume, AwaitWorkers, TypeOK
  <1>10. ASSUME NEW n \in Slots,
               \/ WorkerSleep(n) \/ WorkerTake(n) \/ WorkerRun(n)
               \/ WorkerDecrement(n) \/ SpuriousWorker(n)
        PROVE  FALSE
    BY <1>2, <1>10 DEF WorkerSleep, WorkerTake, WorkerRun, WorkerDecrement,
       SpuriousWorker, clientVars
  <1>11. ASSUME NEW n \in Slots,
               WorkerNotify(n) \/ WorkerNotifyFlight(n) \/ WorkerExit(n)
         PROVE FALSE
    BY <1>2, <1>11, WakeClients DEF WorkerNotify, WorkerNotifyFlight, WorkerExit
  <1>12. CASE UNCHANGED vars
    BY <1>2, <1>12 DEF vars
  <1>13. ASSUME NEW c \in Clients, EnqueueResume(c) PROVE FALSE
    BY <1>3, <1>13 DEF EnqueueResume, TypeOK
  <1>14. ASSUME NEW c \in Clients, NEW t \in Tasks, Enqueue(c, t) PROVE FALSE
    BY <1>3, <1>14 DEF Enqueue, MayCall
  <1> QED
    BY <1>1, <1>4, <1>5, <1>6, <1>7, <1>8, <1>9, <1>10, <1>11, <1>12, <1>13, <1>14
    DEF Next, WorkerStep, ClientCall, ClientResume

\* When wait_until_nothing_in_flight returns after a wait, every task that was
\* accepted has been run.
THEOREM FlightWaitIsSound == Spec => FlightWaitMeansDone
  <1>1. TypeInv /\ InFlightAccounting /\ [Next]_vars
          => [\A c \in Clients :
                client[c] \in {"flightAwake", "flightChecked"} /\ client'[c] = "idle"
                => Queued = {} /\ \A n \in Slots : held[n] = NoTask]_vars
    BY FlightWaitStep, NothingInFlightMeansDone
  <1> QED
    BY <1>1, TypeInit, TypeStep, AccountInit, AccountStep, PTL
    DEF Spec, FlightWaitMeansDone
===============================================================================
