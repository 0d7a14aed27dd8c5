------------------------------ MODULE ThreadPool ------------------------------
(***************************************************************************)
(* The thread pool of ConsoleTest/ConsoleTest/src/ThreadPool.h.            *)
(*                                                                         *)
(* Worker threads take tasks from a bounded queue; client threads enqueue  *)
(* tasks, wait for the queue to empty, wait for nothing to be in flight,   *)
(* resize the pool or the queue, and one of them runs the destructor.      *)
(*                                                                         *)
(* Everything the code does while it holds queue_mutex is one step: the    *)
(* mutex makes it atomic, and the only shared word touched outside it, the *)
(* atomic in_flight, is accessed once per critical section.  The condition *)
(* variables are explicit: a thread inside wait() is "asleep", a notify    *)
(* makes it "awake" (it still has to reacquire the mutex and evaluate its  *)
(* predicate), and it may also wake up spuriously.                         *)
(***************************************************************************)
EXTENDS Integers, Sequences, FiniteSets

CONSTANTS Clients,         \* threads that call the public operations
          Tasks,           \* the work items; each is enqueued at most once
          NoTask,          \* "holds no task"
          NoClient,        \* in_flight_mutex is free
          InitThreads,     \* the constructor's argument
          InitQueueLimit,  \* initial max_queue_size (100000 in the code)
          MaxThreads,      \* bound: worker slots the model provides
          PoolSizes,       \* arguments of set_pool_size
          QueueLimits,     \* arguments of set_queue_size_limit
          OverlapDestroy   \* may the destructor overlap other calls?

ASSUME ThreadPoolAssumption ==
    /\ NoTask \notin Tasks
    /\ NoClient \notin Clients
    /\ MaxThreads \in Nat \ {0}
    /\ InitThreads \in 0..MaxThreads
    /\ InitQueueLimit \in Nat \ {0}
    /\ PoolSizes \subseteq 0..MaxThreads
    /\ QueueLimits \subseteq Nat
    /\ OverlapDestroy \in BOOLEAN

\* The indices of the vector workers.
Slots == 0..(MaxThreads - 1)

VARIABLES
    tasks,         \* std::queue tasks
    poolSize,      \* pool_size, the target size
    maxQueueSize,  \* max_queue_size
    stop,          \* stop
    inFlight,      \* std::atomic in_flight
    size,          \* workers.size()
    worker,        \* what the thread of each slot is doing
    held,          \* the local variable task of each worker
    flightOwner,   \* who holds in_flight_mutex between its check and its wait
    client,        \* what each client thread is doing
    arg,           \* the task a client's enqueue call carries
    done,          \* history: tasks whose body has returned
    destroyed      \* the destructor has returned

queueVars  == <<tasks, maxQueueSize>>
workerVars == <<size, worker, held>>
clientVars == <<client, arg>>
vars == <<tasks, poolSize, maxQueueSize, stop, inFlight, size, worker, held,
          flightOwner, client, arg, done, destroyed>>

(***************************************************************************)
(* A slot is "none" beyond the end of the vector and "stopped" once its    *)
(* thread has detached itself.  A live worker is "ready" to lock           *)
(* queue_mutex at the top of its loop, "asleep" in condition_consumers,    *)
(* about to "notify" the producers, about to "run" its task, has "ran" it  *)
(* and must decrement in_flight, or made the "last" decrement and must     *)
(* notify in_flight_condition.                                             *)
(***************************************************************************)
WorkerStates == {"none", "stopped", "ready", "asleep", "notify", "run",
                 "ran", "last"}
Joinable(n)  == worker[n] \notin {"none", "stopped"}
InFlightStates == {"notify", "run", "ran"}

ClientStates == {"idle", "enqueueAsleep", "enqueueAwake",
                 "emptyAsleep", "emptyAwake",
                 "flightAwake", "flightChecked", "flightAsleep",
                 "destroyAsleep", "destroyAwake"}

\* A client may start a call: on a pool that exists and, unless calls may
\* overlap the destructor, is not being destroyed.
MayCall(c) == ~destroyed /\ client[c] = "idle" /\ (OverlapDestroy \/ ~stop)

\* Tasks some client may still pass to enqueue: one use per task.
Queued == {tasks[i] : i \in 1..Len(tasks)}
Fresh  == Tasks \ (Queued \cup {held[n] : n \in Slots}
                          \cup {arg[c] : c \in Clients} \cup done)

(***************************************************************************)
(* Condition variables.                                                    *)
(***************************************************************************)
\* Mutant of WakeProducers: only wait_until_empty is woken.
WakeProducersEmptyOnly(cl) ==
    [c \in Clients |-> IF cl[c] = "emptyAsleep" THEN "emptyAwake" ELSE cl[c]]

\* condition_producers.notify_all(): blocked enqueues and wait_until_empty.
WakeProducers(cl) ==
    [c \in Clients |-> CASE cl[c] = "enqueueAsleep" -> "enqueueAwake"
                         [] cl[c] = "emptyAsleep"   -> "emptyAwake"
                         [] OTHER -> cl[c]]

\* Mutant of WakeWorkers: the workers are not told.
WakeNoWorkers(w) == w

\* condition_consumers.notify_all(): the sleeping workers ...
WakeWorkers(w) == [n \in Slots |-> IF w[n] = "asleep" THEN "ready" ELSE w[n]]

\* Mutant of WakeDestructor: the last worker does not notify.
WakeDestructorForgotten(cl) == cl

\* ... and the destructor, which waits on the same variable.
WakeDestructor(cl) ==
    [c \in Clients |-> IF cl[c] = "destroyAsleep" THEN "destroyAwake" ELSE cl[c]]

\* in_flight_condition.notify_all().
WakeFlight(cl) ==
    [c \in Clients |-> IF cl[c] = "flightAsleep" THEN "flightAwake" ELSE cl[c]]

\* Mutant of NotifyOneConsumer: enqueue does not notify.
NotifyNoConsumer == worker' = worker

\* condition_consumers.notify_one(): any one sleeping worker, if there is one.
\* (The destructor cannot be asleep there: it sets stop first and enqueue throws.)
NotifyOneConsumer ==
    IF \E n \in Slots : worker[n] = "asleep"
    THEN \E n \in Slots : /\ worker[n] = "asleep"
                          /\ worker' = [worker EXCEPT ![n] = "ready"]
    ELSE worker' = worker

-------------------------------------------------------------------------------
\* ThreadPool::ThreadPool starts InitThreads workers and does not clamp.
Init ==
    /\ tasks = <<>>
    /\ poolSize = InitThreads
    /\ maxQueueSize = InitQueueLimit
    /\ stop = FALSE
    /\ inFlight = 0
    /\ size = InitThreads
    /\ worker = [n \in Slots |-> IF n < InitThreads THEN "ready" ELSE "none"]
    /\ held = [n \in Slots |-> NoTask]
    /\ flightOwner = NoClient
    /\ client = [c \in Clients |-> "idle"]
    /\ arg = [c \in Clients |-> NoTask]
    /\ done = {}
    /\ destroyed = FALSE

-------------------------------------------------------------------------------
(***************************************************************************)
(* enqueue                                                                 *)
(***************************************************************************)
\* The predicate of the wait in enqueue.
RoomOrStop == Len(tasks) < maxQueueSize \/ stop

\* Mutant of Accept: the task overtakes the queue.
AcceptInFront(t) ==
    tasks' = <<t>> \o tasks /\ inFlight' = inFlight + 1 /\ NotifyOneConsumer

\* Store the task, count it and notify one consumer.
Accept(t) ==
    /\ tasks' = Append(tasks, t)
    /\ inFlight' = inFlight + 1
    /\ NotifyOneConsumer

\* Mutant of Reject: the task is counted before the test of stop.
RejectCounted == inFlight' = inFlight + 1 /\ UNCHANGED <<tasks, worker>>

\* throw: nothing is stored.
Reject == UNCHANGED <<tasks, inFlight, worker>>

\* The part of enqueue after its wait.
Store(c, t) ==
    /\ IF stop THEN Reject ELSE Accept(t)
    /\ client' = [client EXCEPT ![c] = "idle"]
    /\ arg' = [arg EXCEPT ![c] = NoTask]
    /\ UNCHANGED <<poolSize, maxQueueSize, stop, size, held, flightOwner, done,
                   destroyed>>

\* Wait for room: release the mutex and sleep on condition_producers.
BlockEnqueue(c, t) ==
    /\ client' = [client EXCEPT ![c] = "enqueueAsleep"]
    /\ arg' = [arg EXCEPT ![c] = t]
    /\ UNCHANGED <<tasks, poolSize, maxQueueSize, stop, inFlight, size, worker,
                   held, flightOwner, done, destroyed>>

Enqueue(c, t) ==
    /\ MayCall(c)
    /\ t \in Fresh
    /\ IF RoomOrStop THEN Store(c, t) ELSE BlockEnqueue(c, t)

\* A woken enqueue has the mutex again and evaluates its predicate.
EnqueueResume(c) ==
    /\ ~destroyed
    /\ client[c] = "enqueueAwake"
    /\ IF RoomOrStop THEN Store(c, arg[c]) ELSE BlockEnqueue(c, arg[c])

(***************************************************************************)
(* wait_until_empty                                                        *)
(***************************************************************************)
WaitUntilEmpty(c) ==
    /\ ~destroyed
    /\ MayCall(c) \/ client[c] = "emptyAwake"
    /\ client' = [client EXCEPT ![c] = IF tasks = <<>> THEN "idle"
                                                       ELSE "emptyAsleep"]
    /\ UNCHANGED <<queueVars, poolSize, stop, inFlight, workerVars, flightOwner,
                   arg, done, destroyed>>

(***************************************************************************)
(* wait_until_nothing_in_flight.  in_flight changes without in_flight_mutex *)
(* so the evaluation of the predicate and the sleep are two steps.         *)
(***************************************************************************)
\* Mutant of NothingInFlight: the predicate looks at the queue only.
QueueEmpty == tasks = <<>>

\* The predicate of the wait.
NothingInFlight == inFlight = 0

FlightCheck(c) ==
    /\ ~destroyed
    /\ MayCall(c) \/ client[c] = "flightAwake"
    /\ flightOwner = NoClient
    /\ IF NothingInFlight
       THEN /\ client' = [client EXCEPT ![c] = "idle"]
            /\ UNCHANGED flightOwner
       ELSE /\ client' = [client EXCEPT ![c] = "flightChecked"]
            /\ flightOwner' = c
    /\ UNCHANGED <<queueVars, poolSize, stop, inFlight, workerVars, arg, done,
                   destroyed>>

FlightSleep(c) ==
    /\ ~destroyed
    /\ client[c] = "flightChecked"
    /\ client' = [client EXCEPT ![c] = "flightAsleep"]
    /\ flightOwner' = NoClient
    /\ UNCHANGED <<queueVars, poolSize, stop, inFlight, workerVars, arg, done,
                   destroyed>>

(***************************************************************************)
(* set_queue_size_limit and set_pool_size                                  *)
(***************************************************************************)
AtLeastOne(limit) == IF limit < 1 THEN 1 ELSE limit

SetQueueSizeLimit(c, limit) ==
    /\ MayCall(c)
    /\ ~stop
    /\ maxQueueSize' = AtLeastOne(limit)
    /\ client' = IF maxQueueSize < maxQueueSize' THEN WakeProducers(client)
                                                 ELSE client
    /\ UNCHANGED <<tasks, poolSize, stop, inFlight, workerVars, flightOwner, arg,
                   done, destroyed>>

\* Mutant of StartWorkers: a stopped slot is not restarted.
StartWorkersPushOnly(from, to) ==
    /\ worker' = [n \in Slots |-> IF from <= n /\ n < to /\ worker[n] = "none"
                                  THEN "ready" ELSE worker[n]]
    /\ size' = IF size < to THEN to ELSE size

\* start_worker for the slots from..to-1: a slot whose thread still runs
\* keeps it, a stopped slot gets a new thread, the others are pushed back.
StartWorkers(from, to) ==
    /\ worker' = [n \in Slots |-> IF from <= n /\ n < to /\ ~Joinable(n)
                                  THEN "ready" ELSE worker[n]]
    /\ size' = IF size < to THEN to ELSE size

SetPoolSize(c, limit) ==
    /\ MayCall(c)
    /\ ~stop
    /\ poolSize' = AtLeastOne(limit)
    /\ \/ /\ poolSize' > poolSize
          /\ StartWorkers(poolSize, poolSize')
       \/ /\ poolSize' < poolSize
          /\ worker' = WakeWorkers(worker)
          /\ UNCHANGED size
       \/ /\ poolSize' = poolSize
          /\ UNCHANGED <<worker, size>>
    /\ UNCHANGED <<queueVars, stop, inFlight, held, flightOwner, clientVars,
                   done, destroyed>>

(***************************************************************************)
(* The destructor                                                          *)
(***************************************************************************)
\* Mutant of AwaitWorkers: the destructor does not wait.
AwaitNobody(c, cl) ==
    /\ client' = [cl EXCEPT ![c] = "idle"]
    /\ destroyed' = TRUE

\* The wait for workers.empty() and what follows it.
AwaitWorkers(c, cl) ==
    IF size = 0
    THEN /\ client' = [cl EXCEPT ![c] = "idle"]
         /\ destroyed' = TRUE
    ELSE /\ client' = [cl EXCEPT ![c] = "destroyAsleep"]
         /\ UNCHANGED destroyed

Destroy(c) ==
    /\ MayCall(c)
    /\ ~stop
    /\ OverlapDestroy \/ \A d \in Clients : client[d] = "idle"
    /\ stop' = TRUE
    /\ poolSize' = 0
    /\ worker' = WakeWorkers(worker)
    /\ AwaitWorkers(c, WakeProducers(client))
    /\ UNCHANGED <<queueVars, inFlight, size, held, flightOwner, arg, done>>

DestroyResume(c) ==
    /\ ~destroyed
    /\ client[c] = "destroyAwake"
    /\ AwaitWorkers(c, client)
    /\ UNCHANGED <<queueVars, poolSize, stop, inFlight, workerVars, flightOwner,
                   arg, done>>

-------------------------------------------------------------------------------
(***************************************************************************)
(* worker_func                                                             *)
(***************************************************************************)
\* The predicate of the wait on condition_consumers is false.
WorkerSleep(n) ==
    /\ worker[n] = "ready"
    /\ ~stop /\ tasks = <<>> /\ n < poolSize
    /\ worker' = [worker EXCEPT ![n] = "asleep"]
    /\ UNCHANGED <<queueVars, poolSize, stop, inFlight, size, held, flightOwner,
                   clientVars, done, destroyed>>

\* The condition under which a worker leaves the pool.
MustExit(n) == (stop /\ tasks = <<>>) \/ (~stop /\ poolSize < n + 1)

\* The back of the vector is popped down to length k: as far as the target
\* size allows and the popped threads have detached themselves.
PopStopped(w, k) ==
    /\ k <= size
    /\ \A i \in Slots : i >= k /\ i < size => i >= poolSize /\ w[i] = "stopped"
    /\ k > poolSize => w[k - 1] # "stopped"

WorkerExit(n) ==
    /\ worker[n] = "ready"
    /\ MustExit(n)
    /\ \E k \in 0..MaxThreads :
          /\ PopStopped([worker EXCEPT ![n] = "stopped"], k)
          /\ size' = k
          /\ worker' = [i \in Slots |->
                          IF i < k THEN IF i = n THEN "stopped" ELSE worker[i]
                                   ELSE "none"]
          /\ client' = IF k = 0 THEN WakeDestructor(client) ELSE client
    /\ UNCHANGED <<queueVars, poolSize, stop, inFlight, held, flightOwner, arg,
                   done, destroyed>>

\* Mutants of MustNotify: only one of its two cases.
MustNotifyEmptyOnly(rest) == rest = <<>>
MustNotifyFullOnly(rest) == Len(rest) + 1 = maxQueueSize

\* Whether the worker that leaves rest in the queue notifies the producers.
MustNotify(rest) == Len(rest) + 1 = maxQueueSize \/ rest = <<>>

WorkerTake(n) ==
    /\ worker[n] = "ready"
    /\ ~MustExit(n)
    /\ tasks # <<>>
    /\ held' = [held EXCEPT ![n] = Head(tasks)]
    /\ tasks' = Tail(tasks)
    /\ worker' = [worker EXCEPT ![n] = IF MustNotify(tasks') THEN "notify"
                                                             ELSE "run"]
    /\ UNCHANGED <<maxQueueSize, poolSize, stop, inFlight, size, flightOwner,
                   clientVars, done, destroyed>>

WorkerNotify(n) ==
    /\ worker[n] = "notify"
    /\ worker' = [worker EXCEPT ![n] = "run"]
    /\ client' = WakeProducers(client)
    /\ UNCHANGED <<queueVars, poolSize, stop, inFlight, size, held, flightOwner,
                   arg, done, destroyed>>

\* task() returns; a packaged_task keeps an exception in its future.
WorkerRun(n) ==
    /\ worker[n] = "run"
    /\ worker' = [worker EXCEPT ![n] = "ran"]
    /\ held' = [held EXCEPT ![n] = NoTask]
    /\ done' = done \cup {held[n]}
    /\ UNCHANGED <<queueVars, poolSize, stop, inFlight, size, flightOwner,
                   clientVars, destroyed>>

\* ~handle_in_flight_decrement, up to its test of the previous value.
WorkerDecrement(n) ==
    /\ worker[n] = "ran"
    /\ inFlight' = inFlight - 1
    /\ worker' = [worker EXCEPT ![n] = IF inFlight = 1 THEN "last" ELSE "ready"]
    /\ UNCHANGED <<queueVars, poolSize, stop, size, held, flightOwner,
                   clientVars, done, destroyed>>

\* Mutant of WorkerNotifyFlight: it notifies without taking in_flight_mutex.
WorkerNotifyFlightUnlocked(n) ==
    /\ worker[n] = "last"
    /\ worker' = [worker EXCEPT ![n] = "ready"]
    /\ client' = WakeFlight(client)
    /\ UNCHANGED <<queueVars, poolSize, stop, inFlight, size, held, flightOwner,
                   arg, done, destroyed>>

\* Its notification, under in_flight_mutex.
WorkerNotifyFlight(n) ==
    /\ worker[n] = "last"
    /\ flightOwner = NoClient
    /\ worker' = [worker EXCEPT ![n] = "ready"]
    /\ client' = WakeFlight(client)
    /\ UNCHANGED <<queueVars, poolSize, stop, inFlight, size, held, flightOwner,
                   arg, done, destroyed>>

-------------------------------------------------------------------------------
(***************************************************************************)
(* A wait may return without a notification.                               *)
(***************************************************************************)
SpuriousWorker(n) ==
    /\ worker[n] = "asleep"
    /\ worker' = [worker EXCEPT ![n] = "ready"]
    /\ UNCHANGED <<queueVars, poolSize, stop, inFlight, size, held, flightOwner,
                   clientVars, done, destroyed>>

SpuriousClient(c) ==
    /\ ~destroyed
    /\ \E wake \in {WakeProducers(client), WakeDestructor(client),
                    WakeFlight(client)} :
          /\ wake[c] # client[c]
          /\ client' = [client EXCEPT ![c] = wake[c]]
    /\ UNCHANGED <<queueVars, poolSize, stop, inFlight, workerVars, flightOwner,
                   arg, done, destroyed>>

-------------------------------------------------------------------------------
WorkerStep(n) ==
    \/ WorkerSleep(n) \/ WorkerExit(n) \/ WorkerTake(n) \/ WorkerNotify(n)
    \/ WorkerRun(n) \/ WorkerDecrement(n) \/ WorkerNotifyFlight(n)

\* The steps of a call that has begun.
ClientResume(c) ==
    \/ EnqueueResume(c)
    \/ client[c] = "emptyAwake" /\ WaitUntilEmpty(c)
    \/ client[c] = "flightAwake" /\ FlightCheck(c)
    \/ FlightSleep(c)
    \/ DestroyResume(c)

ClientCall(c) ==
    \/ \E t \in Tasks : Enqueue(c, t)
    \/ client[c] = "idle" /\ WaitUntilEmpty(c)
    \/ client[c] = "idle" /\ FlightCheck(c)
    \/ \E limit \in QueueLimits : SetQueueSizeLimit(c, limit)
    \/ \E limit \in PoolSizes : SetPoolSize(c, limit)
    \/ Destroy(c)

Next ==
    \/ \E n \in Slots : WorkerStep(n) \/ SpuriousWorker(n)
    \/ \E c \in Clients : ClientCall(c) \/ ClientResume(c) \/ SpuriousClient(c)

Spec == Init /\ [][Next]_vars

(***************************************************************************)
(* Every thread that can run eventually does: a runnable worker is         *)
(* scheduled, gets the mutex, and its task body returns; a call that has   *)
(* been woken gets the mutex.  in_flight_mutex is held across two steps,   *)
(* so "gets the mutex" is strong fairness there: no thread is overtaken    *)
(* for ever.  Nothing makes a client start a call, and nothing wakes a     *)
(* sleeper but a notification.                                             *)
(***************************************************************************)
Fairness ==
    /\ \A n \in Slots : WF_vars(WorkerStep(n)) /\ SF_vars(WorkerNotifyFlight(n))
    /\ \A c \in Clients : /\ WF_vars(ClientResume(c))
                          /\ SF_vars(client[c] = "flightAwake" /\ FlightCheck(c))

FairSpec == Spec /\ Fairness

-------------------------------------------------------------------------------
(***************************************************************************)
(* Safety                                                                  *)
(***************************************************************************)
TypeOK ==
    /\ tasks \in Seq(Tasks)
    /\ poolSize \in 0..MaxThreads
    /\ maxQueueSize \in Nat \ {0}
    /\ stop \in BOOLEAN
    /\ inFlight \in Int
    /\ size \in 0..MaxThreads
    /\ worker \in [Slots -> WorkerStates]
    /\ held \in [Slots -> Tasks \cup {NoTask}]
    /\ flightOwner \in Clients \cup {NoClient}
    /\ client \in [Clients -> ClientStates]
    /\ arg \in [Clients -> Tasks \cup {NoTask}]
    /\ done \subseteq Tasks
    /\ destroyed \in BOOLEAN

\* A worker holds a task exactly from taking it until its body returns, a
\* blocked enqueue carries its task, and in_flight_mutex is owned by the one
\* client that is between its check of in_flight and its sleep.
Ownership ==
    /\ \A n \in Slots : held[n] # NoTask <=> worker[n] \in {"notify", "run"}
    /\ \A c \in Clients :
          /\ client[c] \in {"enqueueAsleep", "enqueueAwake"} => arg[c] # NoTask
          /\ client[c] = "flightChecked" <=> flightOwner = c

\* The workers that own a task not yet subtracted from in_flight.
Carrying == {n \in Slots : worker[n] \in InFlightStates}

\* in_flight is exactly the number of tasks that are queued or in the hands of
\* a worker, although it is raised under queue_mutex and lowered without it.
InFlightAccounting == inFlight = Len(tasks) + Cardinality(Carrying)

\* The destructor's assert(in_flight == 0).
AssertNothingInFlight == destroyed => inFlight = 0

\* When the destructor returns no worker thread is left that could touch the
\* freed pool and no task was dropped.
DestroyedDrained ==
    destroyed => /\ tasks = <<>>
                 /\ size = 0
                 /\ \A n \in Slots : worker[n] = "none" /\ held[n] = NoTask

\* Whatever sequence of resizes was made, every slot of the target size has a
\* running thread (so set_pool_size's assert(workers.size() >= old_size) holds,
\* and start_worker never leaves a hole), and slots beyond size are unused.
WorkersCoverPool ==
    /\ size >= poolSize
    /\ \A n \in Slots : n < poolSize => Joinable(n)
    /\ \A n \in Slots : worker[n] = "none" <=> n >= size

\* The workers of the target size that are about to look at the queue.
Ready == {n \in Slots : worker[n] = "ready" /\ n < poolSize}

\* No notification of condition_consumers is lost: while some worker sleeps
\* there are as many awake workers as queued tasks, no sleeping worker is
\* surplus, and none sleeps once the pool is stopped.
NoLostConsumerWakeup ==
    (\E n \in Slots : worker[n] = "asleep") =>
        /\ ~stop
        /\ Len(tasks) <= Cardinality(Ready)
        /\ \A n \in Slots : worker[n] = "asleep" => n < poolSize

\* No notification of condition_producers is lost, although the decision to
\* notify is taken in one critical section, with the limit of that moment, and
\* carried out in a later one: a sleeper whose predicate has become true is
\* owed a notify_all by some worker.
NoLostProducerWakeup ==
    \A c \in Clients :
        \/ client[c] = "enqueueAsleep" /\ RoomOrStop
        \/ client[c] = "emptyAsleep" /\ tasks = <<>>
        => \E n \in Slots : worker[n] = "notify"

\* The same for in_flight_condition: a thread that saw a positive in_flight
\* and sleeps, or is about to, is owed a notification once it drops to 0.
NoLostFlightWakeup ==
    inFlight = 0 /\ (\E c \in Clients : client[c] \in {"flightChecked", "flightAsleep"})
        => \E n \in Slots : worker[n] = "last"

\* The destructor does not sleep with the workers gone.
NoLostDestructorWakeup ==
    size = 0 => \A c \in Clients : client[c] # "destroyAsleep"

\* wait_until_nothing_in_flight returns only when the body of every task that
\* was ever accepted has returned: none is queued or in the hands of a worker.
FlightWaitMeansDone ==
    [][\A c \in Clients :
          client[c] \in {"flightAwake", "flightChecked"} /\ client'[c] = "idle"
          => Queued = {} /\ \A n \in Slots : held[n] = NoTask]_vars

(***************************************************************************)
(* Refinement and liveness                                                 *)
(***************************************************************************)
Pool == INSTANCE TaskPool WITH
            queue <- tasks,
            running <- {held[n] : n \in Slots} \ {NoTask},
            finished <- done,
            closed <- stop,
            released <- destroyed

\* The pool keeps the promises of TaskPool: first in first out, exactly once,
\* nothing accepted after stop, freed only when drained; every accepted task runs,
\* and the destructor returns.
ImplementsTaskPool == Pool!FairSpec
ImplementsTaskPoolSafely == Pool!Spec

\* A producer blocked on a full queue gets its task in or throws, unless the pool
\* is destroyed under it (a call that overlaps the destructor).
EnqueueReturns ==
    \A c \in Clients : client[c] \in {"enqueueAsleep", "enqueueAwake"}
                       ~> client[c] = "idle" \/ destroyed

\* wait_until_empty and wait_until_nothing_in_flight return, unless the pool is
\* destroyed under them (the clients of the model enqueue finitely many tasks).
WaitsReturn ==
    \A c \in Clients :
        client[c] \in {"emptyAsleep", "emptyAwake", "flightAwake",
                       "flightChecked", "flightAsleep"}
            ~> client[c] = "idle" \/ destroyed

\* A thread the pool no longer wants goes away: a shrunken pool really shrinks.
SurplusWorkersLeave ==
    ~stop /\ size > poolSize ~> stop \/ size <= poolSize
===============================================================================
