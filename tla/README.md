# Verification of vs17

The repository is a collection of C++ programs: a Windows console program and its Linux twin
(`src/ConsoleTest/ConsoleTest/src`, `src-linux`), an asynchronous server and client over boost.asio
(`src/ConsoleTest/example_boost`), a RabbitMQ client (`src/test_rabbitmq/test_rabbitmq`), system monitors and
samples of language features, next to vendored libraries. Most of its own code is sequential and does I/O. The
parts with real state and concurrency are a thread pool, two asynchronous logs, the asio server and a select
server; next to them stand the repository's own algorithms, its sorts and its binary tree. They are what this project models.

Paths below are relative to `src/`.

## 1. Inventory

| Part | State | Operations | Hard behaviour |
| --- | --- | --- | --- |
| **ThreadPool** `ConsoleTest/ConsoleTest/src/ThreadPool.h` | task queue, target size, queue limit, `stop`, atomic `in_flight`, vector of threads, two mutexes, three condition variables | constructor, `enqueue`, `wait_until_empty`, `wait_until_nothing_in_flight`, `set_queue_size_limit`, `set_pool_size`, destructor, worker loop | lost wakeups, decisions carried out in a later critical section, resizes in any order, destruction with tasks queued |
| **Mylog** `ConsoleTest/ConsoleTest/src/Mylog.cpp`, `src-linux/Mylog.cpp`, `example_boost/Mylog.cpp` | entry queue, line buffer, exit flag, background thread, log file | `log`, `logException`, `checkSize`, `shrinkLogFile`, `processEntries`, destructor | a buffer shared before the mutex is taken, a wait without predicate, a file rewritten while others append |
| **AsyncServer / AsyncConnection** `ConsoleTest/example_boost/testAsio.cpp` | registry `s_conns`, `m_connected`, read buffer and position, outstanding reads and writes | `start`, `on_accept`, `stop`, `do_read`, `on_read`, `do_write`, `on_write`, `close`, `deleteConn` | handlers that run after the connection was closed, calls that throw half way, a chain of accepts that must not break |
| **Framing** `ConsoleTest/example_boost/DataProcess.cpp`, `MsgDefine.h` | buffer, position, queue of found messages | two `msgGet` functions, `msgProcess` | a stream cut anywhere, length fields that count different things |
| **Logger** `src-linux/Logger.cpp` | queue, exit flag, background thread, log file | constructor, `log`, `processEntries`, destructor | a wait that does not look at the queue first, a destructor that must drain |
| **select server** `src-linux/test_select.cpp` | `v_fds`, `read_fds`, `test_fds`, the index of the scan | accept, remove, receive | the vector is erased from while it is scanned, descriptor numbers are used again, a stale copy of the ready set |
| **MySort, MyBitree** `src/MySort.h`, `src/MyBitree.h` | the array being sorted and the loops' indices; a tree of nodes | seven sorts; insertion, traversals, deletion | equal keys, boundaries, destructors that delete children again |
| AsyncClient `testAsio.cpp` | `m_connected_`, buffers | connect, `do_write`, `do_read` | writes before the connection exists, several reads on one buffer |
| Mycounter `src/testMultiThread.h` | vector of numbers | `push`, `get` with a timeout | a timeout racing a slow producer |
| MyRabbit `test_rabbitmq/test_rabbitmq/myrabbit.cpp` | connection, channel | connect, `sendString`, `getString` | refused and lost messages, redelivery |
| MyURL `src-linux/MyURL.cpp` | response buffer, task status | callbacks of libcurl, status with retries | a response in pieces, a retry of what was done |
| everything else | | | I/O, formatting, samples, generated or vendored code: see `components` in PROJECT.json |

How the parts interact: the server and its connections call `Mylog::log` from every handler; a connection passes
its bytes to the server's processor (`msgGet`, `msgProcess`), which answers through `do_write` of the connection;
`close` of a connection removes it from the server's registry. The thread pool is used by whoever owns one; its
tasks may come from several threads. The select server logs through a `Mylog` and constructs another for each
message it receives. The exit flag and the thread object are globals in every version of `Mylog`; the mutex and the
condition variable are globals in `src-linux` and members of the object in `src` (`Mylog.h:65-66`).

What makes each part correct, in a sentence:

- ThreadPool: every accepted task runs exactly once, in order, whatever the resizes; no thread sleeps on work or
  news; the destructor returns, with nothing left.
- Mylog: what a caller logs is what is queued, what is queued is written, the file stays bounded and in order, and
  the thread stops when it is told to.
- Framing: the service sees exactly the client's messages, however TCP cuts them.
- Server: the registry holds the live connections, each of which has one read under way.
- Logger: entries are written once and in order, all of them before the destructor returns.
- Select server: it watches exactly its open descriptors, lists each of them once, and closes a connection when the
  client has closed it and only then. (That it lists every client is not true: run `select_forgets`.)
- MySort, MyBitree: sorted permutations; search order, level order, and every node freed once. (The destructor leaves some: run `bitree_leak`.)

## 2. Modules

| Module | Models |
| --- | --- |
| `TaskPool` | what a pool promises, without threads: the abstract specification |
| `ThreadPool` | the class of `ThreadPool.h`; `Pool` is its refinement mapping to `TaskPool` |
| `Mylog` | both versions of the class, told apart by `SharedBuffer` and `StopsWhenEmpty` |
| `MsgFraming` | one connection's byte stream; `Device` chooses between the two `msgGet` functions |
| `AsyncServer` | the accept chain and the life of connections |
| `EntryLog` | what a background log promises: an abstract specification |
| `Logger` | the class of `Logger.cpp`; `EL` is its refinement mapping to `EntryLog` |
| `SelectServer` | `thread_fun` of `test_select.cpp` and its clients |
| `MySort` | the seven sorts, turn by turn of their loops |
| `MyBitree` | the tree's nodes, insertion and deletion, turn by turn |
| `BitreeTraversals` | its traversals, as RECURSIVE operators for TLC |
| `MCAlgorithms` | sorts and trees side by side, for one run |
| `MC...` | values and message sizes for TLC, and the order in which interchangeable values are used |
| `...Proofs` | theorems and proofs |

Definitions whose comment begins with "Mutant of" are faulty forms of the definition that follows them. They are
used by nothing: replacing the definition by one shows that a property can fail.

### ThreadPool

Everything the code does while it holds `queue_mutex` is one step. `worker[n]` says where the thread of slot `n` is:
ready to lock, asleep in `condition_consumers`, holding a task and owing `condition_producers` a notification
(`notify`), running its task, about to lower `in_flight` (`ran`), or having made the last decrement (`last`).
`client[c]` does the same for the thread of a caller. A `notify_one` picks any sleeper, a `notify_all` wakes all
of them, and any sleeper may wake spuriously. `in_flight` is lowered outside the mutex, in a step of its own, and
the check and the sleep of `wait_until_nothing_in_flight` are two steps with `flightOwner` holding
`in_flight_mutex` between them: that is the window the code has to close. `OverlapDestroy` lets calls run into the
destructor.

`MaxThreads` bounds the slots, since TLC needs finitely many; every requested size is within it.

### Mylog

A line of the file is one entry. Lengths in bytes are left out: how many lines of the kept 2047 bytes survive is a choice,
and so is how many of the lines appended meanwhile are hit when the kept ones are written over the beginning of the file
(`Overwritten`). That write is one of bytes: any number of lines from the first on is gone, and of the last one hit the end
may be left behind the kept lines, as a `Torn` line. `size` is the size `stat` reports, in units of one line, kept
apart from the lines because such a remainder is a line more but no byte more. `log` is four steps: begin and finish formatting into the buffer (shared in one
version: two callers inside make its contents `Torn`), queue the entry under the mutex, notify. The wait of the thread is
two steps, the test (`tested`, mutex held) and the sleep, and has no loop around it. `shrinkLogFile` reads the end
of the file, truncates it and writes the end back, in three steps; two shrinks that overlap set the history
variable `overlap`, a `stat` or `fopen` of `checkSize` that fails sets `failed`, and a shrink that finds the file already empty dereferences a null pointer, after which the
process is `crashed`.

### MsgFraming

Bytes are their offsets in the stream: `read_buffer_` holds the `read_pos` bytes from `base` on, a message handed
over is a range of offsets. `Start` gives the offsets at which the client's messages begin and `Field` the length field a reader would
find at each offset; at the start of a message it is what the client wrote, elsewhere anything. TCP delivers any
number of bytes that are sent and fit.

### AsyncServer

One thread runs `io_context`, so a handler is one step. `sock[c]` is the socket as the calls of the code tell it
apart: `remote_endpoint` and `shutdown` succeed on `open` and `eof` only. A handler that lets their exception out
ends the program (`running` becomes false). Peers close or reset at any moment. `close` aborts the outstanding read, whose handler then
calls `close` again. A read that had completed before, however, finds `m_connected` false and returns. A connection object is reused when nothing refers to
it, as its memory is. `MaxWrites` bounds the answers under way. The answers' text and how messages are found in
the bytes are not here: `MsgFraming` has the latter.

### Logger and EntryLog

Unlike `Mylog`, `Logger` pushes and notifies in one critical section, sets its flag under the mutex, and holds the mutex
from its last look at the queue until the wait releases it. Each critical section is one step. `file` is emptied
by every wakeup, since the stream is opened for output; `erased` keeps the lines lost so, and `Written` is both together.
`EntryLog` promises nothing about when an entry is written while the log is open: an entry logged before the
thread's first wait is written only after the next one, or by the destructor. Its fairness is that a closed log drains and is released.

### SelectServer

`idx` is the index of the scan, or -1 in `select`; `test_fds` is the copy of `read_fds` that `select` leaves. Which
free number `accept` returns is a choice: the log's thread opens files meanwhile. `EraseTurn` is one turn of
the loop of lines 143-153, `EraseLoop` the loop and `Erased` the vector it leaves. Because the loop
compares with `v_fds[idx]` while it erases at `idx`, everything behind the removed client goes too. Those clients
stay open and watched but are never looked at again, which the run `select_forgets` shows. A `select` or an `accept` that fails ends the program; so does a client's first message: `myrecv` constructs a second `Mylog`,
whose constructor assigns to a global `std::thread` that is still joinable.

### MySort and MyBitree

An array is a function on `0..n-1`. A call of a sort goes through its loops turn by turn; `pc` names the loop.
Insertion sort is the pass of shell sort with increment 1, and the two share their actions. The recursive `quickSort` has a
stack of the calls still to be made, the iterative one its own `std::stack`: the same variable, with the ranges pushed in the order of each. `adjust` calls itself last, so
its recursion is a loop. The loop of `sortPartition` is left as it is: on equal keys its turns go on for ever, and the
model with them. Indices are integers of any size: in the code `2 * index + 1` needs fewer than 2^30 keys, and the increments fewer than about 1.7 * 10^9.
A node of a tree is its number in the order of creation, 0 is the null pointer, and `freed` lists the deletions. `insertOne` calls itself
last, so its recursion is a loop (`Descend`). Deletion recurses in earnest: `delete` runs the destructor, which calls `deleteTree` for the children again, so that a
double deletion would show. What is still to be done is the stack `calls`: a `deleteTree(bt)`, the clearing and `delete` of a node,
the release of its memory after its destructor, the reset of the root's pointers. `Collect` is a turn of the loop that fills `tmpList`.
The two `deleteTree` differ in the root object only, and share their actions. The traversals are operators of a module of their own.

## 3. Runs

| Run | What it shows |
| --- | --- |
| `threadpool` | counts, worker vector, wakeups and what the destructor leaves; the pool implements `TaskPool`, with its fairness (so the destructor returns); all calls return unless the pool is destroyed under them |
| `mylog` | no lost wakeup; the file lacks lines or has them torn at worst, never repeats or reorders them, unless shrinks overlap; entries are written and the file is shrunk, with the exceptions below |
| `mylog_shared_buffer` | *violation*: two callers of `log` mix their messages in the shared buffer |
| `mylog_shutdown` | *violation*, in the src-linux version: the exit flag is set between test and wait, and `join` never returns |
| `framing_conference` | the conference service gets every message whole, once, in order |
| `framing_device_cut` | *violation*: the other services cut off the beginning of the next message as well |
| `async_server` | the registry is exact, no connection goes deaf, a connection whose peer has left is removed |
| `logger` | `Logger` implements `EntryLog`, with its fairness; the thread sleeps on an entry only before its first wakeup |
| `select_server` | select gets open descriptors only, v_fds is sound, no live client is closed, the first listed client that closed has its connection closed, waiting ones are accepted |
| `select_forgets` | *violation*: removing a client takes every client behind it off the vector as well |
| `algorithms` | search order, level order, traversal, deletion of trees; what a sort returns is sorted; every sort returns, the quick sorts exactly on arrays without equal keys |
| `bitree_leak` | *violation*: a destructor does not delete the children of the root that are leaves |

The type invariants, and those invariants that follow from others a run checks (`Ownership`, `AssertNothingInFlight`,
`MsgGetReturns`, `DestroyedDrained` of `Logger`), are proved for every instance and not repeated in the runs.

Each violation is a disagreement with a comment or an assert of the code; `findings` in PROJECT.json quotes it.

Some consequences of the code are in the models and have no run of their own, because no line of the repository
says otherwise or because a property already says what holds instead. A pool constructed with 0 threads accepts a task nobody runs. The
inner loop of the src-linux `Mylog` has no break, so its file is not shrunk before it exits (`StopsWhenEmpty = FALSE`). `on_accept` does not
start the next accept when the peer has already gone.

The liveness properties of `Mylog` have exceptions, which are what the code does: an entry is not written when the
object is destroyed or the process dies first, or when the thread could not open the file, since it returns then; a file
that is too big stays so when the object is destroyed or the process dies, or a `stat` or `fopen` of `checkSize` has failed. Files
may fail in this run (`OpenMayFail` is TRUE).

### Bounds, and why they are enough

- ThreadPool: two clients, three tasks, one initial and up to three workers, resizes to 0 and 3, limits 0 and 2.
  Two clients give a producer and a waiter, or a producer and the destructor, at the same time; with three slots one can stop
  below a running one and be started again; 0 is the size and the limit the code clamps. A limit of 1 makes the second
  `enqueue` block, a limit of 2 the third. The third task is submitted only while the pool has one thread (`FewThreads`
  in `MCThreadPool`), which keeps the run small and restricts only what clients choose to do. With calls that may
  overlap the destructor this run includes those in which they may not. The eight safety properties are proved for
  every number of clients, tasks and threads as well.
- Mylog: three messages and two callers fill the queue while the thread drains and shrinks; `MaxLines` 1 makes the file too big
  at its second line, and `KeepLines` 1 lets a line survive a shrink while the third message is appended, which is what could show them
  out of order. `FileInOrder` and `NoSleepOnEntries` are proved for any number of messages and kept lines as well.
- Interchangeable values: tasks, messages and clients differ in their names only until they are used, so the runs
  that check liveness, where TLC's symmetry reduction is unsound, let them be used in a fixed order (`InOrder` in the `MC`
  modules): every other behaviour is one of these with the names exchanged.
- Framing: sizes 4, 5 and 4 in a buffer of 9, so that two messages fit exactly and never three; the length field
  in the middle of a message is 0, the value that would make `msgGet` loop.
- Server: three connection objects, so that one waits for an accept, one lives and one leaves; two answers each, so that an
  answer is under way when another fails.
- Logger: four entries, so that some are logged before the first wait, some while the thread writes, and some before the destructor.
- Select server: three clients and three numbers, so that one listed client can stand in front of and one behind the
  one that is removed, and a number is used again while others are open; failing `select` and `accept` are choices.
  `select_forgets` needs two clients, `bitree_leak` a root and one child.
- Algorithms: arrays of up to five keys out of five, so every order and every pattern of equal keys: they
  reach the second increment of shell sort (4), a heap of three levels and partitions with both sides. Three values and five nodes: trees of up to five nodes,
  with values below, between, above and equal to others, and deletions between the insertions.

Deadlock is not checked: programs end, the clients of the models make finitely many calls, and a server whose
program has ended stands still. That no thread waits for ever where it should not is what the wakeup invariants and the liveness
properties say.

### Fairness

- A thread that can run does: weak fairness of each worker, of the resumption of each blocked call, of the log's thread and callers. Task
  bodies return.
- A thread that waits for a mutex others take and release again and again gets it in the end: strong fairness of `WorkerNotifyFlight` and of
  `FlightCheck` (`in_flight_mutex`) and of `LogEnqueue` (`g_log_Mutex`). The mutexes of the platforms the code is built
  for do not starve a waiter for ever.
- Calls of clients, spurious wakeups, destruction, failures and what peers do have no fairness: nothing relies on them.
- Logger: its thread and `join`. Select server: its one thread runs whenever `select` returns. A sort that has been called runs on.
- Framing: the handlers run and TCP delivers what was sent (`WF` of `Handler`). Server: a read of a socket whose peer has left completes
  with an error (`WF` of `OnReadError`).

## 4. Proofs

TLAPS proves the following for every value of the constants that satisfies the assumptions (named
`...Assumption` in the module that declares the constants).

**ThreadPoolProofs.** `TypeOK` alone is not inductive. The induction runs on `TypeOK`, `Ownership` (program
counters agree with what a thread holds), `WorkersCoverPool` (every slot below the target size has a thread) and what the destructor's `stop`
implies. On top of it:
`InFlightCounts` counts queued tasks and tasks in the hands of workers; a worker taking a task moves one from the
first to the second. `DestructorAssertHolds` and `DestructorDrains` need the pool to have a thread to begin with (`InitThreads # 0`; the constructor does
not raise 0 to 1): while the vector is not empty slot 0 has a thread, and it
leaves last and only when the queue is empty.

In the same module, the three condition variables. For consumers: while a worker sleeps, as many workers are
awake as tasks are queued; `notify_one` adds one of each, taking a task removes one of each. For producers: a
sleeper whose predicate has become true is owed a notification by a worker in `notify`. For `in_flight`: whoever
has seen a positive count and sleeps, or is about to, is owed one by the worker in `last`. `DestructorIsWoken`: the
destructor never sleeps on an empty vector. `FlightWaitIsSound`, an action property: a waiter comes back only by a check
that found `in_flight` 0, and then the accounting leaves no task queued or held.

`RefinesTaskPool`, in this module too: every step of the pool is a step of `TaskPool` or leaves its
state unchanged (`ImplementsTaskPoolSafely`). A worker that takes a task starts it, one whose task returns
finishes it, the critical section in which the destructor sets `stop` closes the pool, and its last step releases it. The invariant
adds `OneHolder`: no task is queued twice, held by two workers, or queued, held, carried by a blocked `enqueue` and done at
the same time; without it a task could be started again. That only a drained pool is released is `DestructorDrains`, hence
the assumption `InitThreads # 0`. The fairness of `TaskPool` stays with TLC (run `threadpool`).

**MylogProofs.** `TypeCorrect`, and `NoLostEntryWakeup`: the thread does not sleep on an entry unless its caller has still to notify. The invariant adds that the
queue is empty while the thread holds the mutex between test and sleep, and that callers inside `log` carry a message.
`FileStaysInOrder`: `FileInOrder` says that the lines of the file, torn ones included, can be put in order-preserving
correspondence with lines of the history. It is not inductive: a shrink empties the file and later writes back lines it read before, over
what was appended meanwhile. The invariant `ShrinkInv` adds that until two shrinks overlap there is one at a time, that what it has read remains of
the history, and that after the truncation so does what it has read followed by the file. Lemmas say that "remains
of" is transitive, survives an append on both sides, and holds between a file and its last lines and between `s \o file` and the file after `s` was written
over its beginning, however many lines that hit and whether or not the last of them left a torn end (`TornTailRemains`). `EntriesAreCallersMessages`: what the run `mylog_shared_buffer` refutes is true as soon as `log` copies its argument or one
thread only calls it.

**MsgFramingProofs.** For both framings, whatever the length fields hold: the buffer is not overrun (`TypeCorrect`), and no byte
of the stream is lost or handed over twice (`NoByteLost`): each piece begins where the last one ended. The device
services cut the stream in the wrong places (run `framing_device_cut`), but nothing of it goes missing. For this the invariant is
that `msgGet` stays inside the buffer.
For the conference service (`~Device`), any messages and any segmentation: messages whole and in order, none left
behind, room for each read, no exception. The invariant says that what was found are the
first messages, that the cursor stands at the start of the next one, and that during a read the buffer holds less
than it. It needs that message starts increase and that each message is smaller than the buffer, which the 16-bit length
and `max_msg` give.

**AsyncServerProofs.** `RegistryIsExact`, `NoConnectionGoesDeaf` and `TypeCorrect`, for any number of connections and answers. The
invariant adds that the connection waiting to be accepted is as its constructor made it; without that `on_accept`
could enter a connection that is already there. Two lemmas say what `push_back` and `find`/`erase` do to a registry without repetitions.

**LoggerProofs.** `TypeCorrect`, `EntriesOnceInOrder`, `SleepsAtStartOnly`, `DestructorDrains` and `RefinesEntryLog` for any messages. The
invariant adds that the file is unopened while the thread has not started, that a thread which ended without a
failure was told to and left an empty queue, and that `join` has waited for it.

**SelectServerProofs.** `TypeCorrect`, `SelectGetsOpenDescriptors`, `VectorIsSound` and the action property
`NoLiveClientIsClosed`, for any clients and descriptors. The invariant adds `ScanFresh`, that a descriptor the scan
has still to look at is readable if its bit is set, and `TestWatched`, that nothing has been closed in this round while the
scan stands at the listening socket. So the number `accept` returns has no bit, and the new client is not taken for one that closed.
`RemovalForgetsAllBehind` gives the cause of the violation of `EveryClientIsListed`, for a vector of any length: wherever a
client is removed, the loop that erases while it iterates leaves the part of the vector in front of it. The loop's invariant holds before the
first turn, every turn keeps it, reads inside the vector and shortens the way to the end by one (`EraseLoopCuts`). `EraseLoop` is a recursive function: that there is one follows from `RunExists`, a step that
can be taken from everywhere can be taken for ever, and what it is after k turns by an induction over k. The induction is
one over sets of naturals (`NatSet`), which the well-foundedness of < gives without an operator as a parameter.

**MySortProofs.** For arrays of any size and any keys. The inductive invariant `SortInv` is `KeysKept`, the types and one
invariant for each loop:
- `KeysKept`: with the key in hand put back into the free place, the array is a rearrangement of the one given (a
  bijection between their places). It covers the moments at which a key is in the array twice and another not at all (`NoKeyLost`).
- insertion: below `i` the array is in order but for the free place, and what lies between it and `i` is not below the key in
  hand. Only increment 1 needs it; shell sort's last increment is 1, whatever it did before.
- selection and bubble sort: the first `i` places hold their final keys.
- heap sort: below `h` no node but `k` is below its children, and these are not above the parent of `k`; the places behind the heap hold
  their final keys. That the root is then a largest key (`RootIsLargest`) is an induction over the places, by way of `NatSet`'s twin `SetInduction`.
- quick sorts: the ranges on the stack do not meet, and any two keys not in strict order lie in one of them; inside
  `sortPartition` the keys the indices have passed are strictly on their sides of the pivot.

From it `ReturnsSorted`, with the fact that a quick sort which returns was given no equal keys; `SortsStayInside`, that no turn reads or writes
outside the array; and `PartitionNeverStalls`, the safety part of why the quick sorts end on distinct keys: while the indices are apart the
one that is to move never stands on a key equal to the pivot.

**MyBitreeProofs.** For any number of nodes. `Below(l, r, b)`, the nodes reached from `b`, is the smallest set with `b` that is closed under the
links, so that facts about it need no induction over trees: to show that all nodes below `b` have a property, show that the
nodes with it include `b` and are closed. So it is shown what lies below a node (`BelowUnfolds`), that the two
sides of a node are disjoint (`SidesDisjoint`), and how linking and clearing a node change it (`BelowJoined`, `BelowAgrees`, `BelowShrinks`).
- `TreeTyped`: children are younger than parents and no node is a child twice. Its induction needs that a node not created has no children.
- `InsertOneKeepsOrder`: `SearchOrder` needs what insertOne knows on its way down: the value belongs on the side of
  every node above `pos` on which `pos` is (`PathTo`).
- `DeletesExactlyTheTree`: `FreeInv` gives each call on the stack its region, the nodes it will free: all below `bt` for `deleteTree(bt)`, one node for
  `delete`. The regions have no node in common with each other, with what is freed, or with what `tmpList` is gathering (`Apart`), and together they hold every node not
  freed but the root and its leaf children (`Covered`). From the same invariant `DestructorLeavesLeafChildren`: the leaf children of the root are all that the run `bitree_leak` can show. `Gathered` says why `tmpList` ends with every node below its first exactly once. Clearing a node's pointers
  before its `delete` is what makes the regions of the destructor's two calls empty.

Only model-checked: all liveness properties, `SortsEnd` among them, and the fairness of the two refinements (fairness and ENABLED are out of
the prover's reach); and what the traversals of trees print (`MidOrderSorted`, `BreadthIsInsertionOrder`, `PreLoopIsRecursion`): they are
RECURSIVE operators, and what such an operator computes is an induction over data.

## 5. Not modelled, and why

- ThreadPool: tasks that call back into the pool; exceptions of `std::thread`'s constructor and of allocation.
- Mylog: `setLogFile` and `setMaxFileSize`, unsynchronised setters meant for before the first entry; two objects with
  overlapping lives (in the one place that constructs a second object the program terminates, and `SelectServer` has that step); a failing `fwrite`.
- Framing: the contents of answers.
- Server: an `init` that fails, `loadConfig`, several servers in one process (their registries are one static
  vector, and each of them would act on its own connections only).
- Select server: `myrecv` after the construction of its `Mylog`, which is never reached; the timeout of `select`; the set-up; a failing
  `fcntl` (lines 122-127), which is `F_GETFL` on the descriptor `accept` has just returned.
- MyBitree: `postTraversal`, which prints the root's value at every visit and visits the root twice.
- AsyncClient: a flag around socket calls. What it writes is in `MsgFraming` (`Send`); what it reads it only counts, so
  that several reads on its one buffer have no effect a property could be about.
- Mycounter, MyURL: their interesting outcomes depend on times (a timeout of three seconds, retries of an HTTP
  request) that the models leave out. MyRabbit: nearly all of its behaviour is that of the client library and the broker.
- The other parts PROJECT.json lists as not modelled, each with its reason.

## 6. Plan

Done: `TaskPool`, `ThreadPool`, `Mylog`, `MsgFraming`, `AsyncServer`; then `EntryLog`, `Logger`, `SelectServer`, `MySort`, `MyBitree`.

Next, in this order:

1. Proofs: what of `wait_until_empty` holds when it returns; the order in which `insertFull` fills the levels.
2. Tasks that call `enqueue`; two `Mylog` lifetimes.
3. `AsyncClient`, composed with `AsyncServer` over a channel that loses the connection; `Mycounter`'s timeout as a choice.
