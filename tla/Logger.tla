-------------------------------- MODULE Logger --------------------------------
(***************************************************************************)
(* Logger.cpp of src-linux, the class Mylog grew from.  log pushes and     *)
(* notifies under the mutex, the destructor sets the exit flag and         *)
(* notifies under the mutex, and the thread holds the mutex from its last  *)
(* look at the queue until the wait releases it.  Every critical section   *)
(* is one step, so the mutex itself is not a variable.                     *)
(*                                                                         *)
(* Each wakeup opens the file anew and so empties it.                      *)
(***************************************************************************)
EXTENDS Naturals, Sequences

CONSTANT Messages  \* the entries, each logged at most once

VARIABLES
    mExit,
    mQueue,
    file,      \* the lines of SysMon_log.txt
    thread,    \* where processEntries is
    dtor,      \* where the destructor is
    opened,    \* the file has been opened at least once
    failed,    \* the file could not be opened
    logged,    \* history: the entries passed to log, in order
    erased     \* history: the lines lost when the file was opened again

vars == <<mExit, mQueue, file, thread, dtor, opened, failed, logged, erased>>

Init ==
    /\ mExit = FALSE
    /\ mQueue = <<>>
    /\ file = <<>>
    /\ thread = "start"
    /\ dtor = "alive"
    /\ opened = FALSE
    /\ failed = FALSE
    /\ logged = <<>>
    /\ erased = <<>>

\* The elements of a sequence, as a set.
Elements(s) == {s[i] : i \in 1..Len(s)}

\* Mutant of Notified: the notification is missing.
NotNotified == thread

\* mCondVar.notify_all: only processEntries waits.
Notified == IF thread = "asleep" THEN "awake" ELSE thread

\* log; the object is not destroyed while it is in use.
Log(m) ==
    /\ dtor = "alive"
    /\ m \notin Elements(logged)
    /\ mQueue' = Append(mQueue, m)
    /\ logged' = Append(logged, m)
    /\ thread' = Notified
    /\ UNCHANGED <<mExit, file, dtor, opened, failed, erased>>

\* The destructor up to the join.
Destroy ==
    /\ dtor = "alive"
    /\ dtor' = "join"
    /\ mExit' = TRUE
    /\ thread' = Notified
    /\ UNCHANGED <<mQueue, file, opened, failed, logged, erased>>

Join ==
    /\ dtor = "join" /\ thread = "exited"
    /\ dtor' = "destroyed"
    /\ UNCHANGED <<mExit, mQueue, file, thread, opened, failed, logged, erased>>

-------------------------------------------------------------------------------
\* Mutant of AtTop: the thread waits without looking at the flag.
AlwaysWait == "asleep"

\* The top of the loop, with the mutex held: the wait looks at the exit flag
\* and not at the queue.
AtTop == IF mExit THEN "open" ELSE "asleep"

\* The thread starts and takes the mutex.
Start ==
    /\ thread = "start"
    /\ thread' = AtTop
    /\ UNCHANGED <<mExit, mQueue, file, dtor, opened, failed, logged, erased>>

Spurious ==
    /\ thread = "asleep"
    /\ thread' = "awake"
    /\ UNCHANGED <<mExit, mQueue, file, dtor, opened, failed, logged, erased>>

\* Mutant of AfterWait: the wait is in a loop that looks at the flag only.
WaitForExit == IF mExit THEN "open" ELSE "asleep"

\* The wait is not in a loop.
AfterWait == "open"

\* The wait returns with the mutex, which is given up at once.
Awake ==
    /\ thread = "awake"
    /\ thread' = AfterWait
    /\ UNCHANGED <<mExit, mQueue, file, dtor, opened, failed, logged, erased>>

\* An ofstream opened for output empties the file.
Open ==
    /\ thread = "open"
    /\ thread' = "drain"
    /\ opened' = TRUE
    /\ erased' = erased \o file
    /\ file' = <<>>
    /\ UNCHANGED <<mExit, mQueue, dtor, failed, logged>>

\* Where the thread goes when the file cannot be opened: it returns.
AfterFailure == "exited"

OpenFails ==
    /\ thread = "open"
    /\ thread' = AfterFailure
    /\ failed' = TRUE
    /\ UNCHANGED <<mExit, mQueue, file, dtor, opened, logged, erased>>

\* The inner loop goes on until the queue is empty.
MoreEntries == mQueue # <<>>

\* Mutant of Popped: the entry stays in the queue.
NotPopped == mQueue

\* mQueue.pop
Popped == Tail(mQueue)

Take ==
    /\ thread = "drain" /\ MoreEntries
    /\ file' = Append(file, Head(mQueue))
    /\ mQueue' = Popped
    /\ UNCHANGED <<mExit, thread, dtor, opened, failed, logged, erased>>

\* The thread has found the queue empty and still holds the mutex.
AfterDrain == IF mExit THEN "exited" ELSE AtTop

Drained ==
    /\ thread = "drain" /\ ~MoreEntries
    /\ thread' = AfterDrain
    /\ UNCHANGED <<mExit, mQueue, file, dtor, opened, failed, logged, erased>>

ProcessEntries == Start \/ Awake \/ Open \/ OpenFails \/ Take \/ Drained

Next == (\E m \in Messages : Log(m)) \/ Destroy \/ Join \/ ProcessEntries \/ Spurious

Spec == Init /\ [][Next]_vars

\* The thread runs whenever it can, and join returns once it has ended.
FairSpec == Spec /\ WF_vars(ProcessEntries) /\ WF_vars(Join)

-------------------------------------------------------------------------------
\* The types; the flag is set by the destructor alone, and a failed open ends the
\* thread.
TypeOK ==
    /\ {mExit, opened, failed} \subseteq BOOLEAN
    /\ {mQueue, file, logged, erased} \subseteq Seq(Messages)
    /\ thread \in {"start", "asleep", "awake", "open", "drain", "exited"}
    /\ dtor \in {"alive", "join", "destroyed"}
    /\ mExit = (dtor # "alive")
    /\ failed => thread = "exited"

\* Every line ever written.
Written == erased \o file

\* However log and the thread interleave, every entry is written or still
\* queued, exactly once and in the order of the calls of log.
OnceInOrder == Written \o mQueue = logged

\* The wait of processEntries has no predicate, so the thread may sleep on an
\* entry logged before its first wait; once it has been woken it never does.
SleepsOnEntriesOnlyAtStart == thread = "asleep" /\ mQueue # <<>> => ~opened

\* The destructor returns only when all entries have been written, unless the
\* file could not be opened.
DestroyedDrained == dtor = "destroyed" /\ ~failed => Written = logged

\* Logger keeps the promises of EntryLog: the destructor drains and returns.
EL == INSTANCE EntryLog WITH pending <- mQueue, written <- Written,
                             closed <- mExit, released <- (dtor = "destroyed")
ImplementsEntryLog == EL!FairSpec
ImplementsEntryLogSafely == EL!Spec

\* An entry that finds the thread woken, or woken before, does not wait for
\* another one to be logged: the queue is emptied unless the file cannot be opened.
QueueIsEmptied ==
    (opened \/ thread = "awake") /\ mQueue # <<>> ~> mQueue = <<>> \/ failed
===============================================================================
