-------------------------------- MODULE Mylog --------------------------------
(***************************************************************************)
(* The asynchronous log of Mylog.cpp: callers put entries into a queue, a  *)
(* background thread writes them to the log file, and both the thread and  *)
(* the synchronous logException shrink the file when it has grown too big. *)
(*                                                                         *)
(* The class exists in two versions, told apart by two constants:          *)
(*   ConsoleTest/ConsoleTest/src (and its copy in example_boost): log      *)
(*     formats into one buffer shared by all callers, and the thread stops *)
(*     draining when the queue is empty;                                   *)
(*   ConsoleTest/ConsoleTest/src-linux: log copies its argument, and the   *)
(*     thread drains until the exit flag is set.                           *)
(*                                                                         *)
(* A line of the file is one entry.  Lengths in bytes are left out: how    *)
(* many lines fit in what a shrink keeps, and how many are hit when it     *)
(* writes over lines appended meanwhile, are choices.                      *)
(***************************************************************************)
EXTENDS Integers, Sequences, FiniteSets

CONSTANTS Callers,         \* threads that log; one of them destroys the object
          Messages,        \* the messages, each logged at most once
          Torn,            \* contents of a buffer two callers are writing to
          NoMessage,       \* no argument
          Background,      \* the thread that runs processEntries
          SharedBuffer,    \* log formats into msp_linebuffer
          StopsWhenEmpty,  \* the inner loop has a break
          OpenMayFail,     \* the log file cannot always be opened
          MaxLines,        \* 1.2 * max_filesize
          KeepLines        \* the most lines that fit in the 2047 bytes kept

ASSUME MylogAssumption ==
    /\ Background \notin Callers
    /\ Torn \notin Messages /\ NoMessage \notin Messages /\ Torn # NoMessage
    /\ {SharedBuffer, StopsWhenEmpty, OpenMayFail} \subseteq BOOLEAN
    /\ MaxLines \in Nat /\ KeepLines \in Nat

VARIABLES
    exit,      \* g_log_Exit
    queue,     \* mQueue
    buffer,    \* contents of msp_linebuffer
    file,      \* the lines of the log file
    size,      \* its size, in units of one line
    pc,        \* where each thread is
    arg,       \* the message a caller's log carries
    tail,      \* the end of the file a thread in shrinkLogFile has read
    used,      \* history: messages passed to log or logException
    appended,  \* history: every line ever appended to the file, in order
    overlap,   \* history: two shrinks of the file have overlapped
    failed     \* history: a check or a shrink of the file has failed

vars == <<exit, queue, buffer, file, size, pc, arg, tail, used, appended, overlap, failed>>

Threads == Callers \cup {Background}
Entries == Messages \cup {Torn}

CheckStates == {"close", "shrink", "read", "write"}
CallerStates == CheckStates \cup
    {"idle", "format", "formatted", "queued", "destroy", "join", "destroyed", "crashed"}
BackgroundStates == CheckStates \cup
    {"top", "tested", "asleep", "awake", "open", "drain", "take", "end", "exited", "crashed"}

Init ==
    /\ exit = FALSE
    /\ queue = <<>>
    /\ buffer = Torn
    /\ file = <<>>
    /\ size = 0
    /\ pc = [t \in Threads |-> IF t = Background THEN "top" ELSE "idle"]
    /\ arg = [c \in Callers |-> NoMessage]
    /\ tail = [t \in Threads |-> <<>>]
    /\ used = {}
    /\ appended = <<>>
    /\ overlap = FALSE
    /\ failed = FALSE

\* g_log_Mutex is held across a step only by the thread that has evaluated
\* the condition of its wait and has not gone to sleep yet.
MutexFree == pc[Background] # "tested"

Goto(t, from, to) == pc[t] = from /\ pc' = [pc EXCEPT ![t] = to]

\* ofs << ... << std::endl on a file opened for appending.
AppendLine(m) ==
    /\ file' = Append(file, m)
    /\ size' = size + 1
    /\ appended' = Append(appended, m)

-------------------------------------------------------------------------------
(***************************************************************************)
(* log                                                                     *)
(***************************************************************************)
\* Callers use the object until one of them destroys it.
MayCall(c, m) ==
    /\ pc[c] = "idle"
    /\ m \notin used
    /\ \A d \in Callers : pc[d] \notin {"destroy", "join", "destroyed"}

\* The memset of the shared buffer starts; without it log goes on to the lock.
LogBegin(c, m) ==
    /\ MayCall(c, m)
    /\ pc' = [pc EXCEPT ![c] = IF SharedBuffer THEN "format" ELSE "formatted"]
    /\ arg' = [arg EXCEPT ![c] = m]
    /\ used' = used \cup {m}
    /\ buffer' = IF SharedBuffer THEN Torn ELSE buffer
    /\ UNCHANGED <<exit, queue, file, size, tail, appended, overlap, failed>>

\* vsnprintf is done: the buffer holds the message unless another caller is
\* writing to it too, which is a data race.
LogFormat(c) ==
    /\ Goto(c, "format", "formatted")
    /\ buffer' \in IF \E d \in Callers \ {c} : pc[d] = "format"
                   THEN {arg[c], Torn} ELSE {arg[c]}
    /\ UNCHANGED <<exit, queue, file, size, arg, tail, used, appended, overlap, failed>>

\* What mQueue.emplace copies.
EntryOf(c) == IF SharedBuffer THEN buffer ELSE arg[c]

LogEnqueue(c) ==
    /\ Goto(c, "formatted", "queued")
    /\ MutexFree
    /\ queue' = Append(queue, EntryOf(c))
    /\ UNCHANGED <<exit, buffer, file, size, arg, tail, used, appended, overlap, failed>>

\* Mutant of WakeBackground: the notification is missing.
NoWake(p) == p

\* notify_one and notify_all: at most one thread ever waits.
WakeBackground(p) == IF p[Background] = "asleep" THEN [p EXCEPT ![Background] = "awake"]
                                                 ELSE p

LogNotify(c) ==
    /\ pc[c] = "queued"
    /\ pc' = WakeBackground([pc EXCEPT ![c] = "idle"])
    /\ arg' = [arg EXCEPT ![c] = NoMessage]
    /\ UNCHANGED <<exit, queue, buffer, file, size, tail, used, appended, overlap, failed>>

(***************************************************************************)
(* logException writes the line itself; it returns if the file cannot be   *)
(* opened.                                                                 *)
(***************************************************************************)
LogException(c, m) ==
    /\ MayCall(c, m)
    /\ used' = used \cup {m}
    /\ \/ AppendLine(m) /\ pc' = [pc EXCEPT ![c] = "close"]
       \/ OpenMayFail /\ UNCHANGED <<file, size, appended, pc>>
    /\ UNCHANGED <<exit, queue, buffer, arg, tail, overlap, failed>>

(***************************************************************************)
(* checkSize and shrinkLogFile, called after the file is closed by the     *)
(* background thread and by logException, with no lock.                    *)
(***************************************************************************)
\* checkSize returns to processEntries or to logException.
AfterCheck(t) == IF t = Background THEN "end" ELSE "idle"

\* The size stat reports is above 1.2 * max_filesize.
TooBig == size > MaxLines

CheckSize(t) ==
    /\ Goto(t, "close", IF TooBig THEN "shrink" ELSE AfterCheck(t))
    /\ UNCHANGED <<exit, queue, buffer, file, size, arg, tail, used, appended, overlap, failed>>

\* stat or one of the two fopen calls fails.
CheckSizeFails(t) ==
    /\ OpenMayFail
    /\ pc[t] \in {"close", "shrink", "read"}
    /\ pc' = [pc EXCEPT ![t] = AfterCheck(t)]
    /\ tail' = [tail EXCEPT ![t] = <<>>]
    /\ failed' = TRUE
    /\ UNCHANGED <<exit, queue, buffer, file, size, arg, used, appended, overlap>>

LastLines(s, k) == SubSeq(s, Len(s) - k + 1, Len(s))

\* The last 2047 bytes are read and the lines after the first newline among
\* them are kept: fewer than KeepLines, or none, if they are long.
ShrinkRead(t) ==
    /\ Goto(t, "shrink", "read")
    /\ \E k \in 0..KeepLines : /\ k < Len(file)
                               /\ tail' = [tail EXCEPT ![t] = LastLines(file, k)]
    /\ overlap' = (overlap \/ \E u \in Threads : pc[u] \in {"read", "write"})
    /\ UNCHANGED <<exit, queue, buffer, file, size, arg, used, appended, failed>>

\* Another thread has emptied the file since the size was checked: strchr finds
\* no newline, and the null pointer it returns is incremented and read.
ShrinkReadNothing(t) ==
    /\ pc[t] = "shrink"
    /\ file = <<>>
    /\ pc' = [u \in Threads |-> "crashed"]
    /\ UNCHANGED <<exit, queue, buffer, file, size, arg, tail, used, appended, overlap, failed>>

\* Mutant of Truncated: the file is opened with "r+" again.
NotTruncated == file

\* fopen with "w+".
Truncated == <<>>

ShrinkTruncate(t) ==
    /\ Goto(t, "read", "write")
    /\ file' = Truncated
    /\ size' = Len(file')
    /\ UNCHANGED <<exit, queue, buffer, arg, tail, used, appended, overlap, failed>>

\* What the file may hold after s is written over its beginning, which may have
\* lines again that other threads have appended since it was truncated.  Bytes are
\* overwritten, so how many of those lines are hit does not depend on the number
\* of lines in s: the first ones are gone, and of the last one hit the end may
\* be left.  If anything is written the first line does not stay whole.
Overwritten(s) ==
    LET rests == {SubSeq(file, k + 1, Len(file)) : k \in 1..Len(file)}
    IN  IF s = <<>> \/ file = <<>>
        THEN {s \o file}
        ELSE {s \o r : r \in rests} \cup {s \o <<Torn>> \o r : r \in rests}

\* Writing over the beginning makes the file longer only if it ends before s does.
OverwrittenSize(s) == IF size < Len(s) THEN Len(s) ELSE size

ShrinkWrite(t) ==
    /\ Goto(t, "write", AfterCheck(t))
    /\ file' \in Overwritten(tail[t])
    /\ size' = OverwrittenSize(tail[t])
    /\ tail' = [tail EXCEPT ![t] = <<>>]
    /\ UNCHANGED <<exit, queue, buffer, arg, used, appended, overlap, failed>>

(***************************************************************************)
(* The destructor: set the flag without the mutex, notify, join.  Nobody   *)
(* else is inside the object.                                              *)
(***************************************************************************)
Destroy(c) ==
    /\ \A d \in Callers : pc[d] = "idle"
    /\ Goto(c, "idle", "destroy")
    /\ exit' = TRUE
    /\ UNCHANGED <<queue, buffer, file, size, arg, tail, used, appended, overlap, failed>>

DestroyNotify(c) ==
    /\ pc[c] = "destroy"
    /\ pc' = WakeBackground([pc EXCEPT ![c] = "join"])
    /\ UNCHANGED <<exit, queue, buffer, file, size, arg, tail, used, appended, overlap, failed>>

DestroyJoin(c) ==
    /\ pc[Background] = "exited"
    /\ Goto(c, "join", "destroyed")
    /\ UNCHANGED <<exit, queue, buffer, file, size, arg, tail, used, appended, overlap, failed>>

-------------------------------------------------------------------------------
(***************************************************************************)
(* processEntries                                                          *)
(***************************************************************************)
\* Mutant of NothingToDo: the queue is not looked at before waiting.
OnlyExit == ~exit

\* The condition of the wait, which is not evaluated again after it.
NothingToDo == ~exit /\ queue = <<>>

Test ==
    /\ Goto(Background, "top", IF NothingToDo THEN "tested" ELSE "open")
    /\ UNCHANGED <<exit, queue, buffer, file, size, arg, tail, used, appended, overlap, failed>>

Sleep ==
    /\ Goto(Background, "tested", "asleep")
    /\ UNCHANGED <<exit, queue, buffer, file, size, arg, tail, used, appended, overlap, failed>>

Awake ==
    /\ Goto(Background, "awake", "open")
    /\ UNCHANGED <<exit, queue, buffer, file, size, arg, tail, used, appended, overlap, failed>>

Spurious ==
    /\ Goto(Background, "asleep", "awake")
    /\ UNCHANGED <<exit, queue, buffer, file, size, arg, tail, used, appended, overlap, failed>>

\* If the file cannot be opened the thread returns.
Open ==
    /\ \/ Goto(Background, "open", "drain")
       \/ OpenMayFail /\ Goto(Background, "open", "exited")
    /\ UNCHANGED <<exit, queue, buffer, file, size, arg, tail, used, appended, overlap, failed>>

\* The test of the inner loop.
Drain ==
    /\ Goto(Background, "drain", IF exit THEN "close" ELSE "take")
    /\ UNCHANGED <<exit, queue, buffer, file, size, arg, tail, used, appended, overlap, failed>>

\* Mutant of AtEmpty: the file is never closed.
AtEmptyStay == "drain"

\* Where the thread goes on from an empty queue.
AtEmpty == IF StopsWhenEmpty THEN "close" ELSE "drain"

\* One entry is written and popped under the mutex.
Take ==
    /\ Goto(Background, "take", IF queue = <<>> THEN AtEmpty ELSE "drain")
    /\ IF queue = <<>>
       THEN UNCHANGED <<queue, file, size, appended>>
       ELSE AppendLine(Head(queue)) /\ queue' = Tail(queue)
    /\ UNCHANGED <<exit, buffer, arg, tail, used, overlap, failed>>

\* The end of the outer loop.
LoopEnd ==
    /\ Goto(Background, "end", IF exit THEN "exited" ELSE "top")
    /\ UNCHANGED <<exit, queue, buffer, file, size, arg, tail, used, appended, overlap, failed>>

-------------------------------------------------------------------------------
CheckStep(t) ==
    \/ CheckSize(t) \/ CheckSizeFails(t)
    \/ ShrinkRead(t) \/ ShrinkReadNothing(t) \/ ShrinkTruncate(t) \/ ShrinkWrite(t)

BackgroundStep ==
    \/ Test \/ Sleep \/ Awake \/ Open \/ Drain \/ Take
    \/ CheckStep(Background) \/ LoopEnd

\* The steps of a call that has begun.
CallerStep(c) ==
    \/ LogFormat(c) \/ LogEnqueue(c) \/ LogNotify(c)
    \/ CheckStep(c) \/ DestroyNotify(c) \/ DestroyJoin(c)

Next ==
    \/ BackgroundStep \/ Spurious
    \/ \E c \in Callers : CallerStep(c) \/ Destroy(c)
    \/ \E c \in Callers, m \in Messages : LogBegin(c, m) \/ LogException(c, m)

Spec == Init /\ [][Next]_vars

\* The operating system runs every thread that can run.  A caller waits for
\* the mutex only while the thread is about to sleep.
Fairness ==
    /\ WF_vars(BackgroundStep)
    /\ \A c \in Callers : WF_vars(CallerStep(c)) /\ SF_vars(LogEnqueue(c))

FairSpec == Spec /\ Fairness

-------------------------------------------------------------------------------
TypeOK ==
    /\ exit \in BOOLEAN
    /\ queue \in Seq(Entries)
    /\ buffer \in Entries
    /\ file \in Seq(Entries)
    /\ size \in Nat
    /\ pc \in [Threads -> CallerStates \cup BackgroundStates]
    /\ pc[Background] \in BackgroundStates
    /\ \A c \in Callers : pc[c] \in CallerStates
    /\ arg \in [Callers -> Messages \cup {NoMessage}]
    /\ tail \in [Threads -> Seq(Entries)]
    /\ used \subseteq Messages
    /\ appended \in Seq(Entries)
    /\ overlap \in BOOLEAN
    /\ failed \in BOOLEAN

\* No notification of log is lost: the thread does not sleep, or go to sleep,
\* on a queued entry unless the caller that queued it has still to notify.
NoSleepOnEntries ==
    pc[Background] \in {"tested", "asleep"} /\ queue # <<>>
        => \E c \in Callers : pc[c] = "queued"

\* s is what remains of r when some of its lines are left out and some are torn:
\* line i of s is line f[i] of r.
Remains(s, r, f) ==
    /\ \A i \in 1..Len(s) : s[i] \in {r[f[i]], Torn}
    /\ \A i, j \in 1..Len(s) : i < j => f[i] < f[j]

RemainsOf(s, r) == \E f \in [1..Len(s) -> 1..Len(r)] : Remains(s, r, f)

\* However appends of other threads interleave with a shrink, the file may lack
\* lines, but unless two shrinks have overlapped it never repeats a line or
\* shows two lines out of order.
FileInOrder == ~overlap => RemainsOf(file, appended)

\* log puts the message it was given into the queue.
EntryIsCallersMessage ==
    [][\A c \in Callers : pc[c] = "formatted" /\ pc'[c] = "queued"
                          => queue' = Append(queue, arg[c])]_vars

Crashed == pc[Background] = "crashed"

\* A queued entry is taken and written unless the object is destroyed, the process
\* dies, or the thread has returned because it could not open the file.
EntriesWritten ==
    queue # <<>> ~> queue = <<>> \/ exit \/ Crashed \/ pc[Background] = "exited"

\* A file that is too big is shrunk, with no further call of the object, unless it is
\* destroyed, the process dies, or a stat or fopen of checkSize has failed.
OversizeShrinks == TooBig ~> ~TooBig \/ exit \/ Crashed \/ failed

\* Setting the flag shuts the thread down, so the destructor's join returns.
ThreadShutsDown == exit ~> pc[Background] = "exited"
===============================================================================
