----------------------------- MODULE LoggerProofs -----------------------------
(***************************************************************************)
(* Safety of Logger for every set of messages, and that it implements      *)
(* EntryLog step by step.                                                  *)
(***************************************************************************)
EXTENDS Logger, TLAPS

\* The thread has not opened the file before its first step.
StartUnopened == thread = "start" => ~opened

\* A thread that has ended without a failure was told to, and left nothing.
ExitDrained == thread = "exited" /\ ~failed => mExit /\ mQueue = <<>>

JoinedExited == dtor = "destroyed" => thread = "exited"

IInv ==
    /\ TypeOK
    /\ OnceInOrder
    /\ SleepsOnEntriesOnlyAtStart
    /\ StartUnopened
    /\ ExitDrained
    /\ JoinedExited

\* Appending to the right part of a concatenation appends to the whole.
LEMMA AppendConcat ==
    ASSUME NEW S, NEW s \in Seq(S), NEW t \in Seq(S), NEW e \in S
    PROVE  s \o Append(t, e) = Append(s \o t, e)
  OBVIOUS

\* Moving the head of t to the end of s leaves their concatenation unchanged.
LEMMA MoveHead ==
    ASSUME NEW S, NEW s \in Seq(S), NEW t \in Seq(S), t # <<>>
    PROVE  Append(s, Head(t)) \o Tail(t) = s \o t
  OBVIOUS

LEMMA EmptyRight ==
    ASSUME NEW S, NEW s \in Seq(S)
    PROVE  s \o <<>> = s
  OBVIOUS

LEMMA InitIInv == Init => IInv
  <1> SUFFICES ASSUME Init PROVE IInv
    OBVIOUS
  <1> USE DEF Init
  <1>e. <<>> \in Seq(Messages)
    OBVIOUS
  <1>1. TypeOK
    BY <1>e, Zenon DEF TypeOK
  <1>2. OnceInOrder
    BY <1>e, EmptyRight DEF OnceInOrder, Written
  <1> QED
    BY <1>1, <1>2 DEF IInv, SleepsOnEntriesOnlyAtStart, StartUnopened, ExitDrained, JoinedExited

LEMMA TypeStep == TypeOK /\ [Next]_vars => TypeOK'
  <1> SUFFICES ASSUME TypeOK, [Next]_vars PROVE TypeOK'
    OBVIOUS
  <1> USE DEF TypeOK
  <1>1. ASSUME NEW m \in Messages, Log(m) PROVE TypeOK'
    BY <1>1 DEF Log, Notified
  <1>2. CASE Destroy
    BY <1>2 DEF Destroy, Notified
  <1>3. CASE Join
    BY <1>3 DEF Join
  <1>4. CASE Start
    BY <1>4 DEF Start, AtTop
  <1>5. CASE Awake
    BY <1>5 DEF Awake, AfterWait
  <1>6. CASE Open
    BY <1>6 DEF Open
  <1>7. CASE OpenFails
    BY <1>7 DEF OpenFails, AfterFailure
  <1>8. CASE Take
    <2>1. Head(mQueue) \in Messages /\ Tail(mQueue) \in Seq(Messages)
      BY <1>8 DEF Take, MoreEntries
    <2> QED
      BY <1>8, <2>1 DEF Take, Popped
  <1>9. CASE Drained
    BY <1>9 DEF Drained, AfterDrain, AtTop
  <1>10. CASE Spurious
    BY <1>10 DEF Spurious
  <1>11. CASE UNCHANGED vars
    BY <1>11 DEF vars
  <1> QED
    BY <1>1, <1>2, <1>3, <1>4, <1>5, <1>6, <1>7, <1>8, <1>9, <1>10, <1>11
    DEF Next, ProcessEntries

LEMMA OnceInOrderStep == TypeOK /\ OnceInOrder /\ [Next]_vars => OnceInOrder'
  <1> SUFFICES ASSUME TypeOK, OnceInOrder, [Next]_vars PROVE OnceInOrder'
    OBVIOUS
  <1> USE DEF OnceInOrder, Written
  <1>t. /\ mQueue \in Seq(Messages) /\ file \in Seq(Messages) /\ erased \in Seq(Messages)
        /\ erased \o file \in Seq(Messages)
    BY DEF TypeOK
  <1>1. ASSUME NEW m \in Messages, Log(m) PROVE OnceInOrder'
    <2>1. (erased \o file) \o Append(mQueue, m) = Append((erased \o file) \o mQueue, m)
      BY <1>t, AppendConcat
    <2> QED
      BY <1>1, <2>1 DEF Log
  <1>2. CASE Open
    BY <1>2, <1>t, EmptyRight DEF Open
  <1>3. CASE Take
    <2>1. mQueue # <<>> /\ Head(mQueue) \in Messages
      BY <1>3, <1>t DEF Take, MoreEntries
    <2>2. Written' = Append(Written, Head(mQueue))
      BY <1>3, <1>t, <2>1, AppendConcat DEF Take
    <2> QED
      BY <1>3, <1>t, <2>1, <2>2, MoveHead DEF Take, Popped
  <1>4. CASE Destroy \/ Join \/ Start \/ Awake \/ OpenFails \/ Drained \/ Spurious \/ UNCHANGED vars
    BY <1>4 DEF Destroy, Join, Start, Awake, OpenFails, Drained, Spurious, vars
  <1> QED
    BY <1>1, <1>2, <1>3, <1>4 DEF Next, ProcessEntries

LEMMA SleepStep ==
    TypeOK /\ SleepsOnEntriesOnlyAtStart /\ StartUnopened /\ [Next]_vars
        => SleepsOnEntriesOnlyAtStart' /\ StartUnopened'
  <1> SUFFICES ASSUME TypeOK, SleepsOnEntriesOnlyAtStart, StartUnopened, [Next]_vars
               PROVE  SleepsOnEntriesOnlyAtStart' /\ StartUnopened'
    OBVIOUS
  <1> USE DEF SleepsOnEntriesOnlyAtStart, StartUnopened
  <1>1. ASSUME NEW m \in Messages, Log(m)
        PROVE  SleepsOnEntriesOnlyAtStart' /\ StartUnopened'
    BY <1>1 DEF Log, Notified
  <1>2. CASE Drained
    BY <1>2 DEF Drained, MoreEntries, AfterDrain, AtTop
  <1>3. CASE Destroy \/ Join \/ Start \/ Awake
    BY <1>3 DEF Destroy, Join, Start, Awake, Notified, AtTop, AfterWait
  <1>4. CASE Open \/ OpenFails \/ Take \/ Spurious \/ UNCHANGED vars
    BY <1>4 DEF Open, OpenFails, AfterFailure, Take, Spurious, vars
  <1> QED
    BY <1>1, <1>2, <1>3, <1>4 DEF Next, ProcessEntries

LEMMA ExitStep ==
    TypeOK /\ ExitDrained /\ JoinedExited /\ [Next]_vars => ExitDrained' /\ JoinedExited'
  <1> SUFFICES ASSUME TypeOK, ExitDrained, JoinedExited, [Next]_vars
               PROVE  ExitDrained' /\ JoinedExited'
    OBVIOUS
  <1> USE DEF TypeOK, ExitDrained, JoinedExited
  <1>1. ASSUME NEW m \in Messages, Log(m) PROVE ExitDrained' /\ JoinedExited'
    BY <1>1 DEF Log, Notified
  <1>2. CASE Drained
    BY <1>2 DEF Drained, MoreEntries, AfterDrain, AtTop
  <1>3. CASE Destroy \/ Join \/ Start \/ Awake
    BY <1>3 DEF Destroy, Join, Start, Awake, Notified, AtTop, AfterWait
  <1>4. CASE Open \/ OpenFails \/ Take \/ Spurious \/ UNCHANGED vars
    BY <1>4 DEF Open, OpenFails, AfterFailure, Take, Spurious, vars
  <1> QED
    BY <1>1, <1>2, <1>3, <1>4 DEF Next, ProcessEntries

LEMMA Inductive == Spec => []IInv
  <1>1. IInv /\ [Next]_vars => IInv'
    BY TypeStep, OnceInOrderStep, SleepStep, ExitStep DEF IInv
  <1> QED
    BY <1>1, InitIInv, PTL DEF Spec

\* The types of Logger's state: the destructor alone sets the flag and a failed
\* open ends the thread.
THEOREM TypeCorrect == Spec => []TypeOK
  BY Inductive, PTL DEF IInv

\* Every entry passed to log is written once and in order, or still queued.
THEOREM EntriesOnceInOrder == Spec => []OnceInOrder
  BY Inductive, PTL DEF IInv

\* processEntries sleeps on a queued entry only before its first wakeup.
THEOREM SleepsAtStartOnly == Spec => []SleepsOnEntriesOnlyAtStart
  BY Inductive, PTL DEF IInv

\* When the destructor has returned everything logged was written, unless the
\* file could not be opened.
THEOREM DestructorDrains == Spec => []DestroyedDrained
  <1>1. IInv => DestroyedDrained
    <2> SUFFICES ASSUME IInv, dtor = "destroyed", ~failed PROVE Written = logged
      BY DEF DestroyedDrained
    <2>1. mQueue = <<>>
      BY DEF IInv, JoinedExited, ExitDrained
    <2>2. Written \in Seq(Messages)
      BY DEF IInv, TypeOK, Written
    <2> QED
      BY <2>1, <2>2, EmptyRight DEF IInv, OnceInOrder
  <1> QED
    BY <1>1, Inductive, PTL

LEMMA StepRefines == IInv /\ [Next]_vars => [EL!Next]_(EL!vars)
  <1> SUFFICES ASSUME IInv, [Next]_vars PROVE [EL!Next]_(EL!vars)
    OBVIOUS
  <1> USE DEF EL!Next, EL!vars, Written
  <1>t. TypeOK /\ ExitDrained
    BY DEF IInv
  <1>1. ASSUME NEW m \in Messages, Log(m) PROVE EL!Log(m)
    BY <1>1, <1>t DEF Log, EL!Log, TypeOK
  <1>2. CASE Take
    <2>1. mQueue # <<>> /\ Head(mQueue) \in Messages
      BY <1>2, <1>t DEF Take, MoreEntries, TypeOK
    <2>2. Written' = Append(Written, Head(mQueue))
      BY <1>2, <1>t, <2>1, AppendConcat DEF Take, TypeOK
    <2>3. ~failed /\ dtor # "destroyed"
      BY <1>2, <1>t DEF Take, TypeOK, IInv, JoinedExited
    <2> QED
      BY <1>2, <2>1, <2>2, <2>3 DEF Take, Popped, EL!Write
  <1>3. CASE OpenFails
    BY <1>3, <1>t DEF OpenFails, EL!Fail, TypeOK
  <1>4. CASE Destroy
    BY <1>4, <1>t DEF Destroy, EL!Close, TypeOK
  <1>5. CASE Join
    BY <1>5, <1>t DEF Join, EL!Release, TypeOK, ExitDrained
  <1>6. CASE Open
    <2>1. Written' = Written
      BY <1>6, <1>t, EmptyRight DEF Open, TypeOK
    <2> QED
      BY <1>6, <2>1 DEF Open
  <1>7. CASE Start \/ Awake \/ Drained \/ Spurious \/ UNCHANGED vars
    BY <1>7 DEF Start, Awake, Drained, Spurious, vars
  <1> QED
    BY <1>1, <1>2, <1>3, <1>4, <1>5, <1>6, <1>7 DEF Next, ProcessEntries

\* Logger implements EntryLog: each step is a step of it or leaves it unchanged.
THEOREM RefinesEntryLog == Spec => ImplementsEntryLogSafely
  <1>1. Init => EL!Init
    BY DEF Init, EL!Init, Written
  <1> QED
    BY <1>1, StepRefines, Inductive, PTL DEF Spec, EL!Spec, ImplementsEntryLogSafely
===============================================================================
