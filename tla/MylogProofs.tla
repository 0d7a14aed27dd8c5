----------------------------- MODULE MylogProofs -----------------------------
(***************************************************************************)
(* Proofs about Mylog, for any number of callers and messages and for both *)
(* versions of the class.                                                  *)
(***************************************************************************)
EXTENDS Mylog, TLAPS

\* What is inductive about NoSleepOnEntries: the thread holds the mutex from its
\* test to its sleep, and a caller notifies after it has queued its entry.
WakeupInv ==
    /\ pc[Background] = "tested" => queue = <<>>
    /\ pc[Background] = "asleep" /\ queue # <<>> => \E c \in Callers : pc[c] = "queued"

\* A caller inside log carries its message.
CarriesInv ==
    \A c \in Callers : pc[c] \in {"format", "formatted", "queued"} => arg[c] \in Messages

IInv == TypeOK /\ WakeupInv /\ CarriesInv

\* What the steps of checkSize keep of the lines of the file are lines.
LEMMA LastLinesType ==
    ASSUME NEW S, NEW s \in Seq(S), NEW k \in Nat, k < Len(s)
    PROVE  LastLines(s, k) \in Seq(S)
  BY DEF LastLines

\* What is written over the beginning leaves the lines of the file behind the k-th,
\* and perhaps a torn rest of the k-th.
LEMMA OverwrittenCases ==
    ASSUME NEW s, NEW q \in Overwritten(s)
    PROVE  \/ q = s \o file
           \/ \E k \in 1..Len(file) : q = s \o SubSeq(file, k + 1, Len(file))
           \/ \E k \in 1..Len(file) : q = s \o <<Torn>> \o SubSeq(file, k + 1, Len(file))
  BY Zenon DEF Overwritten

LEMMA OverwrittenType ==
    ASSUME NEW s \in Seq(Entries), file \in Seq(Entries), NEW q \in Overwritten(s)
    PROVE  q \in Seq(Entries)
<1>1. CASE q = s \o file
  BY <1>1
<1>2. ASSUME NEW k \in 1..Len(file), q = s \o SubSeq(file, k + 1, Len(file))
      PROVE  q \in Seq(Entries)
  <2>1. SubSeq(file, k + 1, Len(file)) \in Seq(Entries)
    OBVIOUS
  <2> QED BY <1>2, <2>1
<1>3. ASSUME NEW k \in 1..Len(file), q = s \o <<Torn>> \o SubSeq(file, k + 1, Len(file))
      PROVE  q \in Seq(Entries)
  <2>1. SubSeq(file, k + 1, Len(file)) \in Seq(Entries)
    OBVIOUS
  <2>2. Torn \in Entries
    BY DEF Entries
  <2>3. s \o <<Torn>> \in Seq(Entries)
    BY <2>2
  <2> QED BY <1>3, <2>1, <2>3
<1> QED BY <1>1, <1>2, <1>3, OverwrittenCases

\* A message is an entry, and every thread is either a caller or the background.
LEMMA ThreadKinds ==
    /\ Background \in Threads /\ Background \notin Callers
    /\ \A t \in Threads : t = Background \/ t \in Callers
    /\ \A c \in Callers : c \in Threads /\ c # Background
    /\ Messages \subseteq Entries /\ Torn \in Entries
  BY MylogAssumption DEF Threads, Entries

\* Waking the background thread keeps the program counters where they may be.
LEMMA WakeBackgroundType ==
    ASSUME NEW p \in [Threads -> CallerStates \cup BackgroundStates],
           p[Background] \in BackgroundStates,
           \A c \in Callers : p[c] \in CallerStates
    PROVE  /\ WakeBackground(p) \in [Threads -> CallerStates \cup BackgroundStates]
           /\ WakeBackground(p)[Background] \in BackgroundStates
           /\ WakeBackground(p)[Background] # "asleep"
           /\ WakeBackground(p)[Background] = "tested" => p[Background] = "tested"
           /\ \A c \in Callers : WakeBackground(p)[c] = p[c]
           /\ \A c \in Callers : WakeBackground(p)[c] \in CallerStates
  BY ThreadKinds DEF WakeBackground, BackgroundStates, CallerStates, CheckStates

\* A program counter that moves to a state of its own thread keeps its type.
LEMMA MoveType ==
    ASSUME TypeOK, NEW t \in Threads, NEW s,
           t = Background => s \in BackgroundStates,
           t \in Callers => s \in CallerStates,
           pc' = [pc EXCEPT ![t] = s]
    PROVE  /\ pc' \in [Threads -> CallerStates \cup BackgroundStates]
           /\ pc'[Background] \in BackgroundStates
           /\ \A c \in Callers : pc'[c] \in CallerStates
  BY ThreadKinds DEF TypeOK

\* The initial state.
LEMMA InitInv == Init => IInv
<1> SUFFICES ASSUME Init PROVE IInv
  OBVIOUS
<1>1. /\ pc[Background] = "top" /\ pc \in [Threads -> {"top", "idle"}]
      /\ \A c \in Callers : pc[c] = "idle"
  BY ThreadKinds DEF Init
<1>2. {"top", "idle"} \subseteq CallerStates \cup BackgroundStates
  BY DEF CallerStates, BackgroundStates
<1>3. pc \in [Threads -> CallerStates \cup BackgroundStates]
  BY <1>1, <1>2
<1>4. pc[Background] \in BackgroundStates /\ \A c \in Callers : pc[c] \in CallerStates
  BY <1>1 DEF CallerStates, BackgroundStates
<1>5. /\ exit \in BOOLEAN /\ overlap \in BOOLEAN /\ failed \in BOOLEAN /\ size \in Nat
      /\ queue \in Seq(Entries) /\ file \in Seq(Entries) /\ appended \in Seq(Entries)
  <2>1. exit \in BOOLEAN /\ overlap \in BOOLEAN /\ failed \in BOOLEAN
    BY Zenon DEF Init
  <2>2. size \in Nat /\ queue \in Seq(Entries) /\ file \in Seq(Entries) /\ appended \in Seq(Entries)
    BY DEF Init
  <2> QED BY <2>1, <2>2
<1>6. /\ arg \in [Callers -> Messages \cup {NoMessage}]
      /\ tail \in [Threads -> Seq(Entries)]
  <2>1. <<>> \in Seq(Entries)
    OBVIOUS
  <2>2. tail \in [Threads -> Seq(Entries)]
    BY <2>1 DEF Init
  <2> QED BY <2>2 DEF Init
<1>7. buffer \in Entries /\ used \subseteq Messages
  BY ThreadKinds DEF Init
<1>8. TypeOK
  BY <1>3, <1>4, <1>5, <1>6, <1>7 DEF TypeOK
<1> QED BY <1>1, <1>8 DEF IInv, WakeupInv, CarriesInv

-------------------------------------------------------------------------------
\* A call of log, from its beginning to its notification.
LEMMA LogStep ==
    ASSUME IInv, NEW c \in Callers,
           \/ \E m \in Messages : LogBegin(c, m)
           \/ LogFormat(c) \/ LogEnqueue(c) \/ LogNotify(c)
    PROVE  IInv'
<1> USE ThreadKinds DEF IInv
<1>1. CASE \E m \in Messages : LogBegin(c, m)
  <2> PICK m \in Messages : LogBegin(c, m)
    BY <1>1
  <2> DEFINE s == IF SharedBuffer THEN "format" ELSE "formatted"
  <2>1. pc' = [pc EXCEPT ![c] = s] /\ s \in CallerStates /\ s # "queued" /\ pc[c] = "idle"
    BY DEF LogBegin, MayCall, CallerStates
  <2> HIDE DEF s
  <2>2. arg' \in [Callers -> Messages \cup {NoMessage}] /\ arg' = [arg EXCEPT ![c] = m]
    BY DEF LogBegin, TypeOK
  <2>3. TypeOK'
    BY <2>1, <2>2, MoveType DEF LogBegin, TypeOK
  <2>4. WakeupInv'
    BY <2>1 DEF LogBegin, WakeupInv, TypeOK
  <2>5. CarriesInv'
    BY <2>1, <2>2 DEF TypeOK, CarriesInv
  <2> QED BY <2>3, <2>4, <2>5
<1>2. CASE LogFormat(c)
  <2>1. pc' = [pc EXCEPT ![c] = "formatted"] /\ "formatted" \in CallerStates /\ pc[c] = "format"
    BY <1>2 DEF LogFormat, Goto, CallerStates
  <2>2. buffer' \in {arg[c], Torn} /\ arg[c] \in Messages
    BY <1>2, <2>1 DEF LogFormat, CarriesInv
  <2>3. TypeOK'
    BY <1>2, <2>1, <2>2, MoveType DEF LogFormat, TypeOK
  <2> QED BY <1>2, <2>1, <2>3 DEF LogFormat, TypeOK, WakeupInv, CarriesInv
<1>3. CASE LogEnqueue(c)
  <2>1. pc' = [pc EXCEPT ![c] = "queued"] /\ "queued" \in CallerStates /\ pc[c] = "formatted"
    BY <1>3 DEF LogEnqueue, Goto, CallerStates
  <2>2. EntryOf(c) \in Entries
    BY <2>1 DEF EntryOf, CarriesInv, TypeOK
  <2>3. queue' \in Seq(Entries)
    BY <1>3, <2>2 DEF LogEnqueue, TypeOK
  <2>4. TypeOK'
    BY <1>3, <2>1, <2>3, MoveType DEF LogEnqueue, TypeOK
  <2>5. pc[Background] # "tested" /\ pc'[Background] = pc[Background] /\ pc'[c] = "queued"
    BY <1>3, <2>1 DEF LogEnqueue, MutexFree, TypeOK
  <2>6. CarriesInv'
    BY <1>3, <2>1 DEF LogEnqueue, CarriesInv, TypeOK
  <2> QED BY <2>4, <2>5, <2>6 DEF WakeupInv
<1>4. CASE LogNotify(c)
  <2> DEFINE p == [pc EXCEPT ![c] = "idle"]
  <2>1. /\ p \in [Threads -> CallerStates \cup BackgroundStates]
        /\ p[Background] = pc[Background] /\ p[c] = "idle"
        /\ \A d \in Callers : p[d] \in CallerStates /\ (d # c => p[d] = pc[d])
    BY DEF TypeOK, CallerStates
  <2>2. pc' = WakeBackground(p)
    BY <1>4 DEF LogNotify
  <2> HIDE DEF p
  <2>3. p[Background] \in BackgroundStates
    BY <2>1 DEF TypeOK
  <2>4. /\ pc' \in [Threads -> CallerStates \cup BackgroundStates]
        /\ pc'[Background] \in BackgroundStates
        /\ pc'[Background] # "asleep"
        /\ pc'[Background] = "tested" => pc[Background] = "tested"
        /\ \A d \in Callers : pc'[d] = p[d]
    BY <2>1, <2>2, <2>3, WakeBackgroundType
  <2>5. arg' \in [Callers -> Messages \cup {NoMessage}] /\ arg' = [arg EXCEPT ![c] = NoMessage]
    BY <1>4 DEF LogNotify, TypeOK
  <2>6. TypeOK'
    BY <1>4, <2>1, <2>4, <2>5 DEF LogNotify, TypeOK
  <2>7. WakeupInv'
    BY <1>4, <2>4 DEF LogNotify, WakeupInv
  <2>8. CarriesInv'
    BY <2>1, <2>4, <2>5 DEF CarriesInv, TypeOK
  <2> QED BY <2>6, <2>7, <2>8
<1> QED BY <1>1, <1>2, <1>3, <1>4

\* A step of one thread that neither queues an entry, nor ends a call of log, nor
\* puts the background thread to sleep, keeps the two invariants.
LEMMA QuietMove ==
    ASSUME TypeOK, WakeupInv, CarriesInv, NEW t \in Threads, NEW s,
           pc' = [pc EXCEPT ![t] = s], pc[t] # "queued",
           s \notin {"format", "formatted", "queued", "tested", "asleep"},
           arg' = arg, queue' = queue \/ t = Background
    PROVE  WakeupInv' /\ CarriesInv'
<1>1. \A u \in Threads : pc'[u] = IF u = t THEN s ELSE pc[u]
  BY DEF TypeOK
<1>2. WakeupInv'
  BY <1>1, ThreadKinds DEF WakeupInv
<1>3. CarriesInv'
  BY <1>1, ThreadKinds DEF CarriesInv
<1> QED BY <1>2, <1>3

\* logException.
LEMMA ExceptionStep ==
    ASSUME IInv, NEW c \in Callers, NEW m \in Messages, LogException(c, m)
    PROVE  IInv'
<1> USE ThreadKinds DEF IInv
<1>1. CASE AppendLine(m) /\ pc' = [pc EXCEPT ![c] = "close"]
  <2>1. "close" \in CallerStates
    BY DEF CallerStates, CheckStates
  <2>2. file' \in Seq(Entries) /\ appended' \in Seq(Entries) /\ size' \in Nat
    BY <1>1 DEF AppendLine, TypeOK
  <2>3. TypeOK'
    BY <1>1, <2>1, <2>2, MoveType DEF LogException, TypeOK
  <2>4. WakeupInv' /\ CarriesInv'
    BY <1>1, QuietMove DEF LogException, MayCall
  <2> QED BY <2>3, <2>4
<1>2. CASE UNCHANGED <<file, size, appended, pc>>
  BY <1>2 DEF LogException, TypeOK, WakeupInv, CarriesInv
<1> QED BY <1>1, <1>2 DEF LogException

\* checkSize and shrinkLogFile, by any thread.
LEMMA CheckSizeStep ==
    ASSUME IInv, NEW t \in Threads, CheckStep(t)
    PROVE  IInv'
<1> USE ThreadKinds DEF IInv
<1>0. /\ AfterCheck(t) \in {"end", "idle"}
      /\ t = Background => AfterCheck(t) \in BackgroundStates
      /\ t \in Callers => AfterCheck(t) \in CallerStates
      /\ CheckStates \subseteq BackgroundStates /\ CheckStates \subseteq CallerStates
  BY DEF AfterCheck, BackgroundStates, CallerStates
<1>1. CASE CheckSize(t)
  <2> DEFINE s == IF TooBig THEN "shrink" ELSE AfterCheck(t)
  <2>1. pc' = [pc EXCEPT ![t] = s] /\ pc[t] = "close"
    BY <1>1 DEF CheckSize, Goto
  <2>2. /\ s \in {"shrink", "end", "idle"}
        /\ t = Background => s \in BackgroundStates
        /\ t \in Callers => s \in CallerStates
    BY <1>0 DEF CheckStates
  <2> HIDE DEF s
  <2>3. TypeOK'
    BY <1>1, <2>1, <2>2, MoveType DEF CheckSize, TypeOK
  <2> QED BY <1>1, <2>1, <2>2, <2>3, QuietMove DEF CheckSize
<1>2. CASE CheckSizeFails(t)
  <2>1. tail' \in [Threads -> Seq(Entries)]
    <3>1. <<>> \in Seq(Entries)
      OBVIOUS
    <3> QED BY <1>2, <3>1 DEF CheckSizeFails, TypeOK
  <2>2. failed' \in BOOLEAN
    BY <1>2, Zenon DEF CheckSizeFails
  <2>3. TypeOK'
    BY <1>0, <1>2, <2>1, <2>2, MoveType DEF CheckSizeFails, TypeOK
  <2> QED BY <1>0, <1>2, <2>3, QuietMove DEF CheckSizeFails
<1>3. CASE ShrinkRead(t)
  <2>1. pc' = [pc EXCEPT ![t] = "read"] /\ pc[t] = "shrink" /\ "read" \in CheckStates
    BY <1>3 DEF ShrinkRead, Goto, CheckStates
  <2>2. PICK k \in 0..KeepLines : k < Len(file) /\ tail' = [tail EXCEPT ![t] = LastLines(file, k)]
    BY <1>3 DEF ShrinkRead
  <2>3. LastLines(file, k) \in Seq(Entries)
    BY <2>2, LastLinesType, MylogAssumption DEF TypeOK
  <2>4. tail' \in [Threads -> Seq(Entries)]
    BY <2>2, <2>3 DEF TypeOK
  <2>5. overlap' \in BOOLEAN
    BY <1>3 DEF ShrinkRead, TypeOK
  <2>6. TypeOK'
    BY <1>0, <1>3, <2>1, <2>4, <2>5, MoveType DEF ShrinkRead, TypeOK
  <2> QED BY <1>3, <2>1, <2>6, QuietMove DEF ShrinkRead
<1>4. CASE ShrinkReadNothing(t)
  <2>1. pc' \in [Threads -> {"crashed"}]
    BY <1>4 DEF ShrinkReadNothing
  <2>2. "crashed" \in CallerStates /\ "crashed" \in BackgroundStates
    BY DEF CallerStates, BackgroundStates
  <2>3. TypeOK'
    BY <1>4, <2>1, <2>2 DEF ShrinkReadNothing, TypeOK
  <2>4. \A u \in Threads : pc'[u] = "crashed"
    BY <2>1
  <2> QED BY <2>3, <2>4 DEF WakeupInv, CarriesInv
<1>5. CASE ShrinkTruncate(t)
  <2>1. pc' = [pc EXCEPT ![t] = "write"] /\ pc[t] = "read" /\ "write" \in CheckStates
    BY <1>5 DEF ShrinkTruncate, Goto, CheckStates
  <2>2. file' \in Seq(Entries) /\ size' \in Nat
    BY <1>5 DEF ShrinkTruncate, Truncated
  <2>3. TypeOK'
    BY <1>0, <1>5, <2>1, <2>2, MoveType DEF ShrinkTruncate, TypeOK
  <2> QED BY <1>5, <2>1, <2>3, QuietMove DEF ShrinkTruncate
<1>6. CASE ShrinkWrite(t)
  <2>1. pc' = [pc EXCEPT ![t] = AfterCheck(t)] /\ pc[t] = "write"
    BY <1>6 DEF ShrinkWrite, Goto
  <2>2. tail[t] \in Seq(Entries) /\ file \in Seq(Entries)
    BY DEF TypeOK
  <2>3. file' \in Seq(Entries)
    BY <1>6, <2>2, OverwrittenType DEF ShrinkWrite
  <2>s. size' \in Nat
    BY <1>6, <2>2 DEF ShrinkWrite, OverwrittenSize, TypeOK
  <2>4. tail' \in [Threads -> Seq(Entries)]
    <3>1. <<>> \in Seq(Entries)
      OBVIOUS
    <3> QED BY <1>6, <3>1 DEF ShrinkWrite, TypeOK
  <2>5. TypeOK'
    BY <1>0, <1>6, <2>1, <2>3, <2>s, <2>4, MoveType DEF ShrinkWrite, TypeOK
  <2> QED BY <1>0, <1>6, <2>1, <2>5, QuietMove DEF ShrinkWrite
<1> QED BY <1>1, <1>2, <1>3, <1>4, <1>5, <1>6 DEF CheckStep

\* The destructor.
LEMMA DestroyStep ==
    ASSUME IInv, NEW c \in Callers, Destroy(c) \/ DestroyNotify(c) \/ DestroyJoin(c)
    PROVE  IInv'
<1> USE ThreadKinds DEF IInv
<1>0. {"destroy", "join", "destroyed"} \subseteq CallerStates
  BY DEF CallerStates
<1>1. CASE Destroy(c)
  <2>1. pc' = [pc EXCEPT ![c] = "destroy"] /\ pc[c] = "idle"
    BY <1>1 DEF Destroy, Goto
  <2>2. exit' \in BOOLEAN
    BY <1>1, Zenon DEF Destroy
  <2>3. TypeOK'
    BY <1>0, <1>1, <2>1, <2>2, MoveType DEF Destroy, TypeOK
  <2> QED BY <1>1, <2>1, <2>3, QuietMove DEF Destroy
<1>2. CASE DestroyNotify(c)
  <2> DEFINE p == [pc EXCEPT ![c] = "join"]
  <2>1. /\ p \in [Threads -> CallerStates \cup BackgroundStates]
        /\ p[Background] = pc[Background] /\ p[c] = "join"
        /\ \A d \in Callers : p[d] \in CallerStates /\ (d # c => p[d] = pc[d])
    BY <1>0 DEF TypeOK
  <2>2. pc' = WakeBackground(p)
    BY <1>2 DEF DestroyNotify
  <2> HIDE DEF p
  <2>3. p[Background] \in BackgroundStates
    BY <2>1 DEF TypeOK
  <2>4. /\ pc' \in [Threads -> CallerStates \cup BackgroundStates]
        /\ pc'[Background] \in BackgroundStates
        /\ pc'[Background] # "asleep"
        /\ pc'[Background] = "tested" => pc[Background] = "tested"
        /\ \A d \in Callers : pc'[d] = p[d]
    BY <2>1, <2>2, <2>3, WakeBackgroundType
  <2>5. TypeOK'
    BY <1>2, <2>1, <2>4 DEF DestroyNotify, TypeOK
  <2>6. WakeupInv'
    BY <1>2, <2>4 DEF DestroyNotify, WakeupInv
  <2>7. CarriesInv'
    BY <1>2, <2>1, <2>4 DEF DestroyNotify, CarriesInv
  <2> QED BY <2>5, <2>6, <2>7
<1>3. CASE DestroyJoin(c)
  <2>1. pc' = [pc EXCEPT ![c] = "destroyed"] /\ pc[c] = "join"
    BY <1>3 DEF DestroyJoin, Goto
  <2>2. TypeOK'
    BY <1>0, <1>3, <2>1, MoveType DEF DestroyJoin, TypeOK
  <2> QED BY <1>3, <2>1, <2>2, QuietMove DEF DestroyJoin
<1> QED BY <1>1, <1>2, <1>3

\* processEntries goes to sleep on an empty queue only.
LEMMA SleepStep ==
    ASSUME IInv, Test \/ Sleep
    PROVE  IInv'
<1> USE ThreadKinds DEF IInv
<1>1. CASE Test
  <2> DEFINE s == IF NothingToDo THEN "tested" ELSE "open"
  <2>1. pc' = [pc EXCEPT ![Background] = s] /\ s \in BackgroundStates
    BY <1>1 DEF Test, Goto, BackgroundStates
  <2>2. s = "tested" => queue = <<>>
    BY DEF NothingToDo
  <2>3. s # "asleep"
    OBVIOUS
  <2> HIDE DEF s
  <2>4. TypeOK'
    BY <1>1, <2>1, MoveType DEF Test, TypeOK
  <2>5. pc'[Background] = s /\ \A c \in Callers : pc'[c] = pc[c]
    BY <2>1 DEF TypeOK
  <2> QED BY <1>1, <2>2, <2>3, <2>4, <2>5 DEF Test, WakeupInv, CarriesInv
<1>2. CASE Sleep
  <2>1. pc' = [pc EXCEPT ![Background] = "asleep"] /\ "asleep" \in BackgroundStates
    BY <1>2 DEF Sleep, Goto, BackgroundStates
  <2>2. TypeOK'
    BY <1>2, <2>1, MoveType DEF Sleep, TypeOK
  <2>3. queue = <<>>
    BY <1>2 DEF Sleep, Goto, WakeupInv
  <2>4. pc'[Background] = "asleep" /\ \A c \in Callers : pc'[c] = pc[c]
    BY <2>1 DEF TypeOK
  <2> QED BY <1>2, <2>2, <2>3, <2>4 DEF Sleep, WakeupInv, CarriesInv
<1> QED BY <1>1, <1>2

\* The other steps of processEntries.
LEMMA ProcessStep ==
    ASSUME IInv, Awake \/ Spurious \/ Open \/ Drain \/ Take \/ LoopEnd
    PROVE  IInv'
<1> USE ThreadKinds DEF IInv
<1> DEFINE Quiet == {"top", "awake", "open", "drain", "take", "close", "end", "exited"}
<1>0. Quiet \subseteq BackgroundStates
  BY DEF BackgroundStates, CheckStates
<1>1. \E s \in Quiet : pc' = [pc EXCEPT ![Background] = s]
  BY DEF Awake, Spurious, Open, Drain, Take, LoopEnd, Goto, AtEmpty
<1>2. pc[Background] # "queued" /\ arg' = arg
  BY DEF Awake, Spurious, Open, Drain, Take, LoopEnd, Goto
<1>3. WakeupInv' /\ CarriesInv'
  BY <1>1, <1>2, QuietMove
<1>4. /\ queue' \in Seq(Entries) /\ file' \in Seq(Entries) /\ appended' \in Seq(Entries)
      /\ size' \in Nat
  <2>1. CASE Take
    <3>1. CASE queue = <<>>
      BY <2>1, <3>1 DEF Take, TypeOK
    <3>2. CASE queue # <<>>
      <4>1. Head(queue) \in Entries /\ Tail(queue) \in Seq(Entries)
        BY <3>2 DEF TypeOK
      <4>2. /\ queue' = Tail(queue)
            /\ file' = Append(file, Head(queue)) /\ appended' = Append(appended, Head(queue))
            /\ size' = size + 1
        BY <2>1, <3>2, Zenon DEF Take, AppendLine
      <4> QED BY <4>1, <4>2 DEF TypeOK
    <3> QED BY <3>1, <3>2
  <2>2. CASE ~Take
    BY <2>2 DEF Awake, Spurious, Open, Drain, LoopEnd, TypeOK
  <2> QED BY <2>1, <2>2
<1>5. UNCHANGED <<exit, buffer, tail, used, overlap, failed>>
  BY DEF Awake, Spurious, Open, Drain, Take, LoopEnd
<1>6. /\ pc' \in [Threads -> CallerStates \cup BackgroundStates]
      /\ pc'[Background] \in BackgroundStates
      /\ \A c \in Callers : pc'[c] \in CallerStates
  BY <1>0, <1>1, MoveType
<1>7. TypeOK'
  BY <1>2, <1>4, <1>5, <1>6 DEF TypeOK
<1> QED BY <1>3, <1>7

-------------------------------------------------------------------------------
\* Every step of the log preserves the invariant.
LEMMA StepInv == IInv /\ [Next]_vars => IInv'
<1> SUFFICES ASSUME IInv, [Next]_vars PROVE IInv'
  OBVIOUS
<1>1. CASE UNCHANGED vars
  <2>1. TypeOK' /\ WakeupInv' /\ CarriesInv'
    BY <1>1, Zenon DEF vars, IInv, TypeOK, WakeupInv, CarriesInv
  <2> QED BY <2>1 DEF IInv
<1>2. CASE BackgroundStep \/ Spurious
  BY <1>2, SleepStep, ProcessStep, CheckSizeStep, ThreadKinds DEF BackgroundStep
<1>3. ASSUME NEW c \in Callers, CallerStep(c) \/ Destroy(c)
      PROVE  IInv'
  BY <1>3, LogStep, CheckSizeStep, DestroyStep, ThreadKinds DEF CallerStep
<1>4. ASSUME NEW c \in Callers, NEW m \in Messages, LogBegin(c, m) \/ LogException(c, m)
      PROVE  IInv'
  BY <1>4, LogStep, ExceptionStep
<1> QED BY <1>1, <1>2, <1>3, <1>4 DEF Next

\* The invariant always holds.
LEMMA Invariance == Spec => []IInv
  BY InitInv, StepInv, PTL DEF Spec

\* The state of the log keeps its types: no caller ever runs the background
\* thread's code, and what is queued, kept or written are entries.
THEOREM TypeCorrect == Spec => []TypeOK
<1>1. IInv => TypeOK
  BY DEF IInv
<1> QED BY <1>1, Invariance, PTL

\* log loses no wakeup although it notifies after unlocking and the thread waits
\* without re-evaluating its condition: whenever the thread sleeps on an entry,
\* the caller that queued it has still to notify.
THEOREM NoLostEntryWakeup == Spec => []NoSleepOnEntries
<1>1. IInv => NoSleepOnEntries
  BY DEF IInv, WakeupInv, NoSleepOnEntries
<1> QED BY <1>1, Invariance, PTL

-------------------------------------------------------------------------------
(***************************************************************************)
(* The order of the lines of the file.                                     *)
(***************************************************************************)
\* What remains of what remains of r remains of r.
LEMMA RemainsTransitive ==
    ASSUME NEW S, NEW q \in Seq(S), NEW s \in Seq(S), NEW r \in Seq(S),
           RemainsOf(q, s), RemainsOf(s, r)
    PROVE  RemainsOf(q, r)
<1>1. PICK g \in [1..Len(q) -> 1..Len(s)] : Remains(q, s, g)
  BY DEF RemainsOf
<1>2. PICK f \in [1..Len(s) -> 1..Len(r)] : Remains(s, r, f)
  BY DEF RemainsOf
<1> DEFINE h == [i \in 1..Len(q) |-> f[g[i]]]
<1>3. h \in [1..Len(q) -> 1..Len(r)]
  OBVIOUS
<1>4. \A i \in 1..Len(q) : q[i] \in {r[h[i]], Torn}
  <2> TAKE i \in 1..Len(q)
  <2>1. q[i] \in {s[g[i]], Torn} /\ g[i] \in 1..Len(s)
    BY <1>1 DEF Remains
  <2>2. s[g[i]] \in {r[f[g[i]]], Torn}
    BY <1>2, <2>1 DEF Remains
  <2> QED BY <2>1, <2>2
<1>5. \A i, j \in 1..Len(q) : i < j => h[i] < h[j]
  <2> SUFFICES ASSUME NEW i \in 1..Len(q), NEW j \in 1..Len(q), i < j PROVE h[i] < h[j]
    OBVIOUS
  <2>1. g[i] < g[j] /\ g[i] \in 1..Len(s) /\ g[j] \in 1..Len(s)
    BY <1>1 DEF Remains
  <2> QED BY <1>2, <2>1 DEF Remains
<1> HIDE DEF h
<1>6. Remains(q, r, h)
  BY <1>4, <1>5 DEF Remains
<1> QED BY <1>3, <1>6 DEF RemainsOf

\* Appending a line to the file, and to the history, keeps what remains.
LEMMA RemainsAppend ==
    ASSUME NEW S, NEW s \in Seq(S), NEW r \in Seq(S), NEW m \in S, RemainsOf(s, r)
    PROVE  RemainsOf(s, Append(r, m)) /\ RemainsOf(Append(s, m), Append(r, m))
<1>1. PICK f \in [1..Len(s) -> 1..Len(r)] : Remains(s, r, f)
  BY DEF RemainsOf
<1>2. /\ Len(Append(r, m)) = Len(r) + 1 /\ Append(r, m)[Len(r) + 1] = m
      /\ \A i \in 1..Len(r) : Append(r, m)[i] = r[i]
      /\ Len(r) \in Nat /\ Len(s) \in Nat
  OBVIOUS
<1>3. /\ Len(Append(s, m)) = Len(s) + 1 /\ Append(s, m)[Len(s) + 1] = m
      /\ \A i \in 1..Len(s) : Append(s, m)[i] = s[i]
  OBVIOUS
<1>4. RemainsOf(s, Append(r, m))
  <2>1. f \in [1..Len(s) -> 1..Len(Append(r, m))]
    BY <1>2
  <2>2. Remains(s, Append(r, m), f)
    BY <1>1, <1>2 DEF Remains
  <2> QED BY <2>1, <2>2 DEF RemainsOf
<1>5. RemainsOf(Append(s, m), Append(r, m))
  <2> DEFINE h == [i \in 1..(Len(s) + 1) |-> IF i = Len(s) + 1 THEN Len(r) + 1 ELSE f[i]]
  <2>1. /\ h[Len(s) + 1] = Len(r) + 1
        /\ \A i \in 1..Len(s) : h[i] = f[i] /\ f[i] \in 1..Len(r)
    BY <1>2
  <2>2. h \in [1..Len(Append(s, m)) -> 1..Len(Append(r, m))]
    BY <1>2, <1>3
  <2>3. \A i \in 1..(Len(s) + 1) : i \in 1..Len(s) \/ i = Len(s) + 1
    BY <1>2
  <2> HIDE DEF h
  <2>4. \A i \in 1..(Len(s) + 1) : Append(s, m)[i] \in {Append(r, m)[h[i]], Torn}
    BY <1>1, <1>2, <1>3, <2>1, <2>3 DEF Remains
  <2>5. \A i, j \in 1..(Len(s) + 1) : i < j => h[i] < h[j]
    BY <1>1, <1>2, <2>1, <2>3 DEF Remains
  <2>6. Remains(Append(s, m), Append(r, m), h)
    BY <1>3, <2>4, <2>5 DEF Remains
  <2> QED BY <2>2, <2>6 DEF RemainsOf
<1> QED BY <1>4, <1>5

\* A line appended to the file is appended to what was read and the file.
LEMMA AppendAfter ==
    ASSUME NEW S, NEW s \in Seq(S), NEW r \in Seq(S), NEW m \in S, NEW q,
           q = s \o Append(r, m)
    PROVE  q = Append(s \o r, m)
  OBVIOUS

\* The end of the file that shrinkLogFile reads remains of the file.
LEMMA LastLinesRemain ==
    ASSUME NEW S, NEW s \in Seq(S), NEW k \in Nat, k < Len(s)
    PROVE  RemainsOf(LastLines(s, k), s)
<1> DEFINE d == Len(s) - k
           h == [i \in 1..k |-> d + i]
<1>1. Len(s) \in Nat /\ d \in Nat
  OBVIOUS
<1>2. Len(LastLines(s, k)) = k /\ \A i \in 1..k : LastLines(s, k)[i] = s[d + i]
  BY DEF LastLines
<1>3. h \in [1..k -> 1..Len(s)] /\ \A i \in 1..k : h[i] = d + i
  BY <1>1
<1> HIDE DEF d, h
<1>4. Remains(LastLines(s, k), s, h)
  BY <1>1, <1>2, <1>3 DEF Remains
<1> QED BY <1>2, <1>3, <1>4 DEF RemainsOf

\* The lines of two sequences of lines, one behind the other.
LEMMA ConcatLines ==
    ASSUME NEW S, NEW s \in Seq(S), NEW r \in Seq(S)
    PROVE  /\ Len(s \o r) = Len(s) + Len(r)
           /\ \A i \in 1..Len(s) : (s \o r)[i] = s[i]
           /\ \A i \in 1..Len(r) : (s \o r)[Len(s) + i] = r[i]
  OBVIOUS

\* s, then m torn lines, then the last n lines of r remain of s followed by r.
LEMMA TornTailRemains ==
    ASSUME NEW s \in Seq(Entries), NEW r \in Seq(Entries), NEW q, NEW m \in {0, 1},
           NEW k \in Nat, NEW n \in Nat, Len(r) = k + n, m <= k,
           Len(q) = Len(s) + m + n,
           \A i \in 1..Len(s) : q[i] = s[i],
           \A i \in 1..m : q[Len(s) + i] = Torn,
           \A i \in 1..n : q[Len(s) + m + i] = r[k + i]
    PROVE  RemainsOf(q, s \o r)
<1> DEFINE h == [i \in 1..Len(q) |-> IF i <= Len(s) THEN i ELSE i + k - m]
<1>0. Len(s) \in Nat
  OBVIOUS
<1>1. /\ Len(s \o r) = Len(s) + k + n
      /\ \A i \in 1..Len(s) : (s \o r)[i] = s[i]
      /\ \A i \in 1..Len(r) : (s \o r)[Len(s) + i] = r[i]
  OBVIOUS
<1>2. /\ h \in [1..Len(q) -> 1..Len(s \o r)]
      /\ \A i \in 1..Len(q) : h[i] = IF i <= Len(s) THEN i ELSE i + k - m
  <2>1. ASSUME NEW i \in 1..Len(q)
        PROVE  (IF i <= Len(s) THEN i ELSE i + k - m) \in 1..Len(s \o r)
    <3>1. i \in Int /\ 1 <= i /\ i <= Len(s) + m + n
      OBVIOUS
    <3>2. m = 0 \/ m = 1
      OBVIOUS
    <3> HIDE DEF h
    <3> QED BY <1>0, <1>1, <3>1, <3>2
  <2> QED BY <2>1
<1> HIDE DEF h
<1>3. ASSUME NEW i \in 1..Len(q) PROVE q[i] \in {(s \o r)[h[i]], Torn}
  <2>1. CASE i <= Len(s)
    <3>1. i \in 1..Len(s) /\ h[i] = i
      BY <1>0, <1>2, <2>1
    <3> QED BY <1>1, <3>1
  <2>2. CASE Len(s) < i /\ i <= Len(s) + m
    <3>1. i - Len(s) \in 1..m /\ Len(s) + (i - Len(s)) = i
      BY <1>0, <2>2
    <3> QED BY <3>1
  <2>3. CASE Len(s) + m < i
    <3>1. PICK j \in 1..n : i = Len(s) + m + j
      <4>1. i - Len(s) - m \in 1..n /\ i = Len(s) + m + (i - Len(s) - m)
        BY <1>0, <2>3
      <4> QED BY <4>1
    <3>2. k + j \in 1..Len(r) /\ h[i] = Len(s) + (k + j)
      BY <1>0, <1>2, <2>3, <3>1
    <3>3. q[i] = r[k + j]
      BY <3>1
    <3> QED BY <1>1, <3>2, <3>3
  <2>4. i <= Len(s) \/ (Len(s) < i /\ i <= Len(s) + m) \/ Len(s) + m < i
    <3>1. i \in Int
      BY <1>0
    <3>2. m \in Int
      OBVIOUS
    <3> QED BY <1>0, <3>1, <3>2
  <2> QED BY <2>1, <2>2, <2>3, <2>4
<1>4. ASSUME NEW i \in 1..Len(q), NEW j \in 1..Len(q), i < j PROVE h[i] < h[j]
  BY <1>0, <1>2, <1>4
<1>5. Remains(q, s \o r, h)
  BY <1>3, <1>4 DEF Remains
<1> QED BY <1>2, <1>5 DEF RemainsOf

\* Whatever the file holds after s is written over its beginning remains of s
\* followed by the file.
LEMMA OverwrittenRemains ==
    ASSUME NEW s \in Seq(Entries), file \in Seq(Entries), NEW q \in Overwritten(s)
    PROVE  RemainsOf(q, s \o file)
<1>0. Len(s) \in Nat /\ Len(file) \in Nat
  OBVIOUS
<1>1. CASE q = s \o file
  <2>1. PICK m \in {0, 1}, k \in Nat : m = 0 /\ k = 0
    OBVIOUS
  <2>2. /\ Len(q) = Len(s) + Len(file)
        /\ \A i \in 1..Len(s) : q[i] = s[i]
        /\ \A i \in 1..Len(file) : q[Len(s) + i] = file[i]
    BY <1>1
  <2>3. Len(file) = k + Len(file) /\ m <= k /\ Len(q) = Len(s) + m + Len(file)
    BY <1>0, <2>1, <2>2
  <2>4. ASSUME NEW i \in 1..Len(file) PROVE q[Len(s) + m + i] = file[k + i]
    <3>1. Len(s) + m + i = Len(s) + i /\ k + i = i
      BY <1>0, <2>1
    <3> QED BY <2>2, <3>1
  <2>5. \A i \in 1..m : q[Len(s) + i] = Torn
    BY <2>1
  <2> QED BY <1>0, <2>2, <2>3, <2>4, <2>5, TornTailRemains
<1>2. ASSUME NEW k \in 1..Len(file) PROVE
        LET rest == SubSeq(file, k + 1, Len(file))
            n == Len(file) - k
        IN  /\ k \in Nat /\ 1 <= k /\ n \in Nat /\ Len(file) = k + n
            /\ rest \in Seq(Entries) /\ Len(rest) = n
            /\ \A i \in 1..n : rest[i] = file[k + i]
  BY <1>0
<1>3. ASSUME NEW k \in 1..Len(file), q = s \o SubSeq(file, k + 1, Len(file))
      PROVE  RemainsOf(q, s \o file)
  <2>1. PICK rest \in Seq(Entries), n \in Nat :
            /\ rest = SubSeq(file, k + 1, Len(file)) /\ Len(rest) = n
            /\ k \in Nat /\ 1 <= k /\ Len(file) = k + n
            /\ \A i \in 1..n : rest[i] = file[k + i]
    BY <1>2
  <2>2. q = s \o rest
    BY <1>3, <2>1
  <2>3. /\ Len(q) = Len(s) + n
        /\ \A i \in 1..Len(s) : q[i] = s[i]
        /\ \A i \in 1..n : q[Len(s) + i] = rest[i]
    <3>1. /\ Len(s \o rest) = Len(s) + Len(rest)
          /\ \A i \in 1..Len(s) : (s \o rest)[i] = s[i]
          /\ \A i \in 1..Len(rest) : (s \o rest)[Len(s) + i] = rest[i]
      BY ConcatLines
    <3>2. Len(rest) = n
      BY <2>1
    <3> QED BY <2>2, <3>1, <3>2, Zenon
  <2>4. PICK m \in {0, 1} : m = 0
    OBVIOUS
  <2>5. m <= k /\ Len(q) = Len(s) + m + n
    BY <1>0, <2>1, <2>3, <2>4
  <2>6. ASSUME NEW i \in 1..n PROVE q[Len(s) + m + i] = file[k + i]
    <3>1. Len(s) + m + i = Len(s) + i
      BY <1>0, <2>1, <2>4
    <3> QED BY <2>1, <2>3, <3>1
  <2>7. \A i \in 1..m : q[Len(s) + i] = Torn
    BY <2>4
  <2> QED BY <2>1, <2>3, <2>5, <2>6, <2>7, TornTailRemains
<1>4. ASSUME NEW k \in 1..Len(file), q = s \o <<Torn>> \o SubSeq(file, k + 1, Len(file))
      PROVE  RemainsOf(q, s \o file)
  <2>1. PICK rest \in Seq(Entries), n \in Nat :
            /\ rest = SubSeq(file, k + 1, Len(file)) /\ Len(rest) = n
            /\ k \in Nat /\ 1 <= k /\ Len(file) = k + n
            /\ \A i \in 1..n : rest[i] = file[k + i]
    BY <1>2
  <2>2. PICK p \in Seq(Entries) :
            /\ p = s \o <<Torn>> /\ Len(p) = Len(s) + 1
            /\ \A i \in 1..Len(s) : p[i] = s[i]
            /\ p[Len(s) + 1] = Torn
    <3>1. Torn \in Entries
      BY ThreadKinds
    <3>2. /\ s \o <<Torn>> \in Seq(Entries) /\ Len(s \o <<Torn>>) = Len(s) + 1
          /\ \A i \in 1..Len(s) : (s \o <<Torn>>)[i] = s[i]
          /\ (s \o <<Torn>>)[Len(s) + 1] = Torn
      BY <3>1
    <3> QED BY <3>2, Zenon
  <2>3. q = p \o rest
    BY <1>4, <2>1, <2>2
  <2>4. /\ Len(q) = Len(p) + n
        /\ \A i \in 1..Len(p) : q[i] = p[i]
        /\ \A i \in 1..n : q[Len(p) + i] = rest[i]
    <3>1. /\ Len(p \o rest) = Len(p) + Len(rest)
          /\ \A i \in 1..Len(p) : (p \o rest)[i] = p[i]
          /\ \A i \in 1..Len(rest) : (p \o rest)[Len(p) + i] = rest[i]
      BY ConcatLines
    <3>2. Len(rest) = n
      BY <2>1
    <3> QED BY <2>3, <3>1, <3>2, Zenon
  <2>5. PICK m \in {0, 1} : m = 1
    OBVIOUS
  <2>6. m <= k /\ Len(q) = Len(s) + m + n
    BY <1>0, <2>1, <2>2, <2>4, <2>5
  <2>7. ASSUME NEW i \in 1..n PROVE q[Len(s) + m + i] = file[k + i]
    <3>1. Len(s) + m + i = Len(p) + i
      BY <1>0, <2>1, <2>2, <2>5
    <3> QED BY <2>1, <2>4, <3>1
  <2>8. ASSUME NEW i \in 1..Len(s) PROVE q[i] = s[i]
    <3>1. i \in 1..Len(p)
      BY <1>0, <2>2
    <3> QED BY <2>2, <2>4, <3>1
  <2>9. ASSUME NEW i \in 1..m PROVE q[Len(s) + i] = Torn
    <3>1. i = 1 /\ Len(s) + 1 \in 1..Len(p)
      BY <1>0, <2>2, <2>5
    <3> QED BY <2>2, <2>4, <3>1
  <2> QED BY <2>1, <2>6, <2>7, <2>8, <2>9, TornTailRemains
<1> QED BY <1>1, <1>3, <1>4, OverwrittenCases

\* t is inside shrinkLogFile, between its read of the file and its write.
Shrinking(t) == pc[t] \in {"read", "write"}

\* What is inductive about FileInOrder.  Until two shrinks overlap there is one
\* at a time; what it has read remains of the history, and once it has truncated
\* the file, so does what it has read followed by what was appended since.
ShrinkInv ==
    ~overlap =>
    /\ \A t, u \in Threads : Shrinking(t) /\ Shrinking(u) => t = u
    /\ RemainsOf(file, appended)
    /\ \A t \in Threads : pc[t] = "read" => RemainsOf(tail[t], appended)
    /\ \A t \in Threads : pc[t] = "write" => RemainsOf(tail[t] \o file, appended)

\* No thread that shrinks the file after a step has moved in it.
KeepsShrinking ==
    \A t \in Threads : pc'[t] \in {"read", "write"} => pc'[t] = pc[t] /\ tail'[t] = tail[t]

\* A thread that moves to another place keeps the others shrinking.
LEMMA MoveKeeps ==
    ASSUME TypeOK, NEW t \in Threads, NEW s, s \notin {"read", "write"},
           pc' = [pc EXCEPT ![t] = s],
           \A u \in Threads : u # t => tail'[u] = tail[u]
    PROVE  KeepsShrinking
<1>1. \A u \in Threads : pc'[u] = IF u = t THEN s ELSE pc[u]
  BY DEF TypeOK
<1> QED BY <1>1 DEF KeepsShrinking

LEMMA WakeKeeps ==
    ASSUME TypeOK, NEW c \in Callers, NEW s, s \notin {"read", "write"},
           pc' = WakeBackground([pc EXCEPT ![c] = s]), tail' = tail
    PROVE  KeepsShrinking
<1> DEFINE p == [pc EXCEPT ![c] = s]
<1>1. \A u \in Threads : p[u] = IF u = c THEN s ELSE pc[u]
  BY DEF TypeOK
<1>2. pc' = p \/ pc' = [p EXCEPT ![Background] = "awake"]
  BY DEF WakeBackground
<1>3. \A u \in Threads : pc'[u] = p[u] \/ pc'[u] = "awake"
  BY <1>2 DEF TypeOK
<1> HIDE DEF p
<1> QED BY <1>1, <1>3 DEF KeepsShrinking

\* A step that does not touch the file.
LEMMA ShrinkQuiet ==
    ASSUME ShrinkInv, KeepsShrinking, UNCHANGED <<file, appended, overlap>>
    PROVE  ShrinkInv'
  BY DEF ShrinkInv, KeepsShrinking, Shrinking

\* A step that appends a line to it.
LEMMA ShrinkAppend ==
    ASSUME TypeOK, ShrinkInv, KeepsShrinking, NEW m \in Entries, AppendLine(m),
           UNCHANGED <<tail, overlap>>
    PROVE  ShrinkInv'
<1> SUFFICES ASSUME ~overlap PROVE ShrinkInv'
  BY DEF ShrinkInv
<1>1. /\ file' = Append(file, m) /\ appended' = Append(appended, m)
      /\ file \in Seq(Entries) /\ appended \in Seq(Entries)
      /\ \A t \in Threads : tail[t] \in Seq(Entries)
  BY DEF AppendLine, TypeOK
<1>2. \A t, u \in Threads : Shrinking(t)' /\ Shrinking(u)' => t = u
  BY DEF ShrinkInv, KeepsShrinking, Shrinking
<1>3. RemainsOf(file', appended')
  BY <1>1, RemainsAppend DEF ShrinkInv
<1>4. ASSUME NEW t \in Threads, pc'[t] = "read" PROVE RemainsOf(tail'[t], appended')
  <2>1. RemainsOf(tail[t], appended) /\ tail'[t] = tail[t]
    BY <1>4 DEF ShrinkInv, KeepsShrinking
  <2> QED BY <1>1, <2>1, RemainsAppend
<1>5. ASSUME NEW t \in Threads, pc'[t] = "write" PROVE RemainsOf(tail'[t] \o file', appended')
  <2>1. RemainsOf(tail[t] \o file, appended) /\ tail'[t] = tail[t]
    BY <1>5 DEF ShrinkInv, KeepsShrinking
  <2> tail[t] \in Seq(Entries) /\ file \in Seq(Entries)
    BY <1>1
  <2>2. tail[t] \o file \in Seq(Entries)
    OBVIOUS
  <2>3. tail'[t] \o file' = Append(tail[t] \o file, m)
    <3>1. PICK q : q = tail[t] \o Append(file, m)
      OBVIOUS
    <3> QED BY <1>1, <2>1, <3>1, AppendAfter
  <2>4. RemainsOf(Append(tail[t] \o file, m), Append(appended, m))
    BY <1>1, <2>1, <2>2, RemainsAppend
  <2> QED BY <1>1, <2>3, <2>4
<1> QED BY <1>2, <1>3, <1>4, <1>5 DEF ShrinkInv

\* checkSize and shrinkLogFile.
LEMMA ShrinkCheck ==
    ASSUME TypeOK, ShrinkInv, NEW t \in Threads, CheckStep(t)
    PROVE  ShrinkInv'
<1>0. AfterCheck(t) \notin {"read", "write"}
  BY DEF AfterCheck
<1>t. /\ file \in Seq(Entries) /\ appended \in Seq(Entries) /\ overlap \in BOOLEAN
      /\ \A u \in Threads : tail[u] \in Seq(Entries)
  BY DEF TypeOK
<1>1. CASE CheckSize(t)
  <2> DEFINE s == IF TooBig THEN "shrink" ELSE AfterCheck(t)
  <2>1. pc' = [pc EXCEPT ![t] = s] /\ s \notin {"read", "write"} /\ tail' = tail
    BY <1>0, <1>1 DEF CheckSize, Goto
  <2> HIDE DEF s
  <2>2. KeepsShrinking
    BY <2>1, MoveKeeps
  <2> QED BY <1>1, <2>2, ShrinkQuiet DEF CheckSize
<1>2. CASE CheckSizeFails(t)
  <2>1. KeepsShrinking
    BY <1>0, <1>2, MoveKeeps DEF CheckSizeFails, TypeOK
  <2> QED BY <1>2, <2>1, ShrinkQuiet DEF CheckSizeFails
<1>3. CASE ShrinkRead(t)
  <2> SUFFICES ASSUME ~overlap' PROVE ShrinkInv'
    BY DEF ShrinkInv
  <2>1. ~overlap /\ \A u \in Threads : pc[u] \notin {"read", "write"}
    BY <1>3 DEF ShrinkRead
  <2>2. PICK k \in 0..KeepLines : k < Len(file) /\ tail' = [tail EXCEPT ![t] = LastLines(file, k)]
    BY <1>3 DEF ShrinkRead
  <2>3. \A u \in Threads : pc'[u] = IF u = t THEN "read" ELSE pc[u]
    BY <1>3 DEF ShrinkRead, Goto, TypeOK
  <2>4. LastLines(file, k) \in Seq(Entries) /\ RemainsOf(LastLines(file, k), file)
    BY <1>t, <2>2, LastLinesType, LastLinesRemain, MylogAssumption
  <2>5. RemainsOf(LastLines(file, k), appended)
    BY <1>t, <2>1, <2>4, RemainsTransitive DEF ShrinkInv
  <2>6. tail'[t] = LastLines(file, k)
    BY <2>2 DEF TypeOK
  <2>7. file' = file /\ appended' = appended
    BY <1>3 DEF ShrinkRead
  <2> QED BY <2>1, <2>3, <2>5, <2>6, <2>7 DEF ShrinkInv, Shrinking
<1>4. CASE ShrinkReadNothing(t)
  <2>1. KeepsShrinking
    BY <1>4 DEF ShrinkReadNothing, KeepsShrinking
  <2> QED BY <1>4, <2>1, ShrinkQuiet DEF ShrinkReadNothing
<1>5. CASE ShrinkTruncate(t)
  <2> SUFFICES ASSUME ~overlap PROVE ShrinkInv'
    BY <1>5 DEF ShrinkInv, ShrinkTruncate
  <2>1. pc[t] = "read" /\ \A u \in Threads : pc'[u] = IF u = t THEN "write" ELSE pc[u]
    BY <1>5 DEF ShrinkTruncate, Goto, TypeOK
  <2>2. file' = <<>> /\ tail' = tail /\ appended' = appended
    BY <1>5 DEF ShrinkTruncate, Truncated
  <2>3. \A u \in Threads : u # t => pc'[u] \notin {"read", "write"}
    BY <2>1 DEF ShrinkInv, Shrinking
  <2>4. RemainsOf(<<>>, appended)
    <3>1. [i \in 1..Len(<<>>) |-> 1] \in [1..Len(<<>>) -> 1..Len(appended)]
      OBVIOUS
    <3>2. Remains(<<>>, appended, [i \in 1..Len(<<>>) |-> 1])
      BY DEF Remains
    <3> QED BY <3>1, <3>2 DEF RemainsOf
  <2>5. RemainsOf(tail[t], appended) /\ tail[t] \o <<>> = tail[t]
    BY <1>t, <2>1 DEF ShrinkInv
  <2> QED BY <2>1, <2>2, <2>3, <2>4, <2>5 DEF ShrinkInv, Shrinking
<1>6. CASE ShrinkWrite(t)
  <2> SUFFICES ASSUME ~overlap PROVE ShrinkInv'
    BY <1>6 DEF ShrinkInv, ShrinkWrite
  <2>1. pc[t] = "write" /\ \A u \in Threads : pc'[u] = IF u = t THEN AfterCheck(t) ELSE pc[u]
    BY <1>6 DEF ShrinkWrite, Goto, TypeOK
  <2>2. \A u \in Threads : pc'[u] \notin {"read", "write"}
    BY <1>0, <2>1 DEF ShrinkInv, Shrinking
  <2>3. RemainsOf(tail[t] \o file, appended) /\ tail[t] \o file \in Seq(Entries)
    BY <1>t, <2>1 DEF ShrinkInv
  <2>4. file' \in Seq(Entries) /\ RemainsOf(file', tail[t] \o file)
    BY <1>6, <1>t, OverwrittenType, OverwrittenRemains DEF ShrinkWrite
  <2>5. appended' = appended /\ RemainsOf(file', appended)
    BY <1>6, <1>t, <2>3, <2>4, RemainsTransitive DEF ShrinkWrite
  <2> QED BY <2>2, <2>5 DEF ShrinkInv, Shrinking
<1> QED BY <1>1, <1>2, <1>3, <1>4, <1>5, <1>6 DEF CheckStep

\* The callers' steps outside checkSize.
LEMMA ShrinkCaller ==
    ASSUME TypeOK, ShrinkInv, NEW c \in Callers,
           \/ \E m \in Messages : LogBegin(c, m)
           \/ LogFormat(c) \/ LogEnqueue(c) \/ LogNotify(c)
           \/ Destroy(c) \/ DestroyNotify(c) \/ DestroyJoin(c)
    PROVE  ShrinkInv'
<1>1. UNCHANGED <<file, appended, overlap, tail>>
  BY DEF LogBegin, LogFormat, LogEnqueue, LogNotify, Destroy, DestroyNotify, DestroyJoin
<1>2. CASE LogNotify(c) \/ DestroyNotify(c)
  <2>1. PICK s \in {"idle", "join"} : pc' = WakeBackground([pc EXCEPT ![c] = s])
    BY <1>2 DEF LogNotify, DestroyNotify
  <2> QED BY <1>1, <2>1, WakeKeeps, ShrinkQuiet
<1>3. CASE ~(LogNotify(c) \/ DestroyNotify(c))
  <2>1. PICK s \in {"format", "formatted", "queued", "destroy", "destroyed"} :
            pc' = [pc EXCEPT ![c] = s]
    BY <1>3 DEF LogBegin, LogFormat, LogEnqueue, Destroy, DestroyJoin, Goto
  <2>2. KeepsShrinking
    BY <1>1, <2>1, MoveKeeps, ThreadKinds
  <2> QED BY <1>1, <2>2, ShrinkQuiet
<1> QED BY <1>2, <1>3

\* logException.
LEMMA ShrinkException ==
    ASSUME TypeOK, ShrinkInv, NEW c \in Callers, NEW m \in Messages, LogException(c, m)
    PROVE  ShrinkInv'
<1>0. UNCHANGED <<tail, overlap>>
  BY DEF LogException
<1>1. CASE AppendLine(m) /\ pc' = [pc EXCEPT ![c] = "close"]
  <2>1. KeepsShrinking
    BY <1>0, <1>1, MoveKeeps, ThreadKinds
  <2> QED BY <1>0, <1>1, <2>1, ShrinkAppend, ThreadKinds
<1>2. CASE UNCHANGED <<file, size, appended, pc>>
  BY <1>0, <1>2, ShrinkQuiet DEF KeepsShrinking
<1> QED BY <1>1, <1>2 DEF LogException

\* processEntries outside checkSize.
LEMMA ShrinkProcess ==
    ASSUME TypeOK, ShrinkInv,
           Test \/ Sleep \/ Awake \/ Spurious \/ Open \/ Drain \/ Take \/ LoopEnd
    PROVE  ShrinkInv'
<1>1. PICK s \in BackgroundStates \ {"read", "write"} : pc' = [pc EXCEPT ![Background] = s]
  BY DEF Test, Sleep, Awake, Spurious, Open, Drain, Take, LoopEnd, Goto, AtEmpty,
         BackgroundStates, CheckStates
<1>2. UNCHANGED <<tail, overlap>>
  BY DEF Test, Sleep, Awake, Spurious, Open, Drain, Take, LoopEnd
<1>3. KeepsShrinking
  BY <1>1, <1>2, MoveKeeps, ThreadKinds
<1>4. CASE Take /\ queue # <<>>
  <2>1. Head(queue) \in Entries
    BY <1>4 DEF TypeOK
  <2>2. AppendLine(Head(queue))
    BY <1>4 DEF Take
  <2>3. PICK m \in Entries : AppendLine(m)
    BY <2>1, <2>2 DEF AppendLine
  <2> QED BY <1>2, <1>3, <2>3, ShrinkAppend
<1>5. CASE ~(Take /\ queue # <<>>)
  <2>1. UNCHANGED <<file, appended>>
    BY <1>5 DEF Test, Sleep, Awake, Spurious, Open, Drain, Take, LoopEnd
  <2> QED BY <1>2, <1>3, <2>1, ShrinkQuiet
<1> QED BY <1>4, <1>5

LEMMA ShrinkStep == TypeOK /\ ShrinkInv /\ [Next]_vars => ShrinkInv'
<1> SUFFICES ASSUME TypeOK, ShrinkInv, [Next]_vars PROVE ShrinkInv'
  OBVIOUS
<1>1. CASE UNCHANGED vars
  BY <1>1, ShrinkQuiet DEF vars, KeepsShrinking
<1>2. CASE BackgroundStep \/ Spurious
  BY <1>2, ShrinkProcess, ShrinkCheck, ThreadKinds DEF BackgroundStep
<1>3. ASSUME NEW c \in Callers, CallerStep(c) \/ Destroy(c)
      PROVE  ShrinkInv'
  BY <1>3, ShrinkCaller, ShrinkCheck, ThreadKinds DEF CallerStep
<1>4. ASSUME NEW c \in Callers, NEW m \in Messages, LogBegin(c, m) \/ LogException(c, m)
      PROVE  ShrinkInv'
  BY <1>4, ShrinkCaller, ShrinkException
<1> QED BY <1>1, <1>2, <1>3, <1>4 DEF Next

LEMMA ShrinkInit == Init => ShrinkInv
<1> SUFFICES ASSUME Init PROVE ShrinkInv
  OBVIOUS
<1>1. \A t \in Threads : pc[t] \notin {"read", "write"}
  BY DEF Init
<1>2. file = <<>> /\ appended = <<>>
  BY DEF Init
<1>3. RemainsOf(file, appended)
  <2>1. [i \in 1..Len(file) |-> 1] \in [1..Len(file) -> 1..Len(appended)]
    BY <1>2
  <2>2. Remains(file, appended, [i \in 1..Len(file) |-> 1])
    BY <1>2 DEF Remains
  <2> QED BY <2>1, <2>2 DEF RemainsOf
<1> QED BY <1>1, <1>3 DEF ShrinkInv, Shrinking

\* However the appends of the callers and of the background thread interleave
\* with a shrink of the file, and wherever it fails, the file holds lines of the
\* history in their order, none of them twice, unless two shrinks have overlapped.
THEOREM FileStaysInOrder == Spec => []FileInOrder
<1>1. IInv /\ ShrinkInv /\ [Next]_vars => ShrinkInv'
  BY ShrinkStep DEF IInv
<1>2. ShrinkInv => FileInOrder
  BY DEF ShrinkInv, FileInOrder
<1> QED BY <1>1, <1>2, ShrinkInit, Invariance, PTL DEF Spec

-------------------------------------------------------------------------------
(***************************************************************************)
(* What log queues, where no two callers share the line buffer.            *)
(***************************************************************************)
\* log copies its argument (src-linux), or one thread only calls it.
NoSharing == ~SharedBuffer \/ \A c, d \in Callers : c = d

\* A caller that has formatted its message finds it where emplace copies from.
BufferInv == \A c \in Callers : pc[c] = "formatted" => EntryOf(c) = arg[c]

\* No caller arrives at these two places of log, though one may stay there.
KeepsLogging ==
    \A c \in Callers : pc'[c] \in {"formatted", "queued"} => pc'[c] = pc[c]

\* The steps that are not log's leave its callers and the buffer alone.
LEMMA OutsideLog ==
    ASSUME TypeOK, [Next]_vars,
           \A c \in Callers, m \in Messages : ~LogBegin(c, m),
           \A c \in Callers : ~LogFormat(c) /\ ~LogEnqueue(c) /\ ~LogNotify(c)
    PROVE  UNCHANGED <<buffer, arg>> /\ KeepsLogging
<1>0. ASSUME NEW t \in Threads, NEW s, s \notin {"formatted", "queued"},
             pc' = [pc EXCEPT ![t] = s]
      PROVE  KeepsLogging
  <2>1. \A c \in Callers : pc'[c] = IF c = t THEN s ELSE pc[c]
    BY <1>0, ThreadKinds DEF TypeOK
  <2> QED BY <1>0, <2>1 DEF KeepsLogging
<1>1. CASE UNCHANGED vars
  BY <1>1 DEF vars, KeepsLogging
<1>2. ASSUME NEW t \in Threads, CheckStep(t)
      PROVE  UNCHANGED <<buffer, arg>> /\ KeepsLogging
  <2>1. UNCHANGED <<buffer, arg>>
    BY <1>2 DEF CheckStep, CheckSize, CheckSizeFails, ShrinkRead, ShrinkReadNothing,
                ShrinkTruncate, ShrinkWrite
  <2>2. CASE ShrinkReadNothing(t)
    <3>1. \A c \in Callers : pc'[c] = "crashed"
      BY <2>2, ThreadKinds DEF ShrinkReadNothing
    <3> QED BY <2>1, <3>1 DEF KeepsLogging
  <2>3. CASE ~ShrinkReadNothing(t)
    <3>1. PICK s \in {"shrink", "read", "write", "end", "idle"} : pc' = [pc EXCEPT ![t] = s]
      BY <1>2, <2>3 DEF CheckStep, CheckSize, CheckSizeFails, ShrinkRead, ShrinkTruncate,
                        ShrinkWrite, Goto, AfterCheck
    <3> QED BY <1>0, <2>1, <3>1
  <2> QED BY <2>2, <2>3
<1>3. CASE BackgroundStep \/ Spurious
  <2>1. CASE CheckStep(Background)
    BY <1>2, <2>1, ThreadKinds
  <2>2. CASE ~CheckStep(Background)
    <3>1. PICK s \in BackgroundStates : pc' = [pc EXCEPT ![Background] = s]
      BY <1>3, <2>2 DEF BackgroundStep, Test, Sleep, Awake, Spurious, Open, Drain, Take,
                        LoopEnd, Goto, AtEmpty, BackgroundStates, CheckStates
    <3>2. s \notin {"formatted", "queued"}
      BY DEF BackgroundStates, CheckStates
    <3>3. UNCHANGED <<buffer, arg>>
      BY <1>3, <2>2 DEF BackgroundStep, Test, Sleep, Awake, Spurious, Open, Drain, Take, LoopEnd
    <3> QED BY <1>0, <3>1, <3>2, <3>3, ThreadKinds
  <2> QED BY <2>1, <2>2
<1>4. ASSUME NEW c \in Callers, Destroy(c) \/ DestroyJoin(c)
      PROVE  UNCHANGED <<buffer, arg>> /\ KeepsLogging
  <2>1. PICK s \in {"destroy", "destroyed"} : pc' = [pc EXCEPT ![c] = s]
    BY <1>4 DEF Destroy, DestroyJoin, Goto
  <2> QED BY <1>0, <1>4, <2>1, ThreadKinds DEF Destroy, DestroyJoin
<1>5. ASSUME NEW c \in Callers, DestroyNotify(c)
      PROVE  UNCHANGED <<buffer, arg>> /\ KeepsLogging
  <2> DEFINE p == [pc EXCEPT ![c] = "join"]
  <2>1. \A u \in Threads : p[u] = IF u = c THEN "join" ELSE pc[u]
    BY DEF TypeOK
  <2>2. pc' = p \/ pc' = [p EXCEPT ![Background] = "awake"]
    BY <1>5 DEF DestroyNotify, WakeBackground
  <2>3. \A u \in Threads : pc'[u] = p[u] \/ pc'[u] = "awake"
    BY <2>2 DEF TypeOK
  <2> HIDE DEF p
  <2> QED BY <1>5, <2>1, <2>3, ThreadKinds DEF DestroyNotify, KeepsLogging
<1>6. ASSUME NEW c \in Callers, NEW m \in Messages, LogException(c, m)
      PROVE  UNCHANGED <<buffer, arg>> /\ KeepsLogging
  <2>1. CASE pc' = [pc EXCEPT ![c] = "close"]
    BY <1>0, <1>6, <2>1, ThreadKinds DEF LogException
  <2>2. CASE pc' = pc
    BY <1>6, <2>2 DEF LogException, KeepsLogging
  <2> QED BY <1>6, <2>1, <2>2 DEF LogException
<1> QED BY <1>1, <1>2, <1>3, <1>4, <1>5, <1>6, ThreadKinds DEF Next, CallerStep

LEMMA BufferStep ==
    ASSUME NoSharing, TypeOK, BufferInv, [Next]_vars
    PROVE  /\ BufferInv'
           /\ \A c \in Callers : pc[c] = "formatted" /\ pc'[c] = "queued"
                                 => queue' = Append(queue, arg[c])
<1>1. ASSUME NEW c \in Callers, NEW m \in Messages, LogBegin(c, m)
      PROVE  /\ BufferInv'
             /\ \A d \in Callers : ~(pc[d] = "formatted" /\ pc'[d] = "queued")
  <2>1. /\ \A d \in Callers : pc'[d] = IF d = c THEN IF SharedBuffer THEN "format" ELSE "formatted"
                                               ELSE pc[d]
        /\ buffer' = IF SharedBuffer THEN Torn ELSE buffer
        /\ \A d \in Callers : d # c => arg'[d] = arg[d]
    BY <1>1, ThreadKinds DEF LogBegin, TypeOK
  <2>2. CASE SharedBuffer
    BY <2>1, <2>2 DEF NoSharing, BufferInv
  <2>3. CASE ~SharedBuffer
    BY <2>1, <2>3 DEF BufferInv, EntryOf
  <2> QED BY <2>2, <2>3
<1>2. ASSUME NEW c \in Callers, LogFormat(c)
      PROVE  /\ BufferInv'
             /\ \A d \in Callers : ~(pc[d] = "formatted" /\ pc'[d] = "queued")
  <2>1. /\ \A d \in Callers : pc'[d] = IF d = c THEN "formatted" ELSE pc[d]
        /\ arg' = arg
    BY <1>2, ThreadKinds DEF LogFormat, Goto, TypeOK
  <2>2. CASE SharedBuffer
    <3>1. \A d \in Callers : d = c
      BY <2>2 DEF NoSharing
    <3>2. buffer' = arg[c]
      BY <1>2, <3>1 DEF LogFormat
    <3> QED BY <2>1, <2>2, <3>1, <3>2 DEF BufferInv, EntryOf
  <2>3. CASE ~SharedBuffer
    BY <2>1, <2>3 DEF BufferInv, EntryOf
  <2> QED BY <2>2, <2>3
<1>3. ASSUME NEW c \in Callers, LogEnqueue(c)
      PROVE  /\ BufferInv'
             /\ \A d \in Callers : pc[d] = "formatted" /\ pc'[d] = "queued"
                                   => queue' = Append(queue, arg[d])
  <2>1. /\ pc[c] = "formatted" /\ queue' = Append(queue, EntryOf(c))
        /\ \A d \in Callers : pc'[d] = IF d = c THEN "queued" ELSE pc[d]
        /\ arg' = arg /\ buffer' = buffer
    BY <1>3, ThreadKinds DEF LogEnqueue, Goto, TypeOK
  <2> QED BY <2>1 DEF BufferInv, EntryOf
<1>4. ASSUME NEW c \in Callers, LogNotify(c)
      PROVE  /\ BufferInv'
             /\ \A d \in Callers : ~(pc[d] = "formatted" /\ pc'[d] = "queued")
  <2> DEFINE p == [pc EXCEPT ![c] = "idle"]
  <2>1. \A u \in Threads : p[u] = IF u = c THEN "idle" ELSE pc[u]
    BY ThreadKinds DEF TypeOK
  <2>2. pc' = p \/ pc' = [p EXCEPT ![Background] = "awake"]
    BY <1>4 DEF LogNotify, WakeBackground
  <2>3. \A u \in Threads : pc'[u] = p[u] \/ pc'[u] = "awake"
    BY <2>2 DEF TypeOK
  <2> HIDE DEF p
  <2>4. buffer' = buffer /\ \A d \in Callers : d # c => arg'[d] = arg[d]
    BY <1>4 DEF LogNotify, TypeOK
  <2> QED BY <2>1, <2>3, <2>4, ThreadKinds DEF BufferInv, EntryOf
<1>5. CASE /\ \A c \in Callers, m \in Messages : ~LogBegin(c, m)
           /\ \A c \in Callers : ~LogFormat(c) /\ ~LogEnqueue(c) /\ ~LogNotify(c)
  <2>1. UNCHANGED <<buffer, arg>> /\ KeepsLogging
    BY <1>5, OutsideLog
  <2> QED BY <2>1 DEF BufferInv, EntryOf, KeepsLogging
<1> QED BY <1>1, <1>2, <1>3, <1>4, <1>5

\* log queues the message it was given when it copies its argument, and also with
\* the shared buffer as long as one thread only calls it: the mixed messages of
\* the run mylog_shared_buffer need the buffer and a second caller.
THEOREM EntriesAreCallersMessages ==
    ASSUME NoSharing
    PROVE  Spec => EntryIsCallersMessage
<1>1. Init => BufferInv
  BY ThreadKinds DEF Init, BufferInv
<1>2. IInv /\ BufferInv /\ [Next]_vars => BufferInv'
  BY BufferStep DEF IInv
<1>3. IInv /\ BufferInv /\ [Next]_vars
        => [\A c \in Callers : pc[c] = "formatted" /\ pc'[c] = "queued"
                               => queue' = Append(queue, arg[c])]_vars
  BY BufferStep DEF IInv
<1> QED BY <1>1, <1>2, <1>3, Invariance, PTL DEF Spec, EntryIsCallersMessage
===============================================================================
