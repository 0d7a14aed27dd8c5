--------------------------- MODULE MsgFramingProofs ---------------------------
(***************************************************************************)
(* The framing of the conference service is right for any messages and any *)
(* way TCP cuts the stream.  The other services' is not, see the runs, but *)
(* both pass on every byte of the stream once.                             *)
(***************************************************************************)
EXTENDS MsgFraming, TLAPS

\* Messages found so far.
Count == Len(processed) + Len(mq_recv)

Message(k) == [from |-> Start[k], to |-> Start[k + 1]]

\* What has been found are the first messages, and the cursor is behind them.
FoundInv ==
    /\ Count <= sent
    /\ \A k \in 1..Len(processed) : processed[k] = Message(k)
    /\ \A k \in 1..Len(mq_recv) : mq_recv[k] = Message(Len(processed) + k)

PositionInv ==
    /\ pc \in {"get", "process"} =>
           /\ cursor = Start[Count + 1]
           /\ base <= cursor /\ cursor <= base + read_pos
    /\ pc \in {"reading", "process"} =>
           /\ base = Start[Count + 1]
           /\ Count < N => base + read_pos < Start[Count + 2]
    /\ pc = "reading" => mq_recv = <<>>
    /\ pc # "terminated"

IInv == TypeOK /\ FoundInv /\ PositionInv

\* Offsets are where messages start and end.
LEMMA OffsetFacts ==
    /\ \A k \in 1..N + 1 : Start[k] \in Offsets
    /\ \A k \in 1..N : Message(k) \in Ranges
    /\ \A j, k \in 1..N + 1 : Start[j] < Start[k] => j < k
<1>1. \A k \in 1..N + 1 : Start[k] \in Offsets
  BY FramingAssumption DEF Offsets
<1>2. \A k \in 1..N : Message(k) \in Ranges
  BY <1>1, FramingAssumption DEF Message, Ranges
<1>3. \A j, k \in 1..N + 1 : Start[j] < Start[k] => j < k
  BY FramingAssumption
<1> QED BY <1>1, <1>2, <1>3

\* The conference service counts in the field what it cuts off.
LEMMA ConferenceSizes ==
    ASSUME ~Device, NEW len
    PROVE  Needed(len) = len /\ Taken(len) = len
  BY Zenon DEF Needed, Taken

\* The number of messages found is a number.
LEMMA CountType ==
    ASSUME TypeOK
    PROVE  Len(processed) \in Nat /\ Len(mq_recv) \in Nat /\ Count \in Nat
  BY DEF TypeOK, Count

\* The initial state.
LEMMA InitInv == ASSUME Init PROVE IInv
<1>1. TypeOK
  BY FramingAssumption DEF Init, TypeOK, Offsets
<1>2. Count = 0
  BY DEF Init, Count
<1> QED BY <1>1, <1>2, FramingAssumption DEF Init, IInv, FoundInv, PositionInv

\* A complete message at the cursor is the next message, and it has been sent.
LEMMA CompleteIsNext ==
    ASSUME IInv, ~Device, pc = "get", Complete
    PROVE  /\ Count < sent
           /\ cursor = Start[Count + 1]
           /\ Field[cursor] = Size(Count + 1)
           /\ cursor + Taken(Field[cursor]) = Start[Count + 2]
           /\ Taken(Field[cursor]) <= Length
<1>1. Count \in Nat /\ sent \in 0..N /\ cursor = Start[Count + 1]
  BY CountType DEF IInv, TypeOK, PositionInv
<1>2. Count <= sent
  BY DEF IInv, FoundInv
<1>3. Start[Count + 1] < Start[sent + 1]
  <2>1. /\ base \in Int /\ read_pos \in Int /\ cursor \in Int
        /\ base + read_pos <= Start[sent + 1]
    BY FramingAssumption DEF IInv, TypeOK, Offsets
  <2>2. base + read_pos - cursor > HeadSize /\ HeadSize \in Nat
    BY FramingAssumption DEF Complete, Length
  <2>3. Start[sent + 1] \in Int
    BY <1>1, FramingAssumption
  <2> QED BY <1>1, <2>1, <2>2, <2>3
<1>4. Count < sent
  <2>1. N \in Nat /\ Count + 1 \in 1..N + 1 /\ sent + 1 \in 1..N + 1
    BY <1>1, <1>2, FramingAssumption
  <2>2. Count + 1 < sent + 1
    BY <1>3, <2>1, OffsetFacts
  <2> QED BY <1>1, <2>2
<1>5. Field[cursor] = Size(Count + 1)
  BY <1>1, <1>4, FramingAssumption DEF SentField
<1>6. Start[Count + 1] \in Nat /\ Start[Count + 2] \in Nat
  BY <1>1, <1>4, FramingAssumption
<1>7. cursor + Taken(Field[cursor]) = Start[Count + 2]
  BY <1>1, <1>5, <1>6 DEF Taken, Size
<1>8. Taken(Field[cursor]) <= Length
  BY DEF Complete, Taken, Needed
<1> QED BY <1>1, <1>4, <1>5, <1>7, <1>8

\* The client and the network.
LEMMA StreamStep ==
    ASSUME IInv, Send \/ OnReadSome \/ OnReadError
    PROVE  IInv'
<1> USE DEF IInv
<1>0. Count \in Nat /\ sent \in 0..N /\ N \in Nat /\ Count' = Count
  BY CountType, FramingAssumption DEF TypeOK, Send, OnReadSome, OnRead, OnReadError, Count
<1>1. CASE Send
  <2>1. sent' \in 0..N /\ sent' = sent + 1
    BY <1>0, <1>1 DEF Send
  <2>2. Start[sent + 1] < Start[sent' + 1]
    BY <1>0, <2>1, FramingAssumption
  <2>3. base' + read_pos' <= Start[sent' + 1]
    <3>1. base \in Int /\ read_pos \in Int /\ base + read_pos <= Start[sent + 1]
      BY FramingAssumption DEF TypeOK, Offsets
    <3>2. Start[sent + 1] \in Int /\ Start[sent' + 1] \in Int
      BY <1>0, <2>1, FramingAssumption
    <3> QED BY <1>1, <2>2, <3>1, <3>2 DEF Send
  <2>4. TypeOK'
    BY <1>1, <2>1, <2>3 DEF Send, TypeOK
  <2>5. FoundInv'
    BY <1>0, <1>1, <2>1 DEF Send, FoundInv
  <2>6. PositionInv'
    BY <1>0, <1>1 DEF Send, PositionInv
  <2> QED BY <2>4, <2>5, <2>6
<1>2. CASE OnReadSome
  <2> PICK bytes \in 1..MaxMsg : OnRead(bytes)
    BY <1>2 DEF OnReadSome
  <2>1. /\ base \in Nat /\ read_pos \in 0..MaxMsg /\ MaxMsg \in Nat
        /\ Start[sent + 1] \in Nat /\ base + read_pos <= Start[sent + 1]
    BY <1>0, FramingAssumption DEF TypeOK, Offsets
  <2>2. bytes <= MaxMsg - read_pos /\ bytes <= Start[sent + 1] - (base + read_pos)
    BY <2>1 DEF OnRead, Deliverable
  <2>3. read_pos' \in 0..MaxMsg /\ base' + read_pos' <= Start[sent' + 1]
    BY <2>1, <2>2 DEF OnRead
  <2>4. TypeOK'
    BY <2>3 DEF OnRead, TypeOK
  <2>5. FoundInv'
    BY <1>0 DEF OnRead, FoundInv
  <2>6. /\ cursor' = Start[Count' + 1] /\ pc' = "get"
        /\ base' <= cursor' /\ cursor' <= base' + read_pos'
    BY <1>0, <2>1, <2>3 DEF OnRead, PositionInv
  <2>7. PositionInv'
    BY <2>6 DEF PositionInv
  <2> QED BY <2>4, <2>5, <2>7
<1>3. CASE OnReadError
  <2>1. TypeOK'
    BY <1>3 DEF OnReadError, TypeOK
  <2>2. FoundInv'
    BY <1>0, <1>3 DEF OnReadError, FoundInv
  <2>3. PositionInv'
    BY <1>3 DEF OnReadError, PositionInv
  <2> QED BY <2>1, <2>2, <2>3
<1> QED BY <1>1, <1>2, <1>3

\* msgGet finds the next message.
LEMMA MsgGetStep ==
    ASSUME IInv, ~Device, MsgGet
    PROVE  IInv'
<1> USE DEF IInv
<1>1. /\ Count < sent /\ cursor = Start[Count + 1] /\ cursor' = Start[Count + 2]
      /\ cursor + Taken(Field[cursor]) = Start[Count + 2]
      /\ Taken(Field[cursor]) <= Length
  BY CompleteIsNext DEF MsgGet
<1>2. /\ Count \in Nat /\ Len(processed) \in Nat /\ Len(mq_recv) \in Nat
      /\ sent \in 0..N /\ N \in Nat
  BY CountType, FramingAssumption DEF TypeOK
<1>3. mq_recv' = Append(mq_recv, Message(Count + 1))
  BY <1>1, <1>2 DEF MsgGet, Message
<1>4. Message(Count + 1) \in Ranges /\ cursor' \in Offsets
  BY <1>1, <1>2, OffsetFacts
<1>5. mq_recv \in Seq(Ranges) /\ mq_recv' \in Seq(Ranges) /\ Len(mq_recv') = Len(mq_recv) + 1
  BY <1>3, <1>4 DEF TypeOK
<1>6. TypeOK'
  BY <1>4, <1>5 DEF MsgGet, TypeOK
<1>7. Count' = Count + 1
  BY <1>2, <1>5 DEF MsgGet, Count
<1>8. FoundInv'
  <2>1. Count' <= sent'
    BY <1>1, <1>2, <1>7 DEF MsgGet
  <2>2. \A k \in 1..Len(mq_recv') : mq_recv'[k] = Message(Len(processed) + k)
    <3> TAKE k \in 1..Len(mq_recv')
    <3>1. CASE k = Len(mq_recv) + 1
      BY <1>2, <1>3, <1>5, <3>1 DEF Count
    <3>2. CASE k \in 1..Len(mq_recv)
      BY <1>3, <1>5, <3>2 DEF FoundInv
    <3> QED BY <1>2, <1>5, <3>1, <3>2
  <2> QED BY <2>1, <2>2 DEF MsgGet, FoundInv
<1>9. PositionInv'
  <2>1. base \in Int /\ read_pos \in Int /\ cursor \in Int
    BY FramingAssumption DEF TypeOK, Offsets
  <2>2. Field[cursor] \in Int /\ Taken(Field[cursor]) \in Int
    <3>1. Field[cursor] \in Nat
      BY FramingAssumption DEF TypeOK, Offsets
    <3> QED BY <3>1, ConferenceSizes
  <2>3. base' <= cursor' /\ cursor' <= base' + read_pos'
    <3>1. Start[Count + 1] < Start[Count + 2]
      BY <1>1, <1>2, FramingAssumption
    <3>2. cursor' \in Int /\ base <= cursor
      BY <1>1, <1>4 DEF Offsets, MsgGet, PositionInv
    <3> QED BY <1>1, <2>1, <2>2, <3>1, <3>2 DEF MsgGet, Length
  <2>4. pc' = "get"
    BY <1>1 DEF MsgGet
  <2> QED BY <1>1, <1>2, <1>7, <2>3, <2>4 DEF PositionInv
<1> QED BY <1>6, <1>8, <1>9

\* msgGet returns when the next message is not complete.
LEMMA MsgGetReturnStep ==
    ASSUME IInv, ~Device, MsgGetReturn
    PROVE  IInv'
<1> USE DEF IInv
<1>1. /\ Count \in Nat /\ Count <= sent /\ sent \in 0..N /\ N \in Nat /\ Count' = Count
      /\ cursor = Start[Count + 1] /\ cursor <= base + read_pos
  BY CountType, FramingAssumption DEF TypeOK, FoundInv, PositionInv, MsgGetReturn, Count
<1>2. base \in Nat /\ read_pos \in 0..MaxMsg /\ MaxMsg \in Nat /\ cursor \in Nat
  BY FramingAssumption DEF TypeOK, Offsets
<1>3. base' = cursor /\ read_pos' = base + read_pos - cursor
  BY DEF MsgGetReturn, Front, Remaining, Length
<1>4. base' + read_pos' = base + read_pos /\ read_pos' >= 0
  BY <1>1, <1>2, <1>3
<1>5. base <= cursor
  BY DEF MsgGetReturn, PositionInv
<1>6. read_pos' \in 0..MaxMsg
  BY <1>2, <1>3, <1>4, <1>5
<1>7. TypeOK'
  BY <1>3, <1>4, <1>6 DEF MsgGetReturn, TypeOK
<1>8. FoundInv'
  BY <1>1 DEF MsgGetReturn, FoundInv
<1>9. Count < N => base' + read_pos' < Start[Count + 2]
  <2> SUFFICES ASSUME Count < N PROVE base' + read_pos' < Start[Count + 2]
    OBVIOUS
  <2>1. Field[cursor] = Size(Count + 1) /\ HeadSize < Size(Count + 1)
    BY <1>1, FramingAssumption DEF SentField
  <2>2. HeadSize \in Nat /\ Start[Count + 1] \in Nat /\ Start[Count + 2] \in Nat
    BY <1>1, FramingAssumption
  <2>3. base + read_pos - cursor < Size(Count + 1)
    <3>1. ~(base + read_pos - cursor > HeadSize /\ base + read_pos - cursor >= Size(Count + 1))
      BY <2>1, ConferenceSizes DEF MsgGetReturn, Complete, Length
    <3>2. Size(Count + 1) \in Int
      BY <2>2 DEF Size, Count
    <3> QED BY <1>2, <2>1, <2>2, <3>1, <3>2
  <2> QED BY <1>1, <1>2, <1>4, <2>2, <2>3 DEF Size
<1>10. PositionInv'
  <2>1. pc' = "process" /\ cursor' = cursor
    BY DEF MsgGetReturn
  <2> QED BY <1>1, <1>2, <1>3, <1>4, <1>9, <2>1 DEF PositionInv
<1> QED BY <1>7, <1>8, <1>10

\* on_read hands over what msgGet has found, then reads again.
LEMMA ProcessStep ==
    ASSUME IInv, MsgProcess \/ DoRead
    PROVE  IInv'
<1> USE DEF IInv
<1>1. CASE MsgProcess
  <2>1. /\ mq_recv \in Seq(Ranges) /\ processed \in Seq(Ranges) /\ mq_recv # <<>>
        /\ mq_recv' = Tail(mq_recv) /\ processed' = Append(processed, Head(mq_recv))
    BY <1>1 DEF MsgProcess, TypeOK
  <2>2. /\ mq_recv' \in Seq(Ranges) /\ processed' \in Seq(Ranges)
        /\ Len(mq_recv') = Len(mq_recv) - 1 /\ Len(processed') = Len(processed) + 1
        /\ Len(mq_recv) \in Nat \ {0} /\ Len(processed) \in Nat
    BY <2>1
  <2>3. Count' = Count
    BY <2>2 DEF Count
  <2>4. TypeOK'
    BY <1>1, <2>2 DEF MsgProcess, TypeOK
  <2>5. \A k \in 1..Len(processed') : processed'[k] = Message(k)
    <3> TAKE k \in 1..Len(processed')
    <3>1. CASE k = Len(processed) + 1
      <4>1. processed'[k] = mq_recv[1]
        BY <2>1, <2>2, <3>1
      <4> QED BY <2>2, <3>1, <4>1 DEF FoundInv
    <3>2. CASE k \in 1..Len(processed)
      BY <2>1, <3>2 DEF FoundInv
    <3> QED BY <2>2, <3>1, <3>2
  <2>6. \A k \in 1..Len(mq_recv') : mq_recv'[k] = Message(Len(processed') + k)
    <3> TAKE k \in 1..Len(mq_recv')
    <3>1. mq_recv'[k] = mq_recv[k + 1] /\ k + 1 \in 1..Len(mq_recv)
      BY <2>1, <2>2
    <3>2. mq_recv[k + 1] = Message(Len(processed) + (k + 1))
      BY <3>1 DEF FoundInv
    <3>3. Len(processed) + (k + 1) = Len(processed') + k
      BY <2>2
    <3> QED BY <3>1, <3>2, <3>3
  <2>7. FoundInv'
    BY <1>1, <2>3, <2>5, <2>6 DEF MsgProcess, FoundInv
  <2>8. PositionInv'
    BY <1>1, <2>3 DEF MsgProcess, PositionInv
  <2> QED BY <2>4, <2>7, <2>8
<1>2. CASE DoRead
  <2>1. Count' = Count
    BY <1>2 DEF DoRead, Count
  <2>2. TypeOK'
    BY <1>2 DEF DoRead, TypeOK
  <2>3. FoundInv'
    BY <1>2, <2>1 DEF DoRead, FoundInv
  <2>4. PositionInv'
    BY <1>2, <2>1 DEF DoRead, PositionInv
  <2> QED BY <2>2, <2>3, <2>4
<1> QED BY <1>1, <1>2

\* The framing of the conference service keeps the invariant.
LEMMA StepInv ==
    ASSUME ~Device
    PROVE  IInv /\ [Next]_vars => IInv'
<1> SUFFICES ASSUME IInv, [Next]_vars PROVE IInv'
  OBVIOUS
<1>1. CASE UNCHANGED vars
  BY <1>1, Zenon DEF vars, IInv, TypeOK, FoundInv, PositionInv, Count
<1> QED BY <1>1, StreamStep, MsgGetStep, MsgGetReturnStep, ProcessStep DEF Next, Handler

\* The invariant always holds.
LEMMA Invariance ==
    ASSUME ~Device
    PROVE  Spec => []IInv
<1>1. Init => IInv
  BY InitInv
<1>2. IInv /\ [Next]_vars => IInv'
  BY StepInv
<1> QED BY <1>1, <1>2, PTL DEF Spec

-------------------------------------------------------------------------------
\* Whatever the messages and however TCP cuts the stream, the conference service's
\* msgProcess gets exactly the messages sent, whole and in order.
THEOREM ConferenceMessagesWhole ==
    ASSUME ~Device
    PROVE  Spec => []WholeMessages
<1>1. IInv => WholeMessages
  <2> SUFFICES ASSUME IInv PROVE WholeMessages
    OBVIOUS
  <2>1. processed \in Seq(Ranges) /\ mq_recv \in Seq(Ranges)
    BY DEF IInv, TypeOK
  <2>2. Len(Found) = Len(processed) + Len(mq_recv) /\ Len(processed) \in Nat /\ Len(mq_recv) \in Nat
    BY <2>1 DEF Found
  <2>3. Len(Found) <= sent
    BY <2>2 DEF IInv, FoundInv, Count
  <2>4. ASSUME NEW k \in 1..Len(Found)
        PROVE  Found[k] = [from |-> Start[k], to |-> Start[k + 1]]
    <3>1. CASE k <= Len(processed)
      <4>1. Found[k] = processed[k] /\ k \in 1..Len(processed)
        BY <2>1, <2>2, <3>1 DEF Found
      <4> QED BY <4>1 DEF IInv, FoundInv, Message
    <3>2. CASE k > Len(processed)
      <4>1. Found[k] = mq_recv[k - Len(processed)] /\ k - Len(processed) \in 1..Len(mq_recv)
        BY <2>1, <2>2, <3>2 DEF Found
      <4>2. Len(processed) + (k - Len(processed)) = k
        BY <2>2
      <4>3. mq_recv[k - Len(processed)] = Message(Len(processed) + (k - Len(processed)))
        BY <4>1 DEF IInv, FoundInv
      <4>4. Found[k] = Message(k)
        BY <4>1, <4>2, <4>3
      <4> QED BY <4>4 DEF Message
    <3> QED BY <2>2, <3>1, <3>2
  <2> QED BY <2>3, <2>4 DEF WholeMessages
<1> QED BY <1>1, Invariance, PTL

\* When the conference connection waits for data, no complete message waits in
\* its buffer.
THEOREM ConferenceLeavesNothing ==
    ASSUME ~Device
    PROVE  Spec => []NothingLeftBehind
<1>1. IInv => NothingLeftBehind
  <2> SUFFICES ASSUME IInv, pc = "reading"
               PROVE  mq_recv = <<>> /\ (Len(processed) < N => base + read_pos < Start[Len(processed) + 2])
    BY DEF NothingLeftBehind
  <2>1. mq_recv = <<>>
    BY DEF IInv, PositionInv
  <2>2. Count = Len(processed)
    BY <2>1, CountType DEF IInv, Count
  <2> QED BY <2>1, <2>2 DEF IInv, PositionInv
<1> QED BY <1>1, Invariance, PTL

\* Because a message's size fits in 16 bits and the buffer has 2^16 bytes, the
\* conference connection always has room for the next read.
THEOREM ConferenceReadHasRoom ==
    ASSUME ~Device
    PROVE  Spec => []ReadHasRoom
<1>1. IInv => ReadHasRoom
  <2> SUFFICES ASSUME IInv, pc = "reading" PROVE read_pos < MaxMsg
    BY DEF ReadHasRoom
  <2>1. /\ Count \in Nat /\ Count <= sent /\ sent \in 0..N /\ N \in Nat
        /\ base = Start[Count + 1] /\ read_pos \in Nat
        /\ base + read_pos <= Start[sent + 1] /\ MaxMsg \in Nat \ {0}
    BY CountType, FramingAssumption DEF IInv, TypeOK, FoundInv, PositionInv
  <2>2. CASE Count < N
    <3>1. base + read_pos < Start[Count + 2] /\ Start[Count + 2] - Start[Count + 1] < MaxMsg
      BY <2>1, <2>2, FramingAssumption DEF IInv, PositionInv, Size
    <3>2. Start[Count + 1] \in Nat /\ Start[Count + 2] \in Nat
      BY <2>1, <2>2, FramingAssumption
    <3> QED BY <2>1, <3>1, <3>2
  <2>3. CASE Count = N
    <3>1. sent = Count /\ Start[Count + 1] \in Nat
      BY <2>1, <2>3, FramingAssumption
    <3> QED BY <2>1, <3>1
  <2> QED BY <2>1, <2>2, <2>3
<1> QED BY <1>1, Invariance, PTL

\* msgGet of the conference service never throws.
THEOREM ConferenceNeverThrows ==
    ASSUME ~Device
    PROVE  Spec => []MsgGetReturns
<1>1. IInv => MsgGetReturns
  BY DEF IInv, PositionInv, MsgGetReturns
<1> QED BY <1>1, Invariance, PTL

-------------------------------------------------------------------------------
(***************************************************************************)
(* What both framings keep, whatever the length fields hold.               *)
(***************************************************************************)
\* msgGet stays inside the buffer.
CursorInv == pc = "get" => base <= cursor /\ cursor <= base + read_pos

BytesInv == TypeOK /\ CursorInv /\ BytesOnce

\* Handing over a message, or finding one, in terms of the messages found.
LEMMA HandOver ==
    ASSUME NEW S, NEW s \in Seq(S), NEW q \in Seq(S), q # <<>>
    PROVE  Append(s, Head(q)) \o Tail(q) = s \o q
  OBVIOUS

LEMMA FindOne ==
    ASSUME NEW S, NEW s \in Seq(S), NEW q \in Seq(S), NEW e \in S, NEW r,
           r = s \o Append(q, e)
    PROVE  r = Append(s \o q, e)
  OBVIOUS

\* A step that neither finds a message nor moves the position.
LEMMA SameBytes ==
    ASSUME BytesOnce, Found' = Found, Position' = Position
    PROVE  BytesOnce'
  BY DEF BytesOnce, EndOf

\* Numbers the steps compute with.
LEMMA BufferNumbers ==
    ASSUME TypeOK
    PROVE  /\ base \in Nat /\ cursor \in Nat /\ read_pos \in Nat /\ MaxMsg \in Nat
           /\ read_pos <= MaxMsg /\ sent \in 0..N /\ N \in Nat
           /\ Start[sent + 1] \in Nat /\ Start[N + 1] \in Nat
           /\ Start[sent + 1] <= Start[N + 1]
           /\ base + read_pos <= Start[sent + 1]
           /\ Field[cursor] \in Nat /\ Taken(Field[cursor]) \in Nat
<1>1. /\ base \in Nat /\ cursor \in 0..Start[N + 1] /\ read_pos \in Nat /\ MaxMsg \in Nat
      /\ read_pos <= MaxMsg /\ sent \in 0..N /\ N \in Nat /\ Start[N + 1] \in Nat
      /\ base + read_pos <= Start[sent + 1]
  BY FramingAssumption DEF TypeOK, Offsets
<1>2. Start[sent + 1] \in Nat /\ Start[sent + 1] <= Start[N + 1]
  <2>1. sent + 1 \in 1..N + 1 /\ N + 1 \in 1..N + 1
    BY <1>1
  <2>2. CASE sent = N
    BY <1>1, <2>2
  <2>3. CASE sent # N
    <3>1. sent + 1 < N + 1
      BY <1>1, <2>3
    <3>2. Start[sent + 1] < Start[N + 1] /\ Start[sent + 1] \in Nat
      BY <2>1, <3>1, FramingAssumption
    <3> QED BY <1>1, <3>2
  <2> QED BY <2>2, <2>3
<1>3. Field[cursor] \in Nat
  BY <1>1, FramingAssumption
<1>4. Taken(Field[cursor]) \in Nat
  BY <1>3, FramingAssumption DEF Taken
<1> QED BY <1>1, <1>2, <1>3, <1>4

\* The client and the network.
LEMMA BytesStream ==
    ASSUME BytesInv, Send \/ OnReadSome \/ OnReadError
    PROVE  BytesInv'
<1> USE BufferNumbers DEF BytesInv
<1>1. CASE Send
  <2>1. sent' \in 0..N /\ sent' = sent + 1
    BY <1>1 DEF Send
  <2>2. Start[sent + 1] < Start[sent' + 1] /\ Start[sent' + 1] \in Nat
    <3>1. sent + 1 \in 1..N + 1 /\ sent' + 1 \in 1..N + 1 /\ sent + 1 < sent' + 1
      BY <2>1
    <3> QED BY <3>1, FramingAssumption
  <2>3. base' + read_pos' <= Start[sent' + 1]
    BY <1>1, <2>2 DEF Send
  <2>4. TypeOK'
    BY <1>1, <2>1, <2>3 DEF Send, TypeOK
  <2>5. CursorInv'
    BY <1>1 DEF Send, CursorInv
  <2>6. BytesOnce'
    BY <1>1, SameBytes DEF Send, Found, Position
  <2> QED BY <2>4, <2>5, <2>6
<1>2. CASE OnReadSome
  <2> PICK bytes \in 1..MaxMsg : OnRead(bytes)
    BY <1>2 DEF OnReadSome
  <2>1. bytes <= MaxMsg - read_pos /\ bytes <= Start[sent + 1] - (base + read_pos)
    BY DEF OnRead, Deliverable
  <2>2. read_pos' \in 0..MaxMsg /\ base' + read_pos' <= Start[sent' + 1]
    BY <2>1 DEF OnRead
  <2>3. TypeOK'
    BY <2>2 DEF OnRead, TypeOK
  <2>4. CursorInv'
    BY <2>2 DEF OnRead, CursorInv
  <2>5. BytesOnce'
    BY SameBytes DEF OnRead, Found, Position
  <2> QED BY <2>3, <2>4, <2>5
<1>3. CASE OnReadError
  <2>1. TypeOK' /\ CursorInv'
    BY <1>3 DEF OnReadError, TypeOK, CursorInv
  <2>2. BytesOnce'
    BY <1>3, SameBytes DEF OnReadError, Found, Position
  <2> QED BY <2>1, <2>2
<1> QED BY <1>1, <1>2, <1>3

\* msgGet cuts a piece off the front of what it has not handled.
LEMMA BytesMsgGet ==
    ASSUME BytesInv, MsgGet
    PROVE  BytesInv'
<1> USE BufferNumbers DEF BytesInv
<1>1. CASE Taken(Field[cursor]) <= Length
  <2> DEFINE e == [from |-> cursor, to |-> cursor']
  <2>1. /\ cursor' = cursor + Taken(Field[cursor]) /\ mq_recv' = Append(mq_recv, e)
        /\ pc = "get" /\ UNCHANGED <<pc, sent, read_pos, base, processed>>
    BY <1>1 DEF MsgGet
  <2>2. base <= cursor /\ cursor <= base + read_pos
    BY <2>1 DEF CursorInv
  <2>3. cursor' \in Nat /\ cursor <= cursor' /\ cursor' <= base + read_pos
    <3>1. PICK n \in Nat : n = Taken(Field[cursor])
      OBVIOUS
    <3>2. cursor' = cursor + n /\ n <= base + read_pos - cursor
      BY <1>1, <2>1, <3>1 DEF Length
    <3> QED BY <3>2
  <2>4. cursor' \in Offsets /\ e \in Ranges
    BY <2>2, <2>3 DEF Offsets, Ranges
  <2> HIDE DEF e
  <2>5. mq_recv' \in Seq(Ranges)
    BY <2>1, <2>4 DEF TypeOK
  <2>6. TypeOK'
    BY <2>1, <2>4, <2>5 DEF TypeOK
  <2>7. CursorInv'
    BY <2>1, <2>2, <2>3 DEF CursorInv
  <2>8. Found \in Seq(Ranges) /\ Found' = Append(Found, e)
    <3>1. processed \in Seq(Ranges) /\ mq_recv \in Seq(Ranges)
      BY DEF TypeOK
    <3>2. PICK r : r = processed \o Append(mq_recv, e)
      OBVIOUS
    <3>3. r = Append(processed \o mq_recv, e)
      BY <2>4, <3>1, <3>2, FindOne
    <3>4. Found' = r
      BY <2>1, <3>2 DEF Found
    <3> QED BY <3>1, <3>3, <3>4 DEF Found
  <2>9. /\ Len(Found) \in Nat /\ Len(Found') = Len(Found) + 1
        /\ \A k \in 1..Len(Found) : Found'[k] = Found[k]
        /\ Found'[Len(Found) + 1] = e
    BY <2>4, <2>8
  <2>10. \A k \in 0..Len(Found) : EndOf(k)' = EndOf(k)
    BY <2>9 DEF EndOf
  <2>11. e.from = cursor /\ e.to = cursor' /\ cursor = EndOf(Len(Found))
    BY <2>1 DEF e, BytesOnce, Position
  <2>12. ASSUME NEW k \in 1..Len(Found') PROVE Found'[k].from = EndOf(k - 1)'
    <3>1. k - 1 \in 0..Len(Found) /\ (k \in 1..Len(Found) \/ k = Len(Found) + 1)
      BY <2>9
    <3>2. CASE k \in 1..Len(Found)
      BY <2>9, <2>10, <3>1, <3>2 DEF BytesOnce
    <3>3. CASE k = Len(Found) + 1
      <4>1. k - 1 = Len(Found)
        BY <2>9, <3>3
      <4> QED BY <2>9, <2>10, <2>11, <3>1, <3>3, <4>1
    <3> QED BY <3>1, <3>2, <3>3
  <2>13. Position' = EndOf(Len(Found))'
    BY <2>1, <2>9, <2>11 DEF Position, EndOf
  <2> QED BY <2>6, <2>7, <2>12, <2>13 DEF BytesOnce
<1>2. CASE ~(Taken(Field[cursor]) <= Length)
  <2>1. pc' = "terminated" /\ pc = "get" /\ UNCHANGED <<cursor, mq_recv, sent, read_pos, base, processed>>
    BY <1>2 DEF MsgGet
  <2>2. TypeOK' /\ CursorInv'
    BY <2>1 DEF TypeOK, CursorInv
  <2>3. BytesOnce'
    BY <2>1, SameBytes DEF Found, Position
  <2> QED BY <2>2, <2>3
<1> QED BY <1>1, <1>2

\* on_read moves the rest to the front, hands over what was found, reads again.
LEMMA BytesProcess ==
    ASSUME BytesInv, MsgGetReturn \/ MsgProcess \/ DoRead
    PROVE  BytesInv'
<1> USE BufferNumbers DEF BytesInv
<1>1. CASE MsgGetReturn
  <2>1. /\ base' = cursor /\ read_pos' = base + read_pos - cursor
        /\ pc = "get" /\ pc' = "process" /\ UNCHANGED <<sent, cursor, mq_recv, processed>>
    BY <1>1 DEF MsgGetReturn, Front, Remaining, Length
  <2>2. base <= cursor /\ cursor <= base + read_pos
    BY <2>1 DEF CursorInv
  <2>3. read_pos' \in 0..MaxMsg /\ base' + read_pos' <= Start[sent' + 1]
    BY <2>1, <2>2
  <2>4. TypeOK' /\ CursorInv'
    BY <2>1, <2>3 DEF TypeOK, CursorInv
  <2>5. BytesOnce'
    BY <2>1, SameBytes DEF Found, Position
  <2> QED BY <2>4, <2>5
<1>2. CASE MsgProcess
  <2>1. /\ mq_recv \in Seq(Ranges) /\ processed \in Seq(Ranges) /\ mq_recv # <<>>
        /\ mq_recv' = Tail(mq_recv) /\ processed' = Append(processed, Head(mq_recv))
        /\ UNCHANGED <<pc, sent, read_pos, base, cursor>>
    BY <1>2 DEF MsgProcess, TypeOK
  <2>2. mq_recv' \in Seq(Ranges) /\ processed' \in Seq(Ranges)
    BY <2>1
  <2>3. TypeOK' /\ CursorInv'
    BY <2>1, <2>2 DEF TypeOK, CursorInv
  <2>4. Found' = Found
    BY <2>1, HandOver DEF Found
  <2>5. BytesOnce'
    BY <2>1, <2>4, SameBytes DEF Position
  <2> QED BY <2>3, <2>5
<1>3. CASE DoRead
  <2>1. pc = "process" /\ pc' = "reading" /\ UNCHANGED <<sent, read_pos, base, cursor, mq_recv, processed>>
    BY <1>3 DEF DoRead
  <2>2. TypeOK' /\ CursorInv'
    BY <2>1 DEF TypeOK, CursorInv
  <2>3. BytesOnce'
    BY <2>1, SameBytes DEF Found, Position
  <2> QED BY <2>2, <2>3
<1> QED BY <1>1, <1>2, <1>3

LEMMA BytesInvariance == Spec => []BytesInv
<1>1. Init => BytesInv
  <2> SUFFICES ASSUME Init PROVE BytesInv
    OBVIOUS
  <2>1. TypeOK /\ CursorInv
    BY FramingAssumption DEF Init, TypeOK, CursorInv, Offsets
  <2>2. Found = <<>> /\ Position = 0
    BY DEF Init, Found, Position
  <2> QED BY <2>1, <2>2 DEF BytesInv, BytesOnce, EndOf
<1>2. BytesInv /\ [Next]_vars => BytesInv'
  <2> SUFFICES ASSUME BytesInv, [Next]_vars PROVE BytesInv'
    OBVIOUS
  <2>1. CASE UNCHANGED vars
    BY <2>1, SameBytes DEF vars, BytesInv, TypeOK, CursorInv, Found, Position
  <2> QED BY <2>1, BytesStream, BytesMsgGet, BytesProcess DEF Next, Handler
<1> QED BY <1>1, <1>2, PTL DEF Spec

\* The state of a connection of any service keeps its types, whatever msgGet takes
\* for a message: the buffer is never overrun and never ahead of the stream.
THEOREM TypeCorrect == Spec => []TypeOK
<1>1. BytesInv => TypeOK
  BY DEF BytesInv
<1> QED BY <1>1, BytesInvariance, PTL

\* With either framing no byte of the stream is lost or handed over twice.  The
\* device services cut it in the wrong places, but they lose nothing of it.
THEOREM NoByteLost == Spec => []BytesOnce
<1>1. BytesInv => BytesOnce
  BY DEF BytesInv
<1> QED BY <1>1, BytesInvariance, PTL
===============================================================================
