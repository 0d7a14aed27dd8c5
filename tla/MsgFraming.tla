------------------------------ MODULE MsgFraming ------------------------------
(***************************************************************************)
(* How AsyncConnection (testAsio.cpp) turns the byte stream of a client    *)
(* into messages: on_read adds what TCP has delivered to read_buffer_,     *)
(* msgGet (DataProcess.cpp) cuts complete messages off its front, and each *)
(* is handed to msgProcess before the next read is started.                *)
(*                                                                         *)
(* All handlers of a connection run on one strand, so the loops of one     *)
(* on_read are steps of one process; only the client and the network run   *)
(* beside it.  Bytes are abstracted to their offsets in the stream: the    *)
(* buffer holds the read_pos bytes from offset base on.  A message handed  *)
(* over is a range of offsets.                                             *)
(*                                                                         *)
(* Two framings exist.  The messages of the conference service (0x6012)    *)
(* are Overload + ConferenceMngHead + json, those of the other services    *)
(* are Overload + DeviceMngHead + json + an end tag.                       *)
(***************************************************************************)
EXTENDS Integers, Sequences

CONSTANTS N,             \* messages the client sends
          Start,         \* offsets in the stream where they start, and its end
          Field,         \* overload->len as read at each offset of the stream
          OverloadSize,  \* sizeof(Overload), and the size of the end tag
          HeadSize,      \* sizeof the head
          MaxMsg,        \* max_msg, the size of read_buffer_
          Device         \* BaseProcess::msgGet is used

Size(k) == Start[k + 1] - Start[k]

\* What a client writes into overload->len: the conference client counts the
\* Overload itself, the others do not.
SentField(k) == IF Device THEN Size(k) - OverloadSize ELSE Size(k)

\* A message has more than its head, and its size fits in 16 bits while the
\* buffer has 2^16 bytes.
ASSUME FramingAssumption ==
    /\ N \in Nat /\ OverloadSize \in Nat /\ HeadSize \in Nat /\ MaxMsg \in Nat \ {0}
    /\ Device \in BOOLEAN
    /\ Start \in [1..N + 1 -> Nat] /\ Start[1] = 0
    /\ \A j, k \in 1..N + 1 : j < k => Start[j] < Start[k]
    /\ \A k \in 1..N : HeadSize < Size(k) /\ Size(k) < MaxMsg
    /\ Field \in [0..Start[N + 1] -> Nat]
    /\ \A k \in 1..N : Field[Start[k]] = SentField(k)

VARIABLES
    pc,         \* "reading": an async_read_some is outstanding; "get": in
                \* msgGet; "process": in on_read after msgGet
    sent,       \* messages the client has sent
    read_pos,   \* m_read_pos
    base,       \* offset in the stream of read_buffer_[0]
    cursor,     \* offset in the stream of the beginning of tmp in msgGet
    mq_recv,    \* messages found and not yet processed
    processed   \* history: messages handed to msgProcess

vars == <<pc, sent, read_pos, base, cursor, mq_recv, processed>>

Init ==
    /\ pc = "reading"
    /\ sent = 0
    /\ read_pos = 0
    /\ base = 0
    /\ cursor = 0
    /\ mq_recv = <<>>
    /\ processed = <<>>

\* The client's do_write: a message is sent when the last one is on its way.
Send ==
    /\ sent < N
    /\ sent' = sent + 1
    /\ UNCHANGED <<pc, read_pos, base, cursor, mq_recv, processed>>

\* Bytes the network may deliver: sent, and with room in the buffer.
Deliverable ==
    LET onTheWire == Start[sent + 1] - (base + read_pos)
        room == MaxMsg - read_pos
    IN  IF onTheWire < room THEN onTheWire ELSE room

\* on_read, up to its call of msgGet: TCP has delivered some bytes.
OnRead(bytes) ==
    /\ pc = "reading"
    /\ bytes \in 1..Deliverable
    /\ read_pos' = read_pos + bytes
    /\ cursor' = base
    /\ pc' = "get"
    /\ UNCHANGED <<sent, base, mq_recv, processed>>

\* on_read with an error: the connection is closed and reads no more.
OnReadError ==
    /\ pc = "reading"
    /\ pc' = "closed"
    /\ UNCHANGED <<sent, read_pos, base, cursor, mq_recv, processed>>

\* tmp.length()
Length == base + read_pos - cursor

\* Mutant of Needed: the Overload is counted twice.
NeededMore(len) == IF Device THEN HeadSize + len ELSE len + OverloadSize

\* The bytes msgGet requires of a message whose field is len.
Needed(len) == IF Device THEN HeadSize + len ELSE len

\* Mutant of Taken: the Overload is not counted.
TakenShort(len) == IF Device THEN HeadSize + len + OverloadSize ELSE len - OverloadSize

\* The bytes it cuts off.
Taken(len) == IF Device THEN HeadSize + len + OverloadSize ELSE len

Complete == Length > HeadSize /\ Length >= Needed(Field[cursor])

\* One turn of msgGet's loop.  If tmp is shorter than what is cut off, substr
\* throws std::out_of_range: nobody catches it and the program ends.
MsgGet ==
    /\ pc = "get"
    /\ Complete
    /\ IF Taken(Field[cursor]) <= Length
       THEN /\ cursor' = cursor + Taken(Field[cursor])
            /\ mq_recv' = Append(mq_recv, [from |-> cursor, to |-> cursor'])
            /\ UNCHANGED pc
       ELSE pc' = "terminated" /\ UNCHANGED <<cursor, mq_recv>>
    /\ UNCHANGED <<sent, read_pos, base, processed>>

\* Mutant of Remaining: the buffer is moved, the position is not.
RemainingAll == read_pos

\* m_read_pos -= ret
Remaining == Length

\* Where the buffer begins after memmove(read_buffer_, read_buffer_ + ret, ...).
Front == cursor

\* msgGet returns what it has handled, and on_read moves the rest of the buffer
\* to its front.
MsgGetReturn ==
    /\ pc = "get"
    /\ ~Complete
    /\ base' = Front
    /\ read_pos' = Remaining
    /\ pc' = "process"
    /\ UNCHANGED <<sent, cursor, mq_recv, processed>>

\* Mutant of MsgProcess: one message per on_read, as if the loop were an if.
MsgProcessOne ==
    /\ pc = "process"
    /\ mq_recv # <<>>
    /\ processed' = Append(processed, Head(mq_recv))
    /\ mq_recv' = Tail(mq_recv)
    /\ pc' = "reading"
    /\ UNCHANGED <<sent, read_pos, base, cursor>>

\* One turn of on_read's loop over mq_recv.
MsgProcess ==
    /\ pc = "process"
    /\ mq_recv # <<>>
    /\ processed' = Append(processed, Head(mq_recv))
    /\ mq_recv' = Tail(mq_recv)
    /\ UNCHANGED <<pc, sent, read_pos, base, cursor>>

DoRead ==
    /\ pc = "process"
    /\ mq_recv = <<>>
    /\ pc' = "reading"
    /\ UNCHANGED <<sent, read_pos, base, cursor, mq_recv, processed>>

-------------------------------------------------------------------------------
OnReadSome == \E bytes \in 1..MaxMsg : OnRead(bytes)

Handler == OnReadSome \/ MsgGet \/ MsgGetReturn \/ MsgProcess \/ DoRead

Next == Send \/ Handler \/ OnReadError

Spec == Init /\ [][Next]_vars

\* TCP delivers what was sent while the connection is up, and io_context runs
\* the handlers.
FairSpec == Spec /\ WF_vars(Handler)

-------------------------------------------------------------------------------
Offsets == 0..Start[N + 1]
Ranges == [from : Offsets, to : Offsets]

TypeOK ==
    /\ pc \in {"reading", "get", "process", "closed", "terminated"}
    /\ sent \in 0..N
    /\ read_pos \in 0..MaxMsg
    /\ base \in Offsets
    /\ cursor \in Offsets
    /\ base + read_pos <= Start[sent + 1]
    /\ mq_recv \in Seq(Ranges)
    /\ processed \in Seq(Ranges)

\* Messages found so far, in the order they are handed over.
Found == processed \o mq_recv

\* However TCP cuts the stream, msgProcess gets exactly the messages the client
\* sent, whole and in order.
WholeMessages ==
    /\ Len(Found) <= sent
    /\ \A k \in 1..Len(Found) : Found[k] = [from |-> Start[k], to |-> Start[k + 1]]

\* Where the next message is looked for: the beginning of tmp inside msgGet,
\* the beginning of read_buffer_ outside.
Position == IF pc \in {"get", "terminated"} THEN cursor ELSE base

EndOf(k) == IF k = 0 THEN 0 ELSE Found[k].to

\* Right or wrong about where a message ends, substr, memmove and m_read_pos lose
\* no byte of the stream and hand none over twice: each piece handed over begins
\* where the one before ended, and the buffer where the last one ended.
BytesOnce ==
    /\ \A k \in 1..Len(Found) : Found[k].from = EndOf(k - 1)
    /\ Position = EndOf(Len(Found))

\* No complete message is left behind in the buffer when the next read is
\* started: the client may be waiting for its answer before it sends again.
NothingLeftBehind ==
    pc = "reading" => /\ mq_recv = <<>>
                      /\ Len(processed) < N =>
                            base + read_pos < Start[Len(processed) + 2]

\* The next read always has room: with a full buffer async_read_some would
\* complete with 0 bytes for ever.
ReadHasRoom == pc = "reading" => read_pos < MaxMsg

\* msgGet returns to on_read: it never cuts off more than there is, which would
\* throw out of io_context::run and end the server.
MsgGetReturns == pc # "terminated"

\* Every message sent reaches msgProcess unless the connection fails.
MessagesProcessed ==
    \A k \in 1..N : sent >= k ~> Len(processed) >= k \/ pc = "closed"
===============================================================================
