------------------------------ MODULE AsyncServer ------------------------------
(***************************************************************************)
(* The life of the connections of AsyncServer (testAsio.cpp): the chain of *)
(* accepts, the reads each connection keeps going, its answers, and what   *)
(* close does when a peer leaves.  MsgFraming models what a read does with *)
(* its bytes; here a read that delivers bytes may lead to an answer.       *)
(*                                                                         *)
(* One thread runs io_context, so each handler is one step; an exception   *)
(* that a handler lets out leaves io_context::run and ends the program.    *)
(* The peers and TCP run beside it.  A connection object is reused here    *)
(* when nothing refers to it any more, as its memory is.                   *)
(***************************************************************************)
EXTENDS Integers, SequencesExt

CONSTANTS Conns,     \* connection objects
          NoConn,    \* none of them
          MaxWrites  \* bound on the answers a connection has under way

ASSUME AsyncServerAssumption == NoConn \notin Conns /\ MaxWrites \in Nat

VARIABLES
    running,    \* no exception has left io_context::run
    started,    \* m_started_
    accepting,  \* the connection an async_accept is waiting to fill
    sock,       \* m_sock_ of each connection
    connected,  \* m_connected
    reads,      \* async_read_some under way
    writes,     \* async_write_some under way
    s_conns     \* the registry of connections

vars == <<running, started, accepting, sock, connected, reads, writes, s_conns>>

Registered == {s_conns[i] : i \in 1..Len(s_conns)}

\* "eof": the peer has shut the connection down in order; "reset": the peer is
\* gone.
SocketStates == {"none", "open", "eof", "reset", "closed"}

\* remote_endpoint and shutdown throw on any other socket.
EndpointKnown(c) == sock[c] \in {"open", "eof"}

\* No handler, server or registry refers to c.
Free(c) ==
    /\ c # accepting /\ c \notin Registered
    /\ reads[c] = 0 /\ writes[c] = 0

Terminate(c) == running' = FALSE /\ UNCHANGED <<sock, s_conns>>

\* AsyncServer::start(ip, port, tag) after a successful init.
Init ==
    /\ running = TRUE
    /\ started = TRUE
    /\ accepting \in Conns
    /\ sock = [c \in Conns |-> "none"]
    /\ connected = [c \in Conns |-> TRUE]
    /\ reads = [c \in Conns |-> 0]
    /\ writes = [c \in Conns |-> 0]
    /\ s_conns = <<>>

-------------------------------------------------------------------------------
(***************************************************************************)
(* The peers                                                               *)
(***************************************************************************)
PeerCloses(c) ==
    /\ running
    /\ sock[c] = "open"
    /\ sock' = [sock EXCEPT ![c] = "eof"]
    /\ UNCHANGED <<running, started, accepting, connected, reads, writes, s_conns>>

PeerResets(c) ==
    /\ running
    /\ EndpointKnown(c)
    /\ sock' = [sock EXCEPT ![c] = "reset"]
    /\ UNCHANGED <<running, started, accepting, connected, reads, writes, s_conns>>

(***************************************************************************)
(* Accepting                                                               *)
(***************************************************************************)
\* s_conns.push_back
Register(c) == Append(s_conns, c)

\* on_accept: the connection is entered and reads, and a new one waits for the
\* next accept.
OnAccept(c, next) ==
    /\ running
    /\ accepting = c
    /\ next # c /\ Free(next)
    /\ s_conns' = Register(c)
    /\ sock' = [sock EXCEPT ![c] = "open", ![next] = "none"]
    /\ reads' = [reads EXCEPT ![c] = 1]
    /\ connected' = [connected EXCEPT ![next] = TRUE]
    /\ accepting' = next
    /\ UNCHANGED <<running, started, writes>>

\* on_accept with an error, or with a peer that is gone already: an endpoint
\* cannot be read, and the handler returns without another start.
OnAcceptFails ==
    /\ running
    /\ accepting # NoConn
    /\ accepting' = NoConn
    /\ UNCHANGED <<running, started, sock, connected, reads, writes, s_conns>>

\* stop only clears the flag.
Stop ==
    /\ running
    /\ started' = FALSE
    /\ UNCHANGED <<running, accepting, sock, connected, reads, writes, s_conns>>

(***************************************************************************)
(* A connection                                                            *)
(***************************************************************************)
\* Mutant of DeleteConn: the last connection is erased.
DeleteLast(c) == SubSeq(s_conns, 1, Len(s_conns) - 1)

\* Erase c from s_conns, if it is there.
DeleteConn(c) == RemoveFirst(s_conns, c)

\* Mutant of Close: a connection that has no endpoint any more is left as it is.
CloseQuietly(c) ==
    /\ connected' = [connected EXCEPT ![c] = FALSE]
    /\ IF EndpointKnown(c)
       THEN /\ sock' = [sock EXCEPT ![c] = "closed"]
            /\ s_conns' = DeleteConn(c)
       ELSE UNCHANGED <<sock, s_conns>>
    /\ UNCHANGED running

\* The flag is cleared before the calls that throw, the registry after them.
Close(c) ==
    /\ connected' = [connected EXCEPT ![c] = FALSE]
    /\ IF EndpointKnown(c)
       THEN /\ sock' = [sock EXCEPT ![c] = "closed"]
            /\ s_conns' = DeleteConn(c)
            /\ UNCHANGED running
       ELSE Terminate(c)

\* Mutant of DoRead: no read is started after a message.
DoReadNot(c, answers) == [reads EXCEPT ![c] = IF answers > 0 THEN @ - 1 ELSE @]

\* on_read ends with do_read: the read that has completed is replaced.
DoRead(c, answers) == reads

\* on_read with bytes: the messages they complete may be answered.  The bytes
\* may have come before the peer left, or before a failed write closed the
\* connection: then the handler returns and starts no other read.
OnRead(c, answers) ==
    /\ running
    /\ reads[c] > 0
    /\ writes[c] + answers <= MaxWrites
    /\ IF connected[c]
       THEN /\ reads' = DoRead(c, answers)
            /\ writes' = [writes EXCEPT ![c] = @ + answers]
       ELSE /\ reads' = [reads EXCEPT ![c] = @ - 1]
            /\ UNCHANGED writes
    /\ UNCHANGED <<running, started, accepting, sock, connected, s_conns>>

\* on_read with an error: end of file, reset, or aborted by close.
OnReadError(c) ==
    /\ running
    /\ reads[c] > 0
    /\ sock[c] \in {"eof", "reset", "closed"}
    /\ reads' = [reads EXCEPT ![c] = @ - 1]
    /\ Close(c)
    /\ UNCHANGED <<started, accepting, writes>>

\* on_write asks for the endpoints first, whatever the outcome of the write.
OnWrite(c) ==
    /\ running
    /\ writes[c] > 0
    /\ writes' = [writes EXCEPT ![c] = @ - 1]
    /\ IF EndpointKnown(c) THEN UNCHANGED <<running, sock, s_conns>> ELSE Terminate(c)
    /\ UNCHANGED <<started, accepting, connected, reads>>

OnWriteError(c) ==
    /\ running
    /\ writes[c] > 0
    /\ EndpointKnown(c)
    /\ writes' = [writes EXCEPT ![c] = @ - 1]
    /\ Close(c)
    /\ UNCHANGED <<started, accepting, reads>>

-------------------------------------------------------------------------------
Handler(c) ==
    \/ \E answers \in 0..MaxWrites : OnRead(c, answers)
    \/ OnReadError(c) \/ OnWrite(c) \/ OnWriteError(c)

Next ==
    \/ OnAcceptFails \/ Stop
    \/ \E c \in Conns : PeerCloses(c) \/ PeerResets(c) \/ Handler(c)
    \/ \E c, next \in Conns : OnAccept(c, next)

Spec == Init /\ [][Next]_vars

\* io_context runs the handlers, and a read of a socket whose peer has left
\* completes with an error once what was sent has been read.
FairSpec == Spec /\ \A c \in Conns : WF_vars(OnReadError(c))

-------------------------------------------------------------------------------
TypeOK ==
    /\ running \in BOOLEAN /\ started \in BOOLEAN
    /\ accepting \in Conns \cup {NoConn}
    /\ sock \in [Conns -> SocketStates]
    /\ connected \in [Conns -> BOOLEAN]
    /\ reads \in [Conns -> 0..1]  \* read_buffer_ has at most one writer
    /\ writes \in [Conns -> 0..MaxWrites]
    /\ s_conns \in Seq(Conns)

\* While the server runs its registry holds each connection with a live socket
\* exactly once, and every one of them is connected.
RegistryExact ==
    running =>
        /\ Registered = {c \in Conns : sock[c] \in {"open", "eof", "reset"}}
        /\ \A i, j \in 1..Len(s_conns) : s_conns[i] = s_conns[j] => i = j
        /\ \A c \in Registered : connected[c]

\* No connection goes deaf: while the server runs every registered connection
\* has a read under way, through on_read and do_read, and only one.
NeverDeaf == running => \A c \in Registered : reads[c] = 1

\* A connection whose peer has left is removed by close, unless the server dies.
GoneIsRemoved ==
    \A c \in Conns : sock[c] \in {"eof", "reset"} ~> c \notin Registered \/ ~running
===============================================================================
