----------------------------- MODULE SelectServer -----------------------------
(***************************************************************************)
(* The select server of test_select.cpp (src-linux): one thread that waits *)
(* for any descriptor of read_fds to become readable and then scans its    *)
(* vector v_fds by index, accepting a connection on the listening socket,  *)
(* removing a client that has closed, receiving from one that has sent.    *)
(*                                                                         *)
(* To receive, myrecv constructs a second Mylog while the one of           *)
(* thread_fun lives.  Its constructor assigns a new thread to the global   *)
(* logth, which is still joinable: the program is terminated.              *)
(*                                                                         *)
(* Time is left out: a select that times out only goes round the loop.     *)
(***************************************************************************)
EXTENDS Integers, Sequences, FiniteSets

CONSTANTS Clients,    \* the peers, each connects at most once
          Fds,        \* the descriptors the process can have for clients
          Listening,  \* socket_fd
          NoClient    \* a descriptor that is closed

ASSUME SelectAssumption == Listening \notin Fds /\ NoClient \notin Clients

VARIABLES
    backlog,   \* connections nobody has accepted yet
    came,      \* the clients that have connected
    sent,      \* the clients whose data nobody has received
    closed,    \* the clients that have closed their end
    owner,     \* the client behind each descriptor
    v_fds,
    read_fds,
    test_fds,
    idx,       \* the index of the scan, -1 in select
    server     \* whether the program runs, and how it ended

peers == <<came, sent, closed>>
vars == <<backlog, peers, owner, v_fds, read_fds, test_fds, idx, server>>

Init ==
    /\ backlog = <<>>
    /\ came = {} /\ sent = {} /\ closed = {}
    /\ owner = [f \in Fds |-> NoClient]
    /\ v_fds = <<Listening>>
    /\ read_fds = {Listening}
    /\ test_fds = {}
    /\ idx = -1
    /\ server = "runs"

Runs == server = "runs"

-------------------------------------------------------------------------------
(***************************************************************************)
(* The clients                                                             *)
(***************************************************************************)
Connect(c) ==
    /\ Runs /\ c \notin came
    /\ came' = came \cup {c}
    /\ backlog' = Append(backlog, c)
    /\ UNCHANGED <<sent, closed, owner, v_fds, read_fds, test_fds, idx, server>>

Send(c) ==
    /\ Runs /\ c \in came \ (sent \cup closed)
    /\ sent' = sent \cup {c}
    /\ UNCHANGED <<backlog, came, closed, owner, v_fds, read_fds, test_fds, idx, server>>

CloseEnd(c) ==
    /\ Runs /\ c \in came \ closed
    /\ closed' = closed \cup {c}
    /\ UNCHANGED <<backlog, came, sent, owner, v_fds, read_fds, test_fds, idx, server>>

-------------------------------------------------------------------------------
(***************************************************************************)
(* thread_fun                                                              *)
(***************************************************************************)
Readable(f) == IF f = Listening THEN backlog # <<>> ELSE owner[f] \in sent \cup closed

\* What select leaves in its copy of read_fds.
Ready == {f \in read_fds : Readable(f)}

\* Mutant of FirstIndex: the scan begins after the listening socket.
SecondIndex == 1

FirstIndex == 0

Select ==
    /\ Runs /\ idx = -1
    /\ Ready # {}
    /\ test_fds' = Ready
    /\ idx' = FirstIndex
    /\ UNCHANGED <<backlog, peers, owner, v_fds, read_fds, server>>

\* select returns an error, as it does when a signal interrupts it.
SelectFails ==
    /\ Runs /\ idx = -1
    /\ server' = "exited"
    /\ UNCHANGED <<backlog, peers, owner, v_fds, read_fds, test_fds, idx>>

\* The descriptor the scan is at, if it is set in test_fds.
Scanning == Runs /\ idx >= 0 /\ idx < Len(v_fds)
At(f) == Scanning /\ f = v_fds[idx + 1] /\ f \in test_fds

Skip ==
    /\ Scanning /\ v_fds[idx + 1] \notin test_fds
    /\ idx' = idx + 1
    /\ UNCHANGED <<backlog, peers, owner, v_fds, read_fds, test_fds, server>>

\* Back to select.
AfterScan == -1

EndOfScan ==
    /\ Runs /\ idx >= Len(v_fds)
    /\ idx' = AfterScan
    /\ UNCHANGED <<backlog, peers, owner, v_fds, read_fds, test_fds, server>>

\* Mutant of Watched: the new descriptor is put into v_fds alone.
Unwatched(f) == read_fds

\* FD_SET of an accepted descriptor.
Watched(f) == read_fds \cup {f}

\* Mutant of Listing: the new descriptor is put in front.
ListingInFront(f) == <<f>> \o v_fds

\* push_back of an accepted descriptor.
Listing(f) == Append(v_fds, f)

Accept(f) ==
    /\ At(Listening)
    /\ owner[f] = NoClient
    /\ owner' = [owner EXCEPT ![f] = Head(backlog)]
    /\ backlog' = Tail(backlog)
    /\ read_fds' = Watched(f)
    /\ v_fds' = Listing(f)
    /\ idx' = idx + 1
    /\ UNCHANGED <<peers, test_fds, server>>

\* accept fails, as it must when the process has no descriptor left.
AcceptFails ==
    /\ At(Listening)
    /\ server' = "exited"
    /\ UNCHANGED <<backlog, peers, owner, v_fds, read_fds, test_fds, idx>>

\* vector::erase.
RemoveAt(v, i) == SubSeq(v, 1, i - 1) \o SubSeq(v, i + 1, Len(v))

\* One turn of the loop that erases: the vector and the iterator it leaves, with
\* indices that begin with 1.
EraseTurn(v, iter) ==
    IF v[iter] = v[idx + 1] THEN <<RemoveAt(v, iter), iter>> ELSE <<v, iter + 1>>

\* The loop over v_fds: the vector and the iterator after k turns, the last ones
\* once the iterator has reached the end of the vector.
EraseLoop[k \in Nat] ==
    IF k = 0 THEN <<v_fds, 1>>
    ELSE LET loop == EraseLoop[k - 1]
         IN  IF loop[2] > Len(loop[1]) THEN loop ELSE EraseTurn(loop[1], loop[2])

\* What is left in v_fds.  Every turn erases or advances, so the loop is over after as
\* many turns as there were descriptors.
Erased == EraseLoop[Len(v_fds)][1]

\* Mutant of NothingToRead: FIONREAD is not asked.
AnythingToRead(f) == TRUE

\* FIONREAD gives 0.
NothingToRead(f) == owner[f] \notin sent

\* Mutant of Close: the descriptor is not closed.
NotClosed(f) == owner

Close(f) == [owner EXCEPT ![f] = NoClient]

Remove(f) ==
    /\ At(f) /\ NothingToRead(f)
    /\ owner' = Close(f)
    /\ read_fds' = read_fds \ {f}
    /\ v_fds' = Erased
    /\ idx' = idx + 1
    /\ UNCHANGED <<backlog, peers, test_fds, server>>

\* myrecv ends the program.
Receive(f) ==
    /\ At(f) /\ ~NothingToRead(f)
    /\ server' = "terminated"
    /\ UNCHANGED <<backlog, peers, owner, v_fds, read_fds, test_fds, idx>>

ThreadFun ==
    \/ Select \/ Skip \/ EndOfScan \/ AcceptFails
    \/ \E f \in Fds : Accept(f) \/ Remove(f) \/ Receive(f)

Next == ThreadFun \/ SelectFails \/ \E c \in Clients : Connect(c) \/ Send(c) \/ CloseEnd(c)

Spec == Init /\ [][Next]_vars

\* The thread runs whenever select returns; the clients owe nothing, and no signal
\* need come.
FairSpec == Spec /\ WF_vars(ThreadFun)

-------------------------------------------------------------------------------
Open == {f \in Fds : owner[f] # NoClient}
Listed == {v_fds[i] : i \in 1..Len(v_fds)}

TypeOK ==
    /\ backlog \in Seq(Clients)
    /\ came \subseteq Clients /\ sent \subseteq came /\ closed \subseteq came
    /\ owner \in [Fds -> Clients \cup {NoClient}]
    /\ v_fds \in Seq(Fds \cup {Listening})
    /\ read_fds \subseteq Fds \cup {Listening} /\ test_fds \subseteq Fds \cup {Listening}
    /\ idx \in Int /\ idx >= -1 /\ idx <= Len(v_fds) + 1
    /\ server \in {"runs", "exited", "terminated"}

\* select is never given a closed descriptor, and every open one is watched,
\* however descriptors are closed and their numbers used again.
WatchedAreOpen == read_fds = Open \cup {Listening}

\* v_fds begins with the listening socket, lists no descriptor twice although
\* numbers are used again, and lists only descriptors that are watched.
VectorSound ==
    /\ v_fds # <<>> /\ v_fds[1] = Listening
    /\ \A i, j \in 1..Len(v_fds) : v_fds[i] = v_fds[j] => i = j
    /\ Listed \subseteq read_fds

\* A bit of test_fds is never taken for a descriptor it was not set for: only the
\* connection of a client that has closed is closed.
OnlyGoneAreClosed ==
    [][\A f \in Fds : owner[f] # NoClient /\ owner'[f] = NoClient => owner[f] \in closed]_vars

\* The scan goes over all descriptors: every client that is connected is in v_fds,
\* and the removal of one clears the descriptor of that one only.
EveryClientIsListed == Open \subseteq Listed

\* The client behind the descriptor at i is the first of v_fds that has closed.
FirstClosed(i) ==
    /\ i \in 2..Len(v_fds)
    /\ owner[v_fds[i]] \in closed
    /\ \A j \in 2..i - 1 : owner[v_fds[j]] \notin closed

\* Of the listed clients that have closed, the first one's connection is really closed,
\* not merely taken off the vector, unless a client in front of it closes as well or
\* the program ends.
FirstClosedIsRemoved ==
    \A c \in Clients :
        (\E i \in DOMAIN v_fds : FirstClosed(i) /\ owner[v_fds[i]] = c)
        ~> \/ ~Runs
           \/ \A f \in Fds : owner[f] # c
           \/ \E i, j \in DOMAIN v_fds : i < j /\ FirstClosed(i) /\ owner[v_fds[j]] = c

\* A connection is accepted unless the program ends, also while descriptors that
\* are no longer listed keep select from waiting.
BacklogServed ==
    \A c \in Clients : (\E i \in 1..Len(backlog) : backlog[i] = c)
                       ~> (\E f \in Fds : owner[f] = c) \/ ~Runs
===============================================================================
