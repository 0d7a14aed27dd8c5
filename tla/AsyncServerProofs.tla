--------------------------- MODULE AsyncServerProofs ---------------------------
(***************************************************************************)
(* The registry of the server is exact, and no connection is left without  *)
(* a read, for any number of connections and answers.                      *)
(***************************************************************************)
EXTENDS AsyncServer, SequenceTheorems, TLAPS

\* The connection that waits for an accept is as its constructor made it.  This
\* keeps on_accept from entering a connection twice, or one that is closed.
AcceptingFresh ==
    running /\ accepting # NoConn =>
        /\ sock[accepting] = "none" /\ connected[accepting]
        /\ reads[accepting] = 0 /\ writes[accepting] = 0

IInv == TypeOK /\ RegistryExact /\ NeverDeaf /\ AcceptingFresh

\* std::find and erase: c is gone, the others are still there, once each.
LEMMA Erased ==
    ASSUME TypeOK, NEW c \in Conns,
           \A i, j \in 1..Len(s_conns) : s_conns[i] = s_conns[j] => i = j
    PROVE  LET t == DeleteConn(c) IN
           /\ t \in Seq(Conns)
           /\ {t[i] : i \in 1..Len(t)} = Registered \ {c}
           /\ \A i, j \in 1..Len(t) : t[i] = t[j] => i = j
<1> DEFINE s == s_conns
           t == DeleteConn(c)
<1>1. s \in Seq(Conns) /\ Len(s) \in Nat
  BY DEF TypeOK
<1>2. CASE \E i \in 1..Len(s) : s[i] = c
  <2>1. PICK k \in 1..Len(s) : s[k] = c
    BY <1>2
  <2>2. {i \in 1..Len(s) : s[i] = c} = {k}
    BY <2>1
  <2>3. SelectInSeq(s, LAMBDA v : v = c) = k
    <3>1. Min({k}) = k
      BY <2>1 DEF Min
    <3>2. {k} # {}
      OBVIOUS
    <3> QED BY <2>2, <3>1, <3>2 DEF SelectInSeq
  <2>4. t = SubSeq(s, 1, k - 1) \o SubSeq(s, k + 1, Len(s))
    BY <1>2, <2>3 DEF DeleteConn, RemoveFirst, RemoveAt
  <2>5. /\ t \in Seq(Conns) /\ Len(t) = Len(s) - 1
        /\ \A i \in 1..Len(t) : t[i] = IF i < k THEN s[i] ELSE s[i + 1]
    <3> DEFINE a == SubSeq(s, 1, k - 1)
               b == SubSeq(s, k + 1, Len(s))
    <3>1. a \in Seq(Conns) /\ Len(a) = k - 1 /\ \A i \in 1..k - 1 : a[i] = s[i]
      BY <1>1, <2>1
    <3>2. /\ b \in Seq(Conns) /\ Len(b) = Len(s) - k
          /\ \A i \in 1..Len(s) - k : b[i] = s[k + i]
      BY <1>1, <2>1
    <3>3. t = a \o b
      BY <2>4
    <3> HIDE DEF a, b, s, t
    <3>4. /\ t \in Seq(Conns) /\ Len(t) = Len(s) - 1
          /\ \A i \in 1..Len(s) - 1 : t[i] = IF i <= k - 1 THEN a[i] ELSE b[i - (k - 1)]
      <4>1. /\ t \in Seq(Conns) /\ Len(t) = Len(a) + Len(b)
            /\ \A i \in 1..Len(a) + Len(b) :
                   t[i] = IF i <= Len(a) THEN a[i] ELSE b[i - Len(a)]
        BY <3>1, <3>2, <3>3, ConcatProperties, Zenon
      <4> QED BY <1>1, <2>1, <3>1, <3>2, <4>1
    <3>5. ASSUME NEW i \in 1..Len(s) - 1, ~(i < k)
          PROVE  i - (k - 1) \in 1..Len(s) - k /\ k + (i - (k - 1)) = i + 1
      BY <1>1, <2>1, <3>5
    <3> QED BY <1>1, <2>1, <3>1, <3>2, <3>4, <3>5
  <2> HIDE DEF t
  <2>6. \A i, j \in 1..Len(t) : t[i] = t[j] => i = j
    BY <1>1, <2>1, <2>5
  <2>7. {t[i] : i \in 1..Len(t)} = Registered \ {c}
    <3>1. ASSUME NEW i \in 1..Len(t) PROVE t[i] \in Registered /\ t[i] # c
      BY <1>1, <2>1, <2>5 DEF Registered
    <3>2. ASSUME NEW j \in 1..Len(s), s[j] # c PROVE \E i \in 1..Len(t) : t[i] = s[j]
      <4>1. CASE j < k
        <5>1. j \in 1..Len(t) /\ t[j] = s[j]
          BY <1>1, <2>1, <2>5, <4>1
        <5> QED BY <5>1
      <4>2. CASE j > k
        <5>1. j - 1 \in 1..Len(t) /\ t[j - 1] = s[j]
          BY <1>1, <2>1, <2>5, <4>2
        <5> QED BY <5>1
      <4> QED BY <1>1, <2>1, <3>2, <4>1, <4>2
    <3> QED BY <3>1, <3>2 DEF Registered
  <2> QED BY <2>5, <2>6, <2>7 DEF t
<1>3. CASE ~\E i \in 1..Len(s) : s[i] = c
  <2>1. t = s
    BY <1>3 DEF DeleteConn, RemoveFirst
  <2> QED BY <1>1, <1>3, <2>1 DEF Registered
<1> QED BY <1>2, <1>3

\* on_accept: a connection that was not there is entered at the end.
LEMMA Entered ==
    ASSUME TypeOK, NEW c \in Conns, c \notin Registered,
           \A i, j \in 1..Len(s_conns) : s_conns[i] = s_conns[j] => i = j
    PROVE  LET t == Register(c) IN
           /\ t \in Seq(Conns)
           /\ {t[i] : i \in 1..Len(t)} = Registered \cup {c}
           /\ \A i, j \in 1..Len(t) : t[i] = t[j] => i = j
<1> DEFINE s == s_conns
           t == Register(c)
<1>1. s \in Seq(Conns) /\ Len(s) \in Nat
  BY DEF TypeOK
<1>2. /\ t \in Seq(Conns) /\ Len(t) = Len(s) + 1
      /\ \A i \in 1..Len(s) : t[i] = s[i]
      /\ t[Len(s) + 1] = c
  BY <1>1 DEF Register
<1> HIDE DEF t
<1>3. \A i \in 1..Len(s) : s[i] # c
  BY DEF Registered
<1>4. \A i, j \in 1..Len(t) : t[i] = t[j] => i = j
  BY <1>1, <1>2, <1>3
<1>5. {t[i] : i \in 1..Len(t)} = Registered \cup {c}
  <2>1. ASSUME NEW i \in 1..Len(t) PROVE t[i] \in Registered \cup {c}
    BY <1>1, <1>2 DEF Registered
  <2>2. ASSUME NEW i \in 1..Len(s) PROVE s[i] \in {t[j] : j \in 1..Len(t)}
    <3>1. i \in 1..Len(t) /\ t[i] = s[i]
      BY <1>1, <1>2
    <3> QED BY <3>1
  <2>3. c \in {t[j] : j \in 1..Len(t)}
    BY <1>1, <1>2
  <2> QED BY <2>1, <2>2, <2>3 DEF Registered
<1> QED BY <1>2, <1>4, <1>5 DEF t

\* The state AsyncServer::start leaves.
LEMMA InitInv == ASSUME Init PROVE IInv
<1>1. TypeOK
  BY AsyncServerAssumption DEF Init, TypeOK, SocketStates
<1>2. Registered = {} /\ Len(s_conns) = 0
  BY DEF Init, Registered
<1>3. RegistryExact
  BY <1>2 DEF Init, RegistryExact
<1>4. NeverDeaf /\ AcceptingFresh
  BY <1>2 DEF Init, NeverDeaf, AcceptingFresh
<1> QED BY <1>1, <1>3, <1>4 DEF IInv

\* close either erases the connection and closes its socket, or ends the program.
LEMMA CloseEffect ==
    ASSUME IInv, running, NEW c \in Conns, Close(c)
    PROVE  /\ connected' = [connected EXCEPT ![c] = FALSE]
           /\ running' \in BOOLEAN
           /\ sock' \in [Conns -> SocketStates] /\ s_conns' \in Seq(Conns)
           /\ running' =>
                /\ sock' = [sock EXCEPT ![c] = "closed"]
                /\ Registered' = Registered \ {c}
                /\ \A i, j \in 1..Len(s_conns') : s_conns'[i] = s_conns'[j] => i = j
<1>1. CASE EndpointKnown(c)
  <2>1. s_conns' = DeleteConn(c) /\ sock' = [sock EXCEPT ![c] = "closed"] /\ running' = running
    BY <1>1 DEF Close
  <2>2. \A i, j \in 1..Len(s_conns) : s_conns[i] = s_conns[j] => i = j
    BY DEF IInv, RegistryExact
  <2>3. /\ s_conns' \in Seq(Conns)
        /\ {s_conns'[i] : i \in 1..Len(s_conns')} = Registered \ {c}
        /\ \A i, j \in 1..Len(s_conns') : s_conns'[i] = s_conns'[j] => i = j
    BY <2>1, <2>2, Erased DEF IInv
  <2>4. sock' \in [Conns -> SocketStates]
    BY <2>1 DEF IInv, TypeOK, SocketStates
  <2>5. Registered' = Registered \ {c}
    BY <2>3 DEF Registered
  <2> QED BY <2>1, <2>3, <2>4, <2>5 DEF Close, IInv, TypeOK
<1>2. CASE ~EndpointKnown(c)
  BY <1>2 DEF Close, Terminate, IInv, TypeOK
<1> QED BY <1>1, <1>2

\* Steps that touch neither the registry nor the life of a connection.
LEMMA QuietStep ==
    ASSUME IInv, TypeOK', running' => running,
           UNCHANGED <<s_conns, connected>>,
           accepting' = accepting \/ accepting' = NoConn,
           running' => /\ \A d \in Conns : sock'[d] = sock[d] \/
                                (sock[d] \in {"open", "eof"} /\ sock'[d] \in {"eof", "reset"})
                       /\ \A d \in Registered : reads'[d] = reads[d]
                       /\ accepting # NoConn => /\ reads'[accepting] = reads[accepting]
                                                /\ writes'[accepting] = writes[accepting]
    PROVE  IInv'
<1>1. Registered' = Registered
  BY DEF Registered
<1>2. RegistryExact'
  <2> SUFFICES ASSUME running' PROVE RegistryExact'
    BY DEF RegistryExact
  <2>1. {d \in Conns : sock'[d] \in {"open", "eof", "reset"}}
        = {d \in Conns : sock[d] \in {"open", "eof", "reset"}}
    OBVIOUS
  <2> QED BY <1>1, <2>1 DEF IInv, RegistryExact
<1>3. NeverDeaf'
  BY <1>1 DEF IInv, NeverDeaf
<1>4. AcceptingFresh'
  <2> SUFFICES ASSUME running', accepting' # NoConn PROVE AcceptingFresh'
    BY DEF AcceptingFresh
  <2>1. accepting' = accepting /\ accepting \in Conns
    BY DEF IInv, TypeOK
  <2>2. sock'[accepting] = "none"
    BY <2>1 DEF IInv, AcceptingFresh
  <2> QED BY <2>1, <2>2 DEF IInv, AcceptingFresh
<1> QED BY <1>2, <1>3, <1>4 DEF IInv

\* Steps that close c, with or without one of its reads or writes completing.
LEMMA CloseStep ==
    ASSUME IInv, running, NEW c \in Conns, Close(c), c # accepting, accepting' = accepting,
           started' = started,
           reads' \in [Conns -> 0..1], writes' \in [Conns -> 0..MaxWrites],
           \A d \in Conns \ {c} : reads'[d] = reads[d] /\ writes'[d] = writes[d]
    PROVE  IInv'
<1> USE CloseEffect
<1>1. TypeOK'
  BY DEF IInv, TypeOK
<1>2. RegistryExact'
  <2> SUFFICES ASSUME running' PROVE RegistryExact'
    BY DEF RegistryExact
  <2>1. Registered = {d \in Conns : sock[d] \in {"open", "eof", "reset"}}
    BY DEF IInv, RegistryExact
  <2>2. Registered' = {d \in Conns : sock'[d] \in {"open", "eof", "reset"}}
    BY <2>1 DEF IInv, TypeOK
  <2>3. \A d \in Registered' : connected'[d]
    BY <2>1 DEF IInv, RegistryExact, TypeOK
  <2> QED BY <2>2, <2>3 DEF RegistryExact
<1>3. NeverDeaf'
  <2> SUFFICES ASSUME running' PROVE NeverDeaf'
    BY DEF NeverDeaf
  <2>1. Registered \subseteq Conns
    BY DEF IInv, RegistryExact
  <2> QED BY <2>1 DEF IInv, NeverDeaf
<1>4. AcceptingFresh'
  <2> SUFFICES ASSUME running', accepting # NoConn PROVE AcceptingFresh'
    BY DEF AcceptingFresh
  <2>1. accepting \in Conns
    BY DEF IInv, TypeOK
  <2> QED BY <2>1 DEF IInv, AcceptingFresh, TypeOK
<1> QED BY <1>1, <1>2, <1>3, <1>4 DEF IInv

\* Every step keeps the invariant.
LEMMA StepInv == ASSUME IInv, [Next]_vars PROVE IInv'
<1> USE DEF IInv
<1>1. CASE UNCHANGED vars
  BY <1>1 DEF vars, TypeOK, RegistryExact, NeverDeaf, AcceptingFresh, Registered
<1>2. CASE OnAcceptFails
  <2>1. TypeOK'
    BY <1>2 DEF OnAcceptFails, TypeOK
  <2> QED BY <1>2, <2>1, QuietStep DEF OnAcceptFails
<1>3. CASE Stop
  <2>1. TypeOK'
    BY <1>3, Zenon DEF Stop, TypeOK
  <2> QED BY <1>3, <2>1, QuietStep DEF Stop
<1>4. ASSUME NEW c \in Conns, PeerCloses(c) \/ PeerResets(c) PROVE IInv'
  <2>1. TypeOK'
    BY <1>4 DEF PeerCloses, PeerResets, EndpointKnown, TypeOK, SocketStates
  <2>2. \A d \in Conns : sock'[d] = sock[d] \/
            (sock[d] \in {"open", "eof"} /\ sock'[d] \in {"eof", "reset"})
    BY <1>4 DEF PeerCloses, PeerResets, EndpointKnown, TypeOK
  <2> QED BY <1>4, <2>1, <2>2, QuietStep DEF PeerCloses, PeerResets
<1>5. ASSUME NEW c \in Conns, NEW answers \in 0..MaxWrites, OnRead(c, answers) PROVE IInv'
  <2>1. c # accepting
    BY <1>5, AsyncServerAssumption DEF OnRead, AcceptingFresh
  <2>2. TypeOK'
    <3>1. UNCHANGED <<running, started, accepting, sock, connected, s_conns>>
      BY <1>5 DEF OnRead
    <3>2. reads' \in [Conns -> 0..1]
      BY <1>5 DEF OnRead, DoRead, TypeOK
    <3>3. writes' \in [Conns -> 0..MaxWrites]
      BY <1>5, AsyncServerAssumption DEF OnRead, TypeOK
    <3> QED BY <3>1, <3>2, <3>3, Zenon DEF TypeOK
  <2>3. \A d \in Registered : reads'[d] = reads[d]
    <3>1. connected[c] => reads' = reads
      BY <1>5 DEF OnRead, DoRead
    <3>2. ~connected[c] => c \notin Registered
      BY <1>5, Zenon DEF OnRead, RegistryExact
    <3>3. Registered \subseteq Conns
      BY <1>5 DEF OnRead, RegistryExact
    <3>4. ~connected[c] => \A d \in Conns : d # c => reads'[d] = reads[d]
      BY <1>5 DEF OnRead, TypeOK
    <3> QED BY <3>1, <3>2, <3>3, <3>4
  <2>4. accepting # NoConn => /\ reads'[accepting] = reads[accepting]
                              /\ writes'[accepting] = writes[accepting]
    BY <1>5, <2>1 DEF OnRead, DoRead, TypeOK
  <2> QED BY <1>5, <2>2, <2>3, <2>4, QuietStep DEF OnRead
<1>6. ASSUME NEW c \in Conns, OnReadError(c) PROVE IInv'
  <2>1. c # accepting
    BY <1>6, AsyncServerAssumption DEF OnReadError, AcceptingFresh
  <2>2. /\ reads' \in [Conns -> 0..1] /\ writes' \in [Conns -> 0..MaxWrites]
        /\ \A d \in Conns \ {c} : reads'[d] = reads[d] /\ writes'[d] = writes[d]
    BY <1>6 DEF OnReadError, TypeOK
  <2> QED BY <1>6, <2>1, <2>2, CloseStep DEF OnReadError
<1>7. ASSUME NEW c \in Conns, OnWrite(c) PROVE IInv'
  <2>1. c # accepting
    BY <1>7, AsyncServerAssumption DEF OnWrite, AcceptingFresh
  <2>2. TypeOK'
    <3>1. UNCHANGED <<started, accepting, connected, reads, sock, s_conns>>
      BY <1>7 DEF OnWrite, Terminate
    <3>2. running' \in BOOLEAN
      BY <1>7 DEF OnWrite, Terminate, TypeOK
    <3>3. writes' \in [Conns -> 0..MaxWrites]
      BY <1>7, AsyncServerAssumption DEF OnWrite, TypeOK
    <3> QED BY <3>1, <3>2, <3>3, Zenon DEF TypeOK
  <2>3. accepting # NoConn => writes'[accepting] = writes[accepting]
    BY <1>7, <2>1 DEF OnWrite, TypeOK
  <2> QED BY <1>7, <2>2, <2>3, QuietStep DEF OnWrite, Terminate
<1>8. ASSUME NEW c \in Conns, OnWriteError(c) PROVE IInv'
  <2>1. c # accepting
    BY <1>8, AsyncServerAssumption DEF OnWriteError, AcceptingFresh
  <2>2. /\ reads' \in [Conns -> 0..1] /\ writes' \in [Conns -> 0..MaxWrites]
        /\ \A d \in Conns \ {c} : reads'[d] = reads[d] /\ writes'[d] = writes[d]
    BY <1>8, AsyncServerAssumption DEF OnWriteError, TypeOK
  <2> QED BY <1>8, <2>1, <2>2, CloseStep DEF OnWriteError
<1>9. ASSUME NEW c \in Conns, NEW next \in Conns, OnAccept(c, next) PROVE IInv'
  <2>1. /\ running /\ accepting = c /\ c # NoConn /\ next # c
        /\ next \notin Registered /\ reads[next] = 0 /\ writes[next] = 0
        /\ s_conns' = Register(c) /\ accepting' = next
        /\ sock' = [sock EXCEPT ![c] = "open", ![next] = "none"]
        /\ reads' = [reads EXCEPT ![c] = 1] /\ writes' = writes
        /\ connected' = [connected EXCEPT ![next] = TRUE]
    BY <1>9, AsyncServerAssumption DEF OnAccept, Free
  <2>2. Registered = {d \in Conns : sock[d] \in {"open", "eof", "reset"}}
    BY <2>1 DEF RegistryExact
  <2>3. c \notin Registered /\ connected[c]
    BY <2>1, <2>2 DEF AcceptingFresh
  <2>4. \A i, j \in 1..Len(s_conns) : s_conns[i] = s_conns[j] => i = j
    BY <2>1 DEF RegistryExact
  <2>5. /\ s_conns' \in Seq(Conns)
        /\ {s_conns'[i] : i \in 1..Len(s_conns')} = Registered \cup {c}
        /\ \A i, j \in 1..Len(s_conns') : s_conns'[i] = s_conns'[j] => i = j
    <3>1. s_conns' = Register(c) /\ TypeOK
      BY <2>1
    <3> QED BY <2>3, <2>4, <3>1, Entered
  <2>6. Registered' = Registered \cup {c}
    BY <2>5 DEF Registered
  <2>7. TypeOK'
    <3>1. UNCHANGED <<running, started>> /\ accepting' \in Conns
      BY <1>9 DEF OnAccept
    <3>2. sock' \in [Conns -> SocketStates] /\ reads' \in [Conns -> 0..1]
      BY <2>1 DEF TypeOK, SocketStates
    <3>3. connected' \in [Conns -> BOOLEAN] /\ writes' \in [Conns -> 0..MaxWrites]
      BY <2>1 DEF TypeOK
    <3>4. s_conns' \in Seq(Conns)
      BY <2>5
    <3> QED BY <3>1, <3>2, <3>3, <3>4, Zenon DEF TypeOK
  <2>8. RegistryExact'
    <3>1. Registered' = {d \in Conns : sock'[d] \in {"open", "eof", "reset"}}
      BY <2>1, <2>2, <2>6 DEF TypeOK
    <3>2. \A d \in Registered' : connected'[d]
      BY <2>1, <2>2, <2>3, <2>6 DEF RegistryExact, TypeOK
    <3> QED BY <2>5, <3>1, <3>2 DEF RegistryExact
  <2>9. NeverDeaf'
    BY <2>1, <2>2, <2>6 DEF NeverDeaf, TypeOK
  <2>10. AcceptingFresh'
    BY <2>1 DEF AcceptingFresh, TypeOK
  <2> QED BY <2>7, <2>8, <2>9, <2>10
<1> QED BY <1>1, <1>2, <1>3, <1>4, <1>5, <1>6, <1>7, <1>8, <1>9 DEF Next, Handler

\* The inductive invariant holds in every reachable state.
LEMMA InvHolds == Spec => []IInv
<1>1. Init => IInv
  BY InitInv
<1>2. IInv /\ [Next]_vars => IInv'
  BY StepInv
<1> QED BY <1>1, <1>2, PTL DEF Spec

\* The types hold, so on_read and do_read never put two reads on one buffer.
THEOREM TypeCorrect == Spec => []TypeOK
<1>1. IInv => TypeOK
  BY DEF IInv
<1> QED BY <1>1, InvHolds, PTL

\* on_accept, close and deleteConn keep the registry exact: while the server
\* runs, s_conns has the connections with a live socket, once each, and no other.
THEOREM RegistryIsExact == Spec => []RegistryExact
<1>1. IInv => RegistryExact
  BY DEF IInv
<1> QED BY <1>1, InvHolds, PTL

\* on_read and do_read never leave a registered connection without a read.
THEOREM NoConnectionGoesDeaf == Spec => []NeverDeaf
<1>1. IInv => NeverDeaf
  BY DEF IInv
<1> QED BY <1>1, InvHolds, PTL
===============================================================================
