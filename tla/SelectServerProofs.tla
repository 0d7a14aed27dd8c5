-------------------------- MODULE SelectServerProofs --------------------------
(***************************************************************************)
(* Safety of SelectServer for any clients and descriptors.                 *)
(***************************************************************************)
EXTENDS SelectServer, TLAPS, WellFoundedInduction

\* What the scan has still to look at is readable if its bit is set: nothing has
\* made the copy select left stale.
ScanFresh ==
    idx >= 0 => \A i \in 1..Len(v_fds) : i > idx /\ v_fds[i] \in test_fds => Readable(v_fds[i])

\* Until the listening socket has been looked at no descriptor has been closed.
TestWatched == idx = 0 => test_fds \subseteq read_fds

IInv ==
    /\ TypeOK
    /\ WatchedAreOpen
    /\ VectorSound
    /\ ScanFresh
    /\ TestWatched

Descriptors == Fds \cup {Listening}

\* The last element of a sequence that has been appended to, and the others.
LEMMA Appended ==
    ASSUME NEW S, NEW s \in Seq(S), NEW e \in S
    PROVE  /\ Append(s, e) \in Seq(S)
           /\ Len(Append(s, e)) = Len(s) + 1
           /\ \A i \in 1..Len(s) : Append(s, e)[i] = s[i]
           /\ Append(s, e)[Len(s) + 1] = e
  OBVIOUS

\* The first n elements of a sequence.
LEMMA Prefix ==
    ASSUME NEW S, NEW s \in Seq(S), NEW n \in Nat, n <= Len(s)
    PROVE  /\ SubSeq(s, 1, n) \in Seq(S)
           /\ Len(SubSeq(s, 1, n)) = n
           /\ \A i \in 1..n : SubSeq(s, 1, n)[i] = s[i]
  OBVIOUS

LEMMA InitIInv == Init => IInv
  <1> SUFFICES ASSUME Init PROVE IInv
    OBVIOUS
  <1> USE DEF Init
  <1>1. TypeOK
    <2>1. <<>> \in Seq(Clients) /\ <<Listening>> \in Seq(Descriptors) /\ Len(<<Listening>>) = 1
      BY DEF Descriptors
    <2>2. owner \in [Fds -> Clients \cup {NoClient}]
      OBVIOUS
    <2> QED
      BY <2>1, <2>2 DEF TypeOK, Descriptors
  <1>2. WatchedAreOpen
    BY DEF WatchedAreOpen, Open
  <1>3. VectorSound
    BY DEF VectorSound, Listed
  <1> QED
    BY <1>1, <1>2, <1>3 DEF IInv, ScanFresh, TestWatched

\* The scan stands on an index of the vector, and on a descriptor that is readable.
LEMMA AtFact ==
    ASSUME IInv, NEW f, At(f)
    PROVE  /\ Runs /\ idx \in Nat /\ idx + 1 \in 1..Len(v_fds)
           /\ f = v_fds[idx + 1] /\ f \in read_fds
           /\ Readable(f)
           /\ f = Listening <=> idx = 0
  <1>1. Runs /\ idx \in Nat /\ idx + 1 \in 1..Len(v_fds) /\ f = v_fds[idx + 1] /\ f \in test_fds
    BY DEF IInv, TypeOK, At, Scanning
  <1>2. Readable(f)
    BY <1>1 DEF IInv, ScanFresh
  <1>3. f \in read_fds
    BY <1>1 DEF IInv, VectorSound, Listed
  <1>4. 1 \in 1..Len(v_fds) /\ v_fds[1] = Listening
    BY <1>1 DEF IInv, VectorSound
  <1>5. f = Listening <=> idx = 0
    BY <1>1, <1>4 DEF IInv, VectorSound
  <1> QED
    BY <1>1, <1>2, <1>3, <1>5

LEMMA ClientStep ==
    ASSUME IInv, NEW c \in Clients, Connect(c) \/ Send(c) \/ CloseEnd(c)
    PROVE  IInv'
  <1>t. TypeOK
    BY DEF IInv
  <1>1. TypeOK'
    <2>1. CASE Connect(c)
      <3>1. backlog' \in Seq(Clients) /\ came' \subseteq Clients /\ came \subseteq came'
        BY <2>1, <1>t DEF TypeOK, Connect
      <3> QED
        BY <2>1, <3>1, <1>t DEF TypeOK, Connect
    <2>2. CASE Send(c)
      BY <2>2, <1>t DEF TypeOK, Send
    <2>3. CASE CloseEnd(c)
      BY <2>3, <1>t DEF TypeOK, CloseEnd
    <2> QED
      BY <2>1, <2>2, <2>3
  <1>2. UNCHANGED <<owner, v_fds, read_fds, test_fds, idx>>
    BY DEF Connect, Send, CloseEnd
  <1>3. sent \subseteq sent' /\ closed \subseteq closed' /\ (backlog # <<>> => backlog' # <<>>)
    <2>1. ASSUME Connect(c) PROVE backlog' # <<>>
      BY <2>1, <1>t DEF Connect, TypeOK
    <2> QED
      BY <2>1 DEF Connect, Send, CloseEnd
  <1>4. \A f : Readable(f) => Readable(f)'
    BY <1>2, <1>3 DEF Readable
  <1>5. ScanFresh'
    BY <1>2, <1>4 DEF IInv, ScanFresh
  <1> QED
    BY <1>1, <1>2, <1>5 DEF IInv, WatchedAreOpen, Open, VectorSound, Listed, TestWatched

LEMMA SelectStep == IInv /\ Select => IInv'
  <1> SUFFICES ASSUME IInv, Select PROVE IInv'
    OBVIOUS
  <1>1. TypeOK'
    BY DEF IInv, TypeOK, Select, Ready, peers, FirstIndex
  <1>2. \A f : Readable(f)' = Readable(f)
    BY DEF Select, Readable, peers
  <1>3. ScanFresh' /\ TestWatched'
    BY <1>2 DEF Select, ScanFresh, TestWatched, Ready
  <1> QED
    BY <1>1, <1>3 DEF IInv, WatchedAreOpen, Open, VectorSound, Listed, Select

\* Skip, EndOfScan, Receive and the two failures touch nothing but idx and server.
LEMMA IdleStep ==
    ASSUME IInv, Skip \/ EndOfScan \/ AcceptFails \/ SelectFails \/ \E f \in Fds : Receive(f)
    PROVE  IInv'
  <1>1. /\ UNCHANGED <<backlog, came, sent, closed, owner, v_fds, read_fds, test_fds>>
        /\ \/ idx \in Nat /\ idx < Len(v_fds) /\ idx' = idx + 1
           \/ idx' = -1
           \/ idx' = idx
        /\ server' \in {"runs", "exited", "terminated"}
    BY DEF IInv, TypeOK, Skip, EndOfScan, AcceptFails, SelectFails, Receive, peers, Scanning, Runs, AfterScan
  <1>2. TypeOK'
    BY <1>1 DEF IInv, TypeOK
  <1>3. \A f : Readable(f)' = Readable(f)
    BY <1>1 DEF Readable
  <1>4. ScanFresh'
    BY <1>1, <1>3 DEF IInv, TypeOK, ScanFresh
  <1>5. TestWatched'
    BY <1>1 DEF IInv, TypeOK, TestWatched
  <1> QED
    BY <1>1, <1>2, <1>4, <1>5 DEF IInv, WatchedAreOpen, Open, VectorSound, Listed

LEMMA AcceptStep ==
    ASSUME IInv, NEW f \in Fds, Accept(f)
    PROVE  IInv'
  <1>t. TypeOK /\ WatchedAreOpen /\ VectorSound /\ ScanFresh /\ TestWatched
    BY DEF IInv
  <1>1. idx = 0 /\ backlog # <<>>
    BY AtFact DEF Accept, Readable
  <1>2. f \notin read_fds /\ f \notin test_fds /\ f # Listening
    BY <1>1, <1>t, SelectAssumption DEF Accept, WatchedAreOpen, Open, TestWatched
  <1>3. Head(backlog) \in Clients /\ Tail(backlog) \in Seq(Clients)
    BY <1>1, <1>t DEF TypeOK
  <1>4. /\ v_fds' \in Seq(Descriptors) /\ Len(v_fds') = Len(v_fds) + 1
        /\ \A i \in 1..Len(v_fds) : v_fds'[i] = v_fds[i]
        /\ v_fds'[Len(v_fds) + 1] = f
    BY <1>t, Appended DEF Accept, Listing, TypeOK, Descriptors
  <1>5. Len(v_fds) \in Nat /\ Len(v_fds) >= 1
    BY <1>t DEF TypeOK, VectorSound
  <1>6. TypeOK'
    BY <1>1, <1>3, <1>4, <1>5, <1>t DEF TypeOK, Accept, Watched, peers, Descriptors
  <1>7. WatchedAreOpen'
    <2>1. Head(backlog) # NoClient
      BY <1>3, SelectAssumption
    <2>2. Open' = Open \cup {f}
      BY <2>1, <1>t DEF Open, Accept, TypeOK
    <2> QED
      BY <2>2, <1>t DEF WatchedAreOpen, Accept, Watched
  <1>8. VectorSound'
    <2>1. \A i \in 1..Len(v_fds) : v_fds[i] \in read_fds /\ v_fds[i] # f
      BY <1>t, <1>2 DEF VectorSound, Listed
    <2>2. \A i, j \in 1..(Len(v_fds) + 1) : v_fds'[i] = v_fds'[j] => i = j
      BY <2>1, <1>t, <1>4, <1>5 DEF VectorSound
    <2>3. Listed' \subseteq read_fds'
      BY <2>1, <1>4, <1>5 DEF Listed, Accept, Watched
    <2>4. v_fds' # <<>> /\ v_fds'[1] = Listening
      BY <1>t, <1>4, <1>5 DEF VectorSound
    <2> QED
      BY <2>2, <2>3, <2>4, <1>4 DEF VectorSound
  <1>9. ScanFresh'
    <2> SUFFICES ASSUME NEW i \in 1..Len(v_fds'), i > 1, v_fds'[i] \in test_fds
                 PROVE  IF v_fds'[i] = Listening THEN backlog' # <<>>
                        ELSE owner'[v_fds'[i]] \in sent' \cup closed'
      BY <1>1 DEF ScanFresh, Accept, Readable
    <2>1. i \in 1..Len(v_fds) /\ v_fds'[i] = v_fds[i]
      BY <1>2, <1>4, <1>5
    <2>2. Readable(v_fds[i])
      BY <2>1, <1>1, <1>t DEF ScanFresh
    <2>3. v_fds[i] # Listening /\ v_fds[i] # f
      BY <2>1, <1>2, <1>5, <1>t DEF VectorSound
    <2>4. v_fds[i] \in Fds
      BY <2>1, <2>3, <1>t DEF TypeOK
    <2>5. owner'[v_fds[i]] = owner[v_fds[i]]
      BY <2>3, <2>4, <1>t DEF Accept, TypeOK
    <2> QED
      BY <2>1, <2>2, <2>3, <2>5 DEF Readable, Accept, peers
  <1>10. TestWatched'
    BY <1>1 DEF TestWatched, Accept
  <1> QED
    BY <1>6, <1>7, <1>8, <1>9, <1>10 DEF IInv

-------------------------------------------------------------------------------
(***************************************************************************)
(* The loop that erases from v_fds while it goes over it.                  *)
(***************************************************************************)
\* The descriptors in front of the one that is removed.
Kept == SubSeq(v_fds, 1, idx)

\* What holds of the vector and the iterator before every turn of the loop: the
\* descriptors in front of idx are as they were and occur nowhere behind it, and
\* the iterator stops at idx, where it stays until the vector ends there.
EraseLoopInv(v, iter) ==
    /\ v \in Seq(Descriptors) /\ iter \in 1..idx + 1
    /\ Len(v) >= idx
    /\ Len(v) = idx => iter = idx + 1
    /\ \A k \in 1..idx : v[k] = v_fds[k]
    /\ \A k \in 1..idx, j \in idx + 1..Len(v) : v[k] # v[j]

\* The elements of a concatenation.
LEMMA Joined ==
    ASSUME NEW S, NEW a \in Seq(S), NEW b \in Seq(S)
    PROVE  /\ a \o b \in Seq(S) /\ Len(a \o b) = Len(a) + Len(b)
           /\ \A k \in 1..Len(a) : (a \o b)[k] = a[k]
           /\ \A k \in 1..Len(b) : (a \o b)[Len(a) + k] = b[k]
  OBVIOUS

\* vector::erase closes the gap.
LEMMA Removed ==
    ASSUME NEW S, NEW v \in Seq(S), NEW i \in 1..Len(v)
    PROVE  /\ RemoveAt(v, i) \in Seq(S)
           /\ Len(RemoveAt(v, i)) = Len(v) - 1
           /\ \A k \in 1..Len(v) - 1 : RemoveAt(v, i)[k] = IF k < i THEN v[k] ELSE v[k + 1]
  <1> DEFINE a == SubSeq(v, 1, i - 1)
             b == SubSeq(v, i + 1, Len(v))
  <1>1. /\ a \in Seq(S) /\ Len(a) = i - 1 /\ \A k \in 1..i - 1 : a[k] = v[k]
    OBVIOUS
  <1>2. /\ b \in Seq(S) /\ Len(b) = Len(v) - i /\ \A k \in 1..Len(v) - i : b[k] = v[i + k]
    OBVIOUS
  <1>3. Len(v) \in Nat /\ i \in Int
    OBVIOUS
  <1> HIDE DEF a, b
  <1>4. /\ a \o b \in Seq(S) /\ Len(a \o b) = Len(a) + Len(b)
        /\ \A k \in 1..Len(a) : (a \o b)[k] = a[k]
        /\ \A k \in 1..Len(b) : (a \o b)[Len(a) + k] = b[k]
    <2>1. a \in Seq(S) /\ b \in Seq(S)
      BY <1>1, <1>2
    <2> QED
      BY <2>1, Joined
  <1>5. ASSUME NEW k \in i..Len(v) - 1 PROVE (a \o b)[k] = v[k + 1]
    <2>1. /\ k - (i - 1) \in 1..Len(b) /\ i + (k - (i - 1)) = k + 1
          /\ Len(a) + (k - (i - 1)) = k
      BY <1>1, <1>2, <1>3
    <2>2. b[k - (i - 1)] = v[i + (k - (i - 1))]
      BY <1>2, <2>1
    <2>3. (a \o b)[Len(a) + (k - (i - 1))] = b[k - (i - 1)]
      BY <1>4, <2>1
    <2> QED
      BY <2>1, <2>2, <2>3
  <1>6. \A k \in 1..Len(v) - 1 :
            (k < i => k \in 1..Len(a)) /\ (~(k < i) => k \in i..Len(v) - 1)
    BY <1>1, <1>3
  <1>7. Len(a) + Len(b) = Len(v) - 1
    BY <1>1, <1>2, <1>3
  <1>8. RemoveAt(v, i) = a \o b
    BY DEF RemoveAt, a, b
  <1> QED
    BY <1>1, <1>4, <1>5, <1>6, <1>7, <1>8

\* Where a client is removed, for a vector of any length: every turn of the loop
\* finds v_fds[idx] inside the vector and brings the iterator one step closer to
\* its end, and when they meet, the removed client and all behind it are gone.
LEMMA EraseLoopCuts ==
    ASSUME IInv, NEW f \in Fds, At(f)
    PROVE  /\ EraseLoopInv(v_fds, 1)
           /\ \A v \in Seq(Descriptors), iter \in Nat :
                 EraseLoopInv(v, iter) /\ iter <= Len(v) =>
                     LET turn == EraseTurn(v, iter)
                     IN  /\ idx + 1 \in 1..Len(v)
                         /\ EraseLoopInv(turn[1], turn[2])
                         /\ Len(turn[1]) - turn[2] = Len(v) - iter - 1
           /\ \A v \in Seq(Descriptors), iter \in Nat :
                 EraseLoopInv(v, iter) /\ iter > Len(v) => v = Kept
  <1>1. idx \in Nat /\ idx + 1 \in 1..Len(v_fds) /\ v_fds \in Seq(Descriptors)
    BY AtFact DEF IInv, TypeOK, Descriptors
  <1>2. EraseLoopInv(v_fds, 1)
    <2>1. \A k \in 1..idx, j \in idx + 1..Len(v_fds) : v_fds[k] # v_fds[j]
      BY <1>1 DEF IInv, VectorSound
    <2>2. Len(v_fds) >= idx /\ Len(v_fds) # idx /\ 1 \in 1..idx + 1
      BY <1>1
    <2> QED
      BY <1>1, <2>1, <2>2 DEF EraseLoopInv
  <1>3. ASSUME NEW v \in Seq(Descriptors), NEW iter \in Nat,
               EraseLoopInv(v, iter), iter <= Len(v)
        PROVE  /\ idx + 1 \in 1..Len(v)
               /\ EraseLoopInv(EraseTurn(v, iter)[1], EraseTurn(v, iter)[2])
               /\ Len(EraseTurn(v, iter)[1]) - EraseTurn(v, iter)[2] = Len(v) - iter - 1
    <2>1. idx + 1 \in 1..Len(v) /\ iter \in 1..idx + 1 /\ iter \in 1..Len(v) /\ Len(v) \in Nat
      BY <1>1, <1>3 DEF EraseLoopInv
    <2>2. CASE iter \in 1..idx
      <3>1. v[iter] # v[idx + 1]
        BY <1>3, <2>1, <2>2 DEF EraseLoopInv
      <3>2. EraseTurn(v, iter)[1] = v /\ EraseTurn(v, iter)[2] = iter + 1
        BY <3>1 DEF EraseTurn
      <3>3. EraseLoopInv(v, iter + 1)
        BY <1>1, <1>3, <2>1, <2>2 DEF EraseLoopInv
      <3> QED
        BY <2>1, <3>2, <3>3
    <2>3. CASE iter = idx + 1
      <3> DEFINE r == RemoveAt(v, iter)
      <3>1. EraseTurn(v, iter)[1] = r /\ EraseTurn(v, iter)[2] = iter
        BY <2>3 DEF EraseTurn
      <3>2. /\ r \in Seq(Descriptors) /\ Len(r) = Len(v) - 1
            /\ \A k \in 1..Len(v) - 1 : r[k] = IF k < iter THEN v[k] ELSE v[k + 1]
        BY <2>1, Removed
      <3> HIDE DEF r
      <3>3. \A k \in 1..idx : r[k] = v[k] /\ v[k] = v_fds[k]
        BY <1>1, <1>3, <2>1, <2>3, <3>2 DEF EraseLoopInv
      <3>4. \A j \in idx + 1..Len(r) : r[j] = v[j + 1] /\ j + 1 \in idx + 1..Len(v)
        BY <1>1, <2>1, <2>3, <3>2
      <3>5. \A k \in 1..idx, j \in idx + 1..Len(r) : r[k] # r[j]
        BY <1>3, <3>3, <3>4 DEF EraseLoopInv
      <3>6. EraseLoopInv(r, iter)
        BY <1>1, <2>1, <2>3, <3>2, <3>3, <3>5 DEF EraseLoopInv
      <3> QED
        BY <2>1, <3>1, <3>2, <3>6
    <2> QED
      BY <1>1, <2>1, <2>2, <2>3
  <1>4. ASSUME NEW v \in Seq(Descriptors), NEW iter \in Nat,
               EraseLoopInv(v, iter), iter > Len(v)
        PROVE  v = Kept
    <2>1. Len(v) = idx /\ \A k \in 1..idx : v[k] = v_fds[k]
      BY <1>1, <1>4 DEF EraseLoopInv
    <2>2. /\ Kept \in Seq(Descriptors) /\ Len(Kept) = idx
          /\ \A k \in 1..idx : Kept[k] = v_fds[k]
      BY <1>1, Prefix DEF Kept
    <2> QED
      BY <2>1, <2>2
  <1> QED
    BY <1>2, <1>3, <1>4

-------------------------------------------------------------------------------
(***************************************************************************)
(* The whole run of the loop.                                              *)
(***************************************************************************)
\* A set of naturals that holds 0 and the successor of each of its members holds
\* them all.
LEMMA NatSet ==
    ASSUME NEW S, 0 \in S, \A m \in Nat : m \in S => m + 1 \in S
    PROVE  Nat \subseteq S
  <1> DEFINE T == Nat \ S
             R == OpToRel(<, Nat)
  <1> SUFFICES ASSUME T # {} PROVE FALSE
    OBVIOUS
  <1>1. IsWellFoundedOn(R, Nat)
    BY NatLessThanWellFounded
  <1>2. \A p, q \in Nat : p < q => <<p, q>> \in R
    BY DEF OpToRel
  <1> HIDE DEF R
  <1>3. PICK m \in T : \A q \in T : ~(<<q, m>> \in R)
    BY <1>1, WFMin
  <1>4. m # 0 /\ m - 1 \in Nat /\ m - 1 < m /\ (m - 1) + 1 = m
    OBVIOUS
  <1>5. m - 1 \in T
    BY <1>4
  <1> QED
    BY <1>2, <1>3, <1>4, <1>5

\* run does what step says, m times at least.
RunsTo(run, first, step, m) ==
    run[0] = first /\ \A k \in 0..m - 1 : run[k + 1] = step[run[k]]

Agree(f, g, m) == \A k \in 0..m : f[k] = g[k]

\* Two runs agree as far as both go.
LEMMA RunsAgree ==
    ASSUME NEW S, NEW first, NEW step, NEW f \in [Nat -> S], NEW g \in [Nat -> S],
           NEW m \in Nat, RunsTo(f, first, step, m), RunsTo(g, first, step, m)
    PROVE  Agree(f, g, m)
  <1> DEFINE A == {k \in Nat : k <= m => f[k] = g[k]}
  <1>1. 0 \in A
    BY DEF RunsTo
  <1>2. ASSUME NEW k \in Nat, k \in A PROVE k + 1 \in A
    <2>1. CASE k + 1 <= m
      <3>1. k \in 0..m - 1 /\ k <= m
        BY <2>1
      <3>2. f[k + 1] = step[f[k]] /\ g[k + 1] = step[g[k]]
        BY <3>1 DEF RunsTo
      <3> QED
        BY <1>2, <3>1, <3>2
    <2>2. CASE ~(k + 1 <= m)
      BY <2>2
    <2> QED
      BY <2>1, <2>2
  <1> HIDE DEF A
  <1>3. Nat \subseteq A
    BY <1>1, <1>2, NatSet
  <1> QED
    BY <1>3 DEF A, Agree

\* A step that can be taken from everywhere can be taken for ever.
LEMMA RunExists ==
    ASSUME NEW S, NEW first \in S, NEW step \in [S -> S]
    PROVE  \E run \in [Nat -> S] : run[0] = first /\ \A k \in Nat : run[k + 1] = step[run[k]]
  <1> DEFINE A == {m \in Nat : \E f \in [Nat -> S] : RunsTo(f, first, step, m)}
  <1>1. 0 \in A
    <2>1. [k \in Nat |-> first] \in [Nat -> S] /\ RunsTo([k \in Nat |-> first], first, step, 0)
      BY DEF RunsTo
    <2> QED
      BY <2>1
  <1>2. ASSUME NEW m \in Nat, m \in A PROVE m + 1 \in A
    <2>1. PICK f \in [Nat -> S] : RunsTo(f, first, step, m)
      BY <1>2
    <2>2. PICK g : g = [f EXCEPT ![m + 1] = step[f[m]]]
      OBVIOUS
    <2>3. g \in [Nat -> S] /\ g[m + 1] = step[f[m]] /\ \A k \in 0..m : g[k] = f[k]
      BY <2>2
    <2>4. RunsTo(g, first, step, m + 1)
      <3>1. g[0] = first
        BY <2>1, <2>3 DEF RunsTo
      <3>2. ASSUME NEW k \in 0..m PROVE g[k + 1] = step[g[k]]
        BY <2>1, <2>3 DEF RunsTo
      <3> QED
        BY <3>1, <3>2 DEF RunsTo
    <2> QED
      BY <2>3, <2>4
  <1>3. Nat \subseteq A
    <2> HIDE DEF A
    <2> QED
      BY <1>1, <1>2, NatSet
  <1> DEFINE Longest(m) == CHOOSE f \in [Nat -> S] : RunsTo(f, first, step, m)
             run == [m \in Nat |-> Longest(m)[m]]
  <1>4. ASSUME NEW m \in Nat PROVE Longest(m) \in [Nat -> S] /\ RunsTo(Longest(m), first, step, m)
    <2>1. \E f \in [Nat -> S] : RunsTo(f, first, step, m)
      BY <1>3
    <2> QED
      BY <2>1, Zenon
  <1> HIDE DEF Longest
  <1>5. run \in [Nat -> S] /\ \A m \in Nat : run[m] = Longest(m)[m]
    BY <1>4
  <1>6. run[0] = first
    BY <1>4, <1>5 DEF RunsTo
  <1>7. ASSUME NEW m \in Nat PROVE run[m + 1] = step[run[m]]
    <2>1. PICK f \in [Nat -> S] : f = Longest(m)
      BY <1>4
    <2>2. PICK g \in [Nat -> S] : g = Longest(m + 1)
      BY <1>4
    <2>3. RunsTo(f, first, step, m) /\ RunsTo(g, first, step, m + 1)
      BY <1>4, <2>1, <2>2
    <2>4. RunsTo(g, first, step, m) /\ g[m + 1] = step[g[m]]
      BY <2>3 DEF RunsTo
    <2>5. Agree(f, g, m)
      BY <2>3, <2>4, RunsAgree
    <2>6. f[m] = g[m]
      BY <2>5 DEF Agree
    <2> QED
      BY <1>5, <2>1, <2>2, <2>4, <2>6
  <1> HIDE DEF run
  <1> QED
    BY <1>5, <1>6, <1>7

\* The loop of v_fds does what EraseLoop says.
LEMMA EraseLoopRuns ==
    ASSUME IInv, NEW f \in Fds, At(f)
    PROVE  /\ EraseLoop[0] = <<v_fds, 1>>
           /\ \A k \in Nat :
                 EraseLoop[k + 1] = IF EraseLoop[k][2] > Len(EraseLoop[k][1]) THEN EraseLoop[k]
                                    ELSE EraseTurn(EraseLoop[k][1], EraseLoop[k][2])
  <1> DEFINE S == {s \in Seq(Descriptors) \X Nat : EraseLoopInv(s[1], s[2])}
             Turn(s) == IF s[2] > Len(s[1]) THEN s ELSE EraseTurn(s[1], s[2])
             step == [s \in S |-> Turn(s)]
  <1>1. /\ EraseLoopInv(v_fds, 1)
        /\ \A v \in Seq(Descriptors), iter \in Nat :
              EraseLoopInv(v, iter) /\ iter <= Len(v) =>
                  EraseLoopInv(EraseTurn(v, iter)[1], EraseTurn(v, iter)[2])
    BY EraseLoopCuts
  <1>2. PICK first : first = <<v_fds, 1>>
    OBVIOUS
  <1>3. first \in S
    BY <1>1, <1>2 DEF EraseLoopInv
  <1>4. ASSUME NEW s \in S PROVE Turn(s) \in S
    <2>1. PICK v \in Seq(Descriptors), iter \in Nat : s = <<v, iter>> /\ EraseLoopInv(v, iter)
      OBVIOUS
    <2>2. CASE iter > Len(v)
      BY <2>1, <2>2
    <2>3. CASE iter <= Len(v)
      <3>1. PICK w, t : w = EraseTurn(v, iter)[1] /\ t = EraseTurn(v, iter)[2]
        OBVIOUS
      <3>2. EraseLoopInv(w, t)
        BY <1>1, <2>1, <2>3, <3>1
      <3>3. EraseTurn(v, iter) = <<w, t>>
        BY <3>1 DEF EraseTurn
      <3>4. w \in Seq(Descriptors) /\ t \in Nat
        BY <3>2, AtFact DEF EraseLoopInv, IInv, TypeOK
      <3>5. Turn(s) = <<w, t>>
        BY <2>1, <2>3, <3>3
      <3> QED
        BY <3>2, <3>4, <3>5
    <2> QED
      BY <2>2, <2>3
  <1>5. step \in [S -> S]
    BY <1>4
  <1>6. PICK run \in [Nat -> S] : run[0] = first /\ \A k \in Nat : run[k + 1] = step[run[k]]
    <2> HIDE DEF S, step
    <2> QED
      BY <1>3, <1>5, RunExists
  <1>7. \A k \in Nat : run[k + 1] = Turn(run[k])
    BY <1>6
  <1> HIDE DEF S, step
  <1>8. \A k \in Nat : k # 0 => k - 1 \in Nat /\ (k - 1) + 1 = k
    OBVIOUS
  <1>9. \A k \in Nat : run[k] = IF k = 0 THEN <<v_fds, 1>> ELSE Turn(run[k - 1])
    <2> HIDE DEF Turn
    <2> QED
      BY <1>2, <1>6, <1>7, <1>8
  <1>10. run = [k \in Nat |-> IF k = 0 THEN <<v_fds, 1>>
                              ELSE IF run[k - 1][2] > Len(run[k - 1][1]) THEN run[k - 1]
                                   ELSE EraseTurn(run[k - 1][1], run[k - 1][2])]
    BY <1>6, <1>9
  <1>11. EraseLoop = [k \in Nat |-> IF k = 0 THEN <<v_fds, 1>>
                                    ELSE IF EraseLoop[k - 1][2] > Len(EraseLoop[k - 1][1]) THEN EraseLoop[k - 1]
                                         ELSE EraseTurn(EraseLoop[k - 1][1], EraseLoop[k - 1][2])]
    BY <1>10, Zenon DEF EraseLoop
  <1>12. EraseLoop[0] = <<v_fds, 1>>
    BY <1>11
  <1>13. ASSUME NEW k \in Nat PROVE EraseLoop[k + 1] = Turn(EraseLoop[k])
    <2>1. k + 1 \in Nat /\ k + 1 # 0 /\ (k + 1) - 1 = k
      OBVIOUS
    <2> QED
      BY <1>11, <2>1
  <1> QED
    BY <1>12, <1>13

\* After k turns the iterator is k steps closer to the end.
Turned(k, v, iter) ==
    /\ EraseLoop[k] = <<v, iter>> /\ EraseLoopInv(v, iter)
    /\ Len(v) - iter = Len(v_fds) - 1 - k

\* Where a client is removed, for a vector of any length: the loop reads v_fds[idx]
\* inside the vector at every turn, is over after as many turns as v_fds had elements,
\* and has erased the client and all behind it.
LoopCuts ==
    /\ \A k \in 0..Len(v_fds) - 1 :
           EraseLoop[k][2] <= Len(EraseLoop[k][1]) /\ idx < Len(EraseLoop[k][1])
    /\ EraseLoop[Len(v_fds)] = <<Kept, idx + 1>>

\* The loop over v_fds ends, having read nothing past the vector and cut it at idx.
LEMMA LoopEnds ==
    ASSUME IInv, NEW f \in Fds, At(f)
    PROVE  LoopCuts
  <1>1. idx \in Nat /\ idx + 1 \in 1..Len(v_fds) /\ v_fds \in Seq(Descriptors) /\ Len(v_fds) \in Nat
    BY AtFact DEF IInv, TypeOK, Descriptors
  <1> DEFINE Some(k) == \E v \in Seq(Descriptors), iter \in Nat : Turned(k, v, iter)
             A == {k \in Nat : k <= Len(v_fds) => Some(k)}
  <1>2. 0 \in A
    <2>1. EraseLoop[0] = <<v_fds, 1>> /\ EraseLoopInv(v_fds, 1)
      BY EraseLoopRuns, EraseLoopCuts
    <2>2. Turned(0, v_fds, 1)
      BY <1>1, <2>1 DEF Turned
    <2> QED
      BY <1>1, <2>2
  <1>3. ASSUME NEW k \in Nat, k \in A PROVE k + 1 \in A
    <2> SUFFICES ASSUME k + 1 <= Len(v_fds) PROVE Some(k + 1)
      OBVIOUS
    <2>0. PICK v \in Seq(Descriptors), iter \in Nat : Turned(k, v, iter)
      BY <1>1, <1>3
    <2>1. EraseLoop[k] = <<v, iter>> /\ EraseLoopInv(v, iter) /\ Len(v) - iter = Len(v_fds) - 1 - k
      BY <2>0 DEF Turned
    <2>2. iter <= Len(v) /\ ~(iter > Len(v)) /\ Len(v) \in Nat
      BY <1>1, <2>1
    <2>3. PICK w, t : w = EraseTurn(v, iter)[1] /\ t = EraseTurn(v, iter)[2]
      OBVIOUS
    <2>4. EraseLoopInv(w, t) /\ Len(w) - t = Len(v) - iter - 1
      BY <2>1, <2>2, <2>3, EraseLoopCuts
    <2>5. EraseTurn(v, iter) = <<w, t>>
      BY <2>3 DEF EraseTurn
    <2>6. w \in Seq(Descriptors) /\ t \in Nat /\ Len(w) \in Nat
      BY <1>1, <2>4 DEF EraseLoopInv
    <2>7. EraseLoop[k + 1] = <<w, t>>
      <3>1. EraseLoop[k + 1] = IF EraseLoop[k][2] > Len(EraseLoop[k][1]) THEN EraseLoop[k]
                               ELSE EraseTurn(EraseLoop[k][1], EraseLoop[k][2])
        BY EraseLoopRuns
      <3>2. EraseLoop[k][1] = v /\ EraseLoop[k][2] = iter
        BY <2>1
      <3> QED
        BY <2>2, <2>5, <3>1, <3>2
    <2>8. Len(w) - t = Len(v_fds) - 1 - (k + 1)
      <3>1. PICK a \in Nat, b \in Nat, c \in Nat : a = Len(w) /\ b = Len(v) /\ c = Len(v_fds)
        BY <1>1, <2>2, <2>6
      <3>2. a - t = b - iter - 1 /\ b - iter = c - 1 - k
        BY <2>1, <2>4, <3>1
      <3>3. a - t = c - 1 - (k + 1)
        BY <2>6, <3>2
      <3> QED
        BY <3>1, <3>3
    <2>9. Turned(k + 1, w, t)
      BY <2>4, <2>7, <2>8 DEF Turned
    <2> QED
      BY <2>6, <2>9
  <1>4. \A k \in Nat : k <= Len(v_fds) => Some(k)
    <2>1. Nat \subseteq A
      <3> HIDE DEF A
      <3> QED
        BY <1>2, <1>3, NatSet
    <2> QED
      BY <2>1
  <1>5. ASSUME NEW k \in 0..Len(v_fds) - 1
        PROVE  EraseLoop[k][2] <= Len(EraseLoop[k][1]) /\ idx < Len(EraseLoop[k][1])
    <2>0. PICK v \in Seq(Descriptors), iter \in Nat : Turned(k, v, iter)
      BY <1>1, <1>4
    <2>1. EraseLoop[k] = <<v, iter>> /\ EraseLoopInv(v, iter) /\ Len(v) - iter = Len(v_fds) - 1 - k
      BY <2>0 DEF Turned
    <2>2. iter <= Len(v) /\ Len(v) \in Nat
      BY <1>1, <2>1
    <2>3. idx + 1 \in 1..Len(v)
      BY <2>1, <2>2, EraseLoopCuts
    <2> QED
      BY <1>1, <2>1, <2>2, <2>3
  <1>6. EraseLoop[Len(v_fds)] = <<Kept, idx + 1>>
    <2>0. PICK v \in Seq(Descriptors), iter \in Nat : Turned(Len(v_fds), v, iter)
      BY <1>1, <1>4
    <2>1. /\ EraseLoop[Len(v_fds)] = <<v, iter>> /\ EraseLoopInv(v, iter)
          /\ Len(v) - iter = Len(v_fds) - 1 - Len(v_fds)
      BY <2>0 DEF Turned
    <2>2. iter > Len(v) /\ iter = Len(v) + 1
      BY <1>1, <2>1
    <2>3. v = Kept
      BY <2>1, <2>2, EraseLoopCuts
    <2>4. iter = idx + 1
      BY <1>1, <2>1, <2>2 DEF EraseLoopInv
    <2> QED
      BY <2>1, <2>3, <2>4
  <1> QED
    BY <1>5, <1>6 DEF LoopCuts

-------------------------------------------------------------------------------
LEMMA RemoveStep ==
    ASSUME IInv, NEW f \in Fds, Remove(f)
    PROVE  IInv'
  <1>t. TypeOK /\ WatchedAreOpen /\ VectorSound
    BY DEF IInv
  <1>1. idx \in Nat /\ idx >= 1 /\ idx + 1 \in 1..Len(v_fds) /\ f = v_fds[idx + 1] /\ f # Listening
    BY AtFact, SelectAssumption DEF Remove
  <1>2. /\ v_fds' \in Seq(Descriptors) /\ Len(v_fds') = idx
        /\ \A i \in 1..idx : v_fds'[i] = v_fds[i]
    <2>1. v_fds \in Seq(Descriptors) /\ idx <= Len(v_fds)
      BY <1>1, <1>t DEF TypeOK, Descriptors
    <2>2. Erased = Kept
      BY LoopEnds DEF LoopCuts, Erased, Remove
    <2> QED
      BY <2>1, <2>2, <1>1, Prefix DEF Remove, Kept
  <1>3. TypeOK'
    BY <1>1, <1>2, <1>t DEF TypeOK, Remove, Close, peers, Descriptors
  <1>4. WatchedAreOpen'
    <2>1. Open' = Open \ {f}
      BY <1>t DEF Open, Remove, Close, TypeOK
    <2> QED
      BY <2>1, <1>1, <1>t DEF WatchedAreOpen, Remove
  <1>5. VectorSound'
    <2>1. \A i \in 1..idx : i \in 1..Len(v_fds) /\ v_fds[i] \in read_fds /\ v_fds[i] # f
      BY <1>1, <1>t DEF VectorSound, Listed
    <2>2. Listed' \subseteq read_fds'
      BY <2>1, <1>2 DEF Listed, Remove
    <2>3. v_fds' # <<>> /\ v_fds'[1] = Listening
      BY <1>1, <1>2, <1>t DEF VectorSound
    <2>4. \A i, j \in 1..Len(v_fds') : v_fds'[i] = v_fds'[j] => i = j
      BY <2>1, <1>2, <1>t DEF VectorSound
    <2> QED
      BY <2>2, <2>3, <2>4 DEF VectorSound
  <1>6. ScanFresh' /\ TestWatched'
    BY <1>1, <1>2 DEF ScanFresh, TestWatched, Remove
  <1> QED
    BY <1>3, <1>4, <1>5, <1>6 DEF IInv

LEMMA Inductive == Spec => []IInv
  <1>1. ASSUME IInv, [Next]_vars PROVE IInv'
    <2>1. CASE UNCHANGED vars
      BY <1>1, <2>1 DEF vars, peers, IInv, TypeOK, WatchedAreOpen, Open, VectorSound, Listed,
                        ScanFresh, TestWatched, Readable
    <2>2. CASE Next
      BY <1>1, <2>2, ClientStep, SelectStep, IdleStep, AcceptStep, RemoveStep
      DEF Next, ThreadFun
    <2> QED
      BY <1>1, <2>1, <2>2
  <1> QED
    BY <1>1, InitIInv, PTL DEF Spec

\* The types of the select server's state; the scan stays within one of the end.
THEOREM TypeCorrect == Spec => []TypeOK
  BY Inductive, PTL DEF IInv

\* read_fds holds exactly the open descriptors: select never fails for a closed one.
THEOREM SelectGetsOpenDescriptors == Spec => []WatchedAreOpen
  BY Inductive, PTL DEF IInv

\* v_fds lists watched descriptors, once each, the listening socket first.
THEOREM VectorIsSound == Spec => []VectorSound
  BY Inductive, PTL DEF IInv

\* The server closes no connection whose client has not closed its end.
THEOREM NoLiveClientIsClosed == Spec => OnlyGoneAreClosed
  <1>1. ASSUME IInv, [Next]_vars, NEW f \in Fds, owner[f] # NoClient, owner'[f] = NoClient
        PROVE  owner[f] \in closed
    <2>t. TypeOK
      BY <1>1 DEF IInv
    <2>1. CASE Remove(f)
      BY <1>1, <2>1, AtFact, SelectAssumption DEF Remove, NothingToRead, Readable
    <2>2. ASSUME NEW g \in Fds, Remove(g), g # f PROVE FALSE
      BY <1>1, <2>2, <2>t DEF Remove, Close, TypeOK
    <2>3. ASSUME NEW g \in Fds, Accept(g) PROVE FALSE
      <3>1. Head(backlog) \in Clients
        BY <1>1, <2>3, <2>t, AtFact DEF Accept, Readable, TypeOK
      <3>2. Head(backlog) # NoClient
        BY <3>1, SelectAssumption
      <3> QED
        BY <1>1, <2>3, <2>t, <3>2 DEF Accept, TypeOK
    <2>4. CASE UNCHANGED owner
      BY <1>1, <2>4
    <2> QED
      BY <1>1, <2>1, <2>2, <2>3, <2>4
      DEF Next, ThreadFun, vars, Connect, Send, CloseEnd, Select, Skip, EndOfScan, AcceptFails, SelectFails,
          Receive, Close
  <1>2. ASSUME IInv, [Next]_vars
        PROVE  [\A f \in Fds : owner[f] # NoClient /\ owner'[f] = NoClient => owner[f] \in closed]_vars
    BY <1>1, <1>2
  <1> QED
    BY <1>2, Inductive, PTL DEF Spec, OnlyGoneAreClosed

\* What is left in v_fds wherever a client can be removed: the descriptors in front of it.
RemovalCutsVector == \A f \in Fds : At(f) => LoopCuts

\* The cause of the violation of EveryClientIsListed, for a vector of any length: the
\* loop that erases compares with v_fds[idx] while it erases there, so it takes the
\* removed client and every client behind it off the vector, without reading past it.
THEOREM RemovalForgetsAllBehind == Spec => []RemovalCutsVector
  <1>1. IInv => RemovalCutsVector
    BY LoopEnds DEF RemovalCutsVector
  <1> QED
    BY <1>1, Inductive, PTL
===============================================================================
