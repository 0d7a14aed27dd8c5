----------------------------- MODULE MySortProofs -----------------------------
(***************************************************************************)
(* What the sorts of MySort promise, for every array: the invariant of     *)
(* each loop, and that every turn keeps it.                                *)
(***************************************************************************)
EXTENDS MySort, TLAPS, WellFoundedInduction

Positive == {p \in Nat : p > 0}

Labels == {"idle", "start", "increment", "pass", "insert", "shift", "select", "bubble", "build",
           "adjustBuild", "extract", "adjustExtract", "range", "high", "low", "pivot", "done"}

\* The type invariant of MySort.
SortTypeOK ==
    /\ pc \in Labels /\ method \in Methods
    /\ n \in Nat /\ orig \in [0..(n - 1) -> Int] /\ arr \in [0..(n - 1) -> Int]
    /\ i \in Int /\ j \in Int /\ k \in Int /\ h \in Int /\ x \in Int
    /\ increments \in Seq(Positive) /\ stack \in Seq(Int \X Int)

-------------------------------------------------------------------------------
(***************************************************************************)
(* The invariants of the loops                                             *)
(***************************************************************************)
\* The array with the key in hand put back where its place is free.
Whole ==
    IF pc = "shift" THEN [arr EXCEPT ![j + h] = x]
    ELSE IF pc \in {"high", "pivot"} THEN [arr EXCEPT ![i] = x]
    ELSE IF pc = "low" THEN [arr EXCEPT ![j] = x]
    ELSE arr

\* No key is lost or doubled.
KeysKept == Rearranged(Whole, orig)

\* The first m places are in order.
SortedTo(m) == \A p, q \in 0..(n - 1) : p < q /\ q < m => arr[p] <= arr[q]

\* The first m places hold their final keys.
FinalTo(m) == \A p, q \in 0..(n - 1) : p < q /\ p < m => arr[p] <= arr[q]

\* The places from m on do.
FinalFrom(m) == \A p, q \in 0..(n - 1) : p < q /\ m <= q => arr[p] <= arr[q]

FirstIncrement == increments # <<>> => increments[1] = 1

IncrementLoop ==
    /\ method = "shellSort" /\ FirstIncrement
    /\ h >= 1 /\ (increments = <<>> => h = 1)

PassLoop == method = "shellSort" /\ FirstIncrement /\ (increments = <<>> => Sorted)

InsertCall ==
    /\ method \in {"insertionSort", "shellSort"}
    /\ method = "insertionSort" => increments = <<>>
    /\ FirstIncrement /\ (increments = <<>> => h = 1)
    /\ 1 <= h /\ h <= i

InsertLoop == InsertCall /\ (h = 1 => SortedTo(i))

ShiftLoop ==
    /\ InsertCall /\ i < n
    /\ 0 <= j + h /\ j + h <= i
    /\ h = 1 =>
         /\ \A p, q \in 0..i : p < q /\ p # j + 1 /\ q # j + 1 => arr[p] <= arr[q]
         /\ \A q \in (j + 2)..i : x <= arr[q]

SelectLoop ==
    /\ method = "selectSort"
    /\ 0 <= i /\ i <= j /\ j <= n /\ (i < n => k \in i..(n - 1))
    /\ FinalTo(i)
    /\ \A q \in i..(j - 1) : arr[k] <= arr[q]

BubbleLoop ==
    /\ method = "bubbleSort"
    /\ 0 <= i /\ i <= n /\ FinalTo(i)
    /\ i < n => i <= j /\ j < n /\ \A q \in j..(n - 1) : arr[j] <= arr[q]

Children(p) == {2 * p + 1, 2 * p + 2}

\* The key at p is not below those of its children in a heap of len keys.
NodeOK(p, len) == \A c \in Children(p) : c < len => arr[p] >= arr[c]

BuildLoop ==
    /\ method = "heapSort"
    /\ -1 <= i /\ i < n
    /\ \A p \in (i + 1)..(n - 1) : NodeOK(p, n)

\* Between first and h only k may be below its children, and they are not above
\* its parent.
AdjustLoop(first) ==
    /\ method = "heapSort"
    /\ first <= k /\ k < h
    /\ \A p \in first..(h - 1) : p # k => NodeOK(p, h)
    /\ \A p \in first..(h - 1) : k \in Children(p) =>
         \A c \in Children(k) : c < h => arr[p] >= arr[c]

AdjustBuild == 0 <= i /\ i < n /\ h = n /\ AdjustLoop(i)

AdjustExtract == 1 <= i /\ i < n /\ h = i /\ AdjustLoop(0) /\ FinalFrom(i)

ExtractLoop ==
    /\ method = "heapSort"
    /\ -1 <= i /\ i < n /\ (i = -1 => n = 0)
    /\ \A p \in 0..i : NodeOK(p, i + 1)
    /\ FinalFrom(i + 1)

\* The ranges of s lie in the array and do not meet.
Apart(s) ==
    /\ \A t \in DOMAIN s : 0 <= s[t][1] /\ s[t][1] <= s[t][2] + 1 /\ s[t][2] < n
    /\ \A t, u \in DOMAIN s : t # u => s[t][2] < s[u][1] \/ s[u][2] < s[t][1]

\* One of the ranges of s covers both places.
Covered(s, p, q) == \E t \in DOMAIN s : s[t][1] <= p /\ q <= s[t][2]

RangeLoop ==
    /\ method \in QuickSorts /\ Apart(stack)
    /\ \A p, q \in 0..(n - 1) : p < q => arr[p] < arr[q] \/ Covered(stack, p, q)

Inside == low..high
Outside == (0..(n - 1)) \ Inside

\* The places outside the range stand to each other and to those inside as they
\* did, and the keys the indices have passed are on their sides.
PartitionLoop ==
    /\ method \in QuickSorts /\ stack # <<>> /\ Apart(stack)
    /\ low <= i /\ i <= j /\ j <= high
    /\ \A p, q \in Outside : p < q => arr[p] < arr[q] \/ Covered(Front(stack), p, q)
    /\ \A p \in Outside : p < low => arr[p] < x /\ \A q \in Inside : arr[p] < arr[q]
    /\ \A p \in Outside : p > high => x < arr[p] /\ \A q \in Inside : arr[q] < arr[p]
    /\ \A p \in low..(i - 1) : arr[p] < x
    /\ \A q \in (j + 1)..high : x < arr[q]

Strict == \A p, q \in 0..(n - 1) : p < q => arr[p] < arr[q]

SortInv ==
    /\ SortTypeOK
    /\ KeysKept
    /\ pc \in {"idle", "start"} => increments = <<>>
    /\ pc = "increment" => IncrementLoop
    /\ pc = "pass" => PassLoop
    /\ pc = "insert" => InsertLoop
    /\ pc = "shift" => ShiftLoop
    /\ pc = "select" => SelectLoop
    /\ pc = "bubble" => BubbleLoop
    /\ pc = "build" => BuildLoop
    /\ pc = "adjustBuild" => AdjustBuild
    /\ pc = "extract" => ExtractLoop
    /\ pc = "adjustExtract" => AdjustExtract
    /\ pc = "range" => RangeLoop
    /\ pc \in {"high", "low", "pivot"} => PartitionLoop
    /\ pc = "pivot" => i = j
    /\ pc = "done" => Sorted /\ (method \in QuickSorts => Strict)

-------------------------------------------------------------------------------
(***************************************************************************)
(* Lemmas                                                                  *)
(***************************************************************************)
\* A set of naturals that holds 0 and the successor of each of its members holds
\* them all.
LEMMA SetInduction ==
    ASSUME NEW S, 0 \in S, \A m \in Nat : m \in S => m + 1 \in S
    PROVE  Nat \subseteq S
<1> DEFINE T == Nat \ S
           R == OpToRel(<, Nat)
<1> SUFFICES ASSUME T # {} PROVE FALSE
  OBVIOUS
<1>1. IsWellFoundedOn(R, Nat)
  BY NatLessThanWellFounded
<1>2. \A p, q \in Nat : p < q => <<p, q>> \in R
  BY DEF OpToRel
<1> HIDE DEF R
<1>3. PICK m \in T : \A q \in T : ~(<<q, m>> \in R)
  BY <1>1, WFMin
<1>4. m # 0 /\ m - 1 \in Nat /\ m - 1 < m /\ (m - 1) + 1 = m
  OBVIOUS
<1>5. m - 1 \in T
  BY <1>4
<1> QED
  BY <1>2, <1>3, <1>4, <1>5

\* Exchanging two keys keeps the keys.
LEMMA SwapKeeps ==
    ASSUME NEW m \in Nat, NEW a \in [0..(m - 1) -> Int], NEW b \in [0..(m - 1) -> Int],
           NEW p \in 0..(m - 1), NEW q \in 0..(m - 1), Rearranged(a, b)
    PROVE  Swap(a, p, q) \in [0..(m - 1) -> Int] /\ Rearranged(Swap(a, p, q), b)
<1> DEFINE D == 0..(m - 1)
<1>1. DOMAIN b = D
  OBVIOUS
<1>2. PICK f \in [DOMAIN b -> DOMAIN b] :
                /\ \A t \in DOMAIN b : a[t] = b[f[t]]
                /\ \A u \in DOMAIN b : \E t \in DOMAIN b : f[t] = u
                /\ \A t, u \in DOMAIN b : f[t] = f[u] => t = u
  BY DEF Rearranged
<1> DEFINE g == [f EXCEPT ![p] = f[q], ![q] = f[p]]
<1>3. g \in [D -> D]
  BY <1>1
<1>4. \A t \in D : Swap(a, p, q)[t] = b[g[t]]
  BY <1>1, <1>2 DEF Swap
<1>5. \A u \in D : \E t \in D : g[t] = u
  <2> TAKE u \in D
  <2>1. PICK t \in D : f[t] = u
    BY <1>1, <1>2
  <2>2. CASE t = p
    <3>1. g[q] = u
      BY <2>1, <2>2
    <3> QED
      BY <3>1
  <2>3. CASE t = q
    <3>1. g[p] = u
      BY <2>1, <2>3
    <3> QED
      BY <3>1
  <2>4. CASE t # p /\ t # q
    <3>1. g[t] = u
      BY <2>1, <2>4
    <3> QED
      BY <3>1
  <2> QED
    BY <2>2, <2>3, <2>4
<1>6. \A t, u \in D : g[t] = g[u] => t = u
  <2>1. \A t \in D : g[t] = IF t = p THEN f[q] ELSE IF t = q THEN f[p] ELSE f[t]
    BY <1>1
  <2> QED
    BY <1>1, <1>2, <2>1
<1>7. Rearranged(Swap(a, p, q), b)
  <2> HIDE DEF g
  <2>1. g \in [DOMAIN b -> DOMAIN b] /\ \A t \in DOMAIN b : Swap(a, p, q)[t] = b[g[t]]
    BY <1>1, <1>3, <1>4
  <2>2. \A u \in DOMAIN b : \E t \in DOMAIN b : g[t] = u
    BY <1>1, <1>5
  <2>3. \A t, u \in DOMAIN b : g[t] = g[u] => t = u
    BY <1>1, <1>6
  <2> QED
    BY <2>1, <2>2, <2>3 DEF Rearranged
<1> QED
  BY <1>7 DEF Swap

\* What Swap leaves at each place.
LEMMA SwapValues ==
    ASSUME NEW m \in Nat, NEW a \in [0..(m - 1) -> Int],
           NEW p \in 0..(m - 1), NEW q \in 0..(m - 1)
    PROVE  \A t \in 0..(m - 1) :
               Swap(a, p, q)[t] = IF t = p THEN a[q] ELSE IF t = q THEN a[p] ELSE a[t]
BY DEF Swap

\* With a key in hand and p free, the key at q is copied to p: then q is free.
LEMMA MoveKeeps ==
    ASSUME NEW m \in Nat, NEW a \in [0..(m - 1) -> Int], NEW b \in [0..(m - 1) -> Int],
           NEW p \in 0..(m - 1), NEW q \in 0..(m - 1), NEW y \in Int,
           Rearranged([a EXCEPT ![p] = y], b)
    PROVE  Rearranged([[a EXCEPT ![p] = a[q]] EXCEPT ![q] = y], b)
<1>1. [a EXCEPT ![p] = y] \in [0..(m - 1) -> Int]
  OBVIOUS
<1>2. Rearranged(Swap([a EXCEPT ![p] = y], p, q), b)
  BY <1>1, SwapKeeps
<1>3. Swap([a EXCEPT ![p] = y], p, q) = [[a EXCEPT ![p] = a[q]] EXCEPT ![q] = y]
  BY DEF Swap
<1> QED
  BY <1>2, <1>3

\* An array is a rearrangement of itself, and taking a key in hand changes nothing.
LEMMA SameKeeps ==
    ASSUME NEW m \in Nat, NEW b \in [0..(m - 1) -> Int]
    PROVE  Rearranged(b, b)
<1> DEFINE f == [p \in 0..(m - 1) |-> p]
<1>1. f \in [DOMAIN b -> DOMAIN b] /\ \A p \in DOMAIN b : f[p] = p
  OBVIOUS
<1> HIDE DEF f
<1> QED
  BY <1>1 DEF Rearranged

\* Putting a key back where it came from changes nothing.
LEMMA TakeKeeps ==
    ASSUME NEW m \in Nat, NEW a \in [0..(m - 1) -> Int], NEW p \in 0..(m - 1)
    PROVE  [a EXCEPT ![p] = a[p]] = a
OBVIOUS

\* The first m elements of a sequence.
LEMMA FirstOnes ==
    ASSUME NEW X, NEW s \in Seq(X), NEW m \in Nat, m <= Len(s)
    PROVE  /\ SubSeq(s, 1, m) \in Seq(X)
           /\ Len(SubSeq(s, 1, m)) = m
           /\ \A t \in 1..m : SubSeq(s, 1, m)[t] = s[t]
OBVIOUS

\* The last range of a stack and those below it.
LEMMA TopAndRest ==
    ASSUME NEW X, NEW s \in Seq(X), s # <<>>
    PROVE  /\ Len(s) \in Nat /\ Len(s) > 0 /\ Last(s) \in X /\ Last(s) = s[Len(s)]
           /\ Front(s) \in Seq(X) /\ Len(Front(s)) = Len(s) - 1 /\ DOMAIN Front(s) = 1..(Len(s) - 1)
           /\ \A t \in DOMAIN Front(s) : Front(s)[t] = s[t]
           /\ Front(s) # <<>> => Front(s)[1] = s[1]
<1>1. Len(s) \in Nat /\ Len(s) > 0
  OBVIOUS
<1>2. Last(s) \in X /\ Last(s) = s[Len(s)]
  BY <1>1 DEF Last
<1>3. PICK b \in Nat : b = Len(s) - 1
  BY <1>1
<1>4. /\ Front(s) \in Seq(X)
      /\ Len(Front(s)) = Len(s) - 1
      /\ \A t \in 1..(Len(s) - 1) : Front(s)[t] = s[t]
  <2>1. Front(s) = SubSeq(s, 1, b) /\ b <= Len(s)
    BY <1>1, <1>3 DEF Front
  <2> QED
    BY <1>3, <2>1, FirstOnes
<1>5. DOMAIN Front(s) = 1..(Len(s) - 1)
  BY <1>4
<1>6. Front(s) # <<>> => 1 \in 1..(Len(s) - 1)
  BY <1>4
<1> QED
  BY <1>1, <1>2, <1>4, <1>5, <1>6

\* A sequence with one element more.
LEMMA Appended ==
    ASSUME NEW X, NEW s \in Seq(X), NEW e \in X
    PROVE  /\ Append(s, e) \in Seq(X) /\ Append(s, e) # <<>>
           /\ DOMAIN Append(s, e) = 1..(Len(s) + 1) /\ Len(s) \in Nat
           /\ \A t \in 1..Len(s) : Append(s, e)[t] = s[t]
           /\ Append(s, e)[Len(s) + 1] = e
OBVIOUS

-------------------------------------------------------------------------------
(***************************************************************************)
(* Every step keeps the invariant                                          *)
(***************************************************************************)
\* The invariants hold before the first call.
LEMMA SortInitInv == SortInit => SortInv
<1> SUFFICES ASSUME SortInit PROVE SortInv
  OBVIOUS
<1>1. SortTypeOK
  BY DEF SortInit, SortTypeOK, Labels, Methods, QuickSorts
<1>2. KeysKept
  BY <1>1, SameKeeps DEF SortInit, SortTypeOK, KeysKept, Whole
<1> QED
  BY <1>1, <1>2 DEF SortInv, SortInit

\* A call starts with the array it is given.
LEMMA CallKeeps ==
    ASSUME SortInv, pc = "idle", NEW m \in Methods, NEW size \in Nat, NEW a \in [0..(size - 1) -> Keys],
           Call(m, size, a)
    PROVE  SortInv'
<1>1. SortTypeOK'
  BY SortAssumption DEF SortInv, SortTypeOK, Call, locals, Labels
<1>2. KeysKept'
  <2>1. Whole' = a /\ orig' = a /\ a \in [0..(size - 1) -> Int]
    BY SortAssumption DEF Whole, Call
  <2> QED
    BY <2>1, SameKeeps DEF KeysKept
<1>3. pc' = "start" /\ increments' = <<>>
  BY DEF SortInv, Call, locals
<1> QED
  BY <1>1, <1>2, <1>3 DEF SortInv

\* A step that only goes to another loop.
LEMMA GotoKeeps ==
    ASSUME SortInv, NEW label \in Labels, Goto(label),
           pc \notin {"shift", "high", "low", "pivot"}, label \notin {"shift", "high", "low", "pivot"}
    PROVE  SortTypeOK' /\ KeysKept'
<1>1. SortTypeOK'
  BY DEF SortInv, SortTypeOK, Goto, call, locals
<1>2. Whole = arr /\ Whole' = arr /\ orig' = orig
  BY DEF Whole, Goto, call
<1> QED
  BY <1>1, <1>2 DEF SortInv, KeysKept

\* selectSort: the first i places hold their final keys, and k a smallest of those looked at.
LEMMA SelectKeeps ==
    ASSUME SortInv, Select
    PROVE  SortInv'
<1> USE DEF call
<1>1. CASE SelectStart
  <2>1. SortTypeOK'
    BY <1>1 DEF SortInv, SortTypeOK, SelectStart, Labels
  <2>2. KeysKept'
    BY <1>1 DEF SortInv, SelectStart, KeysKept, Whole
  <2>3. SelectLoop'
    BY <1>1 DEF SortInv, SortTypeOK, SelectStart, SelectLoop, FinalTo
  <2> QED
    BY <1>1, <2>1, <2>2, <2>3 DEF SortInv, SelectStart
<1>2. CASE SelectTurn
  <2>1. SortTypeOK'
    BY <1>2 DEF SortInv, SortTypeOK, SelectTurn, Labels
  <2>2. KeysKept'
    BY <1>2 DEF SortInv, SelectTurn, KeysKept, Whole
  <2>3. SelectLoop /\ SortTypeOK
    BY <1>2 DEF SortInv, SelectTurn
  <2>4. /\ n \in Nat /\ i \in Int /\ j \in Int /\ k \in i..(n - 1) /\ 0 <= i /\ i <= j /\ j < n
        /\ \A t \in 0..(n - 1) : arr[t] \in Int
    BY <1>2, <2>3 DEF SortTypeOK, SelectTurn, SelectLoop
  <2>5. FinalTo(i)'
    BY <1>2, <2>3 DEF SelectTurn, SelectLoop, FinalTo
  <2>6. \A q \in i..j : arr[k'] <= arr[q]
    <3>1. \A q \in i..(j - 1) : arr[k] <= arr[q]
      BY <2>3 DEF SelectLoop
    <3>2. CASE arr[j] < arr[k]
      <4>1. k' = j
        BY <1>2, <3>2 DEF SelectTurn
      <4> SUFFICES ASSUME NEW q \in i..j PROVE arr[j] <= arr[q]
        BY <4>1
      <4>2. arr[k] \in Int /\ arr[j] \in Int /\ arr[q] \in Int
        BY <2>4
      <4> QED
        BY <2>4, <3>1, <3>2, <4>2
    <3>3. CASE ~(arr[j] < arr[k])
      <4>1. k' = k
        BY <1>2, <3>3 DEF SelectTurn
      <4> SUFFICES ASSUME NEW q \in i..j PROVE arr[k] <= arr[q]
        BY <4>1
      <4>2. arr[k] \in Int /\ arr[j] \in Int /\ arr[q] \in Int
        BY <2>4
      <4> QED
        BY <2>4, <3>1, <3>3, <4>2
    <3> QED
      BY <3>2, <3>3
  <2>7. SelectLoop'
    <3>1. /\ 0 <= i' /\ i' <= j' /\ j' <= n' /\ k' \in i'..(n' - 1)
          /\ j' - 1 = j /\ i' = i /\ arr' = arr /\ method' = method
      BY <1>2, <2>4 DEF SelectTurn
    <3>2. \A q \in i'..(j' - 1) : arr'[k'] <= arr'[q]
      BY <2>6, <3>1
    <3> QED
      BY <2>3, <2>5, <3>1, <3>2 DEF SelectLoop
  <2> QED
    BY <1>2, <2>1, <2>2, <2>7 DEF SortInv, SelectTurn
<1>3. CASE SelectSwap
  <2>1. SelectLoop /\ SortTypeOK /\ Rearranged(arr, orig)
    BY <1>3 DEF SortInv, SelectSwap, KeysKept, Whole
  <2>2. k \in 0..(n - 1) /\ i \in 0..(n - 1)
    BY <1>3, <2>1 DEF SelectLoop, SortTypeOK, SelectSwap
  <2>3. arr' \in [0..(n - 1) -> Int] /\ Rearranged(arr', orig)
    BY <1>3, <2>1, <2>2, SwapKeeps DEF SortTypeOK, SelectSwap
  <2>4. SortTypeOK'
    BY <1>3, <2>1, <2>3 DEF SortTypeOK, SelectSwap
  <2>5. KeysKept'
    BY <1>3, <2>3 DEF SelectSwap, KeysKept, Whole
  <2>6. n \in Nat /\ i \in Int /\ j = n /\ \A t \in 0..(n - 1) : arr[t] \in Int
    BY <1>3, <2>1 DEF SelectLoop, SortTypeOK, SelectSwap
  <2>7. FinalTo(i)'
    <3>1. \A t \in 0..(n - 1) : arr'[t] = IF t = k THEN arr[i] ELSE IF t = i THEN arr[k] ELSE arr[t]
      <4>1. n \in Nat /\ arr \in [0..(n - 1) -> Int] /\ arr' = Swap(arr, k, i)
        BY <1>3, <2>1 DEF SortTypeOK, SelectSwap
      <4>2. \A t \in 0..(n - 1) : Swap(arr, k, i)[t] = IF t = k THEN arr[i] ELSE IF t = i THEN arr[k] ELSE arr[t]
        BY <2>2, <4>1 DEF Swap
      <4> QED
        BY <4>1, <4>2
    <3> SUFFICES ASSUME NEW p \in 0..(n - 1), NEW q \in 0..(n - 1), p < q, p < i + 1
                 PROVE  arr'[p] <= arr'[q]
      BY <1>3 DEF FinalTo, SelectSwap
    <3>2. arr[p] \in Int /\ arr[q] \in Int /\ arr[i] \in Int /\ arr[k] \in Int /\ k >= i
      BY <1>3, <2>1, <2>2, <2>6 DEF SelectLoop, SelectSwap
    <3>3. CASE p < i
      <4>1. arr[p] <= arr[q] /\ arr[p] <= arr[i] /\ arr[p] <= arr[k] /\ arr'[p] = arr[p]
        BY <2>1, <2>2, <2>6, <3>1, <3>2, <3>3 DEF SelectLoop, FinalTo
      <4> QED
        BY <3>1, <4>1
    <3>4. CASE p = i
      <4>1. \A t \in i..(n - 1) : arr[k] <= arr[t]
        BY <2>1, <2>6 DEF SelectLoop
      <4>2. arr'[p] = arr[k]
        BY <3>1, <3>4
      <4> QED
        BY <2>2, <2>6, <3>1, <3>2, <3>4, <4>1, <4>2
    <3> QED
      BY <2>6, <3>3, <3>4
  <2>8. SelectLoop'
    BY <1>3, <2>1, <2>2, <2>7 DEF SelectLoop, SortTypeOK, SelectSwap
  <2> QED
    BY <1>3, <2>4, <2>5, <2>8 DEF SortInv, SelectSwap
<1>4. CASE SelectEnd
  <2>1. SortTypeOK' /\ KeysKept'
    BY <1>4, GotoKeeps DEF SelectEnd, Labels
  <2>2. SelectLoop /\ SortTypeOK
    BY <1>4 DEF SortInv, SelectEnd
  <2>3. Sorted' /\ method' \notin QuickSorts /\ pc' = "done"
    BY <1>4, <2>2 DEF SelectEnd, Goto, SelectLoop, SortTypeOK, FinalTo, Sorted, QuickSorts
  <2> QED
    BY <2>1, <2>3 DEF SortInv
<1> QED
  BY <1>1, <1>2, <1>3, <1>4 DEF Select

\* bubbleSort: the first i places hold their final keys, and j a smallest of those above it.
LEMMA BubbleKeeps ==
    ASSUME SortInv, Bubble
    PROVE  SortInv'
<1> USE DEF call
<1>1. CASE BubbleStart
  <2>1. SortTypeOK'
    BY <1>1 DEF SortInv, SortTypeOK, BubbleStart, Labels
  <2>2. KeysKept'
    BY <1>1 DEF SortInv, BubbleStart, KeysKept, Whole
  <2>3. BubbleLoop'
    BY <1>1 DEF SortInv, SortTypeOK, BubbleStart, BubbleLoop, FinalTo
  <2> QED
    BY <1>1, <2>1, <2>2, <2>3 DEF SortInv, BubbleStart
<1>2. CASE BubbleTurn
  <2>1. BubbleLoop /\ SortTypeOK /\ Rearranged(arr, orig)
    BY <1>2 DEF SortInv, BubbleTurn, KeysKept, Whole
  <2>2. j - 1 \in 0..(n - 1) /\ j \in 0..(n - 1)
    BY <1>2, <2>1 DEF BubbleLoop, SortTypeOK, BubbleTurn
  <2>3. arr' \in [0..(n - 1) -> Int] /\ Rearranged(arr', orig)
    BY <1>2, <2>1, <2>2, SwapKeeps DEF SortTypeOK, BubbleTurn
  <2>4. SortTypeOK'
    BY <1>2, <2>1, <2>3 DEF SortTypeOK, BubbleTurn
  <2>5. KeysKept'
    BY <1>2, <2>3 DEF BubbleTurn, KeysKept, Whole
  <2>6. /\ n \in Nat /\ i \in Int /\ j \in Int /\ 0 <= i /\ i < j /\ j < n
        /\ \A t \in 0..(n - 1) : arr[t] \in Int
        /\ i' = i /\ n' = n /\ j' = j - 1
    BY <1>2, <2>1 DEF BubbleLoop, SortTypeOK, BubbleTurn
  <2>7. \A q \in j..(n - 1) : arr[j] <= arr[q]
    BY <2>1, <2>6 DEF BubbleLoop
  <2>8. CASE arr[j - 1] > arr[j]
    <3>1. \A t \in 0..(n - 1) :
              arr'[t] = IF t = j - 1 THEN arr[j] ELSE IF t = j THEN arr[j - 1] ELSE arr[t]
      <4>1. n \in Nat /\ arr \in [0..(n - 1) -> Int] /\ arr' = Swap(arr, j - 1, j)
        BY <1>2, <2>1, <2>8 DEF SortTypeOK, BubbleTurn
      <4> QED
        BY <2>2, <4>1, SwapValues
    <3>2. FinalTo(i)'
      <4> SUFFICES ASSUME NEW p \in 0..(n - 1), NEW q \in 0..(n - 1), p < q, p < i
                   PROVE  arr'[p] <= arr'[q]
        BY <2>6 DEF FinalTo
      <4>1. arr[p] <= arr[q] /\ arr[p] <= arr[j - 1] /\ arr[p] <= arr[j] /\ arr'[p] = arr[p]
        BY <2>1, <2>2, <2>6, <3>1 DEF BubbleLoop, FinalTo
      <4> QED
        BY <3>1, <4>1
    <3>3. \A q \in (j - 1)..(n - 1) : arr'[j - 1] <= arr'[q]
      <4> TAKE q \in (j - 1)..(n - 1)
      <4>1. /\ q \in 0..(n - 1) /\ arr[j] \in Int /\ arr[j - 1] \in Int /\ arr[q] \in Int
            /\ arr'[j - 1] = arr[j]
        BY <2>2, <2>6, <3>1
      <4> QED
        BY <2>6, <2>7, <2>8, <3>1, <4>1
    <3>4. \A q \in j'..(n' - 1) : arr'[j'] <= arr'[q]
      BY <2>6, <3>3
    <3>5. method' = method /\ 0 <= i' /\ i' <= n' /\ i' <= j' /\ j' < n'
      BY <1>2, <2>6 DEF BubbleTurn
    <3>6. BubbleLoop'
      BY <2>1, <3>2, <3>4, <3>5 DEF BubbleLoop
    <3> QED
      BY <1>2, <2>4, <2>5, <3>6 DEF SortInv, BubbleTurn
  <2>9. CASE ~(arr[j - 1] > arr[j])
    <3>1. arr' = arr
      BY <1>2, <2>9 DEF BubbleTurn
    <3>2. FinalTo(i)'
      BY <2>1, <2>6, <3>1 DEF BubbleLoop, FinalTo
    <3>3. \A q \in (j - 1)..(n - 1) : arr[j - 1] <= arr[q]
      <4> TAKE q \in (j - 1)..(n - 1)
      <4>1. q \in 0..(n - 1) /\ arr[j] \in Int /\ arr[j - 1] \in Int /\ arr[q] \in Int
        BY <2>2, <2>6
      <4> QED
        BY <2>6, <2>7, <2>9, <4>1
    <3>4. \A q \in j'..(n' - 1) : arr'[j'] <= arr'[q]
      BY <2>6, <3>1, <3>3
    <3>5. method' = method /\ 0 <= i' /\ i' <= n' /\ i' <= j' /\ j' < n'
      BY <1>2, <2>6 DEF BubbleTurn
    <3>6. BubbleLoop'
      BY <2>1, <3>2, <3>4, <3>5 DEF BubbleLoop
    <3> QED
      BY <1>2, <2>4, <2>5, <3>6 DEF SortInv, BubbleTurn
  <2> QED
    BY <2>8, <2>9
<1>3. CASE BubbleRoundEnd
  <2>1. BubbleLoop /\ SortTypeOK
    BY <1>3 DEF SortInv, BubbleRoundEnd
  <2>2. SortTypeOK'
    BY <1>3, <2>1 DEF SortTypeOK, BubbleRoundEnd
  <2>3. KeysKept'
    BY <1>3 DEF SortInv, BubbleRoundEnd, KeysKept, Whole
  <2>4. /\ n \in Nat /\ i \in Int /\ 0 <= i /\ i < n /\ j = i /\ \A t \in 0..(n - 1) : arr[t] \in Int
        /\ \A q \in i..(n - 1) : arr[i] <= arr[q]
    BY <1>3, <2>1 DEF SortTypeOK, BubbleRoundEnd, BubbleLoop
  <2>5. FinalTo(i)'
    BY <1>3, <2>1, <2>4 DEF BubbleRoundEnd, BubbleLoop, FinalTo
  <2>6. i' < n' => \A q \in j'..(n' - 1) : arr'[j'] <= arr'[q]
    BY <1>3, <2>4 DEF BubbleRoundEnd
  <2>7. BubbleLoop'
    BY <1>3, <2>1, <2>4, <2>5, <2>6 DEF BubbleRoundEnd, BubbleLoop
  <2> QED
    BY <1>3, <2>2, <2>3, <2>7 DEF SortInv, BubbleRoundEnd
<1>4. CASE BubbleEnd
  <2>1. SortTypeOK' /\ KeysKept'
    BY <1>4, GotoKeeps DEF BubbleEnd, Labels
  <2>2. BubbleLoop /\ SortTypeOK
    BY <1>4 DEF SortInv, BubbleEnd
  <2>3. Sorted' /\ method' \notin QuickSorts /\ pc' = "done"
    BY <1>4, <2>2 DEF BubbleEnd, Goto, BubbleLoop, SortTypeOK, FinalTo, Sorted, QuickSorts
  <2> QED
    BY <2>1, <2>3 DEF SortInv
<1> QED
  BY <1>1, <1>2, <1>3, <1>4 DEF Bubble

\* shellSort: the increment left for last is 1, so the last pass is an insertion sort.
LEMMA ShellKeeps ==
    ASSUME SortInv, Shell
    PROVE  SortInv'
<1> USE DEF call
<1>1. CASE ShellStart
  <2>1. SortTypeOK'
    BY <1>1 DEF SortInv, SortTypeOK, ShellStart, Labels
  <2>2. KeysKept'
    BY <1>1 DEF SortInv, ShellStart, KeysKept, Whole
  <2>3. IncrementLoop'
    BY <1>1 DEF ShellStart, IncrementLoop, FirstIncrement
  <2> QED
    BY <1>1, <2>1, <2>2, <2>3 DEF SortInv, ShellStart
<1>2. CASE Increment
  <2>1. IncrementLoop /\ SortTypeOK
    BY <1>2 DEF SortInv, Increment
  <2>2. h \in Positive /\ increments \in Seq(Positive)
    BY <2>1 DEF IncrementLoop, SortTypeOK, Positive
  <2>3. /\ increments' \in Seq(Positive) /\ increments' # <<>>
        /\ increments'[1] = IF increments = <<>> THEN h ELSE increments[1]
    BY <1>2, <2>2 DEF Increment
  <2>4. SortTypeOK'
    BY <1>2, <2>1, <2>3 DEF SortTypeOK, Increment
  <2>5. KeysKept'
    BY <1>2 DEF SortInv, Increment, KeysKept, Whole
  <2>6. IncrementLoop'
    BY <1>2, <2>1, <2>2, <2>3 DEF Increment, IncrementLoop, FirstIncrement, Positive
  <2> QED
    BY <1>2, <2>4, <2>5, <2>6 DEF SortInv, Increment
<1>3. CASE IncrementsEnd
  <2>1. SortTypeOK' /\ KeysKept'
    BY <1>3, GotoKeeps DEF IncrementsEnd, Labels
  <2>2. IncrementLoop /\ SortTypeOK
    BY <1>3 DEF SortInv, IncrementsEnd
  <2>3. pc' = "pass" /\ method' = method /\ increments' = increments /\ arr' = arr /\ n' = n
    BY <1>3 DEF IncrementsEnd, Goto, locals
  <2>4. increments = <<>> => Sorted
    <3> SUFFICES ASSUME increments = <<>> PROVE Sorted
      OBVIOUS
    <3>1. h = 1 /\ ~(h < n)
      BY <1>3, <2>2 DEF IncrementsEnd, IncrementLoop, MoreIncrements, MaxIncrements
    <3> QED
      BY <2>2, <3>1 DEF Sorted, SortTypeOK
  <2>5. PassLoop'
    BY <2>2, <2>3, <2>4 DEF IncrementLoop, PassLoop, FirstIncrement, Sorted
  <2> QED
    BY <2>1, <2>3, <2>5 DEF SortInv
<1>4. CASE NextPass
  <2>1. PassLoop /\ SortTypeOK /\ increments # <<>>
    BY <1>4 DEF SortInv, NextPass
  <2>2. increments \in Seq(Positive) /\ increments[1] = 1
    BY <2>1 DEF SortTypeOK, PassLoop, FirstIncrement
  <2>3. /\ h' \in Positive /\ increments' \in Seq(Positive)
        /\ increments' # <<>> => increments'[1] = 1
        /\ increments' = <<>> => h' = 1
    <3>1. h' = Last(increments) /\ increments' = Front(increments)
      BY <1>4 DEF NextPass
    <3>2. /\ Len(increments) \in Nat /\ Len(increments) > 0
          /\ Last(increments) \in Positive /\ Last(increments) = increments[Len(increments)]
          /\ Front(increments) \in Seq(Positive) /\ Len(Front(increments)) = Len(increments) - 1
          /\ Front(increments) # <<>> => Front(increments)[1] = increments[1]
      BY <2>1, <2>2, TopAndRest, Zenon
    <3>3. Front(increments) = <<>> => Len(increments) = 1
      BY <3>2
    <3> QED
      BY <2>2, <3>1, <3>2, <3>3
  <2>4. SortTypeOK'
    BY <1>4, <2>1, <2>3 DEF SortTypeOK, NextPass, Labels, Positive
  <2>5. KeysKept'
    BY <1>4 DEF SortInv, NextPass, KeysKept, Whole
  <2>6. InsertCall'
    BY <1>4, <2>1, <2>3 DEF NextPass, PassLoop, InsertCall, FirstIncrement, Positive
  <2>7. h' = 1 => SortedTo(i)'
    <3> SUFFICES ASSUME h' = 1, NEW p \in 0..(n' - 1), NEW q \in 0..(n' - 1), p < q, q < i'
                 PROVE  FALSE
      BY DEF SortedTo
    <3> QED
      BY <1>4, <2>4 DEF NextPass, SortTypeOK
  <2>8. InsertLoop'
    BY <2>6, <2>7 DEF InsertLoop
  <2> QED
    BY <1>4, <2>4, <2>5, <2>8 DEF SortInv, NextPass
<1>5. CASE PassesEnd
  <2>1. SortTypeOK' /\ KeysKept'
    BY <1>5, GotoKeeps DEF PassesEnd, Labels
  <2>2. Sorted /\ method \notin QuickSorts
    BY <1>5 DEF SortInv, PassesEnd, PassLoop, QuickSorts
  <2>3. Sorted' /\ method' \notin QuickSorts /\ pc' = "done"
    BY <1>5, <2>2 DEF PassesEnd, Goto, Sorted
  <2> QED
    BY <2>1, <2>3 DEF SortInv
<1> QED
  BY <1>1, <1>2, <1>3, <1>4, <1>5 DEF Shell

\* The insertions: with increment 1 the places below i are in order but for the free one.
LEMMA InsertionKeeps ==
    ASSUME SortInv, Insertion
    PROVE  SortInv'
<1> USE DEF call
<1>1. CASE InsertionStart
  <2>1. SortTypeOK'
    BY <1>1 DEF SortInv, SortTypeOK, InsertionStart, Labels
  <2>2. KeysKept'
    BY <1>1 DEF SortInv, InsertionStart, KeysKept, Whole
  <2>3. InsertCall'
    BY <1>1 DEF SortInv, InsertionStart, InsertCall, FirstIncrement
  <2>4. SortedTo(i)'
    <3> SUFFICES ASSUME NEW p \in 0..(n' - 1), NEW q \in 0..(n' - 1), p < q, q < i'
                 PROVE  FALSE
      BY DEF SortedTo
    <3> QED
      BY <1>1, <2>1 DEF InsertionStart, SortTypeOK
  <2>5. InsertLoop'
    BY <2>3, <2>4 DEF InsertLoop
  <2> QED
    BY <1>1, <2>1, <2>2, <2>5 DEF SortInv, InsertionStart
<1>2. CASE InsertSkip
  <2>1. InsertLoop /\ SortTypeOK
    BY <1>2 DEF SortInv, InsertSkip
  <2>2. SortTypeOK'
    BY <1>2, <2>1 DEF SortTypeOK, InsertSkip
  <2>3. KeysKept'
    BY <1>2 DEF SortInv, InsertSkip, KeysKept, Whole
  <2>4. InsertCall'
    BY <1>2, <2>1 DEF InsertSkip, InsertLoop, InsertCall, FirstIncrement, SortTypeOK
  <2>5. h' = 1 => SortedTo(i)'
    <3> SUFFICES ASSUME h = 1, NEW p \in 0..(n - 1), NEW q \in 0..(n - 1), p < q, q < i + 1
                 PROVE  arr[p] <= arr[q]
      BY <1>2 DEF SortedTo, InsertSkip
    <3>1. n \in Nat /\ i \in Int /\ i >= 1 /\ i < n /\ arr[i - 1] < arr[i] /\ SortedTo(i)
      BY <1>2, <2>1 DEF InsertLoop, InsertCall, InsertSkip, SortTypeOK
    <3>2. CASE q < i
      BY <3>1, <3>2 DEF SortedTo
    <3>3. CASE q = i
      <4>1. arr[p] \in Int /\ arr[i - 1] \in Int /\ arr[i] \in Int
        BY <2>1, <3>1 DEF SortTypeOK
      <4>2. p = i - 1 \/ arr[p] <= arr[i - 1]
        BY <3>1, <3>3 DEF SortedTo
      <4> QED
        BY <3>1, <3>3, <4>1, <4>2
    <3> QED
      BY <3>1, <3>2, <3>3
  <2>6. InsertLoop'
    BY <2>4, <2>5 DEF InsertLoop
  <2> QED
    BY <1>2, <2>2, <2>3, <2>6 DEF SortInv, InsertSkip
<1>3. CASE InsertTake
  <2>1. InsertLoop /\ SortTypeOK /\ Rearranged(arr, orig)
    BY <1>3 DEF SortInv, InsertTake, KeysKept, Whole
  <2>2. /\ n \in Nat /\ i \in 0..(n - 1) /\ h \in Int /\ 1 <= h /\ h <= i /\ arr \in [0..(n - 1) -> Int]
        /\ j' + h' = i /\ j' = i - h
    BY <1>3, <2>1 DEF InsertLoop, InsertCall, SortTypeOK, InsertTake
  <2>3. SortTypeOK'
    BY <1>3, <2>1, <2>2 DEF SortTypeOK, InsertTake, Labels
  <2>4. KeysKept'
    <3>1. Whole' = [arr EXCEPT ![i] = arr[i]] /\ orig' = orig
      BY <1>3, <2>2 DEF InsertTake, Whole
    <3> QED
      BY <2>1, <2>2, <3>1, TakeKeeps DEF KeysKept
  <2>5. InsertCall' /\ i' < n' /\ 0 <= j' + h' /\ j' + h' <= i'
    BY <1>3, <2>1, <2>2 DEF InsertTake, InsertLoop, InsertCall, FirstIncrement
  <2>6. h' = 1 => \A p, q \in 0..i' : p < q /\ p # j' + 1 /\ q # j' + 1 => arr'[p] <= arr'[q]
    BY <1>3, <2>1, <2>2 DEF InsertTake, InsertLoop, SortedTo
  <2>7. h' = 1 => \A q \in (j' + 2)..i' : x' <= arr'[q]
    BY <1>3, <2>2 DEF InsertTake
  <2>8. ShiftLoop'
    BY <2>5, <2>6, <2>7 DEF ShiftLoop
  <2> QED
    BY <1>3, <2>3, <2>4, <2>8 DEF SortInv, InsertTake
<1>4. CASE InsertEnd
  <2>1. InsertLoop /\ SortTypeOK
    BY <1>4 DEF SortInv, InsertEnd
  <2> DEFINE label == IF method = "shellSort" THEN "pass" ELSE "done"
  <2>2. label \in Labels \ {"shift", "high", "low", "pivot"} /\ Goto(label) /\ pc = "insert"
    BY <1>4 DEF InsertEnd, Labels
  <2>3. SortTypeOK' /\ KeysKept'
    BY <2>2, GotoKeeps
  <2>4. increments = <<>> => Sorted
    <3>1. increments = <<>> => SortedTo(i)
      BY <2>1 DEF InsertLoop, InsertCall
    <3>2. \A q \in 0..(n - 1) : q < i
      BY <1>4, <2>1 DEF InsertEnd, SortTypeOK
    <3> QED
      BY <3>1, <3>2 DEF SortedTo, Sorted
  <2>5. /\ pc' = label /\ method' = method /\ increments' = increments
        /\ (Sorted => Sorted') /\ method \notin QuickSorts
    BY <2>1, <2>2 DEF Goto, locals, Sorted, InsertLoop, InsertCall, QuickSorts
  <2>6. CASE method = "shellSort"
    <3>1. PassLoop'
      BY <2>1, <2>4, <2>5, <2>6 DEF PassLoop, InsertLoop, InsertCall, FirstIncrement
    <3> QED
      BY <2>3, <2>5, <2>6, <3>1 DEF SortInv
  <2>7. CASE method # "shellSort"
    <3>1. Sorted'
      BY <2>1, <2>4, <2>5, <2>7 DEF InsertLoop, InsertCall
    <3> QED
      BY <2>3, <2>5, <2>7, <3>1 DEF SortInv
  <2> QED
    BY <2>6, <2>7
<1>5. CASE ShiftUp
  <2>1. ShiftLoop /\ SortTypeOK /\ Rearranged([arr EXCEPT ![j + h] = x], orig)
    BY <1>5 DEF SortInv, ShiftUp, KeysKept, Whole
  <2>2. /\ n \in Nat /\ i \in Int /\ j \in Int /\ h \in Int /\ x \in Int /\ 1 <= h /\ i < n
        /\ 0 <= j /\ j < j + h /\ j + h <= i /\ arr \in [0..(n - 1) -> Int] /\ orig \in [0..(n - 1) -> Int]
        /\ j \in 0..(n - 1) /\ j + h \in 0..(n - 1) /\ j' + h = j /\ j' = j - h
        /\ arr' = [arr EXCEPT ![j + h] = arr[j]] /\ h' = h /\ i' = i /\ n' = n
    BY <1>5, <2>1 DEF ShiftLoop, InsertCall, SortTypeOK, ShiftUp, Above
  <2>3. SortTypeOK'
    BY <1>5, <2>1, <2>2 DEF SortTypeOK, ShiftUp
  <2>4. KeysKept'
    <3>1. PICK p \in 0..(n - 1) : p = j + h
      BY <2>2
    <3>2. Rearranged([[arr EXCEPT ![p] = arr[j]] EXCEPT ![j] = x], orig)
      BY <2>1, <2>2, <3>1, MoveKeeps
    <3>3. Whole' = [[arr EXCEPT ![p] = arr[j]] EXCEPT ![j] = x] /\ orig' = orig
      BY <1>5, <2>2, <3>1 DEF ShiftUp, Whole
    <3> QED
      BY <3>2, <3>3 DEF KeysKept
  <2>5. InsertCall' /\ i' < n' /\ 0 <= j' + h' /\ j' + h' <= i'
    BY <1>5, <2>1, <2>2 DEF ShiftUp, ShiftLoop, InsertCall, FirstIncrement
  <2>6. \A t \in 0..(n - 1) : arr'[t] = (IF t = j + h THEN arr[j] ELSE arr[t]) /\ arr[t] \in Int
    BY <2>2
  <2>7. h' = 1 => \A p, q \in 0..i' : p < q /\ p # j' + 1 /\ q # j' + 1 => arr'[p] <= arr'[q]
    <3> SUFFICES ASSUME h = 1, NEW p \in 0..i, NEW q \in 0..i, p < q, p # j, q # j
                 PROVE  arr'[p] <= arr'[q]
      BY <2>2
    <3>1. \A s, t \in 0..i : s < t /\ s # j + 1 /\ t # j + 1 => arr[s] <= arr[t]
      BY <2>1 DEF ShiftLoop
    <3>2. p \in 0..(n - 1) /\ q \in 0..(n - 1)
      BY <2>2
    <3>3. CASE p = j + 1
      BY <2>2, <2>6, <3>1, <3>2, <3>3
    <3>4. CASE q = j + 1
      BY <2>2, <2>6, <3>1, <3>2, <3>4
    <3>5. CASE p # j + 1 /\ q # j + 1
      BY <2>2, <2>6, <3>1, <3>2, <3>5
    <3> QED
      BY <3>3, <3>4, <3>5
  <2>8. h' = 1 => \A q \in (j' + 2)..i' : x' <= arr'[q]
    <3> SUFFICES ASSUME h = 1, NEW q \in (j + 1)..i
                 PROVE  x <= arr'[q]
      BY <1>5, <2>2 DEF ShiftUp
    <3>1. \A t \in (j + 2)..i : x <= arr[t]
      BY <2>1 DEF ShiftLoop
    <3>2. arr[j] > x /\ q \in 0..(n - 1) /\ arr[j] \in Int
      BY <1>5, <2>2 DEF ShiftUp, Above
    <3> QED
      BY <2>2, <2>6, <3>1, <3>2
  <2>9. ShiftLoop'
    BY <2>5, <2>7, <2>8 DEF ShiftLoop
  <2> QED
    BY <1>5, <2>3, <2>4, <2>9 DEF SortInv, ShiftUp
<1>6. CASE ShiftEnd
  <2>1. ShiftLoop /\ SortTypeOK /\ Rearranged([arr EXCEPT ![j + h] = x], orig)
    BY <1>6 DEF SortInv, ShiftEnd, KeysKept, Whole
  <2>2. /\ n \in Nat /\ i \in Int /\ j \in Int /\ h \in Int /\ x \in Int /\ 1 <= h /\ h <= i /\ i < n
        /\ 0 <= j + h /\ j + h <= i /\ arr \in [0..(n - 1) -> Int] /\ j + h \in 0..(n - 1)
        /\ arr' = [arr EXCEPT ![j + h] = x] /\ h' = h /\ i' = i + 1 /\ n' = n
    BY <1>6, <2>1 DEF ShiftLoop, InsertCall, SortTypeOK, ShiftEnd
  <2>3. SortTypeOK'
    BY <1>6, <2>1, <2>2 DEF SortTypeOK, ShiftEnd, Labels
  <2>4. KeysKept'
    BY <1>6, <2>1 DEF ShiftEnd, KeysKept, Whole
  <2>5. InsertCall'
    BY <1>6, <2>1, <2>2 DEF ShiftEnd, ShiftLoop, InsertCall, FirstIncrement
  <2>6. \A t \in 0..(n - 1) : arr'[t] = (IF t = j + h THEN x ELSE arr[t]) /\ arr[t] \in Int
    BY <2>2
  <2>7. h' = 1 => SortedTo(i)'
    <3> SUFFICES ASSUME h = 1, NEW p \in 0..(n - 1), NEW q \in 0..(n - 1), p < q, q < i + 1
                 PROVE  arr'[p] <= arr'[q]
      BY <2>2 DEF SortedTo
    <3>1. \A s, t \in 0..i : s < t /\ s # j + 1 /\ t # j + 1 => arr[s] <= arr[t]
      BY <2>1 DEF ShiftLoop
    <3>2. \A t \in (j + 2)..i : x <= arr[t]
      BY <2>1 DEF ShiftLoop
    <3>3. p \in 0..i /\ q \in 0..i /\ arr[p] \in Int /\ arr[q] \in Int
      BY <2>2, <2>6
    <3>4. CASE p = j + 1
      BY <2>2, <2>6, <3>2, <3>3, <3>4
    <3>5. CASE q = j + 1
      <4>1. 0 <= j /\ arr[j] \in Int /\ arr[j] <= x
        BY <1>6, <2>2, <3>5 DEF ShiftEnd, Above
      <4>2. p = j \/ arr[p] <= arr[j]
        BY <2>2, <3>1, <3>3, <3>5
      <4>3. arr'[p] = arr[p] /\ arr'[q] = x
        BY <2>2, <2>6, <3>5
      <4> QED
        BY <2>2, <3>3, <4>1, <4>2, <4>3
    <3>6. CASE p # j + 1 /\ q # j + 1
      BY <2>2, <2>6, <3>1, <3>3, <3>6
    <3> QED
      BY <3>4, <3>5, <3>6
  <2>8. InsertLoop'
    BY <2>5, <2>7 DEF InsertLoop
  <2> QED
    BY <1>6, <2>3, <2>4, <2>8 DEF SortInv, ShiftEnd
<1> QED
  BY <1>1, <1>2, <1>3, <1>4, <1>5, <1>6 DEF Insertion

\* Halving rounds down.
LEMMA Half ==
    ASSUME NEW m \in Nat
    PROVE  m \div 2 \in Nat /\ (m = 2 * (m \div 2) \/ m = 2 * (m \div 2) + 1)
OBVIOUS

\* The root of a heap holds a largest key.
LEMMA RootIsLargest ==
    ASSUME NEW len \in Nat, NEW a, \A t \in 0..(len - 1) : a[t] \in Int,
           \A p \in 0..(len - 1) : \A c \in Children(p) : c < len => a[p] >= a[c]
    PROVE  \A t \in 0..(len - 1) : a[t] <= a[0]
<1> DEFINE S == {m \in Nat : \A t \in 0..m : t < len => a[t] <= a[0]}
<1>1. 0 \in S
  OBVIOUS
<1>2. ASSUME NEW m \in Nat, m \in S
      PROVE  m + 1 \in S
  <2> SUFFICES ASSUME NEW t \in 0..(m + 1), t < len PROVE a[t] <= a[0]
    OBVIOUS
  <2>1. CASE t <= m
    BY <1>2, <2>1
  <2>2. CASE t = m + 1
    <3>1. PICK p \in Nat : m = 2 * p \/ m = 2 * p + 1
      BY Half
    <3>2. t \in Children(p) /\ p \in 0..(len - 1) /\ p \in 0..m
      BY <2>2, <3>1 DEF Children
    <3>3. a[p] >= a[t] /\ a[p] <= a[0]
      BY <1>2, <3>2
    <3>4. a[p] \in Int /\ a[t] \in Int /\ a[0] \in Int
      BY <3>2
    <3> QED
      BY <3>3, <3>4
  <2> QED
    BY <2>1, <2>2
<1>3. Nat \subseteq S
  <2> HIDE DEF S
  <2> QED
    BY <1>1, <1>2, SetInduction
<1> QED
  BY <1>3

\* What MaxIdx finds.
LEMMA MaxIdxFact ==
    ASSUME n \in Nat, h \in Int, h <= n, arr \in [0..(n - 1) -> Int], NEW p \in Nat, p < h
    PROVE  /\ MaxIdx(p) \in Nat /\ MaxIdx(p) < h /\ (MaxIdx(p) = p \/ MaxIdx(p) \in Children(p))
           /\ MaxIdx(p) # p => arr[MaxIdx(p)] > arr[p]
           /\ \A c \in Children(p) : c < h => arr[MaxIdx(p)] >= arr[c]
<1> DEFINE y == Larger(p, 2 * p + 1)
<1>1. \A t \in Nat : t < h => t \in 0..(n - 1) /\ arr[t] \in Int
  OBVIOUS
<1>2. /\ y \in Nat /\ y < h /\ y \in {p, 2 * p + 1}
      /\ y # p => arr[y] > arr[p]
      /\ arr[y] >= arr[p]
      /\ 2 * p + 1 < h => arr[y] >= arr[2 * p + 1]
  BY <1>1 DEF Larger
<1> HIDE DEF y
<1>3. MaxIdx(p) = Larger(y, 2 * p + 2)
  BY DEF MaxIdx, y
<1>4. arr[p] \in Int /\ arr[y] \in Int /\ 2 * p + 1 \in Nat /\ 2 * p + 2 \in Nat
  BY <1>1, <1>2
<1>5. CASE 2 * p + 2 < h /\ arr[2 * p + 2] > arr[y]
  <2>1. MaxIdx(p) = 2 * p + 2
    BY <1>3, <1>5 DEF Larger
  <2>2. arr[2 * p + 2] \in Int /\ (2 * p + 1 < h => arr[2 * p + 1] \in Int)
    BY <1>1, <1>4, <1>5
  <2>3. 2 * p + 1 < h => arr[2 * p + 2] >= arr[2 * p + 1]
    BY <1>2, <1>4, <1>5, <2>2
  <2> QED
    BY <1>2, <1>4, <1>5, <2>1, <2>2, <2>3 DEF Children
<1>6. CASE ~(2 * p + 2 < h /\ arr[2 * p + 2] > arr[y])
  <2>1. MaxIdx(p) = y
    BY <1>3, <1>6 DEF Larger
  <2>2. 2 * p + 2 < h => arr[2 * p + 2] \in Int /\ arr[y] >= arr[2 * p + 2]
    BY <1>1, <1>4, <1>6
  <2> QED
    BY <1>2, <1>4, <2>1, <2>2 DEF Children
<1> QED
  BY <1>5, <1>6

\* A turn of adjust that goes down keeps the heap but for the new index.
LEMMA AdjustDownLoop ==
    ASSUME SortTypeOK, h <= n, NEW F \in Nat, AdjustLoop(F), AdjustDown
    PROVE  /\ k \in 0..(h - 1) /\ MaxIdx(k) \in 0..(h - 1) /\ arr' \in [0..(n - 1) -> Int]
           /\ AdjustLoop(F)'
           /\ \A t \in 0..(n - 1) :
                  arr'[t] = IF t = MaxIdx(k) THEN arr[k] ELSE IF t = k THEN arr[MaxIdx(k)] ELSE arr[t]
<1> USE DEF call
<1>1. /\ n \in Nat /\ h \in Int /\ k \in Nat /\ k < h /\ F <= k /\ arr \in [0..(n - 1) -> Int]
      /\ k \in 0..(h - 1)
  BY DEF SortTypeOK, AdjustLoop
<1>2. PICK m : m = MaxIdx(k)
  OBVIOUS
<1>3. /\ m \in Nat /\ m < h /\ m \in Children(k) /\ m # k /\ arr[m] > arr[k]
      /\ \A c \in Children(k) : c < h => arr[m] >= arr[c]
  BY <1>1, <1>2, MaxIdxFact DEF AdjustDown
<1>4. arr' = Swap(arr, m, k) /\ k' = m /\ h' = h /\ n' = n /\ method' = method
  BY <1>2 DEF AdjustDown
<1>5. m \in 0..(n - 1) /\ k \in 0..(n - 1) /\ m > k
  BY <1>1, <1>3 DEF Children
<1>6. /\ arr' \in [0..(n - 1) -> Int]
      /\ \A t \in 0..(n - 1) : arr'[t] = IF t = m THEN arr[k] ELSE IF t = k THEN arr[m] ELSE arr[t]
  BY <1>1, <1>4, <1>5 DEF Swap
<1>7. \A t \in 0..(n - 1) : arr[t] \in Int
  BY <1>1
<1>8. \A p, q \in Nat : (m \in Children(p) => p = k) /\ (k \in Children(p) => p # k /\ p # m /\ p < k)
  BY <1>1, <1>3 DEF Children
<1>9. \A p \in F..(h - 1) : p # m => \A c \in Children(p) : c < h => arr'[p] >= arr'[c]
  <2> SUFFICES ASSUME NEW p \in F..(h - 1), p # m, NEW c \in Children(p), c < h
               PROVE  arr'[p] >= arr'[c]
    OBVIOUS
  <2>1. /\ p \in Nat /\ p \in 0..(n - 1) /\ c \in Nat /\ c \in 0..(n - 1) /\ c > p
        /\ arr[p] \in Int /\ arr[c] \in Int /\ arr[k] \in Int /\ arr[m] \in Int
    BY <1>1, <1>5, <1>7 DEF Children
  <2>2. CASE p = k
    BY <1>3, <1>6, <2>1, <2>2
  <2>3. CASE p # k
    <3>1. c # m /\ arr'[p] = arr[p]
      BY <1>6, <1>8, <2>1, <2>3
    <3>2. CASE c = k
      <4>1. arr[p] >= arr[m]
        BY <1>3, <3>2 DEF AdjustLoop
      <4> QED
        BY <1>5, <1>6, <2>1, <3>1, <3>2, <4>1
    <3>3. CASE c # k
      <4>1. arr[p] >= arr[c]
        BY <2>3 DEF AdjustLoop, NodeOK
      <4> QED
        BY <1>6, <2>1, <3>1, <3>3, <4>1
    <3> QED
      BY <3>2, <3>3
  <2> QED
    BY <2>2, <2>3
<1>10. \A p \in F..(h - 1) : m \in Children(p) => \A c \in Children(m) : c < h => arr'[p] >= arr'[c]
  <2> SUFFICES ASSUME NEW p \in F..(h - 1), m \in Children(p), NEW c \in Children(m), c < h
               PROVE  arr'[p] >= arr'[c]
    OBVIOUS
  <2>1. p = k /\ c \in 0..(n - 1) /\ c > m
    BY <1>1, <1>3, <1>8 DEF Children
  <2>2. arr[m] >= arr[c]
    BY <1>1, <1>3, <1>5 DEF AdjustLoop, NodeOK
  <2> QED
    BY <1>3, <1>5, <1>6, <2>1, <2>2
<1>11. AdjustLoop(F)'
  <2>1. F <= k' /\ k' < h' /\ method' = "heapSort"
    BY <1>1, <1>3, <1>4, <1>5 DEF AdjustLoop
  <2>2. \A p \in F..(h' - 1) : p # k' => NodeOK(p, h)'
    BY <1>4, <1>9 DEF NodeOK
  <2>3. \A p \in F..(h' - 1) : k' \in Children(p) => \A c \in Children(k') : c < h' => arr'[p] >= arr'[c]
    BY <1>4, <1>10
  <2> QED
    BY <2>1, <2>2, <2>3 DEF AdjustLoop
<1> QED
  BY <1>1, <1>2, <1>3, <1>6, <1>11

\* When adjust ends, the heap is one.
LEMMA AdjustEndLoop ==
    ASSUME SortTypeOK, h <= n, NEW F \in Nat, AdjustLoop(F), MaxIdx(k) = k
    PROVE  \A p \in F..(h - 1) : NodeOK(p, h)
<1>1. n \in Nat /\ h \in Int /\ k \in Nat /\ k < h /\ arr \in [0..(n - 1) -> Int]
  BY DEF SortTypeOK, AdjustLoop
<1>2. NodeOK(k, h)
  BY <1>1, MaxIdxFact DEF NodeOK
<1> QED
  BY <1>2 DEF AdjustLoop

\* heapSort: the heap below i, and the final keys from there on.
LEMMA HeapKeeps ==
    ASSUME SortInv, HeapSort
    PROVE  SortInv'
<1> USE DEF call
<1>1. CASE HeapStart
  <2>1. n \in Nat /\ SortTypeOK
    BY DEF SortInv, SortTypeOK
  <2>2. PICK d \in Nat : d = n \div 2 /\ (n = 2 * d \/ n = 2 * d + 1)
    BY <2>1, Half
  <2>3. i' = d - 1 /\ n' = n /\ method' = "heapSort" /\ pc' = "build"
    BY <1>1, <2>2 DEF HeapStart
  <2>4. SortTypeOK'
    BY <1>1, <2>1, <2>3 DEF SortTypeOK, HeapStart, Labels
  <2>5. KeysKept'
    BY <1>1 DEF SortInv, HeapStart, KeysKept, Whole
  <2>6. \A p \in (i' + 1)..(n' - 1) : NodeOK(p, n)'
    BY <2>1, <2>2, <2>3 DEF NodeOK, Children
  <2>7. BuildLoop'
    BY <2>1, <2>2, <2>3, <2>6 DEF BuildLoop
  <2> QED
    BY <2>3, <2>4, <2>5, <2>7 DEF SortInv
<1>2. CASE Build
  <2>1. BuildLoop /\ SortTypeOK
    BY <1>2 DEF SortInv, Build
  <2>2. /\ n \in Nat /\ i \in Int /\ 0 <= i /\ i < n /\ method' = "heapSort"
        /\ i' = i /\ n' = n /\ h' = n /\ k' = i /\ arr' = arr /\ pc' = "adjustBuild"
    BY <1>2, <2>1 DEF Build, BuildLoop, SortTypeOK
  <2>3. SortTypeOK'
    BY <1>2, <2>1, <2>2 DEF SortTypeOK, Build, Labels
  <2>4. KeysKept'
    BY <1>2 DEF SortInv, Build, KeysKept, Whole
  <2>5. \A p \in i'..(h' - 1) : p # k' => NodeOK(p, h)'
    BY <2>1, <2>2 DEF BuildLoop, NodeOK
  <2>6. \A p \in i'..(h' - 1) : k' \notin Children(p)
    BY <2>2 DEF Children
  <2>7. AdjustBuild'
    BY <2>2, <2>5, <2>6 DEF AdjustBuild, AdjustLoop
  <2> QED
    BY <2>2, <2>3, <2>4, <2>7 DEF SortInv
<1>3. CASE BuildEnd
  <2>1. BuildLoop /\ SortTypeOK
    BY <1>3 DEF SortInv, BuildEnd
  <2>2. /\ n \in Nat /\ i = -1 /\ method' = "heapSort"
        /\ i' = n - 1 /\ n' = n /\ arr' = arr /\ pc' = "extract"
    BY <1>3, <2>1 DEF BuildEnd, BuildLoop, SortTypeOK
  <2>3. SortTypeOK'
    BY <1>3, <2>1, <2>2 DEF SortTypeOK, BuildEnd, Labels
  <2>4. KeysKept'
    BY <1>3 DEF SortInv, BuildEnd, KeysKept, Whole
  <2>5. \A p \in 0..i' : NodeOK(p, i + 1)'
    <3>1. i' + 1 = n /\ \A p \in 0..(n - 1) : NodeOK(p, n)
      BY <2>1, <2>2 DEF BuildLoop
    <3> QED
      BY <2>2, <3>1 DEF NodeOK
  <2>6. FinalFrom(i + 1)'
    BY <2>2 DEF FinalFrom
  <2>7. ExtractLoop'
    BY <2>2, <2>5, <2>6 DEF ExtractLoop
  <2> QED
    BY <2>2, <2>3, <2>4, <2>7 DEF SortInv
<1>4. CASE Extract
  <2>1. ExtractLoop /\ SortTypeOK /\ Rearranged(arr, orig)
    BY <1>4 DEF SortInv, Extract, KeysKept, Whole
  <2>2. /\ n \in Nat /\ i \in Int /\ 1 <= i /\ i < n /\ method' = "heapSort"
        /\ i' = i /\ n' = n /\ h' = i /\ k' = 0 /\ pc' = "adjustExtract" /\ arr' = Swap(arr, 0, i)
        /\ 0 \in 0..(n - 1) /\ i \in 0..(n - 1) /\ arr \in [0..(n - 1) -> Int] /\ orig \in [0..(n - 1) -> Int]
    BY <1>4, <2>1 DEF Extract, ExtractLoop, SortTypeOK
  <2>3. arr' \in [0..(n - 1) -> Int] /\ Rearranged(arr', orig)
    BY <2>1, <2>2, SwapKeeps
  <2>4. SortTypeOK'
    BY <1>4, <2>1, <2>2, <2>3 DEF SortTypeOK, Extract, Labels
  <2>5. KeysKept'
    BY <1>4, <2>3 DEF Extract, KeysKept, Whole
  <2>6. \A t \in 0..(n - 1) : arr'[t] = (IF t = 0 THEN arr[i] ELSE IF t = i THEN arr[0] ELSE arr[t])
                              /\ arr[t] \in Int
    BY <2>2 DEF Swap
  <2>7. \A p \in 0..(h' - 1) : p # k' => NodeOK(p, h)'
    <3> SUFFICES ASSUME NEW p \in 1..(i - 1), NEW c \in Children(p), c < i
                 PROVE  arr'[p] >= arr'[c]
      BY <2>2 DEF NodeOK
    <3>1. p \in 0..i /\ c < i + 1 /\ c > 0 /\ c \in 0..(n - 1) /\ p \in 0..(n - 1)
      BY <2>2 DEF Children
    <3>2. arr[p] >= arr[c]
      BY <2>1, <3>1 DEF ExtractLoop, NodeOK
    <3> QED
      BY <2>2, <2>6, <3>1, <3>2
  <2>8. \A p \in 0..(h' - 1) : k' \notin Children(p)
    BY <2>2 DEF Children
  <2>9. FinalFrom(i)'
    <3> SUFFICES ASSUME NEW p \in 0..(n - 1), NEW q \in 0..(n - 1), p < q, i <= q
                 PROVE  arr'[p] <= arr'[q]
      BY <2>2 DEF FinalFrom
    <3>1. \A t \in 0..i : arr[t] <= arr[0]
      <4>1. PICK len \in Nat : len = i + 1
        BY <2>2
      <4>2. \A t \in 0..(len - 1) : arr[t] \in Int
        BY <2>2, <2>6, <4>1
      <4>3. \A s \in 0..(len - 1) : \A c \in Children(s) : c < len => arr[s] >= arr[c]
        BY <2>1, <2>2, <4>1 DEF ExtractLoop, NodeOK
      <4>4. \A t \in 0..(len - 1) : arr[t] <= arr[0]
        BY <4>2, <4>3, RootIsLargest
      <4> QED
        BY <2>2, <4>1, <4>4
    <3>2. CASE q = i
      BY <2>2, <2>6, <3>1, <3>2
    <3>3. CASE q > i
      <4>1. \A t \in 0..(n - 1) : t < q => arr[t] <= arr[q]
        BY <2>1, <2>2, <3>3 DEF ExtractLoop, FinalFrom
      <4> QED
        BY <2>2, <2>6, <3>3, <4>1
    <3> QED
      BY <2>2, <3>2, <3>3
  <2>10. AdjustExtract'
    BY <2>2, <2>7, <2>8, <2>9 DEF AdjustExtract, AdjustLoop
  <2> QED
    BY <2>2, <2>4, <2>5, <2>10 DEF SortInv
<1>5. CASE ExtractEnd
  <2>1. SortTypeOK' /\ KeysKept'
    BY <1>5, GotoKeeps DEF ExtractEnd, Labels
  <2>2. ExtractLoop /\ SortTypeOK
    BY <1>5 DEF SortInv, ExtractEnd
  <2>3. pc' = "done" /\ method' = "heapSort" /\ arr' = arr /\ n' = n
    BY <1>5, <2>2 DEF ExtractEnd, Goto, ExtractLoop
  <2>4. Sorted
    BY <1>5, <2>2 DEF ExtractEnd, ExtractLoop, SortTypeOK, FinalFrom, Sorted
  <2> QED
    BY <2>1, <2>3, <2>4 DEF SortInv, Sorted, QuickSorts
<1>6. CASE AdjustDown
  <2>1. Adjusting /\ SortTypeOK /\ Rearranged(arr, orig)
    BY <1>6 DEF SortInv, AdjustDown, Adjusting, KeysKept, Whole
  <2>2. PICK F \in Nat : /\ h <= n /\ AdjustLoop(F)
                         /\ pc = "adjustBuild" => F = i
                         /\ pc = "adjustExtract" => F = 0
    <3>1. CASE pc = "adjustBuild"
      <4>1. AdjustBuild
        BY <3>1 DEF SortInv
      <4> QED
        BY <2>1, <3>1, <4>1 DEF AdjustBuild, SortTypeOK
    <3>2. CASE pc = "adjustExtract"
      <4>1. AdjustExtract
        BY <3>2 DEF SortInv
      <4> QED
        BY <2>1, <3>2, <4>1 DEF AdjustExtract, SortTypeOK
    <3> QED
      BY <2>1, <3>1, <3>2 DEF Adjusting
  <2> DEFINE m == MaxIdx(k)
  <2>3. /\ k \in 0..(h - 1) /\ m \in 0..(h - 1) /\ arr' \in [0..(n - 1) -> Int]
        /\ AdjustLoop(F)'
        /\ \A t \in 0..(n - 1) : arr'[t] = IF t = m THEN arr[k] ELSE IF t = k THEN arr[m] ELSE arr[t]
    BY <1>6, <2>1, <2>2, AdjustDownLoop
  <2>4. /\ arr' = Swap(arr, m, k) /\ k' = m /\ h' = h /\ n' = n /\ i' = i /\ pc' = pc /\ orig' = orig
    BY <1>6 DEF AdjustDown
  <2> HIDE DEF m
  <2>5. n \in Nat /\ h \in Int /\ m \in 0..(n - 1) /\ k \in 0..(n - 1) /\ arr \in [0..(n - 1) -> Int]
        /\ orig \in [0..(n - 1) -> Int]
    BY <2>1, <2>2, <2>3 DEF SortTypeOK
  <2>6. Rearranged(arr', orig)
    BY <2>1, <2>4, <2>5, SwapKeeps
  <2>7. SortTypeOK'
    BY <1>6, <2>1, <2>3, <2>4, <2>5 DEF SortTypeOK, AdjustDown
  <2>8. KeysKept'
    BY <2>1, <2>4, <2>6 DEF Adjusting, KeysKept, Whole
  <2>9. CASE pc = "adjustBuild"
    <3>1. AdjustBuild /\ F = i
      BY <2>2, <2>9 DEF SortInv
    <3>2. AdjustBuild'
      BY <2>3, <2>4, <3>1 DEF AdjustBuild
    <3> QED
      BY <2>4, <2>7, <2>8, <2>9, <3>2 DEF SortInv
  <2>10. CASE pc = "adjustExtract"
    <3>1. AdjustExtract /\ F = 0
      BY <2>2, <2>10 DEF SortInv
    <3>2. FinalFrom(i)'
      <4> SUFFICES ASSUME NEW p \in 0..(n - 1), NEW q \in 0..(n - 1), p < q, i <= q
                   PROVE  arr'[p] <= arr'[q]
        BY <2>4 DEF FinalFrom
      <4>1. h = i /\ i \in Int /\ \A t \in 0..(n - 1) : t < q => arr[t] <= arr[q]
        BY <2>1, <3>1 DEF AdjustExtract, FinalFrom, SortTypeOK
      <4>2. arr'[q] = arr[q] /\ k < q /\ m < q
        BY <2>3, <2>5, <4>1
      <4> QED
        BY <2>3, <2>5, <4>1, <4>2
    <3>3. AdjustExtract'
      BY <2>3, <2>4, <3>1, <3>2 DEF AdjustExtract
    <3> QED
      BY <2>4, <2>7, <2>8, <2>10, <3>3 DEF SortInv
  <2> QED
    BY <2>1, <2>9, <2>10 DEF Adjusting
<1>7. CASE AdjustEnd
  <2>1. Adjusting /\ SortTypeOK
    BY <1>7 DEF SortInv, AdjustEnd
  <2>2. /\ MaxIdx(k) = k /\ arr' = arr /\ n' = n /\ i' = i - 1 /\ method' = method
        /\ i \in Int /\ n \in Nat /\ h \in Int
    BY <1>7, <2>1 DEF AdjustEnd, SortTypeOK
  <2>3. SortTypeOK'
    BY <1>7, <2>1, <2>2 DEF SortTypeOK, AdjustEnd, Labels
  <2>4. KeysKept'
    BY <1>7 DEF SortInv, AdjustEnd, Adjusting, KeysKept, Whole
  <2>5. CASE pc = "adjustBuild"
    <3>1. AdjustBuild /\ pc' = "build"
      BY <1>7, <2>5 DEF SortInv, AdjustEnd
    <3>2. PICK F \in Nat : F = i /\ AdjustLoop(F) /\ h = n /\ i < n
      BY <2>2, <3>1 DEF AdjustBuild
    <3>3. \A p \in F..(n - 1) : NodeOK(p, n)
      BY <2>1, <2>2, <3>2, AdjustEndLoop
    <3>4. \A p \in (i' + 1)..(n' - 1) : NodeOK(p, n)'
      BY <2>2, <3>2, <3>3 DEF NodeOK
    <3>5. BuildLoop'
      BY <2>2, <3>2, <3>4 DEF BuildLoop, AdjustLoop
    <3> QED
      BY <2>3, <2>4, <3>1, <3>5 DEF SortInv
  <2>6. CASE pc = "adjustExtract"
    <3>1. AdjustExtract /\ pc' = "extract"
      BY <1>7, <2>6 DEF SortInv, AdjustEnd
    <3>2. AdjustLoop(0) /\ h = i /\ 1 <= i /\ i < n /\ FinalFrom(i) /\ method' = "heapSort"
      BY <2>2, <3>1 DEF AdjustExtract, AdjustLoop
    <3>3. \A p \in 0..(h - 1) : NodeOK(p, h)
      BY <2>1, <2>2, <3>2, AdjustEndLoop
    <3>4. \A p \in 0..i' : NodeOK(p, i + 1)'
      <4>1. i' + 1 = h /\ i' = h - 1
        BY <2>2, <3>2
      <4> QED
        BY <2>2, <3>3, <4>1 DEF NodeOK
    <3>5. FinalFrom(i + 1)'
      <4>1. i' + 1 = i
        BY <2>2
      <4> QED
        BY <2>2, <3>2, <4>1 DEF FinalFrom
    <3>6. ExtractLoop'
      BY <2>2, <3>2, <3>4, <3>5 DEF ExtractLoop
    <3> QED
      BY <2>3, <2>4, <3>1, <3>6 DEF SortInv
  <2> QED
    BY <2>1, <2>5, <2>6 DEF Adjusting
<1> QED
  BY <1>1, <1>2, <1>3, <1>4, <1>5, <1>6, <1>7 DEF HeapSort

\* r is the stack s with the range a..b on it, unless that has less than two places
\* and was left out.
Pushed(s, a, b, r) ==
    /\ r \in Seq(Int \X Int) /\ Apart(r)
    /\ \A p, q : Covered(s, p, q) => Covered(r, p, q)
    /\ a < b => \A p, q \in Int : a <= p /\ q <= b => Covered(r, p, q)
    /\ \A t \in DOMAIN r : (\E u \in DOMAIN s : r[t] = s[u]) \/ (r[t][1] = a /\ r[t][2] = b)

\* Pushing a range that meets none of those on the stack.
LEMMA PushKeeps ==
    ASSUME n \in Nat, NEW s \in Seq(Int \X Int), Apart(s),
           NEW a \in Int, NEW b \in Int, 0 <= a, a <= b + 1, b < n,
           \A t \in DOMAIN s : s[t][2] < a \/ b < s[t][1],
           NEW r, r = Push(s, a, b)
    PROVE  Pushed(s, a, b, r)
<1>1. CASE r = s /\ ~(a < b)
  BY <1>1 DEF Pushed
<1>2. CASE r = Append(s, <<a, b>>)
  <2> DEFINE e == <<a, b>>
  <2>1. e \in Int \X Int /\ e[1] = a /\ e[2] = b /\ r = Append(s, e)
    BY <1>2
  <2> HIDE DEF e
  <2>2. PICK m \in Nat : m = Len(s) /\ DOMAIN s = 1..m
    OBVIOUS
  <2>3. /\ r \in Seq(Int \X Int) /\ DOMAIN r = 1..(m + 1)
        /\ \A t \in 1..m : r[t] = s[t]
        /\ r[m + 1] = e
    BY <2>1, <2>2, Appended
  <2>4. \A t \in 1..m : s[t][1] \in Int /\ s[t][2] \in Int
    BY <2>2
  <2>5. \A t \in DOMAIN r : 0 <= r[t][1] /\ r[t][1] <= r[t][2] + 1 /\ r[t][2] < n
    <3> SUFFICES ASSUME NEW t \in 1..(m + 1)
                 PROVE  0 <= r[t][1] /\ r[t][1] <= r[t][2] + 1 /\ r[t][2] < n
      BY <2>3
    <3>1. CASE t \in 1..m
      BY <2>2, <2>3, <3>1 DEF Apart
    <3>2. CASE t = m + 1
      BY <2>1, <2>3, <3>2
    <3> QED
      BY <3>1, <3>2
  <2>6. \A t, u \in DOMAIN r : t # u => r[t][2] < r[u][1] \/ r[u][2] < r[t][1]
    <3> SUFFICES ASSUME NEW t \in 1..(m + 1), NEW u \in 1..(m + 1), t # u
                 PROVE  r[t][2] < r[u][1] \/ r[u][2] < r[t][1]
      BY <2>3
    <3>1. CASE t \in 1..m /\ u \in 1..m
      BY <2>2, <2>3, <3>1 DEF Apart
    <3>2. CASE t \in 1..m /\ u = m + 1
      BY <2>1, <2>2, <2>3, <3>2
    <3>3. CASE t = m + 1 /\ u \in 1..m
      BY <2>1, <2>2, <2>3, <3>3
    <3> QED
      BY <3>1, <3>2, <3>3
  <2>7. Apart(r)
    BY <2>5, <2>6 DEF Apart
  <2>8. \A p, q : Covered(s, p, q) => Covered(r, p, q)
    <3> SUFFICES ASSUME NEW p, NEW q, NEW t \in 1..m, s[t][1] <= p, q <= s[t][2]
                 PROVE  Covered(r, p, q)
      BY <2>2 DEF Covered
    <3>1. t \in 1..(m + 1) /\ r[t] = s[t]
      BY <2>3
    <3> QED
      BY <2>3, <3>1 DEF Covered
  <2>9. \A p, q : a <= p /\ q <= b => Covered(r, p, q)
    <3>1. m + 1 \in DOMAIN r /\ r[m + 1][1] = a /\ r[m + 1][2] = b
      BY <2>1, <2>3
    <3> QED
      BY <3>1 DEF Covered
  <2>10. \A t \in DOMAIN r : (\E u \in DOMAIN s : r[t] = s[u]) \/ (r[t][1] = a /\ r[t][2] = b)
    <3> SUFFICES ASSUME NEW t \in 1..(m + 1)
                 PROVE  (\E u \in DOMAIN s : r[t] = s[u]) \/ (r[t][1] = a /\ r[t][2] = b)
      BY <2>3
    <3>1. CASE t \in 1..m
      BY <2>2, <2>3, <3>1
    <3>2. CASE t = m + 1
      BY <2>1, <2>3, <3>2
    <3> QED
      BY <3>1, <3>2
  <2> QED
    BY <2>3, <2>7, <2>8, <2>9, <2>10 DEF Pushed
<1> QED
  BY <1>1, <1>2 DEF Push

\* The ranges pushed after a partition of low..high, with the others apart from it.
LEMMA PartsKeep ==
    ASSUME n \in Nat, NEW s \in Seq(Int \X Int), Apart(s),
           NEW a \in Int, NEW b \in Int, NEW key \in Int, 0 <= a, a <= key, key <= b, b < n,
           \A t \in DOMAIN s : s[t][2] < a \/ b < s[t][1],
           NEW r, r = Parts(s, a, key, b)
    PROVE  /\ r \in Seq(Int \X Int) /\ Apart(r)
           /\ \A p, q : Covered(s, p, q) => Covered(r, p, q)
           /\ \A p, q \in Int : p < q /\ a <= p /\ q < key => Covered(r, p, q)
           /\ \A p, q \in Int : p < q /\ key < p /\ q <= b => Covered(r, p, q)
<1>0. \A t \in DOMAIN s : s[t][1] \in Int /\ s[t][2] \in Int
  OBVIOUS
<1>1. PICK c \in Int, d \in Int : c = key - 1 /\ d = key + 1
  OBVIOUS
<1>2. CASE method = "quickSort"
  <2>1. PICK y : y = Push(s, d, b)
    OBVIOUS
  <2>2. r = Push(y, a, c)
    BY <1>1, <1>2, <2>1 DEF Parts
  <2>3. 0 <= d /\ d <= b + 1 /\ \A t \in DOMAIN s : s[t][2] < d \/ b < s[t][1]
    BY <1>0, <1>1
  <2>4. /\ y \in Seq(Int \X Int) /\ Apart(y)
        /\ \A p, q : Covered(s, p, q) => Covered(y, p, q)
        /\ d < b => \A p, q \in Int : d <= p /\ q <= b => Covered(y, p, q)
        /\ \A t \in DOMAIN y : (\E u \in DOMAIN s : y[t] = s[u]) \/ (y[t][1] = d /\ y[t][2] = b)
    <3>1. Pushed(s, d, b, y)
      BY <2>1, <2>3, PushKeeps
    <3> QED
      BY <3>1 DEF Pushed
  <2>5. \A t \in DOMAIN y : y[t][2] < a \/ c < y[t][1]
    <3> TAKE t \in DOMAIN y
    <3>1. CASE \E u \in DOMAIN s : y[t] = s[u]
      BY <1>0, <1>1, <3>1
    <3>2. CASE y[t][1] = d
      BY <1>1, <3>2
    <3> QED
      BY <2>4, <3>1, <3>2
  <2>6. a <= c + 1 /\ c < n
    BY <1>1
  <2>7. /\ r \in Seq(Int \X Int) /\ Apart(r)
        /\ \A p, q : Covered(y, p, q) => Covered(r, p, q)
        /\ a < c => \A p, q \in Int : a <= p /\ q <= c => Covered(r, p, q)
    <3>1. Pushed(y, a, c, r)
      BY <2>2, <2>4, <2>5, <2>6, PushKeeps
    <3> QED
      BY <3>1 DEF Pushed
  <2> QED
    BY <1>1, <2>4, <2>7
<1>3. CASE method # "quickSort"
  <2>1. PICK y : y = Push(s, a, c)
    OBVIOUS
  <2>2. r = Push(y, d, b)
    BY <1>1, <1>3, <2>1 DEF Parts
  <2>3. a <= c + 1 /\ c < n /\ \A t \in DOMAIN s : s[t][2] < a \/ c < s[t][1]
    BY <1>0, <1>1
  <2>4. /\ y \in Seq(Int \X Int) /\ Apart(y)
        /\ \A p, q : Covered(s, p, q) => Covered(y, p, q)
        /\ a < c => \A p, q \in Int : a <= p /\ q <= c => Covered(y, p, q)
        /\ \A t \in DOMAIN y : (\E u \in DOMAIN s : y[t] = s[u]) \/ (y[t][1] = a /\ y[t][2] = c)
    <3>1. Pushed(s, a, c, y)
      BY <2>1, <2>3, PushKeeps
    <3> QED
      BY <3>1 DEF Pushed
  <2>5. \A t \in DOMAIN y : y[t][2] < d \/ b < y[t][1]
    <3> TAKE t \in DOMAIN y
    <3>1. CASE \E u \in DOMAIN s : y[t] = s[u]
      BY <1>0, <1>1, <3>1
    <3>2. CASE y[t][2] = c
      BY <1>1, <3>2
    <3> QED
      BY <2>4, <3>1, <3>2
  <2>6. 0 <= d /\ d <= b + 1
    BY <1>1
  <2>7. /\ r \in Seq(Int \X Int) /\ Apart(r)
        /\ \A p, q : Covered(y, p, q) => Covered(r, p, q)
        /\ d < b => \A p, q \in Int : d <= p /\ q <= b => Covered(r, p, q)
    <3>1. Pushed(y, d, b, r)
      BY <2>2, <2>4, <2>5, <2>6, PushKeeps
    <3> QED
      BY <3>1 DEF Pushed
  <2> QED
    BY <1>1, <2>4, <2>7
<1> QED
  BY <1>2, <1>3

\* A step of sortPartition that copies keys inside the range only.
LEMMA PartitionStep ==
    ASSUME SortTypeOK, PartitionLoop, UNCHANGED <<call, x, stack>>,
           \A t \in Outside : arr'[t] = arr[t],
           \A t \in Inside : \E u \in Inside : arr'[t] = arr[u],
           low <= i', i' <= j', j' <= high,
           \A p \in low..(i' - 1) : arr'[p] < x,
           \A q \in (j' + 1)..high : x < arr'[q]
    PROVE  PartitionLoop'
<1>1. /\ low' = low /\ high' = high /\ Front(stack)' = Front(stack) /\ n' = n /\ method' = method
      /\ Outside' = Outside /\ Inside' = Inside /\ x' = x /\ stack' = stack
  BY DEF call, low, high, Outside, Inside
<1>2. Apart(stack)'
  BY <1>1 DEF PartitionLoop, Apart
<1>3. \A p, q \in Outside : p < q => arr'[p] < arr'[q] \/ Covered(Front(stack), p, q)
  BY DEF PartitionLoop
<1>4. \A p \in Outside : p < low => arr'[p] < x /\ \A q \in Inside : arr'[p] < arr'[q]
  BY DEF PartitionLoop
<1>5. \A p \in Outside : p > high => x < arr'[p] /\ \A q \in Inside : arr'[q] < arr'[p]
  BY DEF PartitionLoop
<1>6. \A p, q \in Outside' : p < q => arr'[p] < arr'[q] \/ Covered(Front(stack), p, q)'
  BY <1>1, <1>3 DEF Covered
<1>7. \A p \in Outside' : p < low' => arr'[p] < x' /\ \A q \in Inside' : arr'[p] < arr'[q]
  BY <1>1, <1>4
<1>8. \A p \in Outside' : p > high' => x' < arr'[p] /\ \A q \in Inside' : arr'[q] < arr'[p]
  BY <1>1, <1>5
<1>9. /\ method' \in QuickSorts /\ stack' # <<>> /\ low' <= i' /\ i' <= j' /\ j' <= high'
      /\ \A p \in low'..(i' - 1) : arr'[p] < x'
      /\ \A q \in (j' + 1)..high' : x' < arr'[q]
  BY <1>1 DEF PartitionLoop
<1> QED
  BY <1>2, <1>6, <1>7, <1>8, <1>9 DEF PartitionLoop

\* The range being partitioned.
LEMMA PartitionRange ==
    ASSUME SortTypeOK, PartitionLoop
    PROVE  /\ n \in Nat /\ low \in Int /\ high \in Int /\ i \in Int /\ j \in Int /\ x \in Int
           /\ 0 <= low /\ high < n /\ low <= i /\ i <= j /\ j <= high
           /\ Inside \subseteq 0..(n - 1) /\ i \in Inside /\ j \in Inside
           /\ arr \in [0..(n - 1) -> Int] /\ orig \in [0..(n - 1) -> Int]
<1>1. /\ stack \in Seq(Int \X Int) /\ stack # <<>> /\ n \in Nat /\ i \in Int /\ j \in Int /\ x \in Int
      /\ low <= i /\ i <= j /\ j <= high
      /\ arr \in [0..(n - 1) -> Int] /\ orig \in [0..(n - 1) -> Int]
  BY DEF SortTypeOK, PartitionLoop
<1>2. Len(stack) \in DOMAIN stack /\ Last(stack) \in Int \X Int /\ Last(stack) = stack[Len(stack)]
  <2>1. PICK X : X = Int \X Int
    OBVIOUS
  <2>2. stack \in Seq(X)
    BY <1>1, <2>1
  <2>3. /\ Len(stack) \in Nat /\ Len(stack) > 0
        /\ Last(stack) \in X /\ Last(stack) = stack[Len(stack)]
    BY <1>1, <2>2, TopAndRest
  <2> QED
    BY <2>1, <2>2, <2>3
<1>3. low \in Int /\ high \in Int /\ 0 <= low /\ high < n
  BY <1>2 DEF PartitionLoop, Apart, low, high
<1> QED
  BY <1>1, <1>3 DEF Inside

\* sortPartition: the keys the indices have passed are on their sides of the pivot.
LEMMA PartitionKeeps ==
    ASSUME SortInv, HighTurn \/ HighStop \/ LowTurn \/ LowStop
    PROVE  SortInv'
<1>1. PartitionLoop /\ SortTypeOK
  BY DEF SortInv, HighTurn, HighStop, LowTurn, LowStop
<1>2. /\ n \in Nat /\ low \in Int /\ high \in Int /\ i \in Int /\ j \in Int /\ x \in Int
      /\ 0 <= low /\ high < n /\ low <= i /\ i <= j /\ j <= high
      /\ Inside \subseteq 0..(n - 1) /\ i \in Inside /\ j \in Inside
      /\ arr \in [0..(n - 1) -> Int] /\ orig \in [0..(n - 1) -> Int]
  BY <1>1, PartitionRange
<1>3. /\ \A p \in low..(i - 1) : arr[p] < x
      /\ \A q \in (j + 1)..high : x < arr[q]
  BY <1>1 DEF PartitionLoop
<1>4. i \in 0..(n - 1) /\ j \in 0..(n - 1) /\ i \notin Outside /\ j \notin Outside
  BY <1>2 DEF Outside
<1>5. CASE HighTurn
  <2>1. /\ i < j /\ arr[j] > x /\ j' = j - 1 /\ i' = i /\ arr' = arr /\ pc' = "high" /\ pc = "high"
        /\ UNCHANGED <<call, x, stack>>
    BY <1>5 DEF HighTurn
  <2>2. SortTypeOK'
    BY <1>1, <1>5, <2>1 DEF SortTypeOK, HighTurn, call
  <2>3. KeysKept'
    BY <2>1 DEF SortInv, KeysKept, Whole, call
  <2>4. PartitionLoop'
    <3>1. \A q \in (j' + 1)..high : x < arr'[q]
      BY <1>2, <1>3, <2>1
    <3> QED
      BY <1>1, <1>2, <1>3, <2>1, <3>1, PartitionStep
  <2> QED
    BY <2>1, <2>2, <2>3, <2>4 DEF SortInv
<1>6. CASE LowTurn
  <2>1. /\ i < j /\ arr[i] < x /\ i' = i + 1 /\ j' = j /\ arr' = arr /\ pc' = "low" /\ pc = "low"
        /\ UNCHANGED <<call, x, stack>>
    BY <1>6 DEF LowTurn
  <2>2. SortTypeOK'
    BY <1>1, <1>6, <2>1 DEF SortTypeOK, LowTurn, call
  <2>3. KeysKept'
    BY <2>1 DEF SortInv, KeysKept, Whole, call
  <2>4. PartitionLoop'
    <3>1. \A p \in low..(i' - 1) : arr'[p] < x
      BY <1>2, <1>3, <2>1
    <3> QED
      BY <1>1, <1>2, <1>3, <2>1, <3>1, PartitionStep
  <2> QED
    BY <2>1, <2>2, <2>3, <2>4 DEF SortInv
<1>7. CASE HighStop
  <2>1. /\ arr' = (IF i < j THEN [arr EXCEPT ![i] = arr[j]] ELSE arr)
        /\ i' = i /\ j' = j /\ pc' = "low" /\ pc = "high" /\ UNCHANGED <<call, x, stack>>
    BY <1>7 DEF HighStop, locals
  <2>2. arr' = [arr EXCEPT ![i] = arr[j]]
    <3>1. CASE i < j
      BY <2>1, <3>1
    <3>2. CASE ~(i < j)
      <4>1. i = j /\ arr' = arr
        BY <1>2, <2>1, <3>2
      <4>2. [arr EXCEPT ![i] = arr[i]] = arr
        BY <1>2, <1>4, TakeKeeps
      <4> QED
        BY <4>1, <4>2
    <3> QED
      BY <3>1, <3>2
  <2>3. SortTypeOK'
    BY <1>1, <1>2, <1>4, <1>7, <2>1, <2>2 DEF SortTypeOK, HighStop, locals, call, Labels
  <2>4. KeysKept'
    <3>1. Rearranged([arr EXCEPT ![i] = x], orig)
      BY <2>1 DEF SortInv, KeysKept, Whole
    <3>2. Rearranged([[arr EXCEPT ![i] = arr[j]] EXCEPT ![j] = x], orig)
      BY <1>2, <1>4, <3>1, MoveKeeps
    <3>3. Whole' = [[arr EXCEPT ![i] = arr[j]] EXCEPT ![j] = x] /\ orig' = orig
      BY <2>1, <2>2 DEF Whole, call
    <3> QED
      BY <3>2, <3>3 DEF KeysKept
  <2>5. PartitionLoop'
    <3>1. \A t \in Outside : arr'[t] = arr[t]
      BY <1>2, <1>4, <2>2 DEF Outside
    <3>2. \A t \in Inside : \E u \in Inside : arr'[t] = arr[u]
      BY <1>2, <1>4, <2>2
    <3>3. \A p \in low..(i' - 1) : arr'[p] < x
      BY <1>2, <1>3, <1>4, <2>1, <2>2
    <3>4. \A q \in (j' + 1)..high : x < arr'[q]
      BY <1>2, <1>3, <1>4, <2>1, <2>2
    <3> QED
      BY <1>1, <1>2, <2>1, <3>1, <3>2, <3>3, <3>4, PartitionStep
  <2> QED
    BY <2>1, <2>3, <2>4, <2>5 DEF SortInv
<1>8. CASE LowStop
  <2>1. /\ arr' = (IF i < j THEN [arr EXCEPT ![j] = arr[i]] ELSE arr)
        /\ pc' = (IF i < j THEN "high" ELSE "pivot")
        /\ i' = i /\ j' = j /\ pc = "low" /\ UNCHANGED <<call, x, stack>>
    BY <1>8 DEF LowStop, locals
  <2>2. arr' = [arr EXCEPT ![j] = arr[i]]
    <3>1. CASE i < j
      BY <2>1, <3>1
    <3>2. CASE ~(i < j)
      <4>1. i = j /\ arr' = arr
        BY <1>2, <2>1, <3>2
      <4>2. [arr EXCEPT ![i] = arr[i]] = arr
        BY <1>2, <1>4, TakeKeeps
      <4> QED
        BY <4>1, <4>2
    <3> QED
      BY <3>1, <3>2
  <2>3. SortTypeOK'
    BY <1>1, <1>2, <1>4, <1>8, <2>1, <2>2 DEF SortTypeOK, LowStop, locals, call, Labels
  <2>4. KeysKept'
    <3>1. Rearranged([arr EXCEPT ![j] = x], orig)
      BY <2>1 DEF SortInv, KeysKept, Whole
    <3>2. Rearranged([[arr EXCEPT ![j] = arr[i]] EXCEPT ![i] = x], orig)
      BY <1>2, <1>4, <3>1, MoveKeeps
    <3>3. Whole' = [[arr EXCEPT ![j] = arr[i]] EXCEPT ![i] = x] /\ orig' = orig
      BY <2>1, <2>2 DEF Whole, call
    <3> QED
      BY <3>2, <3>3 DEF KeysKept
  <2>5. PartitionLoop'
    <3>1. \A t \in Outside : arr'[t] = arr[t]
      BY <1>2, <1>4, <2>2 DEF Outside
    <3>2. \A t \in Inside : \E u \in Inside : arr'[t] = arr[u]
      BY <1>2, <1>4, <2>2
    <3>3. \A p \in low..(i' - 1) : arr'[p] < x
      BY <1>2, <1>3, <1>4, <2>1, <2>2
    <3>4. \A q \in (j' + 1)..high : x < arr'[q]
      BY <1>2, <1>3, <1>4, <2>1, <2>2
    <3> QED
      BY <1>1, <1>2, <2>1, <3>1, <3>2, <3>3, <3>4, PartitionStep
  <2>6. pc' = "pivot" => i' = j'
    BY <1>2, <2>1
  <2>7. pc' \in {"high", "pivot"}
    BY <2>1
  <2> QED
    BY <2>3, <2>4, <2>5, <2>6, <2>7 DEF SortInv
<1> QED
  BY <1>5, <1>6, <1>7, <1>8

\* The range on top of the stack and those below it do not meet.
LEMMA TopApart ==
    ASSUME SortTypeOK, stack # <<>>, Apart(stack)
    PROVE  /\ Front(stack) \in Seq(Int \X Int) /\ Apart(Front(stack))
           /\ low \in Int /\ high \in Int /\ 0 <= low /\ low <= high + 1 /\ high < n
           /\ \A t \in DOMAIN Front(stack) :
                  /\ Front(stack)[t][1] \in Int /\ Front(stack)[t][2] \in Int
                  /\ Front(stack)[t][2] < low \/ high < Front(stack)[t][1]
           /\ \A p, q : Covered(stack, p, q) => Covered(Front(stack), p, q) \/ (low <= p /\ q <= high)
<1>1. PICK X : X = Int \X Int
  OBVIOUS
<1>2. stack \in Seq(X)
  BY <1>1 DEF SortTypeOK
<1>3. PICK m, s : m = Len(stack) /\ s = Front(stack)
  OBVIOUS
<1>4. /\ m \in Nat /\ m > 0 /\ Last(stack) \in X /\ Last(stack) = stack[m]
      /\ s \in Seq(X) /\ DOMAIN s = 1..(m - 1)
      /\ \A t \in 1..(m - 1) : s[t] = stack[t]
  BY <1>2, <1>3, TopAndRest
<1>5. DOMAIN stack = 1..m /\ \A t \in 1..m : stack[t][1] \in Int /\ stack[t][2] \in Int
  BY <1>1, <1>2, <1>3
<1>6. low = stack[m][1] /\ high = stack[m][2] /\ m \in 1..m /\ \A t \in 1..(m - 1) : t \in 1..m /\ t # m
  BY <1>4 DEF low, high
<1>7. low \in Int /\ high \in Int /\ 0 <= low /\ low <= high + 1 /\ high < n
  BY <1>5, <1>6 DEF Apart
<1>8. Apart(s)
  BY <1>4, <1>5, <1>6 DEF Apart
<1>9. \A t \in 1..(m - 1) : /\ s[t][1] \in Int /\ s[t][2] \in Int
                            /\ s[t][2] < low \/ high < s[t][1]
  BY <1>4, <1>5, <1>6 DEF Apart
<1>10. \A p, q : Covered(stack, p, q) => Covered(s, p, q) \/ (low <= p /\ q <= high)
  <2> SUFFICES ASSUME NEW p, NEW q, NEW t \in 1..m, stack[t][1] <= p, q <= stack[t][2]
               PROVE  Covered(s, p, q) \/ (low <= p /\ q <= high)
    BY <1>5 DEF Covered
  <2>1. CASE t = m
    BY <1>6, <2>1
  <2>2. CASE t \in 1..(m - 1)
    BY <1>4, <2>2 DEF Covered
  <2> QED
    BY <1>4, <2>1, <2>2
<1> QED
  BY <1>1, <1>3, <1>4, <1>7, <1>8, <1>9, <1>10

\* The quick sorts: two keys not in order lie in one of the ranges still to be sorted.
LEMMA QuickKeeps ==
    ASSUME SortInv, Quick
    PROVE  SortInv'
<1> USE DEF call
<1>1. CASE QuickStart
  <2>1. SortTypeOK /\ n \in Nat
    BY DEF SortInv, SortTypeOK
  <2>2. PICK b, e, z : b = n - 1 /\ e = <<>> /\ z = 0
    OBVIOUS
  <2>3. b \in Int /\ e \in Seq(Int \X Int) /\ z \in Int
    BY <2>1, <2>2
  <2>4. stack' = Push(e, z, b) /\ n' = n /\ arr' = arr /\ method' \in QuickSorts /\ pc' = "range"
    BY <1>1, <2>2 DEF QuickStart
  <2>5. /\ n \in Nat /\ Apart(e) /\ 0 <= z /\ z <= b + 1 /\ b < n
        /\ \A t \in DOMAIN e : e[t][2] < z \/ b < e[t][1]
    BY <2>1, <2>2 DEF Apart
  <2>6. Pushed(e, z, b, stack')
    <3>1. PICK r : r = stack'
      OBVIOUS
    <3>2. r = Push(e, z, b)
      BY <2>4, <3>1
    <3>3. Pushed(e, z, b, r)
      BY ONLY <2>5, <2>3, <3>2, PushKeeps
    <3> QED
      BY <3>1, <3>3
  <2>7. SortTypeOK'
    BY <1>1, <2>1, <2>6 DEF SortTypeOK, QuickStart, Pushed, Labels
  <2>8. KeysKept'
    BY <1>1 DEF SortInv, QuickStart, KeysKept, Whole
  <2>9. Apart(stack)'
    BY <2>4, <2>6 DEF Pushed, Apart
  <2>10. \A p, q \in 0..(n' - 1) : p < q => Covered(stack, p, q)'
    <3> SUFFICES ASSUME NEW p \in 0..(n - 1), NEW q \in 0..(n - 1), p < q
                 PROVE  Covered(stack', p, q)
      BY <2>4 DEF Covered
    <3>1. z < b /\ z <= p /\ q <= b /\ p \in Int /\ q \in Int
      BY <2>1, <2>2
    <3> QED
      BY <2>6, <3>1 DEF Pushed
  <2>11. RangeLoop'
    BY <2>4, <2>9, <2>10 DEF RangeLoop
  <2> QED
    BY <2>4, <2>7, <2>8, <2>11 DEF SortInv
<1>2. CASE PartitionStart
  <2>1. RangeLoop /\ SortTypeOK /\ Rearranged(arr, orig) /\ stack # <<>> /\ low < high
    BY <1>2 DEF SortInv, PartitionStart, KeysKept, Whole
  <2>2. /\ low \in Int /\ high \in Int /\ 0 <= low /\ high < n
        /\ \A t \in DOMAIN Front(stack) :
               /\ Front(stack)[t][1] \in Int /\ Front(stack)[t][2] \in Int
               /\ Front(stack)[t][2] < low \/ high < Front(stack)[t][1]
        /\ \A p, q : Covered(stack, p, q) => Covered(Front(stack), p, q) \/ (low <= p /\ q <= high)
    BY <2>1, TopApart DEF RangeLoop
  <2>3. /\ i' = low /\ j' = high /\ x' = arr[low] /\ arr' = arr /\ n' = n /\ orig' = orig
        /\ stack' = stack /\ method' = method /\ pc' = "high"
    BY <1>2 DEF PartitionStart
  <2>4. n \in Nat /\ arr \in [0..(n - 1) -> Int] /\ low \in 0..(n - 1)
    BY <2>1, <2>2 DEF SortTypeOK
  <2>5. SortTypeOK'
    BY <1>2, <2>1, <2>2, <2>3, <2>4 DEF SortTypeOK, PartitionStart, Labels
  <2>6. KeysKept'
    <3>1. Whole' = [arr EXCEPT ![low] = arr[low]]
      BY <2>3 DEF Whole
    <3>2. PICK p \in 0..(n - 1) : p = low
      BY <2>4
    <3>3. [arr EXCEPT ![p] = arr[p]] = arr
      BY <2>4, TakeKeeps
    <3> QED
      BY <2>1, <2>3, <3>1, <3>2, <3>3 DEF KeysKept
  <2>7. /\ low' = low /\ high' = high /\ Front(stack)' = Front(stack)
        /\ Outside' = Outside /\ Inside' = Inside
    BY <2>3 DEF low, high, Outside, Inside
  <2>8. \A p, q \in 0..(n - 1) : p < q => arr[p] < arr[q] \/ Covered(stack, p, q)
    BY <2>1 DEF RangeLoop
  <2>9. \A p, q \in Outside : p < q => arr[p] < arr[q] \/ Covered(Front(stack), p, q)
    BY <2>2, <2>4, <2>8 DEF Outside, Inside
  <2>10. \A p \in Outside : \A q \in Inside :
            (p < low => ~Covered(Front(stack), p, q)) /\ (p > high => ~Covered(Front(stack), q, p))
    <3> SUFFICES ASSUME NEW p \in Outside, NEW q \in Inside, NEW t \in DOMAIN Front(stack),
                        \/ p < low /\ Front(stack)[t][1] <= p /\ q <= Front(stack)[t][2]
                        \/ p > high /\ Front(stack)[t][1] <= q /\ p <= Front(stack)[t][2]
                 PROVE  FALSE
      BY DEF Covered
    <3> QED
      BY <2>2, <2>4 DEF Outside, Inside
  <2>11. \A p \in Outside : p < low => \A q \in Inside : arr[p] < arr[q]
    <3> SUFFICES ASSUME NEW p \in Outside, p < low, NEW q \in Inside
                 PROVE  arr[p] < arr[q]
      OBVIOUS
    <3>1. p \in 0..(n - 1) /\ q \in 0..(n - 1) /\ p < q /\ ~(low <= p)
      BY <2>2, <2>4 DEF Outside, Inside
    <3> QED
      BY <2>2, <2>8, <2>10, <3>1
  <2>12. \A p \in Outside : p > high => \A q \in Inside : arr[q] < arr[p]
    <3> SUFFICES ASSUME NEW p \in Outside, p > high, NEW q \in Inside
                 PROVE  arr[q] < arr[p]
      OBVIOUS
    <3>1. p \in 0..(n - 1) /\ q \in 0..(n - 1) /\ q < p /\ ~(p <= high)
      BY <2>2, <2>4 DEF Outside, Inside
    <3> QED
      BY <2>2, <2>8, <2>10, <3>1
  <2>13. low \in Inside /\ low <= high
    BY <2>1, <2>2 DEF Inside
  <2>14. PartitionLoop'
    <3>1. Apart(stack)' /\ method' \in QuickSorts
      BY <2>1, <2>3 DEF RangeLoop, Apart
    <3>2. \A p, q \in Outside' : p < q => arr'[p] < arr'[q] \/ Covered(Front(stack), p, q)'
      BY <2>3, <2>7, <2>9 DEF Covered
    <3>3. \A p \in Outside' : p < low' => arr'[p] < x' /\ \A q \in Inside' : arr'[p] < arr'[q]
      BY <2>3, <2>7, <2>11, <2>13
    <3>4. \A p \in Outside' : p > high' => x' < arr'[p] /\ \A q \in Inside' : arr'[q] < arr'[p]
      BY <2>3, <2>7, <2>12, <2>13
    <3>5. low' <= i' /\ i' <= j' /\ j' <= high' /\ stack' # <<>>
      BY <2>1, <2>2, <2>3, <2>7, <2>13
    <3>6. (\A p \in low'..(i' - 1) : arr'[p] < x') /\ (\A q \in (j' + 1)..high' : x' < arr'[q])
      BY <2>2, <2>3, <2>7
    <3> QED
      BY <3>1, <3>2, <3>3, <3>4, <3>5, <3>6 DEF PartitionLoop
  <2> QED
    BY <2>3, <2>5, <2>6, <2>14 DEF SortInv
<1>3. CASE RangeSkip
  <2>1. RangeLoop /\ SortTypeOK /\ stack # <<>> /\ low >= high
    BY <1>3 DEF SortInv, RangeSkip
  <2>2. /\ Front(stack) \in Seq(Int \X Int) /\ Apart(Front(stack)) /\ low \in Int /\ high \in Int
        /\ \A p, q : Covered(stack, p, q) => Covered(Front(stack), p, q) \/ (low <= p /\ q <= high)
    BY <2>1, TopApart DEF RangeLoop
  <2>3. /\ stack' = Front(stack) /\ n' = n /\ arr' = arr /\ method' = method /\ pc' = "range"
    BY <1>3 DEF RangeSkip
  <2>4. SortTypeOK'
    BY <1>3, <2>1, <2>2, <2>3 DEF SortTypeOK, RangeSkip
  <2>5. KeysKept'
    BY <1>3 DEF SortInv, RangeSkip, KeysKept, Whole
  <2>6. Apart(stack)'
    BY <2>2, <2>3 DEF Apart
  <2>7. \A p, q \in 0..(n' - 1) : p < q => arr'[p] < arr'[q] \/ Covered(stack, p, q)'
    <3> SUFFICES ASSUME NEW p \in 0..(n - 1), NEW q \in 0..(n - 1), p < q
                 PROVE  arr[p] < arr[q] \/ Covered(Front(stack), p, q)
      BY <2>3 DEF Covered
    <3>1. ~(low <= p /\ q <= high)
      BY <2>1, <2>2
    <3> QED
      BY <2>1, <2>2, <3>1 DEF RangeLoop
  <2>8. RangeLoop'
    BY <2>1, <2>3, <2>6, <2>7 DEF RangeLoop
  <2> QED
    BY <2>3, <2>4, <2>5, <2>8 DEF SortInv
<1>4. CASE RangesEnd
  <2>1. SortTypeOK' /\ KeysKept'
    BY <1>4, GotoKeeps DEF RangesEnd, Labels
  <2>2. RangeLoop /\ SortTypeOK /\ stack = <<>>
    BY <1>4 DEF SortInv, RangesEnd
  <2>3. pc' = "done" /\ arr' = arr /\ n' = n
    BY <1>4 DEF RangesEnd, Goto
  <2>4. Strict
    BY <2>2 DEF RangeLoop, Covered, Strict
  <2>5. Sorted
    BY <2>2, <2>4 DEF Strict, Sorted, SortTypeOK
  <2>6. Strict' /\ Sorted'
    BY <2>3, <2>4, <2>5 DEF Strict, Sorted
  <2> QED
    BY <2>1, <2>3, <2>6 DEF SortInv
<1>5. CASE PlacePivot
  <2>1. PartitionLoop /\ SortTypeOK /\ Rearranged([arr EXCEPT ![i] = x], orig) /\ i = j
    BY <1>5 DEF SortInv, PlacePivot, KeysKept, Whole
  <2>2. /\ n \in Nat /\ low \in Int /\ high \in Int /\ i \in Int /\ x \in Int
        /\ 0 <= low /\ high < n /\ low <= i /\ i <= high
        /\ Inside \subseteq 0..(n - 1) /\ i \in Inside
        /\ arr \in [0..(n - 1) -> Int]
    BY <2>1, PartitionRange
  <2>3. /\ Front(stack) \in Seq(Int \X Int) /\ Apart(Front(stack))
        /\ \A t \in DOMAIN Front(stack) : Front(stack)[t][2] < low \/ high < Front(stack)[t][1]
    BY <2>1, TopApart DEF PartitionLoop
  <2>4. /\ stack' = Parts(Front(stack), low, i, high) /\ arr' = [arr EXCEPT ![i] = x]
        /\ n' = n /\ method' = method /\ orig' = orig /\ pc' = "range"
    BY <1>5 DEF PlacePivot
  <2>5. /\ stack' \in Seq(Int \X Int) /\ Apart(stack')
        /\ \A p, q : Covered(Front(stack), p, q) => Covered(stack', p, q)
        /\ \A p, q \in Int : p < q /\ low <= p /\ q < i => Covered(stack', p, q)
        /\ \A p, q \in Int : p < q /\ i < p /\ q <= high => Covered(stack', p, q)
    <3>1. PICK s, a, b, key, r : s = Front(stack) /\ a = low /\ b = high /\ key = i /\ r = stack'
      OBVIOUS
    <3>2. /\ s \in Seq(Int \X Int) /\ Apart(s) /\ a \in Int /\ b \in Int /\ key \in Int
          /\ 0 <= a /\ a <= key /\ key <= b /\ b < n
          /\ \A t \in DOMAIN s : s[t][2] < a \/ b < s[t][1]
          /\ r = Parts(s, a, key, b)
      BY <2>2, <2>3, <2>4, <3>1
    <3>3. /\ r \in Seq(Int \X Int) /\ Apart(r)
          /\ \A p, q : Covered(s, p, q) => Covered(r, p, q)
          /\ \A p, q \in Int : p < q /\ a <= p /\ q < key => Covered(r, p, q)
          /\ \A p, q \in Int : p < q /\ key < p /\ q <= b => Covered(r, p, q)
      BY <2>2, <3>2, PartsKeep
    <3> QED
      BY <3>1, <3>3
  <2>6. SortTypeOK'
    BY <1>5, <2>1, <2>2, <2>4, <2>5 DEF SortTypeOK, PlacePivot, Labels
  <2>7. KeysKept'
    BY <2>1, <2>4 DEF KeysKept, Whole
  <2>8. Apart(stack)'
    BY <2>4, <2>5 DEF Apart
  <2>9. \A t \in 0..(n - 1) : arr'[t] = IF t = i THEN x ELSE arr[t]
    BY <2>2, <2>4
  <2>10. \A p, q \in 0..(n - 1) : p < q => arr'[p] < arr'[q] \/ Covered(stack', p, q)
    <3> SUFFICES ASSUME NEW p \in 0..(n - 1), NEW q \in 0..(n - 1), p < q
                 PROVE  arr'[p] < arr'[q] \/ Covered(stack', p, q)
      OBVIOUS
    <3>1. CASE p \in Outside /\ q \in Outside
      <4>1. arr[p] < arr[q] \/ Covered(Front(stack), p, q)
        BY <2>1, <3>1 DEF PartitionLoop
      <4>2. arr'[p] = arr[p] /\ arr'[q] = arr[q]
        BY <2>2, <2>9, <3>1 DEF Outside
      <4> QED
        BY <2>5, <4>1, <4>2
    <3>2. CASE p \in Outside /\ q \in Inside
      <4>1. p < low /\ arr'[p] = arr[p]
        BY <2>2, <2>9, <3>2 DEF Outside, Inside
      <4>2. arr[p] < x /\ arr[p] < arr[q]
        BY <2>1, <3>2, <4>1 DEF PartitionLoop
      <4> QED
        BY <2>9, <4>1, <4>2
    <3>3. CASE p \in Inside /\ q \in Outside
      <4>1. q > high /\ arr'[q] = arr[q]
        BY <2>2, <2>9, <3>3 DEF Outside, Inside
      <4>2. x < arr[q] /\ arr[p] < arr[q]
        BY <2>1, <3>3, <4>1 DEF PartitionLoop
      <4> QED
        BY <2>9, <4>1, <4>2
    <3>4. CASE p \in Inside /\ q \in Inside
      <4>1. low <= p /\ q <= high /\ p \in Int /\ q \in Int
        BY <2>2, <3>4 DEF Inside
      <4>2. (p < i => arr[p] < x) /\ (i < q => x < arr[q])
        BY <2>1, <2>2, <4>1 DEF PartitionLoop
      <4>3. CASE q < i
        BY <2>5, <4>1, <4>3
      <4>4. CASE i < p
        BY <2>5, <4>1, <4>4
      <4>5. CASE p <= i /\ i <= q
        <5>1. arr[p] \in Int /\ arr[q] \in Int
          BY <2>2
        <5> QED
          BY <2>2, <2>9, <4>1, <4>2, <4>5, <5>1
      <4> QED
        BY <2>2, <4>1, <4>3, <4>4, <4>5
    <3> QED
      BY <3>1, <3>2, <3>3, <3>4 DEF Outside
  <2>11. RangeLoop'
    <3>1. \A p, q \in 0..(n' - 1) : p < q => arr'[p] < arr'[q] \/ Covered(stack, p, q)'
      BY <2>4, <2>10 DEF Covered
    <3> QED
      BY <2>1, <2>4, <2>8, <3>1 DEF RangeLoop, PartitionLoop
  <2> QED
    BY <2>4, <2>6, <2>7, <2>11 DEF SortInv
<1> QED
  BY <1>1, <1>2, <1>3, <1>4, <1>5, PartitionKeeps DEF Quick

-------------------------------------------------------------------------------
\* Every turn of every sort keeps the invariants of the loops.
LEMMA SortNextInv == SortInv /\ [SortNext]_sortVars => SortInv'
<1> SUFFICES ASSUME SortInv, [SortNext]_sortVars PROVE SortInv'
  OBVIOUS
<1>1. ASSUME NEW m \in Methods, NEW size \in 0..MaxSize, NEW a \in [0..(size - 1) -> Keys],
             pc = "idle", Call(m, size, a)
      PROVE  SortInv'
  <2>1. size \in Nat
    BY SortAssumption
  <2> QED
    BY <1>1, <2>1, CallKeeps
<1>2. CASE UNCHANGED sortVars
  <2>1. UNCHANGED <<pc, method, n, orig, arr, i, j, k, h, x, increments, stack>>
    BY <1>2 DEF sortVars, call, locals
  <2>2. low' = low /\ high' = high /\ Inside' = Inside /\ Outside' = Outside
    BY <2>1 DEF low, high, Inside, Outside
  <2> QED
    BY <2>1, <2>2
    DEF SortInv, SortTypeOK, KeysKept, Whole, IncrementLoop, PassLoop, InsertCall, InsertLoop, ShiftLoop,
        SelectLoop, BubbleLoop, BuildLoop, AdjustBuild, AdjustExtract, AdjustLoop, ExtractLoop, NodeOK,
        RangeLoop, PartitionLoop, Apart, Covered, FirstIncrement, SortedTo, FinalTo, FinalFrom, Sorted, Strict
<1> QED
  BY <1>1, <1>2, InsertionKeeps, ShellKeeps, SelectKeeps, BubbleKeeps, HeapKeeps, QuickKeeps
  DEF SortNext, SortTurn

\* The invariants of all loops of the seven sorts hold at every turn.
THEOREM SortLoops == SortSpec => []SortInv
<1> QED
  BY SortInitInv, SortNextInv, PTL DEF SortSpec

Places == 0..(n - 1)

\* Every place of the array the next turn of the loop reads or writes is one of it:
\* the guards of the loops (index_n >= 0, left < len, low < high) are enough.
IndicesInside ==
    /\ pc = "insert" /\ i < n => i \in Places /\ i - h \in Places
    /\ pc = "shift" => j + h \in Places /\ (j >= 0 => j \in Places)
    /\ pc = "select" /\ i < n => i \in Places /\ k \in Places /\ (j < n => j \in Places)
    /\ pc = "bubble" /\ i < n /\ j > i => j \in Places /\ j - 1 \in Places
    /\ pc = "extract" /\ i >= 1 => 0 \in Places /\ i \in Places
    /\ Adjusting => k \in Places /\ h <= n
    /\ pc = "range" /\ stack # <<>> /\ low < high => low \in Places
    /\ pc \in {"high", "low", "pivot"} => i \in Places /\ j \in Places

\* No sort reads or writes outside its array, whatever its size.
THEOREM SortsStayInside == SortSpec => []IndicesInside
<1>1. SortInv => IndicesInside
  <2> SUFFICES ASSUME SortInv PROVE IndicesInside
    OBVIOUS
  <2>1. n \in Nat /\ i \in Int /\ j \in Int /\ k \in Int /\ h \in Int /\ SortTypeOK
    BY DEF SortInv, SortTypeOK
  <2>2. pc = "insert" /\ i < n => i \in Places /\ i - h \in Places
    BY <2>1 DEF SortInv, InsertLoop, InsertCall, Places
  <2>3. pc = "shift" => j + h \in Places /\ (j >= 0 => j \in Places)
    BY <2>1 DEF SortInv, ShiftLoop, InsertCall, Places
  <2>4. pc = "select" /\ i < n => i \in Places /\ k \in Places /\ (j < n => j \in Places)
    BY <2>1 DEF SortInv, SelectLoop, Places
  <2>5. pc = "bubble" /\ i < n /\ j > i => j \in Places /\ j - 1 \in Places
    BY <2>1 DEF SortInv, BubbleLoop, Places
  <2>6. pc = "extract" /\ i >= 1 => 0 \in Places /\ i \in Places
    BY <2>1 DEF SortInv, ExtractLoop, Places
  <2>7. Adjusting => k \in Places /\ h <= n
    BY <2>1 DEF SortInv, Adjusting, AdjustBuild, AdjustExtract, AdjustLoop, Places
  <2>8. pc = "range" /\ stack # <<>> /\ low < high => low \in Places
    <3> SUFFICES ASSUME pc = "range", stack # <<>>, low < high
                 PROVE  low \in Places
      OBVIOUS
    <3>1. Apart(stack)
      BY DEF SortInv, RangeLoop
    <3>2. low \in Int /\ high \in Int /\ 0 <= low /\ high < n
      BY <2>1, <3>1, TopApart
    <3> QED
      BY <2>1, <3>2 DEF Places
  <2>9. pc \in {"high", "low", "pivot"} => i \in Places /\ j \in Places
    <3> SUFFICES ASSUME pc \in {"high", "low", "pivot"}
                 PROVE  i \in Places /\ j \in Places
      OBVIOUS
    <3>1. PartitionLoop
      BY DEF SortInv
    <3> QED
      BY <2>1, <3>1, PartitionRange DEF Places
  <2> QED
    BY <2>2, <2>3, <2>4, <2>5, <2>6, <2>7, <2>8, <2>9 DEF IndicesInside
<1> QED
  BY <1>1, SortLoops, PTL

\* At every turn of every sort the array, with the key in hand put back, holds the
\* keys it was given, each as often: also while sortPartition and the insertions
\* have copied a key over another.
THEOREM NoKeyLost == SortSpec => []KeysKept
<1>1. SortInv => KeysKept
  BY DEF SortInv
<1> QED
  BY <1>1, SortLoops, PTL

\* Whatever the array, a sort that returns has sorted it, and a quick sort returns
\* only if no two keys are equal.
THEOREM ReturnsSorted == SortSpec => []SortsSort
<1>1. SortInv => SortsSort
  <2> SUFFICES ASSUME SortInv, pc = "done"
               PROVE  Sorted /\ Rearranged(arr, orig) /\ (method \in QuickSorts => Distinct)
    BY DEF SortsSort
  <2>1. Sorted /\ Rearranged(arr, orig) /\ SortTypeOK /\ (method \in QuickSorts => Strict)
    BY DEF SortInv, KeysKept, Whole
  <2>2. ASSUME Strict
        PROVE  Distinct
    <3>1. n \in Nat /\ arr \in [0..(n - 1) -> Int] /\ DOMAIN orig = 0..(n - 1)
      BY <2>1 DEF SortTypeOK
    <3>2. PICK f \in [DOMAIN orig -> DOMAIN orig] :
                /\ \A p \in DOMAIN orig : arr[p] = orig[f[p]]
                /\ \A q \in DOMAIN orig : \E p \in DOMAIN orig : f[p] = q
      BY <2>1 DEF Rearranged
    <3> SUFFICES ASSUME NEW p \in 0..(n - 1), NEW q \in 0..(n - 1), p # q
                 PROVE  orig[p] # orig[q]
      BY DEF Distinct
    <3>3. \A u \in 0..(n - 1) : \E v \in 0..(n - 1) : f[v] = u
      BY <3>1, <3>2
    <3>4. PICK s \in 0..(n - 1) : f[s] = p
      BY <3>3
    <3>5. PICK t \in 0..(n - 1) : f[t] = q
      BY <3>3
    <3>6. f[s] = p /\ f[t] = q
      BY <3>4, <3>5
    <3>7. s # t /\ arr[s] = orig[p] /\ arr[t] = orig[q] /\ arr[s] \in Int /\ arr[t] \in Int
      BY <3>1, <3>2, <3>6
    <3>8. arr[s] < arr[t] \/ arr[t] < arr[s]
      BY <2>2, <3>1, <3>7 DEF Strict
    <3> QED
      BY <3>7, <3>8
  <2> QED
    BY <2>1, <2>2
<1> QED
  BY <1>1, SortLoops, PTL

\* Without equal keys neither index of sortPartition ever stops on a key equal to
\* the pivot: after each copy the other index moves, so no round of its loop leaves
\* both where they were.
PartitionMoves ==
    Distinct => /\ pc = "high" /\ i < j => arr[j] # x
                /\ pc = "low" /\ i < j => arr[i] # x

\* The loop of sortPartition cannot stall on an array without equal keys: the part
\* of its termination that is a safety property.
THEOREM PartitionNeverStalls == SortSpec => []PartitionMoves
<1>1. SortInv => PartitionMoves
  <2> SUFFICES ASSUME SortInv, Distinct, i < j, pc \in {"high", "low"}
               PROVE  /\ pc = "high" => arr[j] # x
                      /\ pc = "low" => arr[i] # x
    BY DEF PartitionMoves
  <2>1. PartitionLoop /\ SortTypeOK
    BY DEF SortInv
  <2>2. /\ n \in Nat /\ i \in Inside /\ j \in Inside /\ Inside \subseteq 0..(n - 1) /\ i \in Int /\ j \in Int
        /\ arr \in [0..(n - 1) -> Int] /\ orig \in [0..(n - 1) -> Int]
    BY <2>1, PartitionRange
  <2>3. i \in 0..(n - 1) /\ j \in 0..(n - 1) /\ i # j
    BY <2>2
  <2>4. \A a \in [0..(n - 1) -> Int] : Rearranged(a, orig) => a[i] # a[j]
    <3> SUFFICES ASSUME NEW a \in [0..(n - 1) -> Int], Rearranged(a, orig)
                 PROVE  a[i] # a[j]
      OBVIOUS
    <3>1. PICK f \in [DOMAIN orig -> DOMAIN orig] :
                /\ \A p \in DOMAIN orig : a[p] = orig[f[p]]
                /\ \A p, q \in DOMAIN orig : f[p] = f[q] => p = q
      BY DEF Rearranged
    <3>2. DOMAIN orig = 0..(n - 1)
      BY <2>2
    <3>3. f[i] # f[j] /\ f[i] \in 0..(n - 1) /\ f[j] \in 0..(n - 1) /\ a[i] = orig[f[i]] /\ a[j] = orig[f[j]]
      BY <2>3, <3>1, <3>2
    <3> QED
      BY <3>3 DEF Distinct
  <2>5. x \in Int
    BY <2>1 DEF SortTypeOK
  <2>6. CASE pc = "high"
    <3>1. Rearranged([arr EXCEPT ![i] = x], orig)
      BY <2>6 DEF SortInv, KeysKept, Whole
    <3>2. /\ [arr EXCEPT ![i] = x] \in [0..(n - 1) -> Int]
          /\ [arr EXCEPT ![i] = x][i] = x /\ [arr EXCEPT ![i] = x][j] = arr[j]
      BY <2>2, <2>3, <2>5
    <3> QED
      BY <2>4, <2>6, <3>1, <3>2
  <2>7. CASE pc = "low"
    <3>1. Rearranged([arr EXCEPT ![j] = x], orig)
      BY <2>7 DEF SortInv, KeysKept, Whole
    <3>2. /\ [arr EXCEPT ![j] = x] \in [0..(n - 1) -> Int]
          /\ [arr EXCEPT ![j] = x][j] = x /\ [arr EXCEPT ![j] = x][i] = arr[i]
      BY <2>2, <2>3, <2>5
    <3> QED
      BY <2>4, <2>7, <3>1, <3>2
  <2> QED
    BY <2>6, <2>7
<1> QED
  BY <1>1, SortLoops, PTL
===============================================================================
