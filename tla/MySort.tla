-------------------------------- MODULE MySort --------------------------------
(***************************************************************************)
(* The seven sorts of MySort.h.  A call of one of them runs its loops turn *)
(* by turn: pc is the loop it is in.  An array of n keys is a function on  *)
(* 0..n-1, as in the code.  Timing and step counts are left out.           *)
(***************************************************************************)
EXTENDS Integers, SequencesExt

CONSTANTS
    Keys,      \* the keys to sort
    MaxSize    \* the bound on the size of an array

ASSUME SortAssumption == Keys \subseteq Int /\ MaxSize \in Nat

VARIABLES
    pc, method,   \* the loop being run, and the method it belongs to
    n, orig,      \* the size of the array, and history: the array as it was given
    arr,          \* the array
    i, j, k,      \* the indices of the loops
    h,            \* the increment of shellSort, and the heap size given to adjust
    x,            \* the key in hand: smaller, tmp or pivot
    increments,   \* the increments shellSort has still to use
    stack         \* the ranges the quick sorts have still to sort

call == <<method, n, orig>>
locals == <<i, j, k, h, x, increments, stack>>
sortVars == <<pc, call, arr, locals>>

QuickSorts == {"quickSort", "nonRecursion_quickSort"}
Methods == QuickSorts \cup {"insertionSort", "shellSort", "selectSort", "bubbleSort", "heapSort"}

SortInit ==
    /\ pc = "idle" /\ method = "insertionSort"
    /\ n = 0 /\ orig = [p \in 0..(n - 1) |-> 0] /\ arr = orig
    /\ i = 0 /\ j = 0 /\ k = 0 /\ h = 0 /\ x = 0 /\ increments = <<>> /\ stack = <<>>

Call(m, size, a) ==
    /\ pc' = "start"
    /\ method' = m /\ n' = size /\ orig' = a /\ arr' = a /\ UNCHANGED locals

Goto(label) == pc' = label /\ UNCHANGED <<call, arr, locals>>

Swap(a, p, q) == [a EXCEPT ![p] = a[q], ![q] = a[p]]

-------------------------------------------------------------------------------
(***************************************************************************)
(* Insertion and shell sort share their loops: insertion is increment 1.   *)
(***************************************************************************)
InsertionStart ==
    /\ pc = "start" /\ method = "insertionSort"
    /\ pc' = "insert" /\ h' = 1 /\ i' = 1 /\ UNCHANGED <<call, arr, j, k, x, increments, stack>>

ShellStart ==
    /\ pc = "start" /\ method = "shellSort"
    /\ pc' = "increment" /\ h' = 1 /\ increments' = <<>>
    /\ UNCHANGED <<call, arr, i, j, k, x, stack>>

\* The size of the array that holds the increments.
MaxIncrements == 20

MoreIncrements == h < n /\ Len(increments) < MaxIncrements

Increment ==
    /\ pc = "increment" /\ MoreIncrements
    /\ increments' = Append(increments, h) /\ h' = 3 * h + 1
    /\ UNCHANGED <<pc, call, arr, i, j, k, x, stack>>

IncrementsEnd == pc = "increment" /\ ~MoreIncrements /\ Goto("pass")

NextPass ==
    /\ pc = "pass" /\ increments # <<>>
    /\ pc' = "insert" /\ h' = Last(increments) /\ i' = h' /\ increments' = Front(increments)
    /\ UNCHANGED <<call, arr, j, k, x, stack>>

PassesEnd == pc = "pass" /\ increments = <<>> /\ Goto("done")

\* A key already in order is skipped.
InsertSkip ==
    /\ pc = "insert" /\ i < n /\ arr[i - h] < arr[i]
    /\ i' = i + 1 /\ UNCHANGED <<pc, call, arr, j, k, h, x, increments, stack>>

InsertTake ==
    /\ pc = "insert" /\ i < n /\ ~(arr[i - h] < arr[i])
    /\ pc' = "shift" /\ x' = arr[i] /\ j' = i - h
    /\ UNCHANGED <<call, arr, i, k, h, increments, stack>>

InsertEnd == pc = "insert" /\ i >= n /\ Goto(IF method = "shellSort" THEN "pass" ELSE "done")

Above == j >= 0 /\ arr[j] > x

\* A key above the one in hand moves up.
ShiftUp ==
    /\ pc = "shift" /\ Above
    /\ arr' = [arr EXCEPT ![j + h] = arr[j]] /\ j' = j - h
    /\ UNCHANGED <<pc, call, i, k, h, x, increments, stack>>

ShiftEnd ==
    /\ pc = "shift" /\ ~Above
    /\ arr' = [arr EXCEPT ![j + h] = x] /\ i' = i + 1 /\ pc' = "insert"
    /\ UNCHANGED <<call, j, k, h, x, increments, stack>>

-------------------------------------------------------------------------------
(***************************************************************************)
(* Selection sort: k is smallest.                                          *)
(***************************************************************************)
SelectStart ==
    /\ pc = "start" /\ method = "selectSort"
    /\ pc' = "select" /\ i' = 0 /\ j' = 0 /\ k' = 0
    /\ UNCHANGED <<call, arr, h, x, increments, stack>>

SelectTurn ==
    /\ pc = "select" /\ i < n /\ j < n
    /\ k' = IF arr[j] < arr[k] THEN j ELSE k
    /\ j' = j + 1 /\ UNCHANGED <<pc, call, arr, i, h, x, increments, stack>>

SelectSwap ==
    /\ pc = "select" /\ i < n /\ j >= n
    /\ arr' = Swap(arr, k, i)
    /\ i' = i + 1 /\ j' = i' /\ k' = i' /\ UNCHANGED <<pc, call, h, x, increments, stack>>

SelectEnd == pc = "select" /\ i >= n /\ Goto("done")

-------------------------------------------------------------------------------
(***************************************************************************)
(* Bubble sort                                                             *)
(***************************************************************************)
BubbleStart ==
    /\ pc = "start" /\ method = "bubbleSort"
    /\ pc' = "bubble" /\ i' = 0 /\ j' = n - 1 /\ UNCHANGED <<call, arr, k, h, x, increments, stack>>

BubbleTurn ==
    /\ pc = "bubble" /\ i < n /\ j > i
    /\ arr' = IF arr[j - 1] > arr[j] THEN Swap(arr, j - 1, j) ELSE arr
    /\ j' = j - 1 /\ UNCHANGED <<pc, call, i, k, h, x, increments, stack>>

BubbleRoundEnd ==
    /\ pc = "bubble" /\ i < n /\ j <= i
    /\ i' = i + 1 /\ j' = n - 1 /\ UNCHANGED <<pc, call, arr, k, h, x, increments, stack>>

BubbleEnd == pc = "bubble" /\ i >= n /\ Goto("done")

-------------------------------------------------------------------------------
(***************************************************************************)
(* Heap sort: k is the index adjust works on.                              *)
(***************************************************************************)
HeapStart ==
    /\ pc = "start" /\ method = "heapSort"
    /\ pc' = "build" /\ i' = n \div 2 - 1 /\ UNCHANGED <<call, arr, j, k, h, x, increments, stack>>

Build ==
    /\ pc = "build" /\ i >= 0
    /\ pc' = "adjustBuild" /\ h' = n /\ k' = i
    /\ UNCHANGED <<call, arr, i, j, x, increments, stack>>

BuildEnd ==
    /\ pc = "build" /\ i < 0
    /\ pc' = "extract" /\ i' = n - 1 /\ UNCHANGED <<call, arr, j, k, h, x, increments, stack>>

Extract ==
    /\ pc = "extract" /\ i >= 1
    /\ arr' = Swap(arr, 0, i)
    /\ pc' = "adjustExtract" /\ h' = i /\ k' = 0 /\ UNCHANGED <<call, i, j, x, increments, stack>>

ExtractEnd == pc = "extract" /\ i < 1 /\ Goto("done")

Adjusting == pc \in {"adjustBuild", "adjustExtract"}

\* The larger of two places, the second only if it is inside the heap.
Larger(p, q) == IF q < h /\ arr[q] > arr[p] THEN q ELSE p

\* Mutant of MaxIdx: the right child is not looked at.
MaxIdxLeft(p) == Larger(p, 2 * p + 1)

\* The largest of a node and its children.
MaxIdx(p) == Larger(Larger(p, 2 * p + 1), 2 * p + 2)

\* The recursive call is the last thing adjust does.
AdjustDown ==
    /\ Adjusting /\ MaxIdx(k) # k
    /\ arr' = Swap(arr, MaxIdx(k), k) /\ k' = MaxIdx(k)
    /\ UNCHANGED <<pc, call, i, j, h, x, increments, stack>>

AdjustEnd ==
    /\ Adjusting /\ MaxIdx(k) = k
    /\ pc' = IF pc = "adjustBuild" THEN "build" ELSE "extract"
    /\ i' = i - 1 /\ UNCHANGED <<call, arr, j, k, h, x, increments, stack>>

-------------------------------------------------------------------------------
(***************************************************************************)
(* Quick sort.  In sortPartition i and j are low and high; the range it    *)
(* works on stays on the stack until the pivot is placed.  For quickSort   *)
(* the stack is that of the calls to come: it calls itself for ranges of   *)
(* less than two keys too, and for the left part first.                    *)
(***************************************************************************)
Push(s, low, high) ==
    IF method = "quickSort" \/ low < high THEN Append(s, <<low, high>>) ELSE s

\* Mutant of Parts: the right part keeps the pivot.
PartsWithKey(s, low, key, high) == Push(Push(s, key, high), low, key - 1)

\* The ranges to be sorted after a partition.
Parts(s, low, key, high) ==
    IF method = "quickSort" THEN Push(Push(s, key + 1, high), low, key - 1)
                            ELSE Push(Push(s, low, key - 1), key + 1, high)

QuickStart ==
    /\ pc = "start" /\ method \in QuickSorts
    /\ pc' = "range" /\ stack' = Push(<<>>, 0, n - 1)
    /\ UNCHANGED <<call, arr, i, j, k, h, x, increments>>

low == Last(stack)[1]
high == Last(stack)[2]

\* sortPartition is called.
PartitionStart ==
    /\ pc = "range" /\ stack # <<>> /\ low < high
    /\ pc' = "high" /\ i' = low /\ j' = high /\ x' = arr[low]
    /\ UNCHANGED <<call, arr, k, h, increments, stack>>

\* quickSort returns at once.
RangeSkip ==
    /\ pc = "range" /\ stack # <<>> /\ low >= high
    /\ stack' = Front(stack) /\ UNCHANGED <<pc, call, arr, i, j, k, h, x, increments>>

RangesEnd == pc = "range" /\ stack = <<>> /\ Goto("done")

HighTurn ==
    /\ pc = "high" /\ i < j /\ arr[j] > x
    /\ j' = j - 1 /\ UNCHANGED <<pc, call, arr, i, k, h, x, increments, stack>>

HighStop ==
    /\ pc = "high" /\ ~(i < j /\ arr[j] > x)
    /\ pc' = "low"
    /\ arr' = IF i < j THEN [arr EXCEPT ![i] = arr[j]] ELSE arr
    /\ UNCHANGED <<call, locals>>

LowTurn ==
    /\ pc = "low" /\ i < j /\ arr[i] < x
    /\ i' = i + 1 /\ UNCHANGED <<pc, call, arr, j, k, h, x, increments, stack>>

\* When neither index has moved the next round does the same again: the loop never
\* ends.
LowStop ==
    /\ pc = "low" /\ ~(i < j /\ arr[i] < x)
    /\ pc' = IF i < j THEN "high" ELSE "pivot"
    /\ arr' = IF i < j THEN [arr EXCEPT ![j] = arr[i]] ELSE arr
    /\ UNCHANGED <<call, locals>>

PlacePivot ==
    /\ pc = "pivot" /\ pc' = "range"
    /\ arr' = [arr EXCEPT ![i] = x]
    /\ stack' = Parts(Front(stack), low, i, high) /\ UNCHANGED <<call, i, j, k, h, x, increments>>

-------------------------------------------------------------------------------
Insertion == InsertionStart \/ InsertSkip \/ InsertTake \/ InsertEnd \/ ShiftUp \/ ShiftEnd
Shell == ShellStart \/ Increment \/ IncrementsEnd \/ NextPass \/ PassesEnd
Select == SelectStart \/ SelectTurn \/ SelectSwap \/ SelectEnd
Bubble == BubbleStart \/ BubbleTurn \/ BubbleRoundEnd \/ BubbleEnd
HeapSort == HeapStart \/ Build \/ BuildEnd \/ Extract \/ ExtractEnd \/ AdjustDown \/ AdjustEnd
Quick ==
    \/ QuickStart \/ PartitionStart \/ RangeSkip \/ RangesEnd
    \/ HighTurn \/ HighStop \/ LowTurn \/ LowStop \/ PlacePivot

SortTurn == Insertion \/ Shell \/ Select \/ Bubble \/ HeapSort \/ Quick

SortNext ==
    \/ /\ pc = "idle"
       /\ \E m \in Methods : \E size \in 0..MaxSize : \E a \in [0..(size - 1) -> Keys] : Call(m, size, a)
    \/ SortTurn

\* A sort that has been called runs on.
SortSpec == SortInit /\ [][SortNext]_sortVars /\ WF_sortVars(SortTurn)

-------------------------------------------------------------------------------
Sorted == \A p, q \in 0..(n - 1) : p < q => arr[p] <= arr[q]

\* a holds the keys of b, each as often.
Rearranged(a, b) ==
    \E f \in [DOMAIN b -> DOMAIN b] :
        /\ \A p \in DOMAIN b : a[p] = b[f[p]]
        /\ \A q \in DOMAIN b : \E p \in DOMAIN b : f[p] = q
        /\ \A p, q \in DOMAIN b : f[p] = f[q] => p = q

Distinct == \A p, q \in 0..(n - 1) : p # q => orig[p] # orig[q]

\* What holds when a sort returns: the array holds the keys it was given, in order.
\* The quick sorts return only if no two keys are equal: for equal keys
\* sortPartition loops for ever.
SortsSort == pc = "done" => Sorted /\ Rearranged(arr, orig) /\ (method \in QuickSorts => Distinct)

\* Every sort returns, the quick sorts if no two keys are equal: only then does each
\* round of sortPartition move an index.
SortsEnd == (pc = "start" /\ (method \in QuickSorts => Distinct)) ~> (pc = "done")
===============================================================================
