--------------------------- MODULE BitreeTraversals ---------------------------
(***************************************************************************)
(* The traversals of MyBitree.h: the nodes in the order their values are   *)
(* printed.  postTraversal is left out.                                    *)
(***************************************************************************)
EXTENDS MyBitree

RECURSIVE Breadth(_)
\* The nodes reached from a queue of nodes, level by level.
Breadth(queue) ==
    IF queue = <<>> THEN <<>>
    ELSE LET n == Head(queue) IN <<n>> \o Breadth(Tail(queue) \o IfAny(l[n]) \o IfAny(r[n]))

BreadthTraversal(bt) == Breadth(<<bt>>)

RECURSIVE MidTraversal(_)
MidTraversal(bt) ==
    IF bt = null THEN <<>> ELSE MidTraversal(l[bt]) \o <<bt>> \o MidTraversal(r[bt])

RECURSIVE PreLoop(_, _)
\* The loop of preTraversal over its stack.
PreLoop(at, tmp) ==
    IF tmp = <<>> THEN <<>>
    ELSE LET pushed == tmp \o IfAny(r[at])
         IN  <<at>> \o IF l[at] # null THEN PreLoop(l[at], pushed)
                                       ELSE PreLoop(Last(pushed), Front(pushed))

\* Mutant of PreStack: the stack starts with the right child and not with the root.
PreStackRight(bt) == IfAny(r[bt])

\* The root is on the stack as a mark of the end.
PreStack(bt) == <<bt>>

PreTraversal(bt) == PreLoop(bt, PreStack(bt))

-------------------------------------------------------------------------------
\* insertOne keeps the tree in order: the mid-order is sorted, equal values in the
\* order of their insertion, also after deletions.
MidOrderSorted ==
    Idle /\ (\A n \in Tree : way[n] # "full")
        => LET s == MidTraversal(1)
           IN  \A t, u \in DOMAIN s : t < u =>
                 \/ value[s[t]] < value[s[u]]
                 \/ value[s[t]] = value[s[u]] /\ s[t] < s[u]

\* insertFull fills level by level: breadthTraversal prints in insertion order.
BreadthIsInsertionOrder ==
    Idle /\ (\A n \in Tree : way[n] # "one")
        => LET s == BreadthTraversal(1)
           IN  \A t, u \in DOMAIN s : t < u => s[t] < s[u]

RECURSIVE PreReference(_)
\* The recursive method kept as a comment in preTraversal.
PreReference(bt) ==
    IF bt = null THEN <<>> ELSE <<bt>> \o PreReference(l[bt]) \o PreReference(r[bt])

\* The loop of preTraversal, with the root on its stack, visits the nodes in the
\* order of the recursive method, each once, whatever the shape of the tree.
PreLoopIsRecursion == Idle => PreTraversal(1) = PreReference(1)
===============================================================================
