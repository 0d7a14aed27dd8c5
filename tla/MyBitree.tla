------------------------------- MODULE MyBitree -------------------------------
(***************************************************************************)
(* The binary tree of MyBitree.h.  Nodes are numbered in the order they    *)
(* are created, node 1 is the root object, which lives on the stack, and 0 *)
(* is the null pointer.  Insertion and deletion run turn by turn; their    *)
(* recursion is the stack calls of what is still to be done.               *)
(***************************************************************************)
EXTENDS Integers, SequencesExt

CONSTANTS
    Values,
    MaxNodes   \* the bound on the nodes created

ASSUME BitreeAssumption == Values \subseteq Int /\ MaxNodes \in Nat \ {0}

VARIABLES
    value,       \* m_value of each node created
    l, r,        \* m_lchild and m_rchild
    freed,       \* the nodes deleted, in order
    way,         \* history: the operation that created each node
    phase,       \* whether the root object exists
    busy,        \* the loop being run
    arg, pos,    \* the value to insert, and the node insertOne has come to
    list, iter,  \* tmpQ of insertFull, or tmpList of deleteTree and its iterator
    calls        \* what the deletion has still to do, the next last

made == <<value, way>>
links == <<l, r>>
temps == <<arg, pos, list, iter>>
vars == <<made, links, freed, phase, busy, temps, calls>>

Nodes == 1..MaxNodes
null == 0

Init ==
    /\ \E v \in Values : value = <<v>> /\ arg = v
    /\ l = [n \in Nodes |-> null] /\ r = [n \in Nodes |-> null]
    /\ way = <<"init">> /\ freed = <<>> /\ phase = "alive"
    /\ busy = "idle" /\ pos = 1 /\ list = <<>> /\ iter = 1 /\ calls = <<>>

Idle == busy = "idle" /\ phase = "alive"

-------------------------------------------------------------------------------
(***************************************************************************)
(* Insertion                                                               *)
(***************************************************************************)
\* Mutant of Linked: without the break the node is linked to the right side too.
LinkedTwice(p, left, new) ==
    /\ l' = IF left THEN [l EXCEPT ![p] = new] ELSE l
    /\ r' = IF r[p] = null THEN [r EXCEPT ![p] = new] ELSE r

\* A new child on one side of p.
Linked(p, left, new) ==
    /\ l' = IF left THEN [l EXCEPT ![p] = new] ELSE l
    /\ r' = IF left THEN r ELSE [r EXCEPT ![p] = new]

\* new MyBitree at the place found.
Link(p, left, how) ==
    /\ value' = Append(value, arg) /\ way' = Append(way, how)
    /\ Linked(p, left, Len(value) + 1)
    /\ busy' = "idle"
    /\ UNCHANGED <<freed, phase, temps, calls>>

InsertOne(v) ==
    /\ Idle /\ Len(value) < MaxNodes
    /\ busy' = "one" /\ arg' = v /\ pos' = 1
    /\ UNCHANGED <<made, links, freed, phase, list, iter, calls>>

\* Mutant of GoesLeft: an equal value goes left.
GoesLeftIfEqual(p) == arg <= value[p]

GoesLeft(p) == arg < value[p]

Side(p) == IF GoesLeft(p) THEN l[p] ELSE r[p]

\* insertOne calls itself for the child.
Descend ==
    /\ busy = "one" /\ Side(pos) # null
    /\ pos' = Side(pos)
    /\ UNCHANGED <<made, links, freed, phase, busy, arg, list, iter, calls>>

LinkOne == busy = "one" /\ Side(pos) = null /\ Link(pos, GoesLeft(pos), "one")

\* Also the loop of init over the rest of its array.
InsertFull(v) ==
    /\ Idle /\ Len(value) < MaxNodes
    /\ busy' = "full" /\ arg' = v /\ list' = <<1>>
    /\ UNCHANGED <<made, links, freed, phase, pos, iter, calls>>

FullTurn ==
    /\ busy = "full" /\ l[Head(list)] # null /\ r[Head(list)] # null
    /\ list' = Tail(list) \o <<l[Head(list)], r[Head(list)]>>
    /\ UNCHANGED <<made, links, freed, phase, busy, arg, pos, iter, calls>>

\* Mutant of FreeLeft: the right side is looked at first.
FreeLeftOnly(p) == r[p] # null

FreeLeft(p) == l[p] = null

LinkFull ==
    /\ busy = "full" /\ (l[Head(list)] = null \/ r[Head(list)] = null)
    /\ Link(Head(list), FreeLeft(Head(list)), "full")

-------------------------------------------------------------------------------
(***************************************************************************)
(* Deletion                                                                *)
(***************************************************************************)
\* deleteTree(): all nodes but the root, whose pointers are reset in the end.
DeleteTree ==
    /\ Idle /\ (l[1] # null \/ r[1] # null)
    /\ busy' = "collect" /\ list' = <<1>> /\ iter' = 1 /\ calls' = <<<<"reset", 1>>>>
    /\ UNCHANGED <<made, links, freed, phase, arg, pos>>

\* What the destructor of n calls: deleteTree for the left child, then for the right.
Destructor(n) == <<<<"tree", r[n]>>, <<"tree", l[n]>>>>

\* The root object ends.
Destroy ==
    /\ Idle
    /\ phase' = "destroyed" /\ busy' = "calls" /\ calls' = Destructor(1)
    /\ UNCHANGED <<made, links, freed, temps>>

ToDo(kind, n) == busy = "calls" /\ calls # <<>> /\ Last(calls) = <<kind, n>>

Leaf(n) == l[n] = null /\ r[n] = null

\* deleteTree(bt) does nothing for a leaf either.
HasChild(bt) == bt # null /\ ~Leaf(bt)

CallReturns(bt) ==
    /\ ToDo("tree", bt) /\ ~HasChild(bt)
    /\ calls' = Front(calls)
    /\ UNCHANGED <<made, links, freed, phase, busy, temps>>

CallCollects(bt) ==
    /\ ToDo("tree", bt) /\ HasChild(bt)
    /\ calls' = Front(calls) /\ busy' = "collect" /\ list' = <<bt>> /\ iter' = 1
    /\ UNCHANGED <<made, links, freed, phase, arg, pos>>

\* What is put into a queue for the child c.
IfAny(c) == IF c = null THEN <<>> ELSE <<c>>

\* The children are put behind the node that the iterator is at.
Collect ==
    /\ busy = "collect" /\ iter <= Len(list)
    /\ list' = list \o IfAny(l[list[iter]]) \o IfAny(r[list[iter]])
    /\ iter' = iter + 1
    /\ UNCHANGED <<made, links, freed, phase, busy, arg, pos, calls>>

\* The root object is erased from tmpList.  The others are deleted last to first.
ToDelete == IF list[1] = 1 THEN Tail(list) ELSE list

Collected ==
    /\ busy = "collect" /\ iter > Len(list)
    /\ calls' = calls \o [t \in DOMAIN ToDelete |-> <<"delete", ToDelete[t]>>]
    /\ busy' = "calls"
    /\ UNCHANGED <<made, links, freed, phase, temps>>

\* Mutant of Cleared: the pointers of a node are left as they are.
NotCleared(n) == UNCHANGED links

Cleared(n) == l' = [l EXCEPT ![n] = null] /\ r' = [r EXCEPT ![n] = null]

\* A node's pointers are set to null, then delete runs its destructor.
Delete(n) ==
    /\ ToDo("delete", n)
    /\ Cleared(n)
    /\ calls' = Front(calls) \o <<<<"release", n>>>> \o Destructor(n)'
    /\ UNCHANGED <<made, freed, phase, busy, temps>>

Release(n) ==
    /\ ToDo("release", n)
    /\ freed' = Append(freed, n) /\ calls' = Front(calls)
    /\ UNCHANGED <<made, links, phase, busy, temps>>

Reset(n) ==
    /\ ToDo("reset", n)
    /\ Cleared(n) /\ calls' = Front(calls)
    /\ UNCHANGED <<made, freed, phase, busy, temps>>

Return ==
    /\ busy = "calls" /\ calls = <<>> /\ busy' = "idle"
    /\ UNCHANGED <<made, links, freed, phase, temps, calls>>

-------------------------------------------------------------------------------
Inserting == (\E v \in Values : InsertOne(v) \/ InsertFull(v)) \/ Descend \/ LinkOne \/ FullTurn \/ LinkFull

Deleting ==
    \/ DeleteTree \/ Destroy \/ Collect \/ Collected \/ Return
    \/ \E n \in Nodes \cup {null} :
          CallReturns(n) \/ CallCollects(n) \/ Delete(n) \/ Release(n) \/ Reset(n)

Next == Inserting \/ Deleting

Spec == Init /\ [][Next]_vars

-------------------------------------------------------------------------------
Created == 1..Len(value)
Freed == ToSet(freed)

\* S holds with each node the children that node has in the links f and g.
Closed(f, g, S) == \A n \in S : f[n] \in S \cup {null} /\ g[n] \in S \cup {null}

\* The nodes reached from b by links f and g: the smallest such set with b in it.
Below(f, g, b) ==
    LET with == {S \in SUBSET Nodes : b \in S /\ Closed(f, g, S)}
    IN  {n \in Nodes : b # null /\ \A S \in with : n \in S}

Under(b) == Below(l, r, b)
Tree == Under(1)

\* No node is a child twice.
OneParent ==
    \A m, n \in Nodes :
        /\ l[m] = l[n] => m = n \/ l[m] = null
        /\ r[m] = r[n] => m = n \/ r[m] = null
        /\ l[m] = r[n] => l[m] = null

\* The types, and the shape of a tree: children are younger than their parent,
\* and no node is a child twice.
TypeOK ==
    /\ value \in Seq(Values) /\ Len(value) \in Nodes
    /\ way \in Seq({"init", "one", "full"}) /\ Len(way) = Len(value)
    /\ l \in [Nodes -> Nodes \cup {null}] /\ r \in [Nodes -> Nodes \cup {null}]
    /\ \A n \in Nodes : \A c \in {l[n], r[n]} \ {null} : n < c /\ c <= Len(value)
    /\ OneParent
    /\ freed \in Seq(Created) /\ phase \in {"alive", "destroyed"}
    /\ busy \in {"idle", "one", "full", "collect", "calls"}
    /\ arg \in Values /\ pos \in Created /\ list \in Seq(Created) /\ iter \in Nat \ {0}
    /\ calls \in Seq(({"tree"} \X (Created \cup {null})) \cup ({"delete", "release", "reset"} \X Created))

\* Every node that insertOne has placed is on the side of its value from each node
\* above it, also when insertFull has put some of them there and deletions have come
\* between.
SearchOrder ==
    Idle => \A m \in Nodes :
        /\ \A n \in Under(l[m]) : way[n] = "one" => value[n] < value[m]
        /\ \A n \in Under(r[m]) : way[n] = "one" => value[n] >= value[m]

\* Although every delete runs a destructor that deletes children again, no node is
\* deleted twice, and while the root lives the nodes not deleted are those of the
\* tree: deleteTree() and the insertions leave no node behind.
FreesExactlyTheTree ==
    /\ \A t, u \in DOMAIN freed : freed[t] = freed[u] => t = u
    /\ Idle => Created \ Freed = Tree

\* deleteTree(bt) deletes the tree whose root bt is: when the destructor has called it
\* for both children of the root object, no node is left but that object itself.
DestructorDeletesTree ==
    phase = "destroyed" /\ busy = "idle" => Created \ Freed = {1}
===============================================================================
