---------------------------- MODULE MyBitreeProofs ----------------------------
(***************************************************************************)
(* What insertion and deletion in MyBitree keep true, for every number of  *)
(* nodes: the shape and the order of the tree, and what deletion frees.    *)
(***************************************************************************)
EXTENDS MyBitree, TLAPS

-------------------------------------------------------------------------------
(***************************************************************************)
(* The nodes below a node                                                  *)
(***************************************************************************)
Places == Nodes \cup {null}
Links == [Nodes -> Places]

\* A child is younger than its parent.
Younger(f) == \A n \in Nodes : f[n] # null => f[n] > n

\* No node is a child twice in the links f and g.
Single(f, g) ==
    \A m, n \in Nodes :
        /\ f[m] = f[n] => m = n \/ f[m] = null
        /\ g[m] = g[n] => m = n \/ g[m] = null
        /\ f[m] = g[n] => f[m] = null

LEMMA NodesNat == \A n \in Nodes : n \in Nat /\ n >= 1 /\ n # null
BY BitreeAssumption DEF Nodes, null

\* The nodes below b: some of Nodes, b one of them, closed, none if b is null.
LEMMA BelowClosed ==
    ASSUME NEW f \in Links, NEW g \in Links, NEW b \in Places
    PROVE  /\ Below(f, g, b) \subseteq Nodes
           /\ b # null => b \in Below(f, g, b)
           /\ Closed(f, g, Below(f, g, b))
           /\ b = null => Below(f, g, b) = {}
<1> DEFINE B == Below(f, g, b)
<1>1. B \subseteq Nodes /\ (b # null => b \in B) /\ (b = null => B = {})
  BY DEF Below, Places
<1>2. ASSUME NEW n \in B
      PROVE  f[n] \in B \cup {null} /\ g[n] \in B \cup {null}
  <2>1. n \in Nodes /\ f[n] \in Places /\ g[n] \in Places
    BY <1>1, <1>2 DEF Links
  <2>2. ASSUME NEW S \in SUBSET Nodes, b \in S, Closed(f, g, S)
        PROVE  f[n] \in S \cup {null} /\ g[n] \in S \cup {null}
    BY <1>2, <2>2 DEF Below, Closed
  <2> QED BY <2>1, <2>2 DEF Below, Places
<1> QED BY <1>1, <1>2 DEF Closed

\* They are the least such set.
LEMMA BelowLeast ==
    ASSUME NEW f, NEW g, NEW b, NEW S \in SUBSET Nodes, b \in S, Closed(f, g, S)
    PROVE  Below(f, g, b) \subseteq S
BY DEF Below

\* What is below a node below b is below b.
LEMMA BelowTransitive ==
    ASSUME NEW f \in Links, NEW g \in Links, NEW b \in Places, NEW c \in Below(f, g, b)
    PROVE  Below(f, g, c) \subseteq Below(f, g, b)
BY BelowClosed, BelowLeast

\* Below b are b and what is below its children.
LEMMA BelowUnfolds ==
    ASSUME NEW f \in Links, NEW g \in Links, NEW b \in Nodes
    PROVE  Below(f, g, b) = {b} \cup Below(f, g, f[b]) \cup Below(f, g, g[b])
<1> DEFINE S == {b} \cup Below(f, g, f[b]) \cup Below(f, g, g[b])
<1>1. b \in Places /\ f[b] \in Places /\ g[b] \in Places
  BY DEF Links, Places
<1>2. /\ Below(f, g, f[b]) \subseteq Nodes /\ Closed(f, g, Below(f, g, f[b]))
      /\ f[b] # null => f[b] \in Below(f, g, f[b])
      /\ f[b] = null => Below(f, g, f[b]) = {}
  BY <1>1, BelowClosed
<1>3. /\ Below(f, g, g[b]) \subseteq Nodes /\ Closed(f, g, Below(f, g, g[b]))
      /\ g[b] # null => g[b] \in Below(f, g, g[b])
      /\ g[b] = null => Below(f, g, g[b]) = {}
  BY <1>1, BelowClosed
<1>4. Closed(f, g, S) /\ S \subseteq Nodes
  BY <1>2, <1>3 DEF Closed
<1>5. Below(f, g, b) \subseteq S
  BY <1>4, BelowLeast
<1>6. Closed(f, g, Below(f, g, b)) /\ b \in Below(f, g, b)
  <2>1. b # null
    BY DEF Nodes, null
  <2> QED BY <1>1, <2>1, BelowClosed
<1>7. f[b] \in Below(f, g, b) \cup {null} /\ g[b] \in Below(f, g, b) \cup {null}
  BY <1>6 DEF Closed
<1>8. Below(f, g, f[b]) \subseteq Below(f, g, b)
  BY <1>1, <1>2, <1>7, BelowTransitive
<1>9. Below(f, g, g[b]) \subseteq Below(f, g, b)
  BY <1>1, <1>3, <1>7, BelowTransitive
<1> QED BY <1>5, <1>6, <1>8, <1>9

\* A node below b and not b is the child of one below b.
LEMMA BelowHasParent ==
    ASSUME NEW f \in Links, NEW g \in Links, NEW b \in Places, NEW c \in Below(f, g, b), c # b
    PROVE  \E p \in Below(f, g, b) : c = f[p] \/ c = g[p]
<1> SUFFICES ASSUME \A p \in Below(f, g, b) : c # f[p] /\ c # g[p]
             PROVE  FALSE
  OBVIOUS
<1> DEFINE S == Below(f, g, b) \ {c}
<1>1. /\ Below(f, g, b) \subseteq Nodes /\ Closed(f, g, Below(f, g, b))
      /\ b # null /\ b \in Below(f, g, b)
  BY BelowClosed
<1>2. S \subseteq Nodes /\ b \in S /\ Closed(f, g, S)
  BY <1>1 DEF Closed
<1>3. Below(f, g, b) \subseteq S
  BY <1>2, BelowLeast
<1> QED BY <1>3

\* A node below b is b or younger.
LEMMA BelowYounger ==
    ASSUME NEW f \in Links, NEW g \in Links, Younger(f), Younger(g),
           NEW b \in Nodes, NEW c \in Below(f, g, b)
    PROVE  c >= b
<1> DEFINE S == {n \in Nodes : n >= b}
<1>1. b \in S
  BY BitreeAssumption DEF Nodes
<1>2. ASSUME NEW n \in S PROVE f[n] \in S \cup {null} /\ g[n] \in S \cup {null}
  <2>1. n \in Nodes /\ f[n] \in Places /\ g[n] \in Places
    BY DEF Links
  <2> QED BY <2>1, BitreeAssumption DEF Younger, Places, Nodes
<1>3. Below(f, g, b) \subseteq S
  <2> HIDE DEF S
  <2>1. S \subseteq Nodes BY DEF S
  <2> QED BY <1>1, <1>2, <2>1, BelowLeast DEF Closed
<1> QED BY <1>3

\* The two sides of a node have nothing in common.
LEMMA SidesDisjoint ==
    ASSUME NEW f \in Links, NEW g \in Links, Younger(f), Younger(g), Single(f, g), NEW n \in Nodes
    PROVE  Below(f, g, f[n]) \cap Below(f, g, g[n]) = {}
<1> DEFINE B == Below(f, g, g[n])
           S == {m \in Nodes : m > n} \ B
<1>1. f[n] \in Places /\ g[n] \in Places
  BY DEF Links
<1>2. CASE f[n] = null \/ g[n] = null
  BY <1>1, <1>2, BelowClosed
<1>3. CASE f[n] # null /\ g[n] # null
  <2>1. f[n] \in Nodes /\ g[n] \in Nodes /\ f[n] > n /\ g[n] > n /\ f[n] # g[n]
    BY <1>1, <1>3 DEF Younger, Single, Places
  <2>2. \A p \in B : p \in Nodes /\ p # n
    <3> SUFFICES ASSUME NEW p \in B PROVE p \in Nodes /\ p # n
      OBVIOUS
    <3>1. p \in Nodes
      BY <1>1, BelowClosed
    <3>2. p >= g[n]
      BY <2>1, BelowYounger
    <3> QED BY <2>1, <3>1, <3>2, BitreeAssumption DEF Nodes
  <2>3. \A c \in B : c = g[n] \/ \E p \in B : c = f[p] \/ c = g[p]
    BY <1>1, BelowHasParent
  <2>4. f[n] \in S
    <3>1. f[n] \notin B
      BY <1>3, <2>1, <2>2, <2>3 DEF Single
    <3> QED BY <2>1, <3>1
  <2>5. ASSUME NEW m \in S PROVE f[m] \in S \cup {null} /\ g[m] \in S \cup {null}
    <3>1. m \in Nodes /\ m > n /\ m \notin B /\ f[m] \in Places /\ g[m] \in Places /\ m # n
      BY BitreeAssumption DEF Links, Nodes
    <3>2. f[m] # null => f[m] \in Nodes /\ f[m] > n
      BY <3>1, BitreeAssumption DEF Younger, Places, Nodes
    <3>3. g[m] # null => g[m] \in Nodes /\ g[m] > n
      BY <3>1, BitreeAssumption DEF Younger, Places, Nodes
    <3>4. f[m] # null => f[m] \notin B
      BY <3>1, <2>2, <2>3 DEF Single
    <3>5. g[m] # null => g[m] \notin B
      BY <3>1, <2>2, <2>3 DEF Single
    <3> QED BY <3>2, <3>3, <3>4, <3>5
  <2>6. Below(f, g, f[n]) \subseteq S
    <3> HIDE DEF S
    <3>1. S \subseteq Nodes BY DEF S
    <3> QED BY <2>4, <2>5, <3>1, BelowLeast DEF Closed
  <2> QED BY <2>6
<1> QED BY <1>2, <1>3

\* Links that agree below b lead to the same nodes.
LEMMA BelowAgrees ==
    ASSUME NEW f \in Links, NEW g \in Links, NEW b \in Places,
           NEW f2 \in Links, NEW g2 \in Links,
           \A n \in Below(f, g, b) : f2[n] = f[n] /\ g2[n] = g[n]
    PROVE  Below(f2, g2, b) = Below(f, g, b)
<1>1. CASE b = null
  BY <1>1, BelowClosed
<1>2. CASE b # null
  <2>1. /\ Below(f, g, b) \subseteq Nodes /\ b \in Below(f, g, b) /\ Closed(f, g, Below(f, g, b))
        /\ Below(f2, g2, b) \subseteq Nodes /\ b \in Below(f2, g2, b) /\ Closed(f2, g2, Below(f2, g2, b))
    BY <1>2, BelowClosed
  <2>2. Closed(f2, g2, Below(f, g, b))
    BY <2>1 DEF Closed
  <2>3. Below(f2, g2, b) \subseteq Below(f, g, b)
    BY <2>1, <2>2, BelowLeast
  <2>4. Closed(f, g, Below(f2, g2, b))
    BY <2>1, <2>3 DEF Closed
  <2>5. Below(f, g, b) \subseteq Below(f2, g2, b)
    BY <2>1, <2>4, BelowLeast
  <2> QED BY <2>3, <2>5
<1> QED BY <1>1, <1>2

\* Links set to null lead to no new node.
LEMMA BelowShrinks ==
    ASSUME NEW f \in Links, NEW g \in Links, NEW b \in Places,
           NEW f2 \in Links, NEW g2 \in Links,
           \A n \in Nodes : f2[n] \in {f[n], null} /\ g2[n] \in {g[n], null}
    PROVE  Below(f2, g2, b) \subseteq Below(f, g, b)
<1>1. CASE b = null
  BY <1>1, BelowClosed
<1>2. CASE b # null
  <2>1. Below(f, g, b) \subseteq Nodes /\ b \in Below(f, g, b) /\ Closed(f, g, Below(f, g, b))
    BY <1>2, BelowClosed
  <2>2. Closed(f2, g2, Below(f, g, b))
    BY <2>1 DEF Closed
  <2> QED BY <2>1, <2>2, BelowLeast
<1> QED BY <1>1, <1>2

\* f2 and g2 are f and g with new, a node without links, in an empty place of p.
Joined(f, g, f2, g2, p, new) ==
    /\ f[new] = null /\ g[new] = null /\ p # new
    /\ \A n \in Nodes \ {p} : f2[n] = f[n] /\ g2[n] = g[n]
    /\ \/ f[p] = null /\ f2[p] = new /\ g2[p] = g[p]
       \/ g[p] = null /\ f2[p] = f[p] /\ g2[p] = new

\* The new node comes below exactly the nodes that p is below.
LEMMA BelowJoined ==
    ASSUME NEW f \in Links, NEW g \in Links, NEW b \in Nodes,
           NEW f2 \in Links, NEW g2 \in Links, NEW p \in Nodes, NEW new \in Nodes,
           Joined(f, g, f2, g2, p, new)
    PROVE  Below(f2, g2, b) = Below(f, g, b) \cup (IF p \in Below(f, g, b) THEN {new} ELSE {})
<1> DEFINE B == Below(f, g, b)
           C == Below(f2, g2, b)
<1>1. b \in Places /\ b # null /\ p # null /\ new # null
  BY DEF Places, Nodes, null
<1>2. B \subseteq Nodes /\ b \in B /\ Closed(f, g, B) /\ C \subseteq Nodes /\ b \in C /\ Closed(f2, g2, C)
  BY <1>1, BelowClosed
<1>3. CASE p \notin B
  BY <1>1, <1>2, <1>3, BelowAgrees DEF Joined
<1>4. CASE p \in B
  <2>1. Closed(f2, g2, B \cup {new})
    BY <1>2 DEF Closed, Joined
  <2>2. C \subseteq B \cup {new}
    <3> HIDE DEF B, C
    <3> QED BY <1>2, <2>1, BelowLeast DEF B, C
  <2>3. Closed(f, g, C)
    BY <1>1, <1>2 DEF Closed, Joined
  <2>4. B \subseteq C
    BY <1>2, <2>3, BelowLeast
  <2>5. new \in C
    BY <1>1, <1>2, <1>4, <2>4 DEF Closed, Joined
  <2> QED BY <1>4, <2>2, <2>4, <2>5
<1> QED BY <1>3, <1>4

-------------------------------------------------------------------------------
(***************************************************************************)
(* The types and the shape of the tree                                     *)
(***************************************************************************)
Items == ({"tree"} \X (Created \cup {null})) \cup ({"delete", "release", "reset"} \X Created)

\* A node about to be linked has a number left, a queue that is read has a front,
\* and nodes not created have no children.
Room ==
    /\ busy \in {"one", "full"} => Len(value) < MaxNodes
    /\ busy \in {"full", "collect"} => list # <<>>
    /\ \A n \in Nodes : n > Len(value) => Leaf(n)

Typed == TypeOK /\ Room

\* What the invariant says of the links.
LEMMA LinksTyped ==
    ASSUME TypeOK
    PROVE  /\ l \in Links /\ r \in Links /\ Younger(l) /\ Younger(r) /\ Single(l, r)
           /\ Created \subseteq Nodes /\ 1 \in Created /\ null \notin Nodes
           /\ Closed(l, r, Created)
<1>1. Len(value) \in Nat /\ Len(value) \in 1..MaxNodes
  BY BitreeAssumption DEF TypeOK, Nodes
<1>2. \A n \in Nodes : /\ l[n] # null => n < l[n] /\ l[n] <= Len(value)
                       /\ r[n] # null => n < r[n] /\ r[n] <= Len(value)
  BY DEF TypeOK
<1>3. l \in Links /\ r \in Links /\ Single(l, r)
  BY DEF TypeOK, Links, Places, Single, OneParent
<1>4. Created \subseteq Nodes /\ 1 \in Created /\ null \notin Nodes
  BY <1>1, BitreeAssumption DEF Created, Nodes, null
<1>5. Younger(l) /\ Younger(r)
  <2> SUFFICES ASSUME NEW n \in Nodes
               PROVE  (l[n] # null => l[n] > n) /\ (r[n] # null => r[n] > n)
    BY DEF Younger
  <2>1. l[n] \in Places /\ r[n] \in Places
    BY <1>3 DEF Links
  <2>2. n \in Nat /\ (l[n] # null => l[n] \in Nat) /\ (r[n] # null => r[n] \in Nat)
    BY <2>1, NodesNat DEF Places
  <2> QED BY <1>2, <2>2
<1>6. ASSUME NEW n \in Created PROVE l[n] \in Created \cup {null} /\ r[n] \in Created \cup {null}
  <2>1. n \in Nodes /\ l[n] \in Places /\ r[n] \in Places
    BY <1>3, <1>4 DEF Links
  <2>2. n \in Nat /\ (l[n] # null => l[n] \in Nat) /\ (r[n] # null => r[n] \in Nat)
    BY <2>1, NodesNat DEF Places
  <2>3. n \in 1..Len(value)
    BY DEF Created
  <2>4. l[n] # null => n < l[n] /\ l[n] <= Len(value)
    BY <1>2, <2>1
  <2>5. r[n] # null => n < r[n] /\ r[n] <= Len(value)
    BY <1>2, <2>1
  <2> QED BY <1>1, <2>2, <2>3, <2>4, <2>5 DEF Created
<1> QED BY <1>3, <1>4, <1>5, <1>6 DEF Closed

\* All but the last of a sequence, and the last.
LEMMA FrontAndLast ==
    ASSUME NEW S, NEW s \in Seq(S), s # <<>>
    PROVE  /\ Len(s) \in Nat /\ Len(s) > 0 /\ Last(s) = s[Len(s)] /\ Last(s) \in S
           /\ Front(s) \in Seq(S) /\ Len(Front(s)) = Len(s) - 1
           /\ \A t \in 1..(Len(s) - 1) : Front(s)[t] = s[t]
<1>1. Len(s) \in Nat /\ Len(s) > 0 /\ s \in [1..Len(s) -> S]
  OBVIOUS
<1>2. /\ Front(s) \in Seq(S) /\ Len(Front(s)) = Len(s) - 1
      /\ \A t \in 1..(Len(s) - 1) : Front(s)[t] = s[t]
  BY <1>1 DEF Front
<1> QED BY <1>1, <1>2 DEF Last

\* A sequence and another behind it.
Behind(S, s, q) ==
    /\ s \o q \in Seq(S) /\ Len(s \o q) = Len(s) + Len(q)
    /\ \A t \in 1..Len(s) : (s \o q)[t] = s[t]
    /\ \A t \in 1..Len(q) : (s \o q)[Len(s) + t] = q[t]

LEMMA TwoSequences ==
    ASSUME NEW S, NEW s \in Seq(S), NEW q \in Seq(S)
    PROVE  Behind(S, s, q)
<1>1. Len(s) \in Nat /\ Len(q) \in Nat
  OBVIOUS
<1> QED BY <1>1 DEF Behind

\* q is s with three behind it.
Longer(s, x, y, z, q) ==
    /\ DOMAIN q = 1..(Len(s) + 3) /\ \A t \in 1..Len(s) : q[t] = s[t]
    /\ q[Len(s) + 1] = x /\ q[Len(s) + 2] = y /\ q[Len(s) + 3] = z

LEMMA ThreeAppended ==
    ASSUME NEW S, NEW s \in Seq(S), NEW x \in S, NEW y \in S, NEW z \in S
    PROVE  Longer(s, x, y, z, s \o <<x>> \o <<y, z>>)
<1>1. Len(s) \in Nat
  OBVIOUS
<1>2. s \o <<x>> \o <<y, z>> = Append(Append(Append(s, x), y), z)
  OBVIOUS
<1> QED BY <1>1, <1>2 DEF Longer

\* The next call is one of the calls.
LEMMA NextCall ==
    ASSUME TypeOK, NEW kind, NEW n, ToDo(kind, n)
    PROVE  /\ busy = "calls" /\ Len(calls) \in Nat /\ Len(calls) > 0
           /\ calls[Len(calls)] = <<kind, n>> /\ <<kind, n>> \in Items
           /\ Front(calls) \in Seq(Items) /\ Len(Front(calls)) = Len(calls) - 1
           /\ \A t \in 1..(Len(calls) - 1) : Front(calls)[t] = calls[t]
<1>1. calls \in Seq(Items) /\ calls # <<>> /\ busy = "calls" /\ Last(calls) = <<kind, n>>
  BY DEF TypeOK, Items, ToDo
<1> HIDE DEF Items
<1> QED BY <1>1, FrontAndLast

\* The calls that delete the nodes of a list.
LEMMA DeleteCalls ==
    ASSUME NEW s \in Seq(Created)
    PROVE  /\ [t \in DOMAIN s |-> <<"delete", s[t]>>] \in Seq(Items)
           /\ Len([t \in DOMAIN s |-> <<"delete", s[t]>>]) = Len(s)
           /\ \A t \in 1..Len(s) : [u \in DOMAIN s |-> <<"delete", s[u]>>][t] = <<"delete", s[t]>>
<1>1. Len(s) \in Nat /\ DOMAIN s = 1..Len(s)
  OBVIOUS
<1>2. \A t \in 1..Len(s) : <<"delete", s[t]>> \in Items
  BY DEF Items
<1> HIDE DEF Items
<1> QED BY <1>1, <1>2

\* Linking a node keeps the types and the shape.
LEMMA LinkTyped ==
    ASSUME Typed, NEW p \in Created, NEW left \in BOOLEAN, NEW how \in {"one", "full"},
           Len(value) < MaxNodes, Link(p, left, how)
    PROVE  Typed'
<1> DEFINE new == Len(value) + 1
<1>1. /\ Len(value) \in Nat /\ new \in Nodes /\ new > p /\ p \in Nodes /\ p \in Nat
      /\ new \notin Created /\ new # null
  BY BitreeAssumption DEF Typed, TypeOK, Nodes, Created, null
<1>2. value' \in Seq(Values) /\ Len(value') = new /\ Created \subseteq Created'
  BY <1>1 DEF Typed, TypeOK, Link, Created
<1>3. way' \in Seq({"init", "one", "full"}) /\ Len(way') = new
  BY <1>1 DEF Typed, TypeOK, Link
<1>4. /\ l \in Links /\ r \in Links /\ Single(l, r)
      /\ \A n \in Nodes : /\ l[n] # null => n < l[n] /\ l[n] <= Len(value)
                          /\ r[n] # null => n < r[n] /\ r[n] <= Len(value)
  BY LinksTyped DEF Typed, TypeOK
<1>5. \/ l' = [l EXCEPT ![p] = new] /\ r' = r
      \/ r' = [r EXCEPT ![p] = new] /\ l' = l
  BY DEF Link, Linked
<1>6. l' \in Links /\ r' \in Links
  BY <1>1, <1>4, <1>5 DEF Links, Places
<1>7. ASSUME NEW n \in Nodes
      PROVE  /\ l'[n] # null => n < l'[n] /\ l'[n] <= new
             /\ r'[n] # null => n < r'[n] /\ r'[n] <= new
             /\ l[n] # new /\ r[n] # new
  <2>1. l[n] \in Places /\ r[n] \in Places /\ n \in Nat
    BY <1>4, BitreeAssumption DEF Links, Nodes
  <2>2. /\ l[n] # null => l[n] \in Nat /\ n < l[n] /\ l[n] <= new /\ l[n] # new
        /\ r[n] # null => r[n] \in Nat /\ n < r[n] /\ r[n] <= new /\ r[n] # new
    <3>1. (l[n] # null => l[n] \in Nat) /\ (r[n] # null => r[n] \in Nat)
      BY <2>1, NodesNat DEF Places
    <3>2. /\ l[n] # null => n < l[n] /\ l[n] <= Len(value)
          /\ r[n] # null => n < r[n] /\ r[n] <= Len(value)
      BY <1>4
    <3> QED BY <1>1, <3>1, <3>2
  <2>3. l'[n] \in {l[n], IF n = p THEN new ELSE null} /\ r'[n] \in {r[n], IF n = p THEN new ELSE null}
    BY <1>1, <1>4, <1>5 DEF Links
  <2> QED BY <1>1, <2>2, <2>3
<1>9. OneParent'
  BY <1>1, <1>4, <1>5, <1>7 DEF OneParent, Single, Links
<1>10. \A n \in Nodes : n > new => l'[n] = null /\ r'[n] = null
  BY <1>1, <1>4, <1>5, BitreeAssumption DEF Typed, Room, Leaf, Nodes, Links
<1>11. list' \in Seq(Created') /\ pos' \in Created' /\ freed' \in Seq(Created') /\ calls' \in Seq(Items')
  <2>1. Items \subseteq Items'
    BY <1>2 DEF Items
  <2>2. list \in Seq(Created) /\ pos \in Created /\ freed \in Seq(Created) /\ calls \in Seq(Items)
    BY DEF Typed, TypeOK, Items
  <2> HIDE DEF Items
  <2> QED BY <1>2, <2>1, <2>2 DEF Link, temps
<1>12. arg' \in Values /\ iter' \in Nat \ {0} /\ phase' \in {"alive", "destroyed"} /\ busy' = "idle"
  BY DEF Typed, TypeOK, Link, temps
<1>13. (\A n \in Nodes : \A c \in {l[n], r[n]} \ {null} : n < c /\ c <= Len(value))'
  BY <1>2, <1>7
<1>14. TypeOK'
  BY <1>1, <1>2, <1>3, <1>6, <1>9, <1>11, <1>12, <1>13 DEF TypeOK, Links, Places, Items
<1> QED BY <1>2, <1>10, <1>12, <1>14 DEF Typed, Room, Leaf

\* So does clearing the links of a node.
LEMMA ClearTyped ==
    ASSUME Typed, NEW n \in Nodes, Cleared(n)
    PROVE  /\ l' \in Links /\ r' \in Links /\ OneParent'
           /\ \A m \in Nodes : l'[m] \in {l[m], null} /\ r'[m] \in {r[m], null}
           /\ \A m \in Nodes \ {n} : l'[m] = l[m] /\ r'[m] = r[m]
           /\ l'[n] = null /\ r'[n] = null
           /\ \A m \in Nodes : \A c \in {l'[m], r'[m]} \ {null} : m < c /\ c <= Len(value)
           /\ \A m \in Nodes : m > Len(value) => l'[m] = null /\ r'[m] = null
<1>1. l \in Links /\ r \in Links /\ Single(l, r)
  BY LinksTyped DEF Typed
<1>2. /\ l' \in Links /\ r' \in Links
      /\ \A m \in Nodes : l'[m] \in {l[m], null} /\ r'[m] \in {r[m], null}
      /\ \A m \in Nodes \ {n} : l'[m] = l[m] /\ r'[m] = r[m]
      /\ l'[n] = null /\ r'[n] = null
  BY <1>1 DEF Cleared, Links, Places
<1>3. OneParent'
  BY <1>1, <1>2 DEF OneParent, Single
<1>4. \A m \in Nodes : \A c \in {l'[m], r'[m]} \ {null} : m < c /\ c <= Len(value)
  BY <1>2 DEF Typed, TypeOK
<1>5. \A m \in Nodes : m > Len(value) => l'[m] = null /\ r'[m] = null
  BY <1>2 DEF Typed, Room, Leaf
<1> QED BY <1>2, <1>3, <1>4, <1>5

\* Steps that leave the nodes and the links alone keep what is said of them.
LEMMA SameTree ==
    ASSUME Typed, UNCHANGED <<made, links>>
    PROVE  /\ value' \in Seq(Values) /\ Len(value') \in Nodes
           /\ way' \in Seq({"init", "one", "full"}) /\ Len(way') = Len(value')
           /\ l' \in [Nodes -> Nodes \cup {null}] /\ r' \in [Nodes -> Nodes \cup {null}]
           /\ (\A n \in Nodes : \A c \in {l[n], r[n]} \ {null} : n < c /\ c <= Len(value))'
           /\ OneParent' /\ Created' = Created /\ Items' = Items
           /\ (\A n \in Nodes : n > Len(value) => Leaf(n))'
<1>1. value' = value /\ way' = way /\ l' = l /\ r' = r
  BY DEF made, links
<1> QED BY <1>1 DEF Typed, TypeOK, Room, OneParent, Created, Items, Leaf

\* Every step keeps the types and the shape of the tree.
LEMMA TypedStep ==
    ASSUME Typed, [Next]_vars
    PROVE  Typed'
<1> USE DEF temps
<1>0. /\ calls \in Seq(Items) /\ list \in Seq(Created) /\ pos \in Created /\ freed \in Seq(Created)
      /\ arg \in Values /\ iter \in Nat \ {0} /\ phase \in {"alive", "destroyed"}
      /\ busy \in {"idle", "one", "full", "collect", "calls"}
  BY DEF Typed, TypeOK, Items
<1>1. l \in Links /\ r \in Links /\ Created \subseteq Nodes /\ 1 \in Created /\ Closed(l, r, Created)
  BY LinksTyped DEF Typed
<1>2. ASSUME UNCHANGED <<made, links>>,
             freed' \in Seq(Created) /\ phase' \in {"alive", "destroyed"},
             busy' \in {"idle", "one", "full", "collect", "calls"},
             arg' \in Values /\ pos' \in Created /\ list' \in Seq(Created) /\ iter' \in Nat \ {0},
             calls' \in Seq(Items),
             busy' \in {"one", "full"} => Len(value) < MaxNodes,
             busy' \in {"full", "collect"} => list' # <<>>
      PROVE  Typed'
  <2>1. value' = value
    BY <1>2 DEF made
  <2>2. TypeOK'
    BY <1>2, SameTree DEF TypeOK, Items
  <2> QED BY <1>2, <2>1, <2>2, SameTree DEF Typed, Room
<1>3. ASSUME NEW v \in Values, InsertOne(v) PROVE Typed'
  BY <1>0, <1>1, <1>2, <1>3 DEF InsertOne, Idle
<1>4. ASSUME NEW v \in Values, InsertFull(v) PROVE Typed'
  <2>1. <<1>> \in Seq(Created) /\ <<1>> # <<>>
    BY <1>1
  <2> QED BY <1>0, <1>2, <1>4, <2>1 DEF InsertFull, Idle
<1>5. CASE Descend
  <2>1. Side(pos) \in Created
    BY <1>0, <1>1, <1>5 DEF Descend, Side, Closed
  <2> QED BY <1>0, <1>2, <1>5, <2>1 DEF Descend, Typed, Room
<1>6. CASE LinkOne
  <2>1. GoesLeft(pos) \in BOOLEAN /\ Len(value) < MaxNodes /\ Link(pos, GoesLeft(pos), "one")
    BY <1>6 DEF LinkOne, GoesLeft, Typed, Room
  <2> QED BY <1>0, <2>1, LinkTyped
<1>7. CASE FullTurn
  <2>1. list # <<>> /\ Head(list) \in Created /\ Tail(list) \in Seq(Created)
    BY <1>0, <1>7 DEF FullTurn, Typed, Room
  <2>2. l[Head(list)] \in Created /\ r[Head(list)] \in Created
    BY <1>1, <1>7, <2>1 DEF FullTurn, Closed
  <2>3. list' \in Seq(Created) /\ list' # <<>>
    BY <1>7, <2>1, <2>2 DEF FullTurn
  <2> QED BY <1>0, <1>2, <1>7, <2>3 DEF FullTurn, Typed, Room
<1>8. CASE LinkFull
  <2>1. list # <<>> /\ Head(list) \in Created
    BY <1>0, <1>8 DEF LinkFull, Typed, Room
  <2>2. /\ FreeLeft(Head(list)) \in BOOLEAN /\ Len(value) < MaxNodes
        /\ Link(Head(list), FreeLeft(Head(list)), "full")
    BY <1>8 DEF LinkFull, FreeLeft, Typed, Room
  <2> QED BY <2>1, <2>2, LinkTyped
<1>9. CASE DeleteTree
  <2>1. <<1>> \in Seq(Created) /\ <<1>> # <<>>
    BY <1>1
  <2>2. <<<<"reset", 1>>>> \in Seq(Items)
    BY <1>1 DEF Items
  <2> QED BY <1>0, <1>2, <1>9, <2>1, <2>2 DEF DeleteTree, Idle
<1>10. CASE Destroy
  <2>1. l[1] \in Created \cup {null} /\ r[1] \in Created \cup {null}
    BY <1>1 DEF Closed
  <2>2. Destructor(1) \in Seq(Items)
    BY <2>1 DEF Destructor, Items
  <2> QED BY <1>0, <1>2, <1>10, <2>2 DEF Destroy, Idle
<1>11. CASE Collect
  <2>1. list[iter] \in Created /\ list # <<>>
    BY <1>0, <1>11 DEF Collect
  <2>2. l[list[iter]] \in Created \cup {null} /\ r[list[iter]] \in Created \cup {null}
    BY <1>1, <2>1 DEF Closed
  <2>3. IfAny(l[list[iter]]) \in Seq(Created) /\ IfAny(r[list[iter]]) \in Seq(Created)
    BY <2>2 DEF IfAny
  <2>4. list' \in Seq(Created) /\ list' # <<>>
    BY <1>0, <1>11, <2>1, <2>3 DEF Collect
  <2>5. iter' \in Nat \ {0}
    BY <1>0, <1>11 DEF Collect
  <2> QED BY <1>0, <1>2, <1>11, <2>4, <2>5 DEF Collect
<1>12. CASE Collected
  <2>1. ToDelete \in Seq(Created)
    BY <1>0, <1>12 DEF Collected, ToDelete, Typed, Room
  <2>2. [t \in DOMAIN ToDelete |-> <<"delete", ToDelete[t]>>] \in Seq(Items)
    BY <2>1, DeleteCalls
  <2>3. calls' \in Seq(Items)
    <3> HIDE DEF Items
    <3> QED BY <1>0, <1>12, <2>2 DEF Collected
  <2> QED BY <1>0, <1>2, <1>12, <2>3 DEF Collected
<1>13. CASE Return
  BY <1>0, <1>2, <1>13 DEF Return
<1>14. ASSUME NEW n, CallReturns(n) PROVE Typed'
  <2>1. Front(calls) \in Seq(Items)
    BY <1>14, NextCall DEF CallReturns, Typed
  <2> QED BY <1>0, <1>2, <1>14, <2>1 DEF CallReturns, ToDo
<1>15. ASSUME NEW n, CallCollects(n) PROVE Typed'
  <2>1. Front(calls) \in Seq(Items) /\ <<"tree", n>> \in Items /\ n # null
    BY <1>15, NextCall DEF CallCollects, HasChild, Typed
  <2>2. n \in Created
    BY <2>1 DEF Items
  <2>3. <<n>> \in Seq(Created) /\ <<n>> # <<>>
    BY <2>2
  <2> QED BY <1>0, <1>2, <1>15, <2>1, <2>3 DEF CallCollects, ToDo
<1>16. ASSUME NEW n, Delete(n) PROVE Typed'
  <2>1. Front(calls) \in Seq(Items) /\ <<"delete", n>> \in Items /\ busy = "calls"
    BY <1>16, NextCall DEF Delete, Typed
  <2>2. n \in Created /\ n \in Nodes /\ Cleared(n)
    BY <1>1, <1>16, <2>1 DEF Items, Delete
  <2>3. value' = value /\ way' = way
    BY <1>16 DEF Delete, made
  <2>4. Destructor(n)' = <<<<"tree", null>>, <<"tree", null>>>>
    BY <2>2, ClearTyped DEF Destructor
  <2>5. Created' = Created /\ Items' = Items
    BY <2>3 DEF Created, Items
  <2>6. <<"release", n>> \in Items /\ <<"tree", null>> \in Items
    BY <2>2 DEF Items
  <2>7. calls' \in Seq(Items)
    <3> HIDE DEF Items
    <3> QED BY <1>16, <2>1, <2>4, <2>6 DEF Delete
  <2> QED BY <1>0, <1>16, <2>1, <2>2, <2>3, <2>5, <2>7, ClearTyped DEF Delete, Typed, TypeOK, Room, Leaf, Links, Places, Items
<1>17. ASSUME NEW n, Release(n) PROVE Typed'
  <2>1. Front(calls) \in Seq(Items) /\ <<"release", n>> \in Items
    BY <1>17, NextCall DEF Release, Typed
  <2>2. n \in Created
    BY <2>1 DEF Items
  <2>3. Append(freed, n) \in Seq(Created)
    BY <1>0, <2>2
  <2> QED BY <1>0, <1>2, <1>17, <2>1, <2>3 DEF Release, ToDo
<1>18. ASSUME NEW n, Reset(n) PROVE Typed'
  <2>1. Front(calls) \in Seq(Items) /\ <<"reset", n>> \in Items /\ busy = "calls"
    BY <1>18, NextCall DEF Reset, Typed
  <2>2. n \in Nodes /\ Cleared(n)
    BY <1>1, <1>18, <2>1 DEF Items, Reset, Cleared
  <2>3. value' = value /\ way' = way
    BY <1>18 DEF Reset, made
  <2>4. Created' = Created /\ Items' = Items
    BY <2>3 DEF Created, Items
  <2> QED BY <1>0, <1>18, <2>1, <2>2, <2>3, <2>4, ClearTyped DEF Reset, Typed, TypeOK, Room, Leaf, Links, Places, Items
<1>19. CASE UNCHANGED vars
  BY <1>0, <1>2, <1>19 DEF vars, Typed, Room
<1> QED BY <1>3, <1>4, <1>5, <1>6, <1>7, <1>8, <1>9, <1>10, <1>11, <1>12, <1>13, <1>14, <1>15, <1>16, <1>17, <1>18, <1>19 DEF Next, Inserting, Deleting

LEMMA TreeStartsTyped == ASSUME Init PROVE Typed
<1>1. PICK v \in Values : value = <<v>> /\ arg = v
  BY DEF Init
<1>2. value \in Seq(Values) /\ Len(value) = 1 /\ 1 \in Nodes /\ Created = {1}
  BY <1>1, BitreeAssumption DEF Nodes, Created
<1>3. way \in Seq({"init", "one", "full"}) /\ Len(way) = 1
  BY DEF Init
<1>4. freed \in Seq(Created) /\ pos \in Created /\ list \in Seq(Created) /\ calls \in Seq(Items)
  BY <1>2 DEF Init
<1>5. \A n \in Nodes : l[n] = null /\ r[n] = null
  BY DEF Init
<1>6. TypeOK
  BY <1>1, <1>2, <1>3, <1>4, <1>5 DEF Init, TypeOK, OneParent, Items
<1> QED BY <1>5, <1>6 DEF Init, Typed, Room, Leaf

\* m_lchild and m_rchild always form a tree: each child is a node created, younger
\* than its parent, and no node is a child twice; insertOne, insertFull and
\* deleteTree work only on such nodes, however many there are.
THEOREM TreeTyped == Spec => []TypeOK
<1>1. Init => Typed
  BY TreeStartsTyped
<1>2. Typed /\ [Next]_vars => Typed'
  BY TypedStep
<1>3. Typed => TypeOK
  BY DEF Typed
<1> QED BY <1>1, <1>2, <1>3, PTL DEF Spec

-------------------------------------------------------------------------------
(***************************************************************************)
(* The order of the tree                                                   *)
(***************************************************************************)
\* The value of each node that insertOne has placed is on its side of the nodes above.
Ordered ==
    \A m \in Nodes :
        /\ \A n \in Under(l[m]) : way[n] = "one" => value[n] < value[m]
        /\ \A n \in Under(r[m]) : way[n] = "one" => value[n] >= value[m]

\* The value to insert belongs on the side of every node above p on which p is.
PathTo(p) ==
    \A m \in Nodes :
        /\ p \in Under(l[m]) => arg < value[m]
        /\ p \in Under(r[m]) => arg >= value[m]

OrderInv == Typed /\ Ordered /\ (busy = "one" => PathTo(pos))

\* A node is linked in an empty place, and comes below the nodes above that place.
LEMMA LinkJoins ==
    ASSUME Typed, NEW p \in Created, NEW left \in BOOLEAN, NEW how \in {"one", "full"},
           Len(value) < MaxNodes, Link(p, left, how), IF left THEN l[p] = null ELSE r[p] = null
    PROVE  /\ Joined(l, r, l', r', p, Len(value) + 1)
           /\ Len(value) \in Nat /\ Len(value) + 1 \in Nodes \ Created
           /\ \A b \in Nodes : Below(l', r', b)
                  = Below(l, r, b) \cup (IF p \in Below(l, r, b) THEN {Len(value) + 1} ELSE {})
           /\ Below(l', r', Len(value) + 1) = {Len(value) + 1}
<1> DEFINE new == Len(value) + 1
<1>1. /\ Len(value) \in Nat /\ new \in Nodes /\ new \notin Created /\ new # p
      /\ p \in Nodes /\ new > Len(value)
  BY BitreeAssumption DEF Typed, TypeOK, Nodes, Created
<1>2. l[new] = null /\ r[new] = null
  BY <1>1 DEF Typed, Room, Leaf
<1>3. l \in Links /\ r \in Links /\ l' \in Links /\ r' \in Links
  <2>1. Typed'
    BY LinkTyped
  <2> QED BY <2>1, LinksTyped DEF Typed, TypeOK, Links, Places
<1>4. Joined(l, r, l', r', p, new)
  <2>1. \/ left /\ l' = [l EXCEPT ![p] = new] /\ r' = r
        \/ ~left /\ r' = [r EXCEPT ![p] = new] /\ l' = l
    BY DEF Link, Linked
  <2> QED BY <1>1, <1>2, <1>3, <2>1 DEF Joined, Links
<1> HIDE DEF new
<1>5. \A b \in Nodes : Below(l', r', b)
          = Below(l, r, b) \cup (IF p \in Below(l, r, b) THEN {new} ELSE {})
  BY <1>1, <1>3, <1>4, BelowJoined
<1>6. Below(l', r', new) = {new}
  <2>1. Below(l, r, new) = {new} \cup Below(l, r, null) \cup Below(l, r, null)
    BY <1>1, <1>2, <1>3, BelowUnfolds
  <2>2. Below(l, r, null) = {}
    BY <1>3, BelowClosed DEF Places
  <2> QED BY <1>1, <1>5, <2>1, <2>2
<1> QED BY <1>1, <1>4, <1>5, <1>6 DEF new

\* The new node is in order if insertOne put it where its value belongs.
LEMMA LinkOrdered ==
    ASSUME Typed, Ordered, NEW p \in Created, NEW left \in BOOLEAN, NEW how \in {"one", "full"},
           Len(value) < MaxNodes, Link(p, left, how), IF left THEN l[p] = null ELSE r[p] = null,
           how = "one" => PathTo(p) /\ left = (arg < value[p])
    PROVE  Ordered'
<1> DEFINE new == Len(value) + 1
<1>1. /\ Len(value) \in Nat /\ new \in Nodes \ Created /\ Joined(l, r, l', r', p, new)
      /\ Below(l', r', new) = {new}
      /\ \A b \in Nodes : Below(l', r', b)
             = Below(l, r, b) \cup (IF p \in Below(l, r, b) THEN {new} ELSE {})
  BY LinkJoins
<1>2. /\ value \in Seq(Values) /\ arg \in Values /\ value' = Append(value, arg)
      /\ way \in Seq({"init", "one", "full"}) /\ Len(way) = Len(value) /\ way' = Append(way, how)
  BY DEF Typed, TypeOK, Link
<1>3. /\ l \in Links /\ r \in Links /\ l' \in Links /\ r' \in Links
      /\ Created \subseteq Nodes /\ Closed(l, r, Created) /\ null \notin Nodes
  <2>1. Typed'
    BY LinkTyped
  <2> QED BY <2>1, LinksTyped DEF Typed, TypeOK, Links, Places
<1>4. /\ \A n \in Created : value'[n] = value[n] /\ way'[n] = way[n] /\ value[n] \in Int
      /\ value'[new] = arg /\ way'[new] = how /\ arg \in Int
  BY <1>1, <1>2, BitreeAssumption DEF Created
<1>5. \A m \in Nodes : m \notin Created => l[m] = null /\ r[m] = null
  BY <1>1, BitreeAssumption DEF Typed, Room, Leaf, Created, Nodes
<1> HIDE DEF new
<1>6. \A m \in Created : Below(l, r, m) \subseteq Created
  BY <1>3, BelowLeast
<1>7. ASSUME NEW m \in Nodes, NEW n \in Below(l', r', l'[m]), way'[n] = "one"
      PROVE  value'[n] < value'[m]
  <2>1. CASE m = p /\ l'[m] = new /\ l[m] = null /\ r'[m] = r[m]
    <3>1. n = new /\ how = "one"
      BY <1>1, <1>4, <1>7, <2>1
    <3>2. left
      BY <1>1, <1>3, <2>1 DEF Link, Linked, Links
    <3> QED BY <1>4, <2>1, <3>1, <3>2
  <2>2. CASE l'[m] = l[m]
    <3>1. l[m] \in Nodes
      <4>1. l'[m] \in Places
        BY <1>3 DEF Links
      <4>2. l'[m] # null
        BY <1>3, <1>7, BelowClosed DEF Places
      <4> QED BY <2>2, <4>1, <4>2 DEF Places
    <3>2. m \in Created /\ l[m] \in Created
      BY <1>3, <1>5, <3>1 DEF Closed
    <3>3. n \in Below(l, r, l[m]) \/ (n = new /\ p \in Below(l, r, l[m]))
      BY <1>1, <1>7, <2>2, <3>1
    <3>4. CASE n \in Below(l, r, l[m])
      <4>1. n \in Created
        BY <1>6, <3>2, <3>4
      <4> QED BY <1>4, <1>7, <3>2, <3>4, <4>1 DEF Ordered, Under
    <3>5. CASE n = new /\ p \in Below(l, r, l[m])
      BY <1>4, <1>7, <3>2, <3>5 DEF PathTo, Under
    <3> QED BY <3>3, <3>4, <3>5
  <2> QED BY <1>1, <2>1, <2>2 DEF Joined
<1>8. ASSUME NEW m \in Nodes, NEW n \in Below(l', r', r'[m]), way'[n] = "one"
      PROVE  value'[n] >= value'[m]
  <2>1. CASE m = p /\ r'[m] = new /\ r[m] = null /\ l'[m] = l[m]
    <3>1. n = new /\ how = "one"
      BY <1>1, <1>4, <1>8, <2>1
    <3>2. ~left
      BY <1>1, <1>3, <2>1 DEF Link, Linked, Links
    <3>3. ~(arg < value[p]) /\ value'[p] = value[p] /\ value[p] \in Int
      BY <1>4, <3>1, <3>2
    <3> QED BY <1>4, <2>1, <3>1, <3>3
  <2>2. CASE r'[m] = r[m]
    <3>1. r[m] \in Nodes
      <4>1. r'[m] \in Places
        BY <1>3 DEF Links
      <4>2. r'[m] # null
        BY <1>3, <1>8, BelowClosed DEF Places
      <4> QED BY <2>2, <4>1, <4>2 DEF Places
    <3>2. m \in Created /\ r[m] \in Created
      BY <1>3, <1>5, <3>1 DEF Closed
    <3>3. n \in Below(l, r, r[m]) \/ (n = new /\ p \in Below(l, r, r[m]))
      BY <1>1, <1>8, <2>2, <3>1
    <3>4. CASE n \in Below(l, r, r[m])
      <4>1. n \in Created
        BY <1>6, <3>2, <3>4
      <4> QED BY <1>4, <1>8, <3>2, <3>4, <4>1 DEF Ordered, Under
    <3>5. CASE n = new /\ p \in Below(l, r, r[m])
      BY <1>4, <1>8, <3>2, <3>5 DEF PathTo, Under
    <3> QED BY <3>3, <3>4, <3>5
  <2> QED BY <1>1, <2>1, <2>2 DEF Joined
<1> QED BY <1>7, <1>8 DEF Ordered, Under

\* Clearing a node's links keeps the order.
LEMMA ClearOrdered ==
    ASSUME Typed, Ordered, NEW n \in Nodes, Cleared(n), UNCHANGED made
    PROVE  Ordered'
<1>1. /\ l' \in Links /\ r' \in Links
      /\ \A m \in Nodes : l'[m] \in {l[m], null} /\ r'[m] \in {r[m], null}
  BY ClearTyped
<1>2. l \in Links /\ r \in Links
  BY LinksTyped DEF Typed
<1>3. \A b \in Places : Below(l', r', b) \subseteq Below(l, r, b)
  BY <1>1, <1>2, BelowShrinks
<1>4. Below(l', r', null) = {}
  BY <1>1, BelowClosed DEF Places
<1>5. \A m \in Nodes : /\ Below(l', r', l'[m]) \subseteq Below(l, r, l[m])
                       /\ Below(l', r', r'[m]) \subseteq Below(l, r, r[m])
  <2> SUFFICES ASSUME NEW m \in Nodes
               PROVE  /\ Below(l', r', l'[m]) \subseteq Below(l, r, l[m])
                      /\ Below(l', r', r'[m]) \subseteq Below(l, r, r[m])
    OBVIOUS
  <2>1. l[m] \in Places /\ r[m] \in Places
    BY <1>2 DEF Links
  <2> QED BY <1>1, <1>3, <1>4, <2>1
<1>6. value' = value /\ way' = way
  BY DEF made
<1> QED BY <1>5, <1>6 DEF Ordered, Under

\* Every step keeps the order, and insertOne the way to its node.
LEMMA OrderStep ==
    ASSUME OrderInv, [Next]_vars
    PROVE  OrderInv'
<1>0. Typed' /\ Typed /\ Ordered
  BY TypedStep DEF OrderInv
<1>1. /\ l \in Links /\ r \in Links /\ Younger(l) /\ Younger(r) /\ Single(l, r)
      /\ Created \subseteq Nodes /\ 1 \in Nodes /\ null \notin Nodes
  BY <1>0, LinksTyped DEF Typed
<1>2. ASSUME UNCHANGED <<made, links>> PROVE Ordered'
  BY <1>0, <1>2 DEF Ordered, Under, made, links
<1>3. ASSUME NEW v \in Values, InsertOne(v) PROVE OrderInv'
  <2>1. \A m \in Nodes : 1 \notin Below(l, r, l[m]) /\ 1 \notin Below(l, r, r[m])
    <3> SUFFICES ASSUME NEW m \in Nodes
                 PROVE  1 \notin Below(l, r, l[m]) /\ 1 \notin Below(l, r, r[m])
      OBVIOUS
    <3>1. l[m] \in Places /\ r[m] \in Places
      BY <1>1 DEF Links
    <3>2. ASSUME NEW c \in Places, c # null => c > m PROVE 1 \notin Below(l, r, c)
      <4>1. CASE c = null
        BY <1>1, <4>1, BelowClosed DEF Places
      <4>2. CASE c # null
        <5>1. c \in Nodes /\ c > m /\ m \in Nat /\ m >= 1 /\ c \in Nat
          BY <3>2, <4>2, NodesNat DEF Places
        <5>2. \A d \in Below(l, r, c) : d >= c
          BY <1>1, <5>1, BelowYounger
        <5> QED BY <5>1, <5>2
      <4> QED BY <4>1, <4>2
    <3> QED BY <1>1, <3>1, <3>2 DEF Younger
  <2>2. PathTo(pos)'
    BY <1>3, <2>1 DEF InsertOne, PathTo, Under, links
  <2> QED BY <1>0, <1>2, <1>3, <2>2 DEF OrderInv, InsertOne
<1>4. CASE Descend
  <2>1. PathTo(pos) /\ pos \in Nodes /\ Side(pos) \in Nodes
    <3>1. pos \in Created /\ pos \in Nodes
      BY <1>0, <1>1 DEF Typed, TypeOK
    <3>2. l[pos] \in Places /\ r[pos] \in Places
      BY <1>1, <3>1 DEF Links
    <3> QED BY <1>4, <3>1, <3>2 DEF OrderInv, Descend, Side, Places
  <2>2. value[pos] \in Int /\ arg \in Int
    <3>1. value \in Seq(Values) /\ pos \in 1..Len(value) /\ arg \in Values
      BY <1>0 DEF Typed, TypeOK, Created
    <3>2. value[pos] \in Values
      BY <3>1
    <3> QED BY <3>1, <3>2, BitreeAssumption
  <2>3. pos' = Side(pos) /\ arg' = arg /\ l' = l /\ r' = r /\ value' = value
    BY <1>4 DEF Descend, links, made
  <2>4. ASSUME NEW m \in Nodes
        PROVE  /\ Side(pos) \in Below(l, r, l[m]) => arg < value[m]
               /\ Side(pos) \in Below(l, r, r[m]) => arg >= value[m]
    <3>1. l[m] \in Places /\ r[m] \in Places
      BY <1>1 DEF Links
    <3>2. Side(pos) # null /\ \A q \in Nodes : Side(pos) \in {l[q], r[q]} => q = pos
      BY <1>1, <2>1 DEF Side, Single
    <3>3. ASSUME Side(pos) \in Below(l, r, l[m]) PROVE arg < value[m]
      <4>1. CASE Side(pos) = l[m]
        BY <1>1, <2>1, <3>2, <4>1 DEF Side, Single, GoesLeft
      <4>2. CASE Side(pos) # l[m]
        <5>1. PICK q \in Below(l, r, l[m]) : Side(pos) = l[q] \/ Side(pos) = r[q]
          BY <1>1, <3>1, <3>3, <4>2, BelowHasParent
        <5>2. q \in Nodes
          BY <1>1, <3>1, BelowClosed
        <5> QED BY <2>1, <3>2, <5>1, <5>2 DEF PathTo, Under
      <4> QED BY <4>1, <4>2
    <3>4. ASSUME Side(pos) \in Below(l, r, r[m]) PROVE arg >= value[m]
      <4>1. CASE Side(pos) = r[m]
        <5>1. m = pos /\ ~GoesLeft(pos)
          BY <1>1, <2>1, <3>2, <4>1 DEF Side, Single
        <5> QED BY <2>2, <5>1 DEF GoesLeft
      <4>2. CASE Side(pos) # r[m]
        <5>1. PICK q \in Below(l, r, r[m]) : Side(pos) = l[q] \/ Side(pos) = r[q]
          BY <1>1, <3>1, <3>4, <4>2, BelowHasParent
        <5>2. q \in Nodes
          BY <1>1, <3>1, BelowClosed
        <5> QED BY <2>1, <3>2, <5>1, <5>2 DEF PathTo, Under
      <4> QED BY <4>1, <4>2
    <3> QED BY <3>3, <3>4
  <2>5. PathTo(pos)'
    BY <2>3, <2>4 DEF PathTo, Under
  <2> QED BY <1>0, <1>2, <1>4, <2>5 DEF OrderInv, Descend
<1>5. CASE LinkOne
  <2>1. /\ pos \in Created /\ PathTo(pos) /\ Len(value) < MaxNodes
        /\ Link(pos, GoesLeft(pos), "one") /\ busy' = "idle"
    BY <1>0, <1>5 DEF OrderInv, Typed, TypeOK, Room, LinkOne, Link
  <2>2. GoesLeft(pos) \in BOOLEAN /\ IF GoesLeft(pos) THEN l[pos] = null ELSE r[pos] = null
    BY <1>5 DEF LinkOne, Side, GoesLeft
  <2>3. GoesLeft(pos) = (arg < value[pos])
    BY DEF GoesLeft
  <2>4. Ordered'
    BY <1>0, <2>1, <2>2, <2>3, LinkOrdered
  <2> QED BY <1>0, <2>1, <2>4 DEF OrderInv
<1>6. CASE LinkFull
  <2>1. /\ Head(list) \in Created /\ Len(value) < MaxNodes
        /\ Link(Head(list), FreeLeft(Head(list)), "full") /\ busy' = "idle"
    BY <1>0, <1>6 DEF OrderInv, Typed, TypeOK, Room, LinkFull, Link
  <2>2. FreeLeft(Head(list)) \in BOOLEAN /\ IF FreeLeft(Head(list)) THEN l[Head(list)] = null ELSE r[Head(list)] = null
    BY <1>6 DEF LinkFull, FreeLeft
  <2>3. Ordered'
    BY <1>0, <2>1, <2>2, LinkOrdered
  <2> QED BY <1>0, <2>1, <2>3 DEF OrderInv
<1>7. ASSUME NEW n, Delete(n) \/ Reset(n) PROVE OrderInv'
  <2>1. n \in Nodes
    <3>1. <<"delete", n>> \in Items \/ <<"reset", n>> \in Items
      BY <1>0, <1>7, NextCall DEF Delete, Reset, Typed
    <3> QED BY <1>1, <3>1 DEF Items
  <2>2. Cleared(n) /\ UNCHANGED made /\ busy' # "one"
    BY <1>7 DEF Delete, Reset, Cleared, ToDo
  <2> QED BY <1>0, <2>1, <2>2, ClearOrdered DEF OrderInv
<1>8. ASSUME UNCHANGED <<made, links>>, busy' # "one" PROVE OrderInv'
  BY <1>0, <1>2, <1>8 DEF OrderInv
<1>9. ASSUME NEW v, InsertFull(v) PROVE OrderInv'
  BY <1>8, <1>9 DEF InsertFull
<1>10. CASE FullTurn
  BY <1>8, <1>10 DEF FullTurn
<1>11. CASE DeleteTree \/ Destroy \/ Collect \/ Collected \/ Return
  BY <1>8, <1>11 DEF DeleteTree, Destroy, Collect, Collected, Return
<1>12. ASSUME NEW n, CallReturns(n) \/ CallCollects(n) \/ Release(n) PROVE OrderInv'
  BY <1>8, <1>12 DEF CallReturns, CallCollects, Release, ToDo
<1>13. CASE UNCHANGED vars
  BY <1>0, <1>2, <1>13 DEF vars, made, links, temps, OrderInv, PathTo, Under
<1> QED BY <1>3, <1>4, <1>5, <1>6, <1>7, <1>9, <1>10, <1>11, <1>12, <1>13 DEF Next, Inserting, Deleting

\* Between calls every node placed by insertOne is on the side of its value from each
\* node above it, whatever insertFull and deletion have done to the tree.
THEOREM InsertOneKeepsOrder == Spec => []SearchOrder
<1>1. Init => OrderInv
  <2> SUFFICES ASSUME Init PROVE OrderInv
    OBVIOUS
  <2>1. Typed
    BY TreeStartsTyped
  <2>2. Below(l, r, null) = {}
    BY <2>1, LinksTyped, BelowClosed DEF Typed, Places
  <2>3. \A m \in Nodes : l[m] = null /\ r[m] = null
    BY DEF Init
  <2> QED BY <2>1, <2>2, <2>3 DEF Init, OrderInv, Ordered, Under
<1>2. OrderInv /\ [Next]_vars => OrderInv'
  BY OrderStep
<1>3. OrderInv => SearchOrder
  BY DEF OrderInv, Ordered, SearchOrder
<1> QED BY <1>1, <1>2, <1>3, PTL DEF Spec

-------------------------------------------------------------------------------
(***************************************************************************)
(* What deletion frees                                                     *)
(***************************************************************************)
Deletion == busy \in {"collect", "calls"}

\* The nodes that the call c will free: deleteTree(bt) all below bt.
Region(f, g, c) ==
    IF c[1] = "tree" THEN Below(f, g, c[2]) ELSE IF c[1] = "reset" THEN {} ELSE {c[2]}

\* The nodes that the list being filled will hold, but for the root object.
Gathering == IF busy = "collect" THEN Below(l, r, list[1]) \ {1} ELSE {}

\* No node has been freed twice, nor the root object at all.
Once ==
    /\ \A t, u \in DOMAIN freed : freed[t] = freed[u] => t = u
    /\ 1 \notin Freed

\* Outside deletion the nodes not freed are those of the tree, and an insertion works
\* on them.
Intact ==
    /\ ~Deletion => calls = <<>>
    /\ ~Deletion /\ phase = "alive" => Created \ Freed = Tree
    /\ busy \in {"one", "full"} => phase = "alive"
    /\ busy = "one" => pos \in Tree
    /\ busy = "full" => \A t \in DOMAIN list : list[t] \in Tree

\* The regions of the calls have no node in common, and none that is freed.
Apart ==
    /\ \A t \in DOMAIN calls : Region(l, r, calls[t]) \cap (Freed \cup {1} \cup Gathering) = {}
    /\ \A t, u \in DOMAIN calls :
          t # u => Region(l, r, calls[t]) \cap Region(l, r, calls[u]) = {}
    /\ Gathering \cap Freed = {}

LeafOfRoot(n) == phase = "destroyed" /\ n \in {l[1], r[1]} /\ Leaf(n)

\* During deletion every node not freed is in a region, but for the root object and
\* the leaves that its destructor passes over.
Covered ==
    Deletion \/ phase = "destroyed" =>
        \A n \in Created :
            \/ n \in Freed \/ n = 1 \/ n \in Gathering \/ LeafOfRoot(n)
            \/ \E t \in DOMAIN calls : n \in Region(l, r, calls[t])

\* deleteTree(bt) is called for the root's children only, or for none, and the
\* pointers of the root object are reset by deleteTree() only.
CallsOfRoot ==
    \A t \in DOMAIN calls :
        /\ calls[t][1] = "tree" /\ calls[t][2] # null
               => phase = "destroyed" /\ calls[t][2] \in {l[1], r[1]}
        /\ calls[t][1] = "reset" => phase = "alive" /\ calls[t][2] = 1

\* deleteTree() resets them before it returns.
RootReset ==
    Deletion /\ phase = "alive" => (calls # <<>> /\ calls[1] = <<"reset", 1>>) \/ Leaf(1)

\* tmpList holds nodes below its first, each once, with the children of those that
\* the iterator has passed, and without a node whose parent it has not passed.
Gathered ==
    busy = "collect" =>
        /\ list[1] = 1 <=> phase = "alive"
        /\ iter <= Len(list) + 1
        /\ \A t, u \in DOMAIN list : list[t] = list[u] => t = u
        /\ \A t \in DOMAIN list : list[t] \in Below(l, r, list[1])
        /\ \A t \in DOMAIN list : t < iter =>
              \A c \in {l[list[t]], r[list[t]]} \ {null} : \E u \in DOMAIN list : list[u] = c
        /\ \A t \in DOMAIN list : t > 1 =>
              \E u \in DOMAIN list : u < iter /\ list[t] \in {l[list[u]], r[list[u]]}

FreeInv ==
    Typed /\ Once /\ Intact /\ Apart /\ Covered /\ CallsOfRoot /\ RootReset /\ Gathered

\* Linking a node to one of the tree.
LEMMA LinkFrees ==
    ASSUME FreeInv, NEW p \in Created, NEW left \in BOOLEAN, NEW how \in {"one", "full"},
           Len(value) < MaxNodes, Link(p, left, how), IF left THEN l[p] = null ELSE r[p] = null,
           ~Deletion, phase = "alive", p \in Tree
    PROVE  FreeInv'
<1> DEFINE new == Len(value) + 1
<1>1. Typed /\ Typed' /\ calls = <<>> /\ Created \ Freed = Tree
  BY LinkTyped DEF FreeInv, Intact
<1>2. /\ Len(value) \in Nat /\ new \in Nodes \ Created
      /\ Below(l', r', 1) = Below(l, r, 1) \cup {new}
  <2>1. 1 \in Nodes
    BY <1>1, LinksTyped DEF Typed
  <2> QED BY <1>1, <2>1, LinkJoins DEF Tree, Under
<1>3. freed' = freed /\ calls' = calls /\ phase' = phase /\ busy' = "idle" /\ Len(value') = new
  BY <1>1 DEF Link, Typed, TypeOK
<1>4. Created' = Created \cup {new}
  BY <1>2, <1>3 DEF Created
<1>5. Freed' = Freed /\ Freed \subseteq Created
  BY <1>1, <1>3 DEF Freed, ToSet, Typed, TypeOK
<1>6. (Created \ Freed = Tree)'
  BY <1>1, <1>2, <1>4, <1>5 DEF Tree, Under
<1>7. Once'
  BY <1>3, <1>5 DEF FreeInv, Once
<1>8. Intact'
  BY <1>1, <1>3, <1>6 DEF Intact, Deletion
<1>9. Apart' /\ Covered' /\ CallsOfRoot' /\ RootReset' /\ Gathered'
  BY <1>1, <1>3 DEF Apart, Covered, CallsOfRoot, RootReset, Gathered, Gathering, Deletion
<1> QED BY <1>1, <1>7, <1>8, <1>9 DEF FreeInv

\* q is s with the children x and y, if any, behind it.
Extended(s, x, y, q) ==
    /\ Len(q) \in Nat /\ Len(s) <= Len(q) /\ DOMAIN q = 1..Len(q)
    /\ \A t \in 1..Len(s) : q[t] = s[t]
    /\ \A t \in 1..Len(q) : t > Len(s) => q[t] \in {x, y} \ {null}
    /\ \A c \in {x, y} \ {null} : \E t \in 1..Len(q) : q[t] = c
    /\ \A t, u \in 1..Len(q) : t > Len(s) /\ u > Len(s) /\ q[t] = q[u] => t = u

LEMMA ChildrenAppended ==
    ASSUME NEW S, NEW s \in Seq(S), NEW x \in S \cup {null}, NEW y \in S \cup {null},
           x = y => x = null
    PROVE  Extended(s, x, y, s \o IfAny(x) \o IfAny(y))
<1>0. Len(s) \in Nat
  OBVIOUS
<1>1. CASE x = null /\ y = null
  <2>1. s \o IfAny(x) \o IfAny(y) = s
    BY <1>1 DEF IfAny
  <2> QED BY <1>0, <1>1, <2>1 DEF Extended
<1>2. CASE x # null /\ y = null
  <2> DEFINE q == s \o IfAny(x) \o IfAny(y)
  <2>1. q = Append(s, x)
    BY <1>2 DEF IfAny
  <2>2. Len(q) = Len(s) + 1 /\ DOMAIN q = 1..Len(q) /\ q[Len(s) + 1] = x /\ \A t \in 1..Len(s) : q[t] = s[t]
    BY <1>0, <1>2, <2>1
  <2> HIDE DEF q
  <2> QED BY <1>0, <1>2, <2>2 DEF Extended, q
<1>3. CASE x = null /\ y # null
  <2> DEFINE q == s \o IfAny(x) \o IfAny(y)
  <2>1. q = Append(s, y)
    BY <1>3 DEF IfAny
  <2>2. Len(q) = Len(s) + 1 /\ DOMAIN q = 1..Len(q) /\ q[Len(s) + 1] = y /\ \A t \in 1..Len(s) : q[t] = s[t]
    BY <1>0, <1>3, <2>1
  <2> HIDE DEF q
  <2> QED BY <1>0, <1>3, <2>2 DEF Extended, q
<1>4. CASE x # null /\ y # null
  <2> DEFINE q == s \o IfAny(x) \o IfAny(y)
  <2>1. q = Append(Append(s, x), y)
    BY <1>4 DEF IfAny
  <2>2. /\ Len(q) = Len(s) + 2 /\ DOMAIN q = 1..Len(q) /\ q[Len(s) + 1] = x /\ q[Len(s) + 2] = y
        /\ \A t \in 1..Len(s) : q[t] = s[t]
    BY <1>0, <1>4, <2>1
  <2> HIDE DEF q
  <2> QED BY <1>0, <1>4, <2>2 DEF Extended, q
<1> QED BY <1>1, <1>2, <1>3, <1>4

\* A turn of the loop that fills tmpList keeps what is said of it.
LEMMA CollectGathers ==
    ASSUME Typed, Gathered, Collect
    PROVE  Gathered' /\ list'[1] = list[1]
<1> DEFINE a == list[iter]
           x == l[a]
           y == r[a]
           b == list[1]
<1>1. /\ busy = "collect" /\ busy' = busy /\ phase' = phase /\ l' = l /\ r' = r /\ iter' = iter + 1
      /\ list' = list \o IfAny(x) \o IfAny(y)
  BY DEF Collect, links
<1>2. /\ l \in Links /\ r \in Links /\ Younger(l) /\ Younger(r) /\ Single(l, r)
      /\ Created \subseteq Nodes /\ Closed(l, r, Created)
  BY LinksTyped DEF Typed
<1>3. /\ list \in Seq(Created) /\ iter \in Nat /\ iter >= 1 /\ iter <= Len(list) /\ Len(list) \in Nat
      /\ DOMAIN list = 1..Len(list) /\ a \in Created /\ b \in Created /\ iter \in DOMAIN list
      /\ 1 \in DOMAIN list
  BY DEF Typed, TypeOK, Collect
<1>4. a \in Nodes /\ b \in Nodes /\ x \in Created \cup {null} /\ y \in Created \cup {null}
  BY <1>2, <1>3 DEF Closed
<1>5. x = y => x = null
  BY <1>2, <1>4 DEF Single
<1>6. Extended(list, x, y, list')
  <2> HIDE DEF x, y
  <2> QED BY <1>1, <1>3, <1>4, <1>5, ChildrenAppended
<1>7. /\ list[1] = 1 <=> phase = "alive"
      /\ \A t, u \in DOMAIN list : list[t] = list[u] => t = u
      /\ \A t \in DOMAIN list : list[t] \in Below(l, r, b)
      /\ \A t \in DOMAIN list : t < iter =>
            \A c \in {l[list[t]], r[list[t]]} \ {null} : \E u \in DOMAIN list : list[u] = c
      /\ \A t \in DOMAIN list : t > 1 =>
            \E u \in DOMAIN list : u < iter /\ list[t] \in {l[list[u]], r[list[u]]}
  BY <1>1 DEF Gathered
<1>8. list'[1] = b /\ DOMAIN list' = 1..Len(list') /\ Len(list') \in Nat /\ Len(list') >= Len(list)
  BY <1>3, <1>6 DEF Extended
<1>9. ASSUME NEW t \in DOMAIN list, list[t] \in {x, y} PROVE FALSE
  <2>1. list[t] \in Nodes /\ list[t] # null
    BY <1>2, <1>3, NodesNat
  <2>2. CASE t = 1
    <3>1. a >= b
      BY <1>2, <1>3, <1>4, <1>7, BelowYounger
    <3>2. b > a
      BY <1>4, <1>9, <2>1, <2>2, <1>2 DEF Younger
    <3> QED BY <1>4, <3>1, <3>2, NodesNat
  <2>3. CASE t # 1
    <3>1. t > 1
      BY <1>3, <2>3
    <3>2. PICK u \in DOMAIN list : u < iter /\ list[t] \in {l[list[u]], r[list[u]]}
      BY <1>7, <3>1
    <3>3. list[u] \in Nodes
      BY <1>2, <1>3
    <3>4. list[u] = a
      BY <1>2, <1>4, <1>9, <2>1, <3>2, <3>3 DEF Single
    <3>5. u = iter
      BY <1>3, <1>7, <3>4
    <3> QED BY <1>3, <3>2, <3>5
  <2> QED BY <2>2, <2>3
<1>10. \A t, u \in DOMAIN list' : list'[t] = list'[u] => t = u
  <2> SUFFICES ASSUME NEW t \in DOMAIN list', NEW u \in DOMAIN list', list'[t] = list'[u] PROVE t = u
    OBVIOUS
  <2>1. t \in Nat /\ u \in Nat
    BY <1>8
  <2>2. CASE t <= Len(list) /\ u <= Len(list)
    BY <1>3, <1>6, <1>7, <1>8, <2>1, <2>2 DEF Extended
  <2>3. CASE t > Len(list) /\ u > Len(list)
    BY <1>6, <1>8, <2>3 DEF Extended
  <2>4. CASE t <= Len(list) /\ u > Len(list)
    <3>1. t \in DOMAIN list /\ list'[t] = list[t] /\ list'[u] \in {x, y}
      BY <1>3, <1>6, <1>8, <2>1, <2>4 DEF Extended
    <3> QED BY <1>9, <3>1
  <2>5. CASE t > Len(list) /\ u <= Len(list)
    <3>1. u \in DOMAIN list /\ list'[u] = list[u] /\ list'[t] \in {x, y}
      BY <1>3, <1>6, <1>8, <2>1, <2>5 DEF Extended
    <3> QED BY <1>9, <3>1
  <2> QED BY <1>3, <2>1, <2>2, <2>3, <2>4, <2>5
<1>11. ASSUME NEW t \in DOMAIN list' PROVE list'[t] \in Below(l, r, b)
  <2>1. a \in Below(l, r, b)
    BY <1>3, <1>7
  <2>2. Closed(l, r, Below(l, r, b))
    BY <1>2, <1>4, BelowClosed DEF Places
  <2>3. x \in Below(l, r, b) \cup {null} /\ y \in Below(l, r, b) \cup {null}
    BY <2>1, <2>2 DEF Closed
  <2>4. CASE t <= Len(list)
    BY <1>3, <1>6, <1>7, <1>8, <2>4 DEF Extended
  <2>5. CASE t > Len(list)
    BY <1>6, <1>8, <2>3, <2>5 DEF Extended
  <2> QED BY <1>3, <1>8, <2>4, <2>5
<1>12. ASSUME NEW t \in DOMAIN list', t < iter + 1,
              NEW c \in {l[list'[t]], r[list'[t]]} \ {null}
       PROVE  \E u \in DOMAIN list' : list'[u] = c
  <2>1. t \in DOMAIN list /\ t \in Nat /\ list'[t] = list[t]
    BY <1>3, <1>6, <1>8, <1>12 DEF Extended
  <2>2. CASE t < iter
    <3>1. PICK u \in DOMAIN list : list[u] = c
      BY <1>7, <1>12, <2>1, <2>2
    <3> QED BY <1>3, <1>6, <1>8, <3>1 DEF Extended
  <2>3. CASE t = iter
    <3>1. c \in {x, y} \ {null}
      BY <1>12, <2>1, <2>3
    <3> QED BY <1>6, <1>8, <3>1 DEF Extended
  <2> QED BY <1>3, <1>12, <2>1, <2>2, <2>3
<1>13. ASSUME NEW t \in DOMAIN list', t > 1
       PROVE  \E u \in DOMAIN list' : u < iter + 1 /\ list'[t] \in {l[list'[u]], r[list'[u]]}
  <2>1. CASE t <= Len(list)
    <3>1. t \in DOMAIN list /\ list'[t] = list[t]
      BY <1>3, <1>6, <1>8, <2>1 DEF Extended
    <3>2. PICK u \in DOMAIN list : u < iter /\ list[t] \in {l[list[u]], r[list[u]]}
      BY <1>7, <1>13, <3>1
    <3>3. u \in DOMAIN list' /\ list'[u] = list[u] /\ u < iter + 1
      BY <1>3, <1>6, <1>8, <3>2 DEF Extended
    <3> QED BY <3>1, <3>2, <3>3
  <2>2. CASE t > Len(list)
    <3>1. list'[t] \in {x, y} /\ list'[iter] = a /\ iter \in DOMAIN list' /\ iter < iter + 1
      BY <1>3, <1>6, <1>8, <2>2 DEF Extended
    <3> QED BY <3>1
  <2> QED BY <1>3, <1>8, <2>1, <2>2
<1>14. iter' <= Len(list') + 1
  BY <1>1, <1>3, <1>8
<1> QED BY <1>1, <1>7, <1>8, <1>10, <1>11, <1>12, <1>13, <1>14 DEF Gathered

\* The list that the loop leaves: the nodes to delete are all below its first, each
\* once, but for the root object.
LEMMA ListComplete ==
    ASSUME Typed, Gathered, busy = "collect", iter > Len(list)
    PROVE  /\ ToDelete \in Seq(Created)
           /\ \A t, u \in 1..Len(ToDelete) : ToDelete[t] = ToDelete[u] => t = u
           /\ \A n \in Nodes : n \in Gathering <=> \E t \in 1..Len(ToDelete) : ToDelete[t] = n
<1> DEFINE b == list[1]
           S == {list[t] : t \in DOMAIN list}
<1>1. /\ l \in Links /\ r \in Links /\ Younger(l) /\ Younger(r)
      /\ Created \subseteq Nodes
  BY LinksTyped DEF Typed
<1>2. /\ list \in Seq(Created) /\ list # <<>> /\ Len(list) \in Nat /\ Len(list) >= 1
      /\ DOMAIN list = 1..Len(list) /\ b \in Created /\ b \in Nodes /\ iter \in Nat
  BY <1>1 DEF Typed, TypeOK, Room
<1>3. /\ \A t, u \in DOMAIN list : list[t] = list[u] => t = u
      /\ \A t \in DOMAIN list : list[t] \in Below(l, r, b)
      /\ \A t \in DOMAIN list : t < iter =>
            \A c \in {l[list[t]], r[list[t]]} \ {null} : \E u \in DOMAIN list : list[u] = c
  BY DEF Gathered
<1>4. S \subseteq Nodes /\ b \in S
  BY <1>1, <1>2
<1>5. \A n \in S : l[n] \in S \cup {null} /\ r[n] \in S \cup {null}
  <2> SUFFICES ASSUME NEW t \in DOMAIN list PROVE l[list[t]] \in S \cup {null} /\ r[list[t]] \in S \cup {null}
    OBVIOUS
  <2>1. t < iter
    BY <1>2
  <2>2. \A c \in {l[list[t]], r[list[t]]} \ {null} : \E u \in DOMAIN list : list[u] = c
    BY <1>3, <2>1
  <2> QED BY <2>2
<1>6. Below(l, r, b) \subseteq S
  <2> HIDE DEF S
  <2> QED BY <1>4, <1>5, BelowLeast DEF Closed
<1>7. \A n \in Nodes : n \in Below(l, r, b) <=> \E t \in 1..Len(list) : list[t] = n
  BY <1>2, <1>3, <1>6
<1>8. CASE b = 1
  <2>1. /\ ToDelete \in Seq(Created) /\ Len(ToDelete) = Len(list) - 1
        /\ \A t \in 1..(Len(list) - 1) : ToDelete[t] = list[t + 1]
    BY <1>2, <1>8 DEF ToDelete
  <2>2. \A t, u \in 1..Len(ToDelete) : ToDelete[t] = ToDelete[u] => t = u
    <3> SUFFICES ASSUME NEW t \in 1..Len(ToDelete), NEW u \in 1..Len(ToDelete), ToDelete[t] = ToDelete[u]
                 PROVE  t = u
      OBVIOUS
    <3>1. t + 1 \in DOMAIN list /\ u + 1 \in DOMAIN list /\ t \in Nat /\ u \in Nat /\ list[t + 1] = list[u + 1]
      BY <1>2, <2>1
    <3>2. t + 1 = u + 1
      BY <1>3, <3>1
    <3> QED BY <3>1, <3>2
  <2>3. ASSUME NEW n \in Nodes PROVE n \in Gathering <=> \E t \in 1..Len(ToDelete) : ToDelete[t] = n
    <3>1. n \in Gathering <=> n # 1 /\ \E t \in 1..Len(list) : list[t] = n
      BY <1>7 DEF Gathering
    <3>2. ASSUME NEW t \in 1..Len(list), list[t] = n, n # 1 PROVE \E u \in 1..Len(ToDelete) : ToDelete[u] = n
      <4>1. t # 1
        BY <1>8, <3>2
      <4>2. t - 1 \in 1..Len(ToDelete) /\ ToDelete[t - 1] = list[t]
        <5>1. t - 1 \in 1..(Len(list) - 1) /\ (t - 1) + 1 = t
          BY <1>2, <4>1
        <5> QED BY <2>1, <5>1
      <4> QED BY <3>2, <4>2
    <3>3. ASSUME NEW t \in 1..Len(ToDelete), ToDelete[t] = n PROVE n # 1 /\ \E u \in 1..Len(list) : list[u] = n
      <4>1. t + 1 \in DOMAIN list /\ t + 1 # 1 /\ list[t + 1] = n /\ 1 \in DOMAIN list
        BY <1>2, <2>1, <3>3
      <4> QED BY <1>2, <1>3, <1>8, <4>1
    <3> QED BY <3>1, <3>2, <3>3
  <2> QED BY <2>1, <2>2, <2>3
<1>9. CASE b # 1
  <2>1. ToDelete = list
    BY <1>9 DEF ToDelete
  <2>2. 1 \notin Below(l, r, b)
    <3>1. b \in Nat /\ b > 1
      BY <1>2, <1>9, NodesNat
    <3>2. \A c \in Below(l, r, b) : c >= b
      BY <1>1, <1>2, BelowYounger
    <3> QED BY <3>1, <3>2
  <2> QED BY <1>2, <1>3, <1>7, <2>1, <2>2 DEF Gathering
<1> QED BY <1>8, <1>9

LEMMA CollectedFrees ==
    ASSUME FreeInv, Collected
    PROVE  Apart' /\ Covered' /\ CallsOfRoot' /\ RootReset'
<1> DEFINE D == [t \in DOMAIN ToDelete |-> <<"delete", ToDelete[t]>>]
           k == Len(calls)
           d == Len(ToDelete)
<1>1. /\ busy = "collect" /\ iter > Len(list) /\ calls' = calls \o D /\ busy' = "calls"
      /\ l' = l /\ r' = r /\ freed' = freed /\ phase' = phase /\ value' = value
  BY DEF Collected, links, made
<1>2. /\ Typed /\ Gathered /\ Apart /\ Covered /\ CallsOfRoot /\ RootReset
  BY DEF FreeInv
<1>3. /\ ToDelete \in Seq(Created)
      /\ \A t, u \in 1..d : ToDelete[t] = ToDelete[u] => t = u
      /\ \A n \in Nodes : n \in Gathering <=> \E t \in 1..d : ToDelete[t] = n
  BY <1>1, <1>2, ListComplete
<1>4. d \in Nat /\ k \in Nat /\ calls \in Seq(Items) /\ DOMAIN calls = 1..k /\ Created \subseteq Nodes
  BY <1>2, <1>3, LinksTyped DEF Typed, TypeOK, Items
<1>5. D \in Seq(Items) /\ Len(D) = d /\ \A t \in 1..d : D[t] = <<"delete", ToDelete[t]>>
  BY <1>3, DeleteCalls
<1> HIDE DEF D
<1>6. /\ DOMAIN calls' = 1..(k + d) /\ \A t \in 1..k : calls'[t] = calls[t]
      /\ \A t \in 1..d : calls'[k + t] = <<"delete", ToDelete[t]>>
  <2> HIDE DEF Items
  <2>1. /\ Len(calls \o D) = k + d /\ calls \o D \in Seq(Items)
        /\ \A t \in 1..k : (calls \o D)[t] = calls[t]
        /\ \A t \in 1..d : (calls \o D)[k + t] = D[t]
    <3>1. Behind(Items, calls, D)
      BY <1>4, <1>5, TwoSequences
    <3>2. Len(D) = d
      BY <1>5
    <3> HIDE DEF d
    <3> QED BY <3>1, <3>2, Zenon DEF Behind
  <2>2. DOMAIN (calls \o D) = 1..(k + d)
    BY <2>1
  <2> QED BY <1>1, <1>5, <2>1, <2>2
<1>7. \A t \in 1..(k + d) : t > k => t - k \in 1..d /\ calls'[t] = <<"delete", ToDelete[t - k]>>
  <2> SUFFICES ASSUME NEW t \in 1..(k + d), t > k PROVE t - k \in 1..d /\ calls'[t] = <<"delete", ToDelete[t - k]>>
    OBVIOUS
  <2>1. t - k \in 1..d /\ k + (t - k) = t
    BY <1>4
  <2> QED BY <1>6, <2>1
<1>8. \A t \in 1..(k + d) : t > k => Region(l, r, calls'[t]) = {ToDelete[t - k]} /\ ToDelete[t - k] \in Gathering
  <2> SUFFICES ASSUME NEW t \in 1..(k + d), t > k
               PROVE  Region(l, r, calls'[t]) = {ToDelete[t - k]} /\ ToDelete[t - k] \in Gathering
    OBVIOUS
  <2>1. t - k \in 1..d /\ calls'[t] = <<"delete", ToDelete[t - k]>>
    BY <1>7
  <2>2. ToDelete[t - k] \in Nodes
    BY <1>3, <1>4, <2>1
  <2> QED BY <1>3, <2>1, <2>2 DEF Region
<1>9. Freed' = Freed /\ Gathering' = {} /\ Created' = Created
  BY <1>1 DEF Freed, Gathering, Created
<1>10. 1 \notin Gathering
  BY DEF Gathering
<1>11. Apart'
  <2>1. ASSUME NEW t \in 1..(k + d) PROVE Region(l, r, calls'[t]) \cap (Freed \cup {1}) = {}
    <3>1. CASE t <= k
      BY <1>2, <1>4, <1>6, <3>1 DEF Apart
    <3>2. CASE t > k
      BY <1>2, <1>8, <1>10, <3>2 DEF Apart
    <3> QED BY <1>4, <3>1, <3>2
  <2>2. ASSUME NEW t \in 1..(k + d), NEW u \in 1..(k + d), t # u
        PROVE  Region(l, r, calls'[t]) \cap Region(l, r, calls'[u]) = {}
    <3>1. CASE t <= k /\ u <= k
      BY <1>2, <1>4, <1>6, <2>2, <3>1 DEF Apart
    <3>2. CASE t <= k /\ u > k
      <4>1. Region(l, r, calls'[t]) \cap Gathering = {}
        BY <1>2, <1>4, <1>6, <3>2 DEF Apart
      <4> QED BY <1>8, <3>2, <4>1
    <3>3. CASE t > k /\ u <= k
      <4>1. Region(l, r, calls'[u]) \cap Gathering = {}
        BY <1>2, <1>4, <1>6, <3>3 DEF Apart
      <4> QED BY <1>8, <3>3, <4>1
    <3>4. CASE t > k /\ u > k
      <4>1. t - k \in 1..d /\ u - k \in 1..d /\ t - k # u - k
        BY <1>4, <1>7, <2>2, <3>4
      <4>2. ToDelete[t - k] # ToDelete[u - k]
        BY <1>3, <4>1
      <4>3. Region(l, r, calls'[t]) = {ToDelete[t - k]} /\ Region(l, r, calls'[u]) = {ToDelete[u - k]}
        BY <1>8, <3>4
      <4> QED BY <4>2, <4>3
    <3> QED BY <1>4, <3>1, <3>2, <3>3, <3>4
  <2> QED BY <1>1, <1>6, <1>9, <2>1, <2>2 DEF Apart
<1>12. Covered'
  <2> SUFFICES ASSUME NEW n \in Created
               PROVE  \/ n \in Freed \/ n = 1 \/ LeafOfRoot(n)
                      \/ \E t \in 1..(k + d) : n \in Region(l, r, calls'[t])
    BY <1>1, <1>6, <1>9 DEF Covered, LeafOfRoot, Leaf
  <2>1. CASE n \in Gathering
    <3>1. PICK t \in 1..d : ToDelete[t] = n
      BY <1>3, <1>4, <2>1
    <3>2. k + t \in 1..(k + d) /\ n \in Region(l, r, calls'[k + t])
      BY <1>4, <1>6, <3>1 DEF Region
    <3> QED BY <3>2
  <2>2. ASSUME NEW t \in DOMAIN calls, n \in Region(l, r, calls[t])
        PROVE  \E u \in 1..(k + d) : n \in Region(l, r, calls'[u])
    BY <1>4, <1>6, <2>2
  <2> QED BY <1>1, <1>2, <2>1, <2>2 DEF Covered, Deletion
<1>13. CallsOfRoot'
  <2> SUFFICES ASSUME NEW t \in 1..(k + d)
               PROVE  /\ calls'[t][1] = "tree" /\ calls'[t][2] # null
                             => phase = "destroyed" /\ calls'[t][2] \in {l[1], r[1]}
                      /\ calls'[t][1] = "reset" => phase = "alive" /\ calls'[t][2] = 1
    BY <1>1, <1>6 DEF CallsOfRoot
  <2>1. CASE t <= k
    BY <1>2, <1>4, <1>6, <2>1 DEF CallsOfRoot
  <2>2. CASE t > k
    BY <1>7, <2>2
  <2> QED BY <1>4, <2>1, <2>2
<1>14. RootReset'
  <2>1. calls # <<>> => calls' # <<>> /\ calls'[1] = calls[1]
    <3> SUFFICES ASSUME calls # <<>> PROVE calls' # <<>> /\ calls'[1] = calls[1]
      OBVIOUS
    <3>1. 1 \in 1..k /\ 1 \in DOMAIN calls'
      <4>1. k > 0
        <5> HIDE DEF Items
        <5> QED BY <1>4
      <4> QED BY <1>4, <1>6, <4>1
    <3>2. calls'[1] = calls[1]
      BY <1>6, <3>1
    <3>3. calls' # <<>>
      BY <3>1
    <3> QED BY <3>2, <3>3
  <2> QED BY <1>1, <1>2, <2>1 DEF RootReset, Deletion, Leaf
<1> QED BY <1>11, <1>12, <1>13, <1>14

\* A call of deleteTree(bt) leaves the stack: its region may be what is gathered next.
LEMMA PopFrees ==
    ASSUME FreeInv, NEW bt, ToDo("tree", bt), calls' = Front(calls), l' = l, r' = r,
           freed' = freed, phase' = phase, Gathering' \subseteq Below(l, r, bt) \ {1}
    PROVE  Apart' /\ CallsOfRoot' /\ RootReset'
<1> DEFINE k == Len(calls)
<1>1. Typed /\ Apart /\ CallsOfRoot /\ RootReset
  BY DEF FreeInv
<1>2. /\ busy = "calls" /\ k \in Nat /\ k > 0 /\ calls[k] = <<"tree", bt>> /\ DOMAIN calls = 1..k
      /\ calls' \in Seq(Items) /\ Len(calls') = k - 1 /\ \A t \in 1..(k - 1) : calls'[t] = calls[t]
  <2>1. DOMAIN calls = 1..k
    BY <1>1 DEF Typed, TypeOK
  <2> QED BY <1>1, <2>1, NextCall DEF Typed
<1>3. DOMAIN calls' = 1..(k - 1) /\ \A t \in 1..(k - 1) : t \in 1..k /\ t # k
  <2> HIDE DEF Items, k
  <2>1. DOMAIN calls' = 1..Len(calls')
    BY <1>2
  <2> QED BY <1>2, <2>1
<1>4. Freed' = Freed
  BY DEF Freed
<1>5. Region(l, r, calls[k]) = Below(l, r, bt) /\ k \in 1..k
  BY <1>2 DEF Region
<1> HIDE DEF k
<1>6. Apart'
  <2>1. \A t \in 1..(k - 1) : Region(l, r, calls[t]) \cap (Freed \cup {1} \cup Gathering') = {}
    BY <1>1, <1>2, <1>3, <1>5 DEF Apart
  <2>2. \A t, u \in 1..(k - 1) : t # u => Region(l, r, calls[t]) \cap Region(l, r, calls[u]) = {}
    BY <1>1, <1>2, <1>3 DEF Apart
  <2>3. Gathering' \cap Freed = {}
    BY <1>1, <1>2, <1>5 DEF Apart
  <2>4. \A t \in 1..(k - 1) : Region(l', r', calls'[t]) = Region(l, r, calls[t])
    BY <1>2
  <2> QED BY <1>3, <1>4, <2>1, <2>2, <2>3, <2>4 DEF Apart
<1>7. CallsOfRoot'
  BY <1>1, <1>2, <1>3 DEF CallsOfRoot
<1>8. RootReset'
  <2>1. CASE k = 1
    BY <1>1, <1>2, <2>1 DEF RootReset, Deletion, Leaf
  <2>2. CASE k # 1
    <3>1. 1 \in 1..(k - 1)
      BY <1>2, <2>2
    <3>2. calls'[1] = calls[1] /\ calls' # <<>>
      BY <1>2, <1>3, <3>1
    <3> QED BY <1>1, <1>2, <3>2 DEF RootReset, Deletion, Leaf
  <2> QED BY <2>1, <2>2
<1> QED BY <1>6, <1>7, <1>8

\* delete of a node whose pointers are null.
LEMMA DeleteFrees ==
    ASSUME FreeInv, NEW n, Delete(n)
    PROVE  Apart' /\ Covered' /\ CallsOfRoot' /\ RootReset'
<1> DEFINE k == Len(calls)
           f == Front(calls)
<1>1. Typed /\ Apart /\ Covered /\ CallsOfRoot /\ RootReset
  BY DEF FreeInv
<1>2. /\ busy = "calls" /\ k \in Nat /\ k > 0 /\ calls[k] = <<"delete", n>> /\ DOMAIN calls = 1..k
      /\ f \in Seq(Items) /\ Len(f) = k - 1 /\ \A t \in 1..(k - 1) : f[t] = calls[t]
      /\ <<"delete", n>> \in Items
  <2>1. DOMAIN calls = 1..k
    BY <1>1 DEF Typed, TypeOK
  <2>2. ToDo("delete", n)
    BY DEF Delete
  <2> QED BY <1>1, <2>1, <2>2, NextCall DEF Typed
<1>3. n \in Created /\ n \in Nodes /\ Cleared(n) /\ Created \subseteq Nodes /\ 1 \in Nodes
  <2>1. n \in Created
    BY <1>2 DEF Items
  <2> QED BY <1>1, <2>1, LinksTyped DEF Delete, Typed
<1>4. /\ l' \in Links /\ r' \in Links /\ l \in Links /\ r \in Links
      /\ \A m \in Nodes : l'[m] \in {l[m], null} /\ r'[m] \in {r[m], null}
      /\ \A m \in Nodes \ {n} : l'[m] = l[m] /\ r'[m] = r[m]
      /\ l'[n] = null /\ r'[n] = null
  BY <1>1, <1>3, ClearTyped, LinksTyped DEF Typed
<1>5. freed' = freed /\ phase' = phase /\ busy' = busy /\ value' = value /\ list' = list
  BY DEF Delete, made, temps
<1>6. /\ DOMAIN calls' = 1..(k + 2) /\ \A t \in 1..(k - 1) : calls'[t] = calls[t]
      /\ calls'[k] = <<"release", n>>
      /\ calls'[k + 1] = <<"tree", null>> /\ calls'[k + 2] = <<"tree", null>>
  <2>1. calls' = f \o <<<<"release", n>>>> \o <<<<"tree", null>>, <<"tree", null>>>>
    BY <1>4 DEF Delete, Destructor
  <2>2. <<"release", n>> \in Items /\ <<"tree", null>> \in Items
    BY <1>3 DEF Items
  <2>3. Longer(f, <<"release", n>>, <<"tree", null>>, <<"tree", null>>, calls')
    <3> HIDE DEF Items, f
    <3> QED BY <1>2, <2>1, <2>2, ThreeAppended
  <2>4. (k - 1) + 1 = k /\ (k - 1) + 2 = k + 1 /\ (k - 1) + 3 = k + 2
    BY <1>2
  <2> HIDE DEF f, k
  <2> QED BY <1>2, <2>3, <2>4 DEF Longer
<1> HIDE DEF k, f
<1>7. Region(l, r, calls[k]) = {n} /\ k \in 1..k
  BY <1>2 DEF Region
<1>8. n # 1
  BY <1>1, <1>2, <1>7 DEF Apart
<1>9. ASSUME NEW t \in 1..k PROVE Region(l', r', calls'[t]) = Region(l, r, calls[t])
  <2>1. CASE t = k
    <3>1. calls'[t] = <<"release", n>>
      BY <1>6, <2>1
    <3>2. Region(l', r', <<"release", n>>) = {n}
      BY DEF Region
    <3> QED BY <1>7, <2>1, <3>1, <3>2
  <2>2. CASE t # k
    <3>1. t \in 1..(k - 1) /\ calls'[t] = calls[t]
      BY <1>2, <1>6, <2>2
    <3>2. n \notin Region(l, r, calls[t])
      BY <1>1, <1>2, <1>7, <2>2 DEF Apart
    <3>3. CASE calls[t][1] = "tree"
      <4>1. calls[t][2] \in Places
        <5>1. calls[t] \in Items
          BY <1>1, <1>2 DEF Typed, TypeOK, Items
        <5> QED BY <1>3, <5>1 DEF Items, Places
      <4>2. Region(l, r, calls[t]) = Below(l, r, calls[t][2])
        BY <3>3 DEF Region
      <4>3. Below(l, r, calls[t][2]) \subseteq Nodes
        BY <1>4, <4>1, BelowClosed
      <4>4. Below(l', r', calls[t][2]) = Below(l, r, calls[t][2])
        BY <1>4, <3>2, <4>1, <4>2, <4>3, BelowAgrees
      <4> QED BY <3>1, <3>3, <4>4 DEF Region
    <3>4. CASE calls[t][1] # "tree"
      BY <3>1, <3>4 DEF Region
    <3> QED BY <3>3, <3>4
  <2> QED BY <2>1, <2>2
<1>10. ASSUME NEW t \in 1..(k + 2) PROVE t \in 1..k \/ Region(l', r', calls'[t]) = {}
  <2>1. Below(l', r', null) = {}
    BY <1>4, BelowClosed DEF Places
  <2>2. t \in 1..k \/ t = k + 1 \/ t = k + 2
    BY <1>2
  <2> QED BY <1>6, <2>1, <2>2 DEF Region
<1>11. Freed' = Freed /\ Gathering' = {} /\ Gathering = {} /\ Created' = Created /\ 1..k \subseteq 1..(k + 2)
  BY <1>2, <1>5 DEF Freed, Gathering, Created
<1>12. Apart'
  <2>1. \A t \in 1..(k + 2) : Region(l', r', calls'[t]) \cap (Freed \cup {1}) = {}
    BY <1>1, <1>2, <1>9, <1>10 DEF Apart
  <2>2. \A t, u \in 1..(k + 2) : t # u => Region(l', r', calls'[t]) \cap Region(l', r', calls'[u]) = {}
    BY <1>1, <1>2, <1>9, <1>10 DEF Apart
  <2> QED BY <1>6, <1>11, <2>1, <2>2 DEF Apart
<1>13. Covered'
  <2> SUFFICES ASSUME NEW m \in Created
               PROVE  \/ m \in Freed \/ m = 1 \/ LeafOfRoot(m)'
                      \/ \E t \in 1..(k + 2) : m \in Region(l', r', calls'[t])
    BY <1>6, <1>11 DEF Covered
  <2>1. m \in Freed \/ m = 1 \/ LeafOfRoot(m) \/ \E t \in 1..k : m \in Region(l, r, calls[t])
    BY <1>1, <1>2, <1>11 DEF Covered, Deletion
  <2>2. LeafOfRoot(m) => LeafOfRoot(m)'
    BY <1>3, <1>4, <1>5, <1>8 DEF LeafOfRoot, Leaf
  <2>3. ASSUME NEW t \in 1..k, m \in Region(l, r, calls[t])
        PROVE  \E u \in 1..(k + 2) : m \in Region(l', r', calls'[u])
    BY <1>9, <1>11, <2>3
  <2> QED BY <2>1, <2>2, <2>3
<1>14. CallsOfRoot'
  <2> SUFFICES ASSUME NEW t \in 1..(k + 2)
               PROVE  /\ calls'[t][1] = "tree" /\ calls'[t][2] # null
                             => phase = "destroyed" /\ calls'[t][2] \in {l[1], r[1]}
                      /\ calls'[t][1] = "reset" => phase = "alive" /\ calls'[t][2] = 1
    BY <1>3, <1>4, <1>5, <1>6, <1>8 DEF CallsOfRoot
  <2>1. CASE t \in 1..(k - 1)
    <3>1. t \in DOMAIN calls /\ calls'[t] = calls[t]
      BY <1>2, <1>6, <2>1
    <3> QED BY <1>1, <3>1 DEF CallsOfRoot
  <2>2. CASE t = k \/ t = k + 1 \/ t = k + 2
    BY <1>6, <2>2
  <2>3. t \in 1..(k - 1) \/ t = k \/ t = k + 1 \/ t = k + 2
    BY <1>2
  <2> QED BY <2>1, <2>2, <2>3
<1>15. RootReset'
  <2>1. CASE k = 1
    BY <1>1, <1>2, <1>3, <1>4, <1>5, <1>8, <2>1 DEF RootReset, Deletion, Leaf
  <2>2. CASE k # 1
    <3>1. 1 \in 1..(k - 1) /\ 1 \in 1..(k + 2)
      BY <1>2, <2>2
    <3>2. 1 \in DOMAIN calls' /\ calls'[1] = calls[1]
      BY <1>6, <3>1
    <3>3. calls' # <<>>
      BY <3>2
    <3> QED BY <1>1, <1>2, <1>3, <1>4, <1>5, <1>8, <3>2, <3>3 DEF RootReset, Deletion, Leaf
  <2> QED BY <2>1, <2>2
<1> QED BY <1>12, <1>13, <1>14, <1>15

\* The memory of a node is given back.
LEMMA ReleaseFrees ==
    ASSUME FreeInv, NEW n, Release(n)
    PROVE  Once' /\ Apart' /\ Covered' /\ CallsOfRoot' /\ RootReset'
<1> DEFINE k == Len(calls)
<1>1. Typed /\ Once /\ Apart /\ Covered /\ CallsOfRoot /\ RootReset
  BY DEF FreeInv
<1>2. /\ busy = "calls" /\ k \in Nat /\ k > 0 /\ calls[k] = <<"release", n>> /\ DOMAIN calls = 1..k
      /\ calls' \in Seq(Items) /\ Len(calls') = k - 1 /\ \A t \in 1..(k - 1) : calls'[t] = calls[t]
      /\ calls' = Front(calls)
  <2>1. DOMAIN calls = 1..k
    BY <1>1 DEF Typed, TypeOK
  <2>2. ToDo("release", n) /\ calls' = Front(calls)
    BY DEF Release
  <2> QED BY <1>1, <2>1, <2>2, NextCall DEF Typed
<1>3. DOMAIN calls' = 1..(k - 1) /\ \A t \in 1..(k - 1) : t \in 1..k /\ t # k
  <2> HIDE DEF Items, k
  <2>1. DOMAIN calls' = 1..Len(calls')
    BY <1>2
  <2> QED BY <1>2, <2>1
<1>4. freed' = Append(freed, n) /\ phase' = phase /\ busy' = busy /\ value' = value /\ l' = l /\ r' = r
  BY DEF Release, made, links
<1>5. Region(l, r, calls[k]) = {n} /\ k \in 1..k
  BY <1>2 DEF Region
<1>6. Gathering = {} /\ Gathering' = {} /\ Created' = Created
  BY <1>2, <1>4 DEF Gathering, Created
<1>7. n \notin Freed /\ n # 1
  BY <1>1, <1>2, <1>5 DEF Apart
<1>8. /\ Freed' = Freed \cup {n}
      /\ \A t, u \in DOMAIN freed' : freed'[t] = freed'[u] => t = u
  <2>1. /\ freed \in Seq(Created) /\ Len(freed) \in Nat /\ DOMAIN freed = 1..Len(freed)
    BY <1>1 DEF Typed, TypeOK
  <2>2. /\ DOMAIN freed' = 1..(Len(freed) + 1) /\ freed'[Len(freed) + 1] = n
        /\ \A t \in 1..Len(freed) : freed'[t] = freed[t]
    BY <1>4, <2>1
  <2>3. \A t \in DOMAIN freed' : t \in DOMAIN freed \/ t = Len(freed) + 1
    BY <2>1, <2>2
  <2>4. \A t \in DOMAIN freed : freed[t] # n
    BY <1>7 DEF Freed, ToSet
  <2>5. Freed' = Freed \cup {n}
    <3>1. Len(freed) + 1 \in DOMAIN freed' /\ \A t \in DOMAIN freed : t \in DOMAIN freed'
      BY <2>1, <2>2
    <3> QED BY <2>1, <2>2, <2>3, <3>1 DEF Freed, ToSet
  <2> QED BY <1>1, <2>1, <2>2, <2>3, <2>4, <2>5 DEF Once
<1> HIDE DEF k
<1>9. Once'
  BY <1>1, <1>7, <1>8 DEF Once
<1>10. \A t \in 1..(k - 1) : Region(l', r', calls'[t]) = Region(l, r, calls[t])
  BY <1>2, <1>4
<1>11. Apart'
  <2>1. \A t \in 1..(k - 1) : Region(l, r, calls[t]) \cap (Freed \cup {n} \cup {1}) = {}
    BY <1>1, <1>2, <1>3, <1>5 DEF Apart
  <2>2. \A t, u \in 1..(k - 1) : t # u => Region(l, r, calls[t]) \cap Region(l, r, calls[u]) = {}
    BY <1>1, <1>2, <1>3 DEF Apart
  <2> QED BY <1>3, <1>6, <1>8, <1>10, <2>1, <2>2 DEF Apart
<1>12. Covered'
  <2> SUFFICES ASSUME NEW m \in Created
               PROVE  \/ m \in Freed \cup {n} \/ m = 1 \/ LeafOfRoot(m)
                      \/ \E t \in 1..(k - 1) : m \in Region(l, r, calls[t])
    BY <1>3, <1>4, <1>6, <1>8, <1>10 DEF Covered, LeafOfRoot, Leaf
  <2>1. m \in Freed \/ m = 1 \/ LeafOfRoot(m) \/ \E t \in 1..k : m \in Region(l, r, calls[t])
    BY <1>1, <1>2, <1>6 DEF Covered, Deletion
  <2>2. \A t \in 1..k : t = k \/ t \in 1..(k - 1)
    BY <1>2
  <2> QED BY <1>5, <2>1, <2>2
<1>13. CallsOfRoot'
  BY <1>1, <1>2, <1>3, <1>4 DEF CallsOfRoot
<1>14. RootReset'
  <2>1. CASE k = 1
    BY <1>1, <1>2, <1>4, <2>1 DEF RootReset, Deletion, Leaf
  <2>2. CASE k # 1
    <3>1. 1 \in 1..(k - 1)
      BY <1>2, <2>2
    <3>2. calls'[1] = calls[1] /\ calls' # <<>>
      BY <1>2, <1>3, <3>1
    <3> QED BY <1>1, <1>2, <1>4, <3>2 DEF RootReset, Deletion, Leaf
  <2> QED BY <2>1, <2>2
<1> QED BY <1>9, <1>11, <1>12, <1>13, <1>14

\* deleteTree() sets the pointers of the root object to null.
LEMMA ResetFrees ==
    ASSUME FreeInv, NEW n, Reset(n)
    PROVE  Apart' /\ Covered' /\ CallsOfRoot' /\ RootReset'
<1> DEFINE k == Len(calls)
<1>1. Typed /\ Apart /\ Covered /\ CallsOfRoot
  BY DEF FreeInv
<1>2. /\ busy = "calls" /\ k \in Nat /\ k > 0 /\ calls[k] = <<"reset", n>> /\ DOMAIN calls = 1..k
      /\ calls' \in Seq(Items) /\ Len(calls') = k - 1 /\ \A t \in 1..(k - 1) : calls'[t] = calls[t]
  <2>1. DOMAIN calls = 1..k
    BY <1>1 DEF Typed, TypeOK
  <2>2. ToDo("reset", n) /\ calls' = Front(calls)
    BY DEF Reset
  <2> QED BY <1>1, <2>1, <2>2, NextCall DEF Typed
<1>3. DOMAIN calls' = 1..(k - 1) /\ \A t \in 1..(k - 1) : t \in 1..k /\ t # k
  <2> HIDE DEF Items, k
  <2>1. DOMAIN calls' = 1..Len(calls')
    BY <1>2
  <2> QED BY <1>2, <2>1
<1>4. freed' = freed /\ phase' = phase /\ busy' = busy /\ value' = value /\ Cleared(n)
  BY DEF Reset, made, Cleared
<1>5. k \in 1..k /\ calls[k][1] = "reset" /\ calls[k][2] = n
  BY <1>2
<1>6. phase = "alive" /\ n = 1
  BY <1>1, <1>2, <1>5 DEF CallsOfRoot
<1>7. l \in Links /\ r \in Links /\ l' \in Links /\ r' \in Links /\ l'[1] = null /\ r'[1] = null
  <2>1. 1 \in Nodes
    BY <1>1, LinksTyped DEF Typed
  <2> QED BY <1>1, <1>4, <1>6, <2>1, ClearTyped, LinksTyped DEF Typed
<1>8. Below(l, r, null) = {} /\ Below(l', r', null) = {}
  BY <1>7, BelowClosed DEF Places
<1>9. \A t \in 1..(k - 1) : Region(l', r', calls'[t]) = Region(l, r, calls[t])
  <2> SUFFICES ASSUME NEW t \in 1..(k - 1) PROVE Region(l', r', calls'[t]) = Region(l, r, calls[t])
    OBVIOUS
  <2>1. calls[t][1] = "tree" => calls[t][2] = null
    BY <1>1, <1>2, <1>3, <1>6 DEF CallsOfRoot
  <2> QED BY <1>2, <1>8, <2>1 DEF Region
<1>10. Freed' = Freed /\ Gathering = {} /\ Gathering' = {} /\ Created' = Created
  BY <1>2, <1>4 DEF Gathering, Created, Freed
<1>11. Region(l, r, calls[k]) = {}
  BY <1>5 DEF Region
<1> HIDE DEF k
<1>12. Apart'
  <2>1. \A t \in 1..(k - 1) : Region(l, r, calls[t]) \cap (Freed \cup {1}) = {}
    BY <1>1, <1>2, <1>3 DEF Apart
  <2>2. \A t, u \in 1..(k - 1) : t # u => Region(l, r, calls[t]) \cap Region(l, r, calls[u]) = {}
    BY <1>1, <1>2, <1>3 DEF Apart
  <2> QED BY <1>3, <1>9, <1>10, <2>1, <2>2 DEF Apart
<1>13. Covered'
  <2> SUFFICES ASSUME NEW m \in Created
               PROVE  m \in Freed \/ m = 1 \/ \E t \in 1..(k - 1) : m \in Region(l, r, calls[t])
    BY <1>3, <1>9, <1>10 DEF Covered
  <2>1. m \in Freed \/ m = 1 \/ \E t \in 1..k : m \in Region(l, r, calls[t])
    BY <1>1, <1>2, <1>6, <1>10 DEF Covered, Deletion, LeafOfRoot
  <2>2. \A t \in 1..k : t = k \/ t \in 1..(k - 1)
    BY <1>2
  <2> QED BY <1>11, <2>1, <2>2
<1>14. CallsOfRoot'
  <2> SUFFICES ASSUME NEW t \in 1..(k - 1)
               PROVE  /\ ~(calls'[t][1] = "tree" /\ calls'[t][2] # null)
                      /\ calls'[t][1] = "reset" => calls'[t][2] = 1
    BY <1>3, <1>4, <1>6 DEF CallsOfRoot
  <2> QED BY <1>1, <1>2, <1>3, <1>6 DEF CallsOfRoot
<1>15. RootReset'
  BY <1>7 DEF RootReset, Leaf
<1> QED BY <1>12, <1>13, <1>14, <1>15

\* The calls that begin a deletion.
LEMMA DeleteTreeStarts ==
    ASSUME FreeInv, DeleteTree
    PROVE  FreeInv'
<1>1. /\ Typed /\ Typed' /\ busy = "idle" /\ phase = "alive" /\ busy' = "collect" /\ list' = <<1>>
      /\ iter' = 1 /\ calls' = <<<<"reset", 1>>>>
      /\ l' = l /\ r' = r /\ value' = value /\ freed' = freed /\ phase' = phase
  <2>1. [Next]_vars
    BY DEF Next, Deleting
  <2> QED BY <2>1, TypedStep DEF FreeInv, DeleteTree, Idle, made, links
<1>2. Created \ Freed = Below(l, r, 1)
  BY <1>1 DEF FreeInv, Intact, Deletion, Tree, Under
<1>3. Freed' = Freed /\ Created' = Created /\ Gathering' = Below(l, r, 1) \ {1}
  BY <1>1 DEF Freed, Created, Gathering
<1>4. DOMAIN calls' = {1} /\ calls'[1] = <<"reset", 1>> /\ Region(l, r, calls'[1]) = {}
  BY <1>1 DEF Region
<1>5. Once' /\ Intact'
  BY <1>1, <1>3 DEF FreeInv, Once, Intact, Deletion
<1>6. Apart'
  BY <1>1, <1>2, <1>3, <1>4 DEF Apart
<1>7. Covered'
  BY <1>2, <1>3 DEF Covered
<1>8. CallsOfRoot' /\ RootReset'
  BY <1>1, <1>4 DEF CallsOfRoot, RootReset
<1>9. Gathered'
  <2>1. DOMAIN list' = {1} /\ list'[1] = 1 /\ Len(list') = 1
    BY <1>1
  <2>2. 1 \in Below(l, r, 1)
    <3>1. 1 \in Nodes /\ l \in Links /\ r \in Links /\ null \notin Nodes
      BY <1>1, LinksTyped DEF Typed
    <3> QED BY <3>1, BelowClosed DEF Places
  <2> QED BY <1>1, <2>1, <2>2 DEF Gathered
<1> QED BY <1>1, <1>5, <1>6, <1>7, <1>8, <1>9 DEF FreeInv

LEMMA DestroyStarts ==
    ASSUME FreeInv, Destroy
    PROVE  FreeInv'
<1>1. /\ Typed /\ Typed' /\ busy = "idle" /\ phase = "alive" /\ busy' = "calls"
      /\ calls' = <<<<"tree", r[1]>>, <<"tree", l[1]>>>>
      /\ l' = l /\ r' = r /\ value' = value /\ freed' = freed /\ phase' = "destroyed"
  <2>1. [Next]_vars
    BY DEF Next, Deleting
  <2> QED BY <2>1, TypedStep DEF FreeInv, Destroy, Idle, made, links, Destructor
<1>2. Created \ Freed = Below(l, r, 1)
  BY <1>1 DEF FreeInv, Intact, Deletion, Tree, Under
<1>3. /\ l \in Links /\ r \in Links /\ Younger(l) /\ Younger(r) /\ Single(l, r) /\ 1 \in Nodes
      /\ l[1] \in Places /\ r[1] \in Places
  BY <1>1, LinksTyped DEF Typed, Links
<1>4. Below(l, r, 1) = {1} \cup Below(l, r, l[1]) \cup Below(l, r, r[1])
  BY <1>3, BelowUnfolds
<1>5. Below(l, r, l[1]) \cap Below(l, r, r[1]) = {}
  BY <1>3, SidesDisjoint
<1>6. ASSUME NEW c \in {l[1], r[1]} PROVE 1 \notin Below(l, r, c)
  <2>1. CASE c = null
    BY <1>3, <1>6, <2>1, BelowClosed
  <2>2. CASE c # null
    <3>1. c \in Nodes /\ c > 1 /\ c \in Nat
      BY <1>3, <1>6, <2>2, NodesNat DEF Places, Younger
    <3>2. \A d \in Below(l, r, c) : d >= c
      BY <1>3, <3>1, BelowYounger
    <3> QED BY <3>1, <3>2
  <2> QED BY <2>1, <2>2
<1>7. Freed' = Freed /\ Created' = Created /\ Gathering' = {}
  BY <1>1 DEF Freed, Created, Gathering
<1>8. /\ DOMAIN calls' = {1, 2} /\ calls'[1] = <<"tree", r[1]>> /\ calls'[2] = <<"tree", l[1]>>
      /\ Region(l, r, calls'[1]) = Below(l, r, r[1]) /\ Region(l, r, calls'[2]) = Below(l, r, l[1])
  BY <1>1 DEF Region
<1>9. Once' /\ Intact' /\ Gathered'
  BY <1>1, <1>7 DEF FreeInv, Once, Intact, Deletion, Gathered
<1>10. Apart'
  BY <1>1, <1>2, <1>4, <1>5, <1>6, <1>7, <1>8 DEF Apart
<1>11. Covered'
  BY <1>1, <1>2, <1>4, <1>7, <1>8 DEF Covered
<1>12. CallsOfRoot' /\ RootReset'
  BY <1>1, <1>8 DEF CallsOfRoot, RootReset
<1> QED BY <1>1, <1>9, <1>10, <1>11, <1>12 DEF FreeInv

\* deleteTree(bt), for a leaf or for none, and for a node with children.
LEMMA CallFrees ==
    ASSUME FreeInv, NEW bt, CallReturns(bt) \/ CallCollects(bt), Typed'
    PROVE  FreeInv'
<1> DEFINE k == Len(calls)
<1>1. /\ Typed /\ ToDo("tree", bt) /\ calls' = Front(calls) /\ Covered
      /\ l' = l /\ r' = r /\ value' = value /\ freed' = freed /\ phase' = phase
  BY DEF FreeInv, CallReturns, CallCollects, made, links
<1>2. /\ busy = "calls" /\ k \in Nat /\ k > 0 /\ calls[k] = <<"tree", bt>> /\ DOMAIN calls = 1..k
      /\ <<"tree", bt>> \in Items
      /\ calls' \in Seq(Items) /\ Len(calls') = k - 1 /\ \A t \in 1..(k - 1) : calls'[t] = calls[t]
  <2>1. DOMAIN calls = 1..k
    BY <1>1 DEF Typed, TypeOK
  <2> QED BY <1>1, <2>1, NextCall DEF Typed
<1>3. DOMAIN calls' = 1..(k - 1)
  <2> HIDE DEF Items, k
  <2>1. DOMAIN calls' = 1..Len(calls')
    BY <1>2
  <2> QED BY <1>2, <2>1
<1>4. /\ l \in Links /\ r \in Links /\ Younger(l) /\ Younger(r) /\ 1 \in Nodes /\ bt \in Places
      /\ null \notin Nodes
  <2>1. bt \in Created \cup {null}
    BY <1>2 DEF Items
  <2> QED BY <1>1, <2>1, LinksTyped DEF Typed, Places
<1>5. Region(l, r, calls[k]) = Below(l, r, bt) /\ k \in 1..k
  BY <1>2 DEF Region
<1>6. bt # null => phase = "destroyed" /\ bt \in {l[1], r[1]}
  <2>1. calls[k][1] = "tree" /\ calls[k][2] = bt
    BY <1>2
  <2> QED BY <1>2, <1>5, <2>1 DEF FreeInv, CallsOfRoot
<1>7. Freed' = Freed /\ Created' = Created /\ Gathering = {}
  BY <1>1, <1>2 DEF Freed, Created, Gathering
<1>8. Once'
  BY <1>1, <1>7 DEF FreeInv, Once
<1> HIDE DEF k
<1>9. ASSUME NEW n \in Created
      PROVE  \/ n \in Freed \/ n = 1 \/ LeafOfRoot(n) \/ n \in Below(l, r, bt)
             \/ \E t \in 1..(k - 1) : n \in Region(l, r, calls[t])
  <2>1. n \in Freed \/ n = 1 \/ LeafOfRoot(n) \/ \E t \in 1..k : n \in Region(l, r, calls[t])
    BY <1>1, <1>2, <1>7 DEF Covered, Deletion
  <2>2. \A t \in 1..k : t = k \/ t \in 1..(k - 1)
    BY <1>2
  <2> QED BY <1>5, <2>1, <2>2
<1>10. \A t \in 1..(k - 1) : Region(l', r', calls'[t]) = Region(l, r, calls[t])
  BY <1>1, <1>2
<1>11. CASE CallReturns(bt)
  <2>1. busy' = "calls" /\ (bt = null \/ (l[bt] = null /\ r[bt] = null))
    BY <1>2, <1>11 DEF CallReturns, HasChild, Leaf
  <2>2. Gathering' = {}
    BY <2>1 DEF Gathering
  <2>3. Apart' /\ CallsOfRoot' /\ RootReset'
    BY <1>1, <2>2, PopFrees
  <2>4. \A n \in Below(l, r, bt) : LeafOfRoot(n)
    <3>1. Below(l, r, null) = {}
      BY <1>4, BelowClosed DEF Places
    <3>2. CASE bt = null
      BY <3>1, <3>2
    <3>3. CASE bt # null
      <4>1. bt \in Nodes
        BY <1>4, <3>3 DEF Places
      <4>2. Below(l, r, bt) = {bt} \cup Below(l, r, l[bt]) \cup Below(l, r, r[bt])
        BY <1>4, <4>1, BelowUnfolds
      <4>3. Below(l, r, bt) = {bt}
        BY <2>1, <3>1, <3>3, <4>2
      <4> QED BY <1>6, <2>1, <3>3, <4>3 DEF LeafOfRoot, Leaf
    <3> QED BY <3>2, <3>3
  <2>5. Covered'
    <3>1. \A n \in Created : n \in Freed \/ n = 1 \/ LeafOfRoot(n)
                             \/ \E t \in 1..(k - 1) : n \in Region(l, r, calls[t])
      BY <1>9, <2>4
    <3>2. \A n \in Created : LeafOfRoot(n) => LeafOfRoot(n)'
      BY <1>1 DEF LeafOfRoot, Leaf
    <3> QED BY <1>3, <1>7, <1>10, <3>1, <3>2 DEF Covered
  <2>6. Intact' /\ Gathered'
    BY <2>1 DEF Intact, Gathered, Deletion
  <2> QED BY <1>8, <2>3, <2>5, <2>6 DEF FreeInv
<1>12. CASE CallCollects(bt)
  <2>1. busy' = "collect" /\ list' = <<bt>> /\ iter' = 1 /\ bt # null
    BY <1>12 DEF CallCollects, HasChild
  <2>2. bt \in Nodes /\ bt > 1 /\ bt \in Nat
    BY <1>4, <1>6, <2>1, NodesNat DEF Places, Younger
  <2>3. bt \in Below(l, r, bt) /\ 1 \notin Below(l, r, bt)
    <3>1. \A c \in Below(l, r, bt) : c >= bt
      BY <1>4, <2>2, BelowYounger
    <3>2. bt \in Below(l, r, bt)
      BY <1>4, <2>1, BelowClosed
    <3> QED BY <2>2, <3>1, <3>2
  <2>4. DOMAIN list' = {1} /\ list'[1] = bt /\ Len(list') = 1
    BY <2>1
  <2>5. Gathering' = Below(l, r, bt)
    BY <1>1, <2>1, <2>3, <2>4 DEF Gathering
  <2>6. Apart' /\ CallsOfRoot' /\ RootReset'
    BY <1>1, <2>3, <2>5, PopFrees
  <2>7. Covered'
    <3>1. \A n \in Created : LeafOfRoot(n) => LeafOfRoot(n)'
      BY <1>1 DEF LeafOfRoot, Leaf
    <3> QED BY <1>3, <1>7, <1>9, <1>10, <2>5, <3>1 DEF Covered
  <2>8. Intact'
    BY <2>1 DEF Intact, Deletion
  <2>9. Gathered'
    BY <1>1, <1>6, <2>1, <2>2, <2>3, <2>4 DEF Gathered
  <2> QED BY <1>8, <2>6, <2>7, <2>8, <2>9 DEF FreeInv
<1> QED BY <1>11, <1>12

\* Every step keeps the invariant of deletion.
LEMMA FreeStep ==
    ASSUME FreeInv, [Next]_vars
    PROVE  FreeInv'
<1>0. /\ Typed /\ Typed' /\ Once /\ Intact /\ Apart /\ Covered /\ CallsOfRoot /\ RootReset /\ Gathered
  BY TypedStep DEF FreeInv
<1>1. /\ l \in Links /\ r \in Links /\ 1 \in Nodes /\ Created \subseteq Nodes /\ null \notin Nodes
      /\ 1 \in Tree /\ Closed(l, r, Tree)
  <2>1. /\ l \in Links /\ r \in Links /\ 1 \in Nodes /\ Created \subseteq Nodes /\ null \notin Nodes
    BY <1>0, LinksTyped DEF Typed
  <2> QED BY <2>1, BelowClosed DEF Tree, Under, Places
<1>2. ASSUME ~Deletion, ~Deletion', UNCHANGED <<made, links, freed, phase, calls>>,
             busy' \in {"one", "full"} => phase = "alive",
             busy' = "one" => pos' \in Tree,
             busy' = "full" => \A t \in DOMAIN list' : list'[t] \in Tree
      PROVE  FreeInv'
  <2>1. /\ l' = l /\ r' = r /\ value' = value /\ freed' = freed /\ phase' = phase
        /\ calls' = calls /\ calls = <<>>
    BY <1>0, <1>2 DEF made, links, Intact
  <2>2. Freed' = Freed /\ Created' = Created /\ Tree' = Tree /\ Gathering = {} /\ Gathering' = {}
    BY <1>2, <2>1 DEF Freed, Created, Tree, Under, Gathering, Deletion
  <2>3. Once'
    BY <1>0, <2>1, <2>2 DEF Once
  <2>4. Intact'
    BY <1>0, <1>2, <2>1, <2>2 DEF Intact
  <2>5. Apart' /\ CallsOfRoot' /\ RootReset' /\ Gathered'
    BY <1>2, <2>1, <2>2 DEF Apart, CallsOfRoot, RootReset, Gathered, Deletion
  <2>6. Covered'
    BY <1>0, <1>2, <2>1, <2>2 DEF Covered, LeafOfRoot, Leaf
  <2> QED BY <1>0, <2>3, <2>4, <2>5, <2>6 DEF FreeInv
<1>3. ASSUME NEW v \in Values, InsertOne(v) PROVE FreeInv'
  BY <1>1, <1>2, <1>3 DEF InsertOne, Idle, Deletion
<1>4. ASSUME NEW v \in Values, InsertFull(v) PROVE FreeInv'
  <2>1. DOMAIN list' = {1} /\ list'[1] = 1
    BY <1>4 DEF InsertFull
  <2> QED BY <1>1, <1>2, <1>4, <2>1 DEF InsertFull, Idle, Deletion
<1>5. CASE Descend
  <2>1. busy = "one" /\ pos \in Tree /\ phase = "alive" /\ Side(pos) # null
    BY <1>0, <1>5 DEF Descend, Intact
  <2>2. pos' \in Tree
    BY <1>1, <1>5, <2>1 DEF Descend, Side, Closed
  <2> QED BY <1>2, <1>5, <2>1, <2>2 DEF Descend, Deletion
<1>6. CASE LinkOne
  <2>1. /\ pos \in Created /\ Len(value) < MaxNodes /\ busy = "one"
        /\ Link(pos, GoesLeft(pos), "one") /\ pos \in Tree /\ phase = "alive" /\ ~Deletion
    BY <1>0, <1>6 DEF Typed, TypeOK, Room, LinkOne, Intact, Deletion
  <2>2. GoesLeft(pos) \in BOOLEAN /\ IF GoesLeft(pos) THEN l[pos] = null ELSE r[pos] = null
    BY <1>6 DEF LinkOne, Side, GoesLeft
  <2> QED BY <2>1, <2>2, LinkFrees
<1>7. CASE FullTurn
  <2>1. /\ busy = "full" /\ phase = "alive" /\ list # <<>> /\ list \in Seq(Created)
        /\ \A t \in DOMAIN list : list[t] \in Tree
        /\ l[Head(list)] # null /\ r[Head(list)] # null
        /\ list' = Tail(list) \o <<l[Head(list)], r[Head(list)]>>
    BY <1>0, <1>7 DEF Typed, TypeOK, Room, FullTurn, Intact
  <2>2. Tree \subseteq Nodes
    BY DEF Tree, Under, Below
  <2>3. list \in Seq(Tree)
    BY <2>1
  <2>4. Head(list) \in Tree /\ Tail(list) \in Seq(Tree)
    BY <2>1, <2>3
  <2>5. l[Head(list)] \in Tree /\ r[Head(list)] \in Tree
    BY <1>1, <2>1, <2>4 DEF Closed
  <2>6. list' \in Seq(Tree)
    BY <2>1, <2>4, <2>5
  <2>7. \A t \in DOMAIN list' : list'[t] \in Tree
    BY <2>6
  <2> QED BY <1>2, <1>7, <2>1, <2>7 DEF FullTurn, Deletion
<1>8. CASE LinkFull
  <2>1. /\ Head(list) \in Created /\ Len(value) < MaxNodes /\ busy = "full" /\ phase = "alive"
        /\ Link(Head(list), FreeLeft(Head(list)), "full") /\ ~Deletion
    BY <1>0, <1>8 DEF Typed, TypeOK, Room, LinkFull, Intact, Deletion
  <2>2. Head(list) \in Tree
    <3>1. list # <<>> /\ list \in Seq(Created) /\ \A t \in DOMAIN list : list[t] \in Tree
      BY <1>0, <2>1 DEF Typed, TypeOK, Room, Intact
    <3> QED BY <3>1
  <2>3. FreeLeft(Head(list)) \in BOOLEAN /\ IF FreeLeft(Head(list)) THEN l[Head(list)] = null ELSE r[Head(list)] = null
    BY <1>8 DEF LinkFull, FreeLeft
  <2> QED BY <2>1, <2>2, <2>3, LinkFrees
<1>9. CASE DeleteTree
  BY <1>9, DeleteTreeStarts
<1>10. CASE Destroy
  BY <1>10, DestroyStarts
<1>11. CASE Collect
  <2>1. Gathered' /\ list'[1] = list[1]
    BY <1>0, <1>11, CollectGathers
  <2>2. /\ l' = l /\ r' = r /\ value' = value /\ freed' = freed /\ phase' = phase /\ calls' = calls
        /\ busy = "collect" /\ busy' = busy
    BY <1>11 DEF Collect, made, links
  <2>3. Freed' = Freed /\ Created' = Created /\ Gathering' = Gathering
    BY <2>1, <2>2 DEF Freed, Created, Gathering
  <2>4. Once' /\ Apart' /\ CallsOfRoot' /\ RootReset'
    BY <1>0, <2>2, <2>3 DEF Once, Apart, CallsOfRoot, RootReset, Deletion, Leaf
  <2>5. Covered' /\ Intact'
    BY <1>0, <2>2, <2>3 DEF Covered, Intact, Deletion, LeafOfRoot, Leaf
  <2> QED BY <1>0, <2>1, <2>4, <2>5 DEF FreeInv
<1>12. ASSUME Apart' /\ Covered' /\ CallsOfRoot' /\ RootReset', busy' = "calls", Once' PROVE FreeInv'
  BY <1>0, <1>12 DEF FreeInv, Intact, Gathered, Deletion
<1>13. ASSUME freed' = freed PROVE Once'
  BY <1>0, <1>13 DEF Once, Freed
<1>14. CASE Collected
  BY <1>12, <1>13, <1>14, CollectedFrees DEF Collected
<1>15. CASE Return
  <2>1. /\ busy = "calls" /\ busy' = "idle" /\ calls = <<>> /\ calls' = calls
        /\ l' = l /\ r' = r /\ value' = value /\ freed' = freed /\ phase' = phase
    BY <1>15 DEF Return, made, links
  <2>2. Freed' = Freed /\ Created' = Created /\ Tree' = Tree /\ Gathering = {} /\ Gathering' = {}
    BY <2>1 DEF Freed, Created, Tree, Under, Gathering
  <2>3. phase = "alive" => Created \ Freed = Tree
    <3> SUFFICES ASSUME phase = "alive" PROVE Created \ Freed = Tree
      OBVIOUS
    <3>1. l[1] = null /\ r[1] = null
      BY <1>0, <2>1 DEF RootReset, Deletion, Leaf
    <3>2. Below(l, r, null) = {}
      BY <1>1, BelowClosed DEF Places
    <3>3. Tree = {1} \cup Below(l, r, null) \cup Below(l, r, null)
      BY <1>1, <3>1, BelowUnfolds DEF Tree, Under
    <3>4. \A n \in Created : n \in Freed \/ n = 1
      BY <1>0, <2>1, <2>2 DEF Covered, Deletion, LeafOfRoot
    <3>5. 1 \in Created /\ 1 \notin Freed
      BY <1>0, LinksTyped DEF Once, Typed
    <3> QED BY <3>2, <3>3, <3>4, <3>5
  <2>4. Once' /\ Apart' /\ CallsOfRoot' /\ RootReset' /\ Gathered'
    BY <1>13, <2>1, <2>2 DEF Apart, CallsOfRoot, RootReset, Gathered, Deletion
  <2>5. Intact'
    BY <2>1, <2>2, <2>3 DEF Intact, Deletion
  <2>6. Covered'
    BY <1>0, <2>1, <2>2 DEF Covered, Deletion, LeafOfRoot, Leaf
  <2> QED BY <1>0, <2>4, <2>5, <2>6 DEF FreeInv
<1>16. ASSUME NEW n, CallReturns(n) \/ CallCollects(n) PROVE FreeInv'
  BY <1>0, <1>16, CallFrees
<1>17. ASSUME NEW n, Delete(n) PROVE FreeInv'
  BY <1>12, <1>13, <1>17, DeleteFrees DEF Delete, ToDo
<1>18. ASSUME NEW n, Release(n) PROVE FreeInv'
  BY <1>12, <1>18, ReleaseFrees DEF Release, ToDo
<1>19. ASSUME NEW n, Reset(n) PROVE FreeInv'
  BY <1>12, <1>13, <1>19, ResetFrees DEF Reset, ToDo
<1>20. CASE UNCHANGED vars
  <2>1. /\ l' = l /\ r' = r /\ value' = value /\ freed' = freed /\ phase' = phase /\ calls' = calls
        /\ busy' = busy /\ pos' = pos /\ list' = list /\ iter' = iter
    BY <1>20 DEF vars, made, links, temps
  <2>2. Freed' = Freed /\ Created' = Created /\ Tree' = Tree /\ Gathering' = Gathering
    BY <2>1 DEF Freed, Created, Tree, Under, Gathering
  <2>3. Intact' /\ Covered' /\ Gathered'
    BY <1>0, <2>1, <2>2 DEF Intact, Covered, Gathered, Deletion, LeafOfRoot, Leaf
  <2>4. Once' /\ Apart' /\ CallsOfRoot' /\ RootReset'
    BY <1>0, <2>1, <2>2 DEF Once, Apart, CallsOfRoot, RootReset, Deletion, Leaf
  <2> QED BY <1>0, <2>3, <2>4 DEF FreeInv
<1> QED BY <1>3, <1>4, <1>5, <1>6, <1>7, <1>8, <1>9, <1>10, <1>11, <1>14, <1>15, <1>16, <1>17, <1>18, <1>19, <1>20 DEF Next, Inserting, Deleting

\* The invariant of deletion holds throughout.
LEMMA FreeInvariant == Spec => []FreeInv
<1>1. Init => FreeInv
  <2> SUFFICES ASSUME Init PROVE FreeInv
    OBVIOUS
  <2>1. /\ Typed /\ busy = "idle" /\ phase = "alive" /\ calls = <<>> /\ freed = <<>>
        /\ \A n \in Nodes : l[n] = null /\ r[n] = null
    BY TreeStartsTyped DEF Init
  <2>2. Freed = {} /\ Gathering = {} /\ Created = {1}
    <3>1. Len(value) = 1
      BY DEF Init
    <3> QED BY <2>1, <3>1 DEF Freed, ToSet, Gathering, Created
  <2>3. Tree = {1}
    <3>1. l \in Links /\ r \in Links /\ 1 \in Nodes
      BY <2>1, LinksTyped DEF Typed
    <3>2. Below(l, r, null) = {}
      BY <3>1, BelowClosed DEF Places
    <3>3. Tree = {1} \cup Below(l, r, null) \cup Below(l, r, null)
      BY <2>1, <3>1, BelowUnfolds DEF Tree, Under
    <3> QED BY <3>2, <3>3
  <2>4. Once /\ Intact /\ Gathered
    BY <2>1, <2>2, <2>3 DEF Once, Intact, Deletion, Gathered
  <2>5. Apart /\ Covered /\ CallsOfRoot /\ RootReset
    BY <2>1, <2>2 DEF Apart, Covered, CallsOfRoot, RootReset, Deletion
  <2> QED BY <2>1, <2>4, <2>5 DEF FreeInv
<1>2. FreeInv /\ [Next]_vars => FreeInv'
  BY FreeStep
<1> QED BY <1>1, <1>2, PTL DEF Spec

\* Although each delete runs a destructor that calls deleteTree again, no node is freed
\* twice and, while the root object lives, exactly the nodes outside the tree are freed.
THEOREM DeletesExactlyTheTree == Spec => []FreesExactlyTheTree
<1>1. FreeInv => FreesExactlyTheTree
  BY DEF FreeInv, Once, Intact, Idle, Deletion, FreesExactlyTheTree
<1> QED BY <1>1, FreeInvariant, PTL

\* Where DestructorDeletesTree fails, every node but the root object and its leaf
\* children has been deleted.
OnlyLeafChildrenLeft ==
    phase = "destroyed" /\ busy = "idle" =>
        \A n \in Created \ Freed : n = 1 \/ (n \in {l[1], r[1]} /\ Leaf(n))

\* How far the destructor is from deleting the tree, whatever the tree: of the nodes
\* made by new it leaves children of the root that are leaves, for which
\* deleteTree(bt) returns at once, and no other.
THEOREM DestructorLeavesLeafChildren == Spec => []OnlyLeafChildrenLeft
<1>1. FreeInv => OnlyLeafChildrenLeft
  <2> SUFFICES ASSUME FreeInv, phase = "destroyed", busy = "idle", NEW n \in Created \ Freed
               PROVE  n = 1 \/ (n \in {l[1], r[1]} /\ Leaf(n))
    BY DEF OnlyLeafChildrenLeft
  <2>1. calls = <<>> /\ Gathering = {}
    BY DEF FreeInv, Intact, Deletion, Gathering
  <2> QED BY <2>1 DEF FreeInv, Covered, LeafOfRoot
<1> QED BY <1>1, FreeInvariant, PTL
===============================================================================
