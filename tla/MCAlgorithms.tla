----------------------------- MODULE MCAlgorithms -----------------------------
(***************************************************************************)
(* The trees of MyBitree and the sorts of MySort.  They share nothing, so  *)
(* a behaviour uses one of the two: a sort is called only beside the tree  *)
(* of one node, and the tree does not change once a sort has been called.  *)
(***************************************************************************)
EXTENDS BitreeTraversals, MySort

allVars == <<vars, sortVars>>

SmallestTree == Idle /\ value = <<CHOOSE v \in Values : TRUE>>

MCInit == Init /\ SortInit

MCNext ==
    \/ pc = "idle" /\ Next /\ UNCHANGED sortVars
    \/ SmallestTree /\ SortNext /\ UNCHANGED vars

MCSpec == MCInit /\ [][MCNext]_allVars /\ WF_sortVars(SortTurn)
===============================================================================
