----------------------------- MODULE MCThreadPool -----------------------------
(***************************************************************************)
(* A small instance of ThreadPool.                                         *)
(***************************************************************************)
EXTENDS ThreadPool

\* Tasks differ in their names only: those not submitted yet may be submitted in a
\* fixed order.  (Liveness is checked, so symmetry cannot be used.)
InOrder == Fresh # {} => Fresh \ Fresh' \subseteq {CHOOSE t \in Fresh : TRUE}

\* The last task is submitted, so that a producer can block on a queue of two, only
\* where the pool has one thread, which then it keeps.  Both are the clients'
\* choice: no step of a worker or of a call under way is left out.
FewThreads == Fresh' = {} => size' <= 1

MCSpec == Init /\ [][Next /\ InOrder /\ FewThreads]_vars /\ Fairness
===============================================================================
