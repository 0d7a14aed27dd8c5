------------------------------- MODULE MCMylog -------------------------------
(***************************************************************************)
(* Small instances of Mylog.                                               *)
(***************************************************************************)
EXTENDS Mylog

\* Messages differ in their names only and each is logged once, and so do callers
\* that have not called yet: the messages may be taken in a fixed order, and the
\* first call may be that of a fixed caller.  (Liveness is checked, so symmetry
\* cannot be used.)
InOrder ==
    /\ used' # used => used' = used \cup {CHOOSE m \in Messages : m \notin used}
    /\ used = {} => \A c \in Callers \ {CHOOSE c \in Callers : TRUE} : pc'[c] = pc[c]

MCSpec == Init /\ [][Next /\ InOrder]_vars /\ Fairness
===============================================================================
