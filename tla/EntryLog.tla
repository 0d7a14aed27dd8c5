------------------------------- MODULE EntryLog -------------------------------
(***************************************************************************)
(* What a background log promises its clients: the entries are written     *)
(* once and in the order they were logged, and closing the log writes all  *)
(* that is pending before it is released, unless the medium has failed.    *)
(***************************************************************************)
EXTENDS Sequences

CONSTANT Messages

VARIABLES
    pending,   \* logged and not written, oldest first
    written,   \* written, oldest first
    closed,    \* nothing is logged any more
    failed,    \* nothing is written any more
    released   \* the log is gone

vars == <<pending, written, closed, failed, released>>

Init ==
    /\ pending = <<>> /\ written = <<>>
    /\ closed = FALSE /\ failed = FALSE /\ released = FALSE

Log(m) ==
    /\ ~closed
    /\ pending' = Append(pending, m)
    /\ UNCHANGED <<written, closed, failed, released>>

Write ==
    /\ pending # <<>> /\ ~failed /\ ~released
    /\ written' = Append(written, Head(pending))
    /\ pending' = Tail(pending)
    /\ UNCHANGED <<closed, failed, released>>

Fail ==
    /\ ~failed
    /\ failed' = TRUE
    /\ UNCHANGED <<pending, written, closed, released>>

Close ==
    /\ ~closed
    /\ closed' = TRUE
    /\ UNCHANGED <<pending, written, failed, released>>

Release ==
    /\ closed /\ ~released
    /\ pending = <<>> \/ failed
    /\ released' = TRUE
    /\ UNCHANGED <<pending, written, closed, failed>>

Next == (\E m \in Messages : Log(m)) \/ Write \/ Fail \/ Close \/ Release

Spec == Init /\ [][Next]_vars

\* A closed log writes what is pending and is released.
FairSpec == Spec /\ WF_vars(closed /\ Write) /\ WF_vars(Release)
===============================================================================
