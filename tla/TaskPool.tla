------------------------------- MODULE TaskPool -------------------------------
(***************************************************************************)
(* What a thread pool promises its clients, without threads, mutexes or    *)
(* condition variables: an accepted task is started once, in the order of  *)
(* acceptance, and finishes; nothing is accepted after the pool is closed; *)
(* the pool is released only when all it accepted has finished.            *)
(***************************************************************************)
EXTENDS Naturals, Sequences

CONSTANT Tasks

VARIABLES
    queue,     \* accepted and not started, oldest first
    running,   \* started and not finished
    finished,  \* finished
    closed,    \* no task is accepted any more
    released   \* the pool is gone

vars == <<queue, running, finished, closed, released>>

Init ==
    /\ queue = <<>>
    /\ running = {}
    /\ finished = {}
    /\ closed = FALSE
    /\ released = FALSE

Waiting == {queue[i] : i \in 1..Len(queue)}

Accept(t) ==
    /\ ~closed
    /\ t \notin Waiting \cup running \cup finished
    /\ queue' = Append(queue, t)
    /\ UNCHANGED <<running, finished, closed, released>>

Start ==
    /\ queue # <<>>
    /\ running' = running \cup {Head(queue)}
    /\ queue' = Tail(queue)
    /\ UNCHANGED <<finished, closed, released>>

Finish(t) ==
    /\ t \in running
    /\ running' = running \ {t}
    /\ finished' = finished \cup {t}
    /\ UNCHANGED <<queue, closed, released>>

Close ==
    /\ ~closed
    /\ closed' = TRUE
    /\ UNCHANGED <<queue, running, finished, released>>

\* Only a drained pool is released.
Release ==
    /\ closed /\ ~released
    /\ queue = <<>> /\ running = {}
    /\ released' = TRUE
    /\ UNCHANGED <<queue, running, finished, closed>>

Next ==
    \/ \E t \in Tasks : Accept(t) \/ Finish(t)
    \/ Start \/ Close \/ Release

Spec == Init /\ [][Next]_vars

\* What is accepted is started and finishes; a closed pool is released.
Fairness ==
    /\ WF_vars(Start)
    /\ \A t \in Tasks : WF_vars(Finish(t))
    /\ WF_vars(Release)

FairSpec == Spec /\ Fairness
===============================================================================
