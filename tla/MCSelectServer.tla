---------------------------- MODULE MCSelectServer ----------------------------
(***************************************************************************)
(* SelectServer with clients that are interchangeable until they connect:  *)
(* they are named in the order in which they do.                           *)
(***************************************************************************)
EXTENDS SelectServer

InOrder == came' # came => came' = came \cup {CHOOSE c \in Clients : c \notin came}

MCSpec == Init /\ [][Next /\ InOrder]_vars /\ WF_vars(ThreadFun)
===============================================================================
