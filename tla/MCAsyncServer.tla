----------------------------- MODULE MCAsyncServer -----------------------------
(***************************************************************************)
(* Small instances of AsyncServer.                                         *)
(***************************************************************************)
EXTENDS AsyncServer, TLC
===============================================================================
