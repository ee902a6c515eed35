----------------------------- MODULE MCNetState -----------------------------
(***************************************************************************)
(* TLC instances of NetState.  The configurations name the number of       *)
(* slots, network threads and connections.                                 *)
(***************************************************************************)
EXTENDS NetState
=============================================================================
