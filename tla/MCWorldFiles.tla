---------------------------- MODULE MCWorldFiles ----------------------------
(* WorldFiles on small instances. *)
EXTENDS WorldFiles, TLC
=============================================================================
