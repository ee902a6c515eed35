---------------------------- MODULE MCIPHistory -----------------------------
(***************************************************************************)
(* TLC instances of IPHistory.  Addresses are model values and may be      *)
(* exchanged for one another in the runs without liveness properties.      *)
(***************************************************************************)
EXTENDS IPHistory, TLC

Symmetry == Permutations(IPs)
=============================================================================
