---------------------------- MODULE MCWorldSave -----------------------------
(* WorldSave on small instances. *)
EXTENDS WorldSave, TLC

Symmetry == Permutations(Items) \union Permutations(Uids)
=============================================================================
