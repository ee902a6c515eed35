--------------------------- MODULE MCWorldTicker ----------------------------
(***************************************************************************)
(* TLC instances of WorldTicker.                                           *)
(***************************************************************************)
EXTENDS WorldTicker, ChunkErase, TLC

\* every item, character and function is like every other
Symmetry == Permutations(Items) \cup Permutations(Chars) \cup Permutations(Funcs)
=============================================================================
