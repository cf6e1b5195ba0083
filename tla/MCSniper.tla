------------------------------ MODULE MCSniper ------------------------------
(***************************************************************************)
(* Sniper with the symmetry its safety runs use: bees and calls are        *)
(* interchangeable, no property tells two of them apart.                   *)
(***************************************************************************)
EXTENDS Sniper, TLC

Symmetry == Permutations(Bees) \cup Permutations(Calls)
=============================================================================
