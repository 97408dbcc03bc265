------------------------------ MODULE MCServer ------------------------------
(* Server.tla at a size TLC can exhaust.                                   *)
EXTENDS Server, TLC

Symmetry == Permutations(Requests)
=============================================================================
