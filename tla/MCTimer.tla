------------------------------ MODULE MCTimer -------------------------------
(***************************************************************************)
(* Instances of Timer for TLC: a wheel with few slots, so that every level *)
(* is used and time wraps around within reach.                             *)
(***************************************************************************)
EXTENDS Timer, TLC

NodeSymmetry == Permutations(Nodes)
=============================================================================
