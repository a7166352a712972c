---------------------------- MODULE MCKlistWalk ----------------------------
(* KlistWalk with small sets of model values.                               *)
EXTENDS KlistWalk, TLC

NodeSymmetry == Permutations(Nodes)
============================================================================
