------------------------------ MODULE MCKlist ------------------------------
(* Klist with small sets of model values.                                   *)
EXTENDS Klist, TLC

ClientSymmetry == Permutations(Threads) \cup Permutations(Nodes)
============================================================================
