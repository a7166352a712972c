------------------------------ MODULE MCKfifo ------------------------------
(* Kfifos with small sets of model values.                                  *)
EXTENDS Kfifos, TLC

Symmetric == Permutations(Writers) \cup Permutations(Readers) \cup Permutations(Values)
============================================================================
