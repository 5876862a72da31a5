---------------------------- MODULE MCCedarling ----------------------------
(* Instances of Cedarling for model checking. *)
EXTENDS Cedarling, TLC

Symmetry == Permutations(Threads) \cup Permutations(Objects)
=============================================================================
