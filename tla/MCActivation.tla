---------------------------- MODULE MCActivation ---------------------------
(* Instances of Activation for TLC. *)
EXTENDS Activation, TLC

Symmetry == Permutations(Threads)
=============================================================================
