---------------------------- MODULE MCForkExec -----------------------------
(* Instances of ForkExec for TLC: states of a liveness run, no symmetry. *)
EXTENDS ForkExec
=============================================================================
