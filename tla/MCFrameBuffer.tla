--------------------------- MODULE MCFrameBuffer ---------------------------
(***************************************************************************)
(* Instances of FrameBuffer for TLC.  The sizes of the buffer and of the   *)
(* blocks are in the configurations.                                       *)
(***************************************************************************)
EXTENDS FrameBuffer, TLC

(* Threads are interchangeable: no action names one. *)
Symmetry == Permutations(Threads)
=============================================================================
