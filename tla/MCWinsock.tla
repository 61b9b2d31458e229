----------------------------- MODULE MCWinsock ------------------------------
(* Instances of Winsock for TLC: one buffer of two bytes, or two of one,   *)
(* which do not follow each other.                                         *)
EXTENDS Winsock

MCBufferLists ==
  {<<[addr |-> 0, len |-> 2]>>,
   <<[addr |-> 2, len |-> 1], [addr |-> 0, len |-> 1]>>}
=============================================================================
