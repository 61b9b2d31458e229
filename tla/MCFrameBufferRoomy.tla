------------------------ MODULE MCFrameBufferRoomy -------------------------
(***************************************************************************)
(* Instances of FrameBuffer that NoOverflowTheorem is about.               *)
(***************************************************************************)
EXTENDS MCFrameBuffer

ASSUME RoomyInstance == Roomy
=============================================================================
