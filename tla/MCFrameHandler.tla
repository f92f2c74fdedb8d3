--------------------------- MODULE MCFrameHandler ---------------------------
(***************************************************************************)
(* The frame handler on a small instance: delays below and above the late  *)
(* threshold, gaps below and above the number of skipped frames, and frame *)
(* numbers that wrap.                                                      *)
(***************************************************************************)
EXTENDS FrameHandler

MCDelays == {0, 2, 5}
=============================================================================
