--------------------------- MODULE MCSegmentation ---------------------------
(***************************************************************************)
(* Segmentation on a few frames: one being drawn, one in inference, one in   *)
(* the queue and one being resized, all in the one buffer.                   *)
(***************************************************************************)
EXTENDS Segmentation
=============================================================================
