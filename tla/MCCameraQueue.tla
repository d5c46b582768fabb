--------------------------- MODULE MCCameraQueue ---------------------------
(***************************************************************************)
(* CameraQueue on a ring of a few slots: laps, overruns and a ring that is   *)
(* full all happen within MaxFrames frames.                                  *)
(***************************************************************************)
EXTENDS CameraQueue

MCFormats == {"yuv", "raw8", "other"}
=============================================================================
