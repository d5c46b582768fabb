--------------------------- MODULE MCTFLiteServer ---------------------------
(***************************************************************************)
(* TFLiteServer on a ring of two slots: every start-up and shutdown path,    *)
(* with frames in every stage of the pipeline when the signal comes.  The    *)
(* camera is grey, so images are copied out of the resize buffer; what       *)
(* colour adds is in MCCameraQueue, the format written back, and in          *)
(* MCSegmentation, the buffer shared.                                        *)
(***************************************************************************)
EXTENDS TFLiteServer

MCFormats == {"raw8"}
=============================================================================
