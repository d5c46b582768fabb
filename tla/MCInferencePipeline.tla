------------------------ MODULE MCInferencePipeline ------------------------
(***************************************************************************)
(* InferencePipeline on a few frames: enough for a queue longer than         *)
(* QUEUE_LIMIT, a resize that overlaps the filling of the input tensor, and  *)
(* trims that race a push and a pop.                                         *)
(***************************************************************************)
EXTENDS InferencePipeline
=============================================================================
