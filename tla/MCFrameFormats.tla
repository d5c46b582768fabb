-------------------------- MODULE MCFrameFormats --------------------------
(***************************************************************************)
(* Every format, two sizes of camera image, tensors that are and are not the  *)
(* one YOLOv8 takes for granted, and cameras that change mode twice.         *)
(***************************************************************************)
EXTENDS FrameFormats

MCModes ==
    [format : {"NV12", "NV21", "YUV422", "RAW8", "STEREO_NV12", "STEREO_NV21",
               "STEREO_RAW8", "H264"}, w : {4, 6}, h : {4}]
MCInputs == {[w |-> 2, h |-> 2, channels |-> 3], [w |-> 3, h |-> 2, channels |-> 1]}
=============================================================================
