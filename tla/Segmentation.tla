---------------------------- MODULE Segmentation ----------------------------
(***************************************************************************)
(* The pipeline when its model helper is DeepLabModelHelper.  Its worker()   *)
(* does not draw on the output image: it blends the classes into             *)
(* preprocessed_image, the model's input.  For colour frames that is the one *)
(* resize_output, which preprocess_worker may be writing, which the frames   *)
(* waiting in the queue are aliases of, and which inference reads next.      *)
(*                                                                           *)
(* The overlay of a frame is named by the frame.  Every step is a step of    *)
(* InferencePipeline, or one of the two ends of the drawing window within    *)
(* its post = "working".                                                     *)
(***************************************************************************)
EXTENDS InferencePipeline, SequencesExt

VARIABLES
    draw,           \* where worker() is: "no", "blending" or "drawn"
    overlay,        \* overlays that may be in resize_output
    wiped,          \* those of them the resize under way overwrites
    input_overlay,  \* overlays that may be in the input tensor
    output_overlay, \* overlays in the input the output tensors were computed from
    picture,        \* the last image published: pixels and overlays of frames
    crowded         \* history: frames that were not alone in the pipeline

drawVars == <<draw, overlay, wiped, input_overlay, output_overlay, picture, crowded>>
segVars  == <<ipVars, drawVars>>

SegInit ==
    /\ IPInit
    /\ draw = "no" /\ overlay = {} /\ wiped = {}
    /\ input_overlay = {} /\ output_overlay = {}
    /\ picture = [base |-> {}, overlays |-> {}]
    /\ crowded = {}

\* The frames between their conversion and the end of their worker().
InFlight ==
    Range(preprocess_inference_queue) \cup Range(inference_postprocess_queue)
    \cup (IF inf \in {"filling", "invoking", "push"} THEN {inf_frame} ELSE {})
    \cup (IF post \in {"popping", "working"} THEN {post_frame} ELSE {})

\* What is being blended into resize_output at this moment.
Blending == IF draw = "blending" THEN {post_frame} ELSE {}
-----------------------------------------------------------------------------
(***************************************************************************)
(* DeepLabModelHelper::worker, between PopEnd and SetFinish.                 *)
(***************************************************************************)

\* addWeighted reads and writes preprocessed_image, whoever else does; the fill of
\* the input tensor may see it.  With a copy of its own nothing else is touched.
BlendBegin ==
    /\ post = "working" /\ draw = "no"
    /\ ~corrupt
    /\ draw' = "blending"
    /\ IF SharedInput
       THEN /\ picture' = [base |-> resize_output, overlays |-> overlay \cup {post_frame}]
            /\ overlay' = overlay \cup {post_frame}
            /\ input_overlay' = input_overlay \cup
                                  (IF inf = "filling" THEN {post_frame} ELSE {})
       ELSE /\ picture' = [base |-> {post_frame}, overlays |-> {post_frame}]
            /\ UNCHANGED <<overlay, input_overlay>>
    /\ UNCHANGED <<ipVars, wiped, output_overlay, crowded>>

\* copyMakeBorder moves the picture out of resize_output; it is labelled and
\* written to the pipe.
BlendEnd ==
    /\ draw = "blending"
    /\ ~corrupt
    /\ draw' = "drawn"
    /\ UNCHANGED <<ipVars, overlay, wiped, input_overlay, output_overlay, picture, crowded>>

SegSetFinish ==
    /\ draw = "drawn"
    /\ SetFinish
    /\ draw' = "no"
    /\ UNCHANGED <<overlay, wiped, input_overlay, output_overlay, picture, crowded>>
-----------------------------------------------------------------------------
(***************************************************************************)
(* The steps of the pipeline that touch the same buffers.                    *)
(***************************************************************************)

SegResizeBegin ==
    /\ ResizeBegin
    /\ wiped' = overlay \ Blending
    /\ picture' = IF SharedInput /\ draw = "blending"
                  THEN [picture EXCEPT !.base = @ \cup {num_frames_processed}] ELSE picture
    /\ crowded' = IF InFlight = {} THEN crowded
                  ELSE crowded \cup InFlight \cup {num_frames_processed}
    /\ UNCHANGED <<draw, overlay, input_overlay, output_overlay>>

\* (Variant: the resize leaves part of the buffer as it was.)
SegResizeEndPartial ==
    /\ ResizeEnd
    /\ wiped' = {}
    /\ UNCHANGED <<draw, overlay, input_overlay, output_overlay, picture, crowded>>

SegResizeEnd ==
    /\ ResizeEnd
    /\ overlay' = overlay \ wiped
    /\ wiped' = {}
    /\ UNCHANGED <<draw, input_overlay, output_overlay, picture, crowded>>

SegTakeInput ==
    /\ TakeInput
    /\ input_overlay' = IF SharedInput THEN overlay ELSE {}
    /\ UNCHANGED <<draw, overlay, wiped, output_overlay, picture, crowded>>

SegInvoke ==
    /\ Invoke
    /\ output_overlay' = input_overlay
    /\ UNCHANGED <<draw, overlay, wiped, input_overlay, picture, crowded>>

Elsewhere ==
    /\ \/ DiscardFrame \/ TakeFrame \/ PushFrame \/ NotifyInference
       \/ StartCycle \/ SleepForInput \/ FillEnd \/ PushResult
       \/ TrimInput \/ TrimInputDone \/ TrimResult \/ TrimResultDone
       \/ CheckFinish \/ SleepForFinish
       \/ PostLoopTest \/ TakeResult \/ SleepForResult \/ PopEnd \/ NotifyFinish
       \/ SpuriousWake \/ Stop
    /\ UNCHANGED drawVars

SegNext ==
    \/ BlendBegin \/ BlendEnd \/ SegSetFinish
    \/ SegResizeBegin \/ SegResizeEnd \/ SegTakeInput \/ SegInvoke
    \/ Elsewhere

SegSpec == SegInit /\ [][SegNext]_segVars

\* The scheduler's fairness of IPFairness, the drawing being postprocess_worker's.
SegFairness ==
    /\ WF_segVars(\/ SegResizeBegin \/ SegResizeEnd
                  \/ (PushFrame \/ NotifyInference) /\ UNCHANGED drawVars)
    /\ WF_segVars(\/ SegTakeInput \/ SegInvoke
                  \/ /\ \/ StartCycle \/ SleepForInput \/ FillEnd \/ PushResult
                        \/ TrimInput \/ TrimInputDone \/ TrimResult \/ TrimResultDone
                        \/ CheckFinish \/ SleepForFinish
                     /\ UNCHANGED drawVars)
    /\ WF_segVars(\/ BlendBegin \/ BlendEnd \/ SegSetFinish
                  \/ /\ PostLoopTest \/ TakeResult \/ SleepForResult \/ PopEnd \/ NotifyFinish
                     /\ UNCHANGED drawVars)

SegFairSpec == SegSpec /\ SegFairness
-----------------------------------------------------------------------------
(***************************************************************************)
(* Properties.                                                               *)
(***************************************************************************)
Frames == 0 .. MaxFrames

\* The type invariant: the pipeline's, and what the buffers hold.
SegTypeOK ==
    /\ draw \in {"no", "blending", "drawn"}
    /\ draw # "no" => post = "working"
    /\ overlay \in SUBSET Frames /\ wiped \subseteq overlay
    /\ input_overlay \in SUBSET Frames /\ output_overlay \in SUBSET Frames
    /\ picture \in [base : SUBSET Frames, overlays : SUBSET Frames]
    /\ crowded \in SUBSET Frames

\* Only a frame that has the pipeline to itself, from its conversion to the end of
\* its worker(), is certain to be segmented from its own pixels and published as
\* an image of itself with its own classes (deep_lab_model_helper.cpp:30-33).
LoneFrameIsExact ==
    (draw = "drawn" /\ post_frame \notin crowded) =>
        /\ output.input = {post_frame} /\ output_overlay = {}
        /\ picture = [base |-> {post_frame}, overlays |-> {post_frame}]

\* In a crowd the picture may be one of later frames, never of an earlier one than
\* the classes blended into it, and it carries no classes of a later frame.
PictureNotOlder ==
    draw = "drawn" =>
        /\ \A f \in picture.base : f >= post_frame
        /\ \A f \in picture.overlays : f <= post_frame

\* Inference may see overlays, painted into the buffer its input is an alias of,
\* but only of frames before its own: a segmentation never feeds on itself.
OverlaysAreEarlier ==
    inf \in {"filling", "invoking"} => \A f \in input_overlay : f < inf_frame

\* Whatever the drawing does to the buffers, the process is the pipeline.
SegmentationIsPipeline == IPSpec
=============================================================================
