-------------------------- MODULE SegmentationProofs --------------------------
(***************************************************************************)
(* Proofs about Segmentation, for every QUEUE_LIMIT and MaxFrames and for    *)
(* both kinds of input image: which frames the drawing into the shared image *)
(* buffer can mix up, and which it cannot.                                   *)
(***************************************************************************)
EXTENDS Segmentation, InferencePipelineProofs

\* Every step is one of the pipeline, or draws.
LEMMA PipelineOfSegmentation == [SegNext]_segVars => [IPNext]_ipVars
  BY DEF SegNext, segVars, BlendBegin, BlendEnd, SegSetFinish, SegResizeBegin, SegResizeEnd,
     SegTakeInput, SegInvoke, Elsewhere, IPNext, PreprocessFrame, InferenceWorker,
     PostprocessWorker

\* DeepLab's worker() changes nothing of the pipeline: what is proved of
\* InferencePipeline holds with it.
THEOREM SegmentationPipeline == SegSpec => SegmentationIsPipeline
<1>1. SegInit => IPInit
  BY DEF SegInit
<1>2. QED
  BY <1>1, PipelineOfSegmentation, PTL DEF SegSpec, IPSpec, SegmentationIsPipeline

LEMMA SegmentationKeeps == SegSpec => []IInv
  BY SegmentationPipeline, PipelineInvariant, PTL DEF SegmentationIsPipeline

\* What the drawing uses of the pipeline.
LEMMA PipelineFacts ==
    ASSUME IInv
    PROVE  /\ {num_frames_processed, enqueued, inf_frame, post_frame} \subseteq Nat
           /\ preprocess_inference_queue \in Seq(Nat)
           /\ inference_postprocess_queue \in Seq(Nat)
           /\ resize_output \subseteq Nat
           /\ post_frame <= inf_frame /\ inf_frame <= enqueued
           /\ enqueued <= num_frames_processed
           /\ \A f \in Range(preprocess_inference_queue) : inf_frame < f
           /\ \A f \in resize_output : f >= enqueued
           /\ pp = "resized" => resize_output = {num_frames_processed}
           /\ inf \in {"lock", "filling", "invoking", "push"} =>
                inference_postprocess_queue = <<>> /\ ~PostBusy
           /\ PostBusy => /\ post_frame = inf_frame /\ inference_postprocess_queue = <<>>
                          /\ inf \notin {"filling", "invoking", "push"}
           /\ inference_postprocess_queue # <<>> =>
                inference_postprocess_queue = <<inf_frame>>
<1>1. /\ {num_frames_processed, enqueued, inf_frame, post_frame} \subseteq Nat
      /\ preprocess_inference_queue \in Seq(Nat)
      /\ inference_postprocess_queue \in Seq(Nat)
      /\ resize_output \subseteq Nat
      /\ inf \in {"loop", "lock", "waiting", "filling", "invoking", "push",
                  "trim_input", "trim_result", "await", "checked", "sleeping", "exited"}
  BY DEF IInv, IPTypeOK
<1>2. /\ post_frame <= inf_frame /\ inf_frame <= enqueued
      /\ enqueued <= num_frames_processed
      /\ \A f \in Range(preprocess_inference_queue) : inf_frame < f
  BY <1>1 DEF IInv, FrameOrder, Range
<1>3. /\ \A f \in resize_output : f >= enqueued
      /\ pp = "resized" => resize_output = {num_frames_processed}
  BY DEF IInv, PixelOrder
<1>4. /\ inf \in {"lock", "filling", "invoking", "push"} =>
           inference_postprocess_queue = <<>> /\ ~PostBusy
      /\ PostBusy => /\ post_frame = inf_frame /\ inference_postprocess_queue = <<>>
                     /\ inf \notin {"filling", "invoking", "push"}
      /\ inference_postprocess_queue # <<>> => inference_postprocess_queue = <<inf_frame>>
  BY <1>1 DEF IInv, IPTypeOK, Handshake, Awaiting
<1>5. QED
  BY <1>1, <1>2, <1>3, <1>4
-----------------------------------------------------------------------------
(***************************************************************************)
(* The frames in flight.                                                     *)
(***************************************************************************)

\* What push and pop do to the set of the elements of a queue.
LEMMA QueueElements ==
    ASSUME NEW q \in Seq(Nat), NEW x \in Nat
    PROVE  /\ Range(Append(q, x)) = Range(q) \cup {x}
           /\ q # <<>> => Range(Tail(q)) \subseteq Range(q) /\ Head(q) \in Range(q)
<1>1. Range(Append(q, x)) = Range(q) \cup {x}
  <2>1. DOMAIN Append(q, x) = 1 .. Len(q) + 1 /\ DOMAIN q = 1 .. Len(q)
    OBVIOUS
  <2>2. \A j \in 1 .. Len(q) + 1 : j = Len(q) + 1 \/ j \in 1 .. Len(q)
    BY LastOrEarlier
  <2>3. Len(q) + 1 \in 1 .. Len(q) + 1 /\ 1 .. Len(q) \subseteq 1 .. Len(q) + 1
    OBVIOUS
  <2>4. QED
    BY <2>1, <2>2, <2>3, PushElements DEF Range
<1>2. ASSUME q # <<>>
      PROVE  Range(Tail(q)) \subseteq Range(q) /\ Head(q) \in Range(q)
  <2>1. Tail(q) \in Seq(Nat) /\ DOMAIN Tail(q) = 1 .. Len(q) - 1 /\ DOMAIN q = 1 .. Len(q)
    BY <1>2
  <2>2. \A j \in 1 .. Len(q) - 1 : Tail(q)[j] = q[j + 1] /\ j + 1 \in 1 .. Len(q)
    BY <1>2
  <2>3. Head(q) = q[1] /\ 1 \in 1 .. Len(q)
    BY <1>2
  <2>4. QED
    BY <2>1, <2>2, <2>3 DEF Range
<1>3. QED
  BY <1>1, <1>2

\* Frames come into flight by the push of preprocess_worker, and in no other way.
LEMMA FlightStep ==
    ASSUME IInv, [SegNext]_segVars
    PROVE  /\ PushFrame => InFlight' \subseteq InFlight \cup {num_frames_processed}
           /\ ~PushFrame => InFlight' \subseteq InFlight
<1> DEFINE q == preprocess_inference_queue
           r == inference_postprocess_queue
           computing == inf \in {"filling", "invoking", "push"}
           busy == post \in {"popping", "working"}
<1> USE DEF preVars, queues, infVars, postVars, PreStep, InfStep, PostStep
<1>1. /\ q \in Seq(Nat) /\ r \in Seq(Nat)
      /\ num_frames_processed \in Nat /\ inf_frame \in Nat
  BY PipelineFacts
<1>2. CASE PushFrame
  <2>1. Range(q') = Range(q) \cup {num_frames_processed}
    BY <1>1, <1>2, QueueElements DEF PushFrame
  <2>2. UNCHANGED <<r, inf, inf_frame, post, post_frame>>
    BY <1>2 DEF PushFrame
  <2>3. QED
    BY <1>2, <2>1, <2>2 DEF InFlight
<1>3. CASE TakeInput
  <2>1. Range(q') \subseteq Range(q) /\ inf_frame' \in Range(q)
    BY <1>1, <1>3, QueueElements DEF TakeInput
  <2>2. UNCHANGED <<r, post, post_frame>>
    BY <1>3 DEF TakeInput
  <2>3. ~PushFrame
    BY <1>3 DEF TakeInput, PushFrame
  <2>4. QED
    BY <2>1, <2>2, <2>3 DEF InFlight
<1>4. CASE PushResult
  <2>1. Range(r') = Range(r) \cup {inf_frame}
    BY <1>1, <1>4, QueueElements DEF PushResult
  <2>2. UNCHANGED <<q, inf_frame, post_frame>> /\ inf = "push" /\ inf' = "trim_input"
        /\ (post' \in {"popping", "working"} => post' = post)
    BY <1>4 DEF PushResult
  <2>3. ~PushFrame
    BY <1>4 DEF PushResult, PushFrame
  <2>4. QED
    BY <2>1, <2>2, <2>3 DEF InFlight
<1>5. CASE TrimInput \/ TrimResult
  <2>1. Range(q') \subseteq Range(q) /\ Range(r') \subseteq Range(r)
    BY <1>1, <1>5, QueueElements DEF TrimInput, TrimResult
  <2>2. UNCHANGED <<inf, inf_frame, post, post_frame, pp>>
    BY <1>5 DEF TrimInput, TrimResult
  <2>3. ~PushFrame
    BY <2>2 DEF PushFrame
  <2>4. QED
    BY <2>1, <2>2, <2>3 DEF InFlight
<1>6. CASE TakeResult
  <2>1. Range(r') \subseteq Range(r) /\ post_frame' \in Range(r)
    BY <1>1, <1>6, QueueElements DEF TakeResult
  <2>2. UNCHANGED <<q, inf, inf_frame, pp>>
    BY <1>6 DEF TakeResult
  <2>3. ~PushFrame
    BY <2>2 DEF PushFrame
  <2>4. QED
    BY <2>1, <2>2, <2>3 DEF InFlight
<1>7. CASE ~(PushFrame \/ TakeInput \/ PushResult \/ TrimInput \/ TrimResult \/ TakeResult)
  <2>1. [IPNext]_ipVars
    BY PipelineOfSegmentation
  <2>2. /\ UNCHANGED <<q, r, inf_frame, post_frame>>
        /\ inf' \in {"filling", "invoking", "push"} => computing
        /\ post' \in {"popping", "working"} => busy
    BY <1>7, <2>1 DEF IPNext, ipVars, PreprocessFrame, InferenceWorker, PostprocessWorker,
       DiscardFrame, TakeFrame, ResizeBegin, ResizeEnd, NotifyInference,
       StartCycle, SleepForInput, FillEnd, Invoke, TrimInputDone, TrimResultDone,
       CheckFinish, SleepForFinish, PostLoopTest, SleepForResult, PopEnd, SetFinish,
       NotifyFinish, SpuriousWake, Stop
  <2>3. QED
    BY <1>7, <2>2 DEF InFlight
<1>8. QED
  BY <1>2, <1>3, <1>4, <1>5, <1>6, <1>7
-----------------------------------------------------------------------------
(***************************************************************************)
(* Pictures and overlays in order.                                           *)
(***************************************************************************)

\* worker() draws while postprocess_worker is in it; what has been drawn into the
\* buffer is of frames up to its own, and the pixels are of no earlier frame.
DrawingInOrder ==
    /\ overlay \subseteq Nat
    /\ picture \in [base : SUBSET Nat, overlays : SUBSET Nat]
    /\ draw # "no" => post = "working"
    /\ \A f \in overlay : f <= post_frame
    /\ draw # "no" => /\ \A f \in picture.base : f >= post_frame
                      /\ \A f \in picture.overlays : f <= post_frame
    /\ OverlaysAreEarlier

LEMMA DrawingInOrderStep ==
    ASSUME IInv, IInv', DrawingInOrder, [SegNext]_segVars
    PROVE  DrawingInOrder'
<1> USE DEF DrawingInOrder, OverlaysAreEarlier, PostBusy,
            preVars, queues, infVars, postVars, PreStep, InfStep, PostStep, drawVars
<1>1. CASE BlendBegin
  <2>1. post = "working" /\ UNCHANGED <<post, post_frame, inf, inf_frame, resize_output>>
        /\ draw' = "blending"
    BY <1>1 DEF BlendBegin, ipVars
  <2>2. inf \notin {"filling", "invoking"} /\ post_frame \in Nat
        /\ \A f \in resize_output : f >= post_frame
        /\ resize_output \subseteq Nat
    BY <2>1, PipelineFacts
  <2>3. CASE SharedInput
    <3>1. /\ picture' = [base |-> resize_output, overlays |-> overlay \cup {post_frame}]
          /\ overlay' = overlay \cup {post_frame}
      BY <1>1, <2>3 DEF BlendBegin
    <3>2. overlay' \subseteq Nat
          /\ picture' \in [base : SUBSET Nat, overlays : SUBSET Nat]
      BY <2>2, <3>1
    <3>3. QED
      BY <2>1, <2>2, <3>1, <3>2
  <2>4. CASE ~SharedInput
    <3>1. /\ picture' = [base |-> {post_frame}, overlays |-> {post_frame}]
          /\ overlay' = overlay
      BY <1>1, <2>4 DEF BlendBegin
    <3>2. QED
      BY <2>1, <2>2, <3>1
  <2>5. QED
    BY <2>3, <2>4
<1>2. CASE BlendEnd
  BY <1>2 DEF BlendEnd, ipVars
<1>3. CASE SegSetFinish
  BY <1>3 DEF SegSetFinish, SetFinish
<1>4. CASE SegResizeBegin
  <2>1. UNCHANGED <<draw, overlay, input_overlay, post, post_frame, inf, inf_frame>>
    BY <1>4 DEF SegResizeBegin, ResizeBegin
  <2>2. num_frames_processed >= post_frame /\ num_frames_processed \in Nat
    BY PipelineFacts
  <2>3. CASE draw = "blending" /\ SharedInput
    <3>1. picture' = [picture EXCEPT !.base = @ \cup {num_frames_processed}]
      BY <1>4, <2>3 DEF SegResizeBegin
    <3>2. /\ picture'.base \subseteq picture.base \cup {num_frames_processed}
          /\ picture'.overlays = picture.overlays
          /\ picture' \in [base : SUBSET Nat, overlays : SUBSET Nat]
      BY <2>2, <3>1
    <3>3. QED
      BY <2>1, <2>2, <3>2
  <2>4. CASE ~(draw = "blending" /\ SharedInput)
    BY <1>4, <2>1, <2>4 DEF SegResizeBegin
  <2>5. QED
    BY <2>3, <2>4
<1>5. CASE SegResizeEnd
  BY <1>5 DEF SegResizeEnd, ResizeEnd
<1>6. CASE SegTakeInput
  <2>1. /\ preprocess_inference_queue # <<>>
        /\ inf_frame' = Head(preprocess_inference_queue) /\ inf = "lock"
        /\ input_overlay' = IF SharedInput THEN overlay ELSE {}
        /\ UNCHANGED <<draw, overlay, picture, post, post_frame>>
    BY <1>6 DEF SegTakeInput, TakeInput
  <2>2. inf_frame' \in Range(preprocess_inference_queue) /\ inf_frame' \in Nat
    BY <2>1, PipelineFacts, QueueElements
  <2>3. inf_frame < inf_frame' /\ post_frame <= inf_frame
        /\ {post_frame, inf_frame} \subseteq Nat
    BY <2>2, PipelineFacts
  <2>4. \A f \in input_overlay' : f < inf_frame'
    BY <2>1, <2>2, <2>3
  <2>5. QED
    BY <2>1, <2>4
<1>7. CASE SegInvoke
  BY <1>7 DEF SegInvoke, Invoke
<1>8. CASE Elsewhere
  <2>1. CASE TakeResult
    <3>1. /\ inference_postprocess_queue # <<>> /\ post = "lock"
          /\ post_frame' = Head(inference_postprocess_queue)
          /\ UNCHANGED <<inf, inf_frame>>
      BY <2>1 DEF TakeResult
    <3>2. post_frame' = inf_frame /\ post_frame <= inf_frame
          /\ {post_frame, inf_frame} \subseteq Nat
      BY <3>1, PipelineFacts
    <3>3. QED
      BY <1>8, <3>1, <3>2 DEF Elsewhere
  <2>2. CASE ~TakeResult
    <3>1. /\ post = "working" => post' = "working"
          /\ UNCHANGED <<post_frame, inf_frame>>
          /\ inf' \in {"filling", "invoking"} => inf \in {"filling", "invoking"}
      BY <1>8, <2>2 DEF Elsewhere,
         DiscardFrame, TakeFrame, PushFrame, NotifyInference, StartCycle, SleepForInput,
         FillEnd, PushResult, TrimInput, TrimInputDone, TrimResult, TrimResultDone,
         CheckFinish, SleepForFinish, PostLoopTest, SleepForResult, PopEnd, NotifyFinish,
         SpuriousWake, Stop
    <3>2. QED
      BY <1>8, <3>1 DEF Elsewhere
  <2>3. QED
    BY <2>1, <2>2
<1>9. CASE UNCHANGED segVars
  BY <1>9 DEF segVars, ipVars
<1>10. QED
  BY <1>1, <1>2, <1>3, <1>4, <1>5, <1>6, <1>7, <1>8, <1>9 DEF SegNext
-----------------------------------------------------------------------------
(***************************************************************************)
(* The frame that has the pipeline to itself.                                *)
(***************************************************************************)

\* While a frame that was never in company is in flight, nothing else is, and the
\* shared buffer holds its pixels, without an overlay until it is drawn on.
LoneInFlight ==
    SharedInput => \A f \in InFlight \ crowded :
        /\ InFlight = {f} /\ resize_output = {f}
        /\ pp \notin {"resizing", "resized"}
        /\ draw = "no" => overlay = {}

\* A frame resized on its own finds nothing in flight and wipes the buffer.
LoneInResize ==
    SharedInput /\ num_frames_processed \notin crowded =>
        /\ pp = "resizing" => InFlight = {} /\ overlay \subseteq wiped
        /\ pp = "resized" => InFlight = {} /\ overlay = {}

\* It alone is in the input tensor, in what the output was computed from, and in
\* the picture.
LoneInInput ==
    inf \in {"filling", "invoking"} /\ inf_frame \notin crowded =>
        input = {inf_frame} /\ input_overlay = {}
ResultPending == inf = "push" \/ inference_postprocess_queue # <<>> \/ PostBusy
LoneInOutput ==
    ResultPending /\ inf_frame \notin crowded =>
        output.input = {inf_frame} /\ output_overlay = {}
LoneInPicture ==
    draw # "no" /\ post_frame \notin crowded =>
        picture = [base |-> {post_frame}, overlays |-> {post_frame}]

LoneFrames ==
    LoneInFlight /\ LoneInResize /\ LoneInInput /\ LoneInOutput /\ LoneInPicture

\* A frame once in company is so for good; company is met where a resize begins.
LEMMA CrowdGrows ==
    ASSUME [SegNext]_segVars
    PROVE  /\ crowded \subseteq crowded'
           /\ SegResizeBegin \/ crowded' = crowded
           /\ SegResizeBegin /\ InFlight # {} =>
                InFlight \cup {num_frames_processed} \subseteq crowded'
  BY DEF SegNext, segVars, drawVars, BlendBegin, BlendEnd, SegSetFinish, SegResizeBegin,
     SegResizeEnd, SegTakeInput, SegInvoke, Elsewhere

\* The frame being computed or post-processed, and the next of the queue.
LEMMA InFlightHere ==
    ASSUME IInv
    PROVE  /\ PostBusy => post_frame \in InFlight
           /\ inf \in {"filling", "invoking", "push"} => inf_frame \in InFlight
           /\ preprocess_inference_queue # <<>> =>
                Head(preprocess_inference_queue) \in InFlight
  BY PipelineFacts, QueueElements DEF InFlight, PostBusy

LEMMA LoneInFlightStep ==
    ASSUME IInv, DrawingInOrder, LoneInFlight, LoneInResize, [SegNext]_segVars
    PROVE  LoneInFlight'
<1> SUFFICES ASSUME SharedInput, NEW f \in InFlight' \ crowded'
             PROVE  /\ InFlight' = {f} /\ resize_output' = {f}
                    /\ pp' \notin {"resizing", "resized"}
                    /\ draw' = "no" => overlay' = {}
  BY DEF LoneInFlight
<1> USE DEF preVars, queues, infVars, postVars, PreStep, InfStep, PostStep, drawVars
<1>1. f \notin crowded
  BY CrowdGrows
<1>2. CASE PushFrame
  <2>1. /\ pp = "resized" /\ pp' = "pushing"
        /\ UNCHANGED <<resize_output, num_frames_processed>>
    BY <1>2 DEF PushFrame
  <2>2. UNCHANGED <<overlay, draw>>
    BY <1>2, <2>1 DEF SegNext, segVars, ipVars, BlendBegin, BlendEnd, SegSetFinish, SetFinish,
       SegResizeBegin, ResizeBegin, SegResizeEnd, ResizeEnd, SegTakeInput, TakeInput,
       SegInvoke, Invoke, Elsewhere
  <2>3. f \notin InFlight
    BY <1>1, <2>1 DEF LoneInFlight
  <2>4. f = num_frames_processed
    BY <1>2, <2>3, FlightStep
  <2>5. InFlight = {} /\ overlay = {}
    BY <1>1, <2>1, <2>4 DEF LoneInResize
  <2>6. InFlight' = {f}
    BY <1>2, <2>4, <2>5, FlightStep
  <2>7. resize_output = {f}
    BY <2>1, <2>4, PipelineFacts
  <2>8. QED
    BY <2>1, <2>2, <2>5, <2>6, <2>7
<1>3. CASE ~PushFrame
  <2>1. f \in InFlight
    BY <1>3, FlightStep
  <2>2. /\ InFlight = {f} /\ resize_output = {f}
        /\ pp \notin {"resizing", "resized"}
        /\ draw = "no" => overlay = {}
    BY <1>1, <2>1 DEF LoneInFlight
  <2>3. InFlight' = {f}
    BY <1>3, <2>2, FlightStep
  <2>4. CASE BlendBegin \/ BlendEnd
    BY <2>2, <2>3, <2>4 DEF BlendBegin, BlendEnd, ipVars
  <2>5. CASE SegSetFinish
    <3>1. /\ draw = "drawn" /\ post = "working" /\ post' = "notify"
          /\ UNCHANGED <<preprocess_inference_queue, inference_postprocess_queue, inf,
                         inf_frame>>
      BY <2>5 DEF SegSetFinish, SetFinish
    <3>2. PostBusy
      BY <3>1 DEF PostBusy
    <3>3. f = post_frame
      BY <2>2, <3>2, InFlightHere
    <3>4. /\ inference_postprocess_queue = <<>> /\ inf \notin {"filling", "invoking", "push"}
          /\ \A g \in Range(preprocess_inference_queue) : post_frame # g
      <4>1. /\ inference_postprocess_queue = <<>>
            /\ inf \notin {"filling", "invoking", "push"} /\ post_frame = inf_frame
            /\ inf_frame \in Nat
            /\ \A g \in Range(preprocess_inference_queue) : inf_frame < g
        BY <3>2, PipelineFacts
      <4>2. QED
        BY <4>1
    <3>5. f \notin InFlight'
      BY <3>1, <3>3, <3>4 DEF InFlight, Range
    <3>6. QED
      BY <3>5
  <2>6. CASE SegResizeBegin
    BY <2>1, <2>6, CrowdGrows
  <2>7. CASE SegResizeEnd
    BY <2>2, <2>7 DEF SegResizeEnd, ResizeEnd
  <2>8. CASE SegTakeInput \/ SegInvoke \/ UNCHANGED segVars
    BY <2>2, <2>3, <2>8 DEF SegTakeInput, TakeInput, SegInvoke, Invoke, segVars, ipVars
  <2>9. CASE Elsewhere
    <3>1. /\ UNCHANGED <<resize_output, overlay, draw>>
          /\ pp' = pp \/ pp' \in {"converting", "idle"}
      BY <1>3, <2>9 DEF Elsewhere,
         DiscardFrame, TakeFrame, NotifyInference, StartCycle, SleepForInput,
         FillEnd, PushResult, TrimInput, TrimInputDone, TrimResult, TrimResultDone,
         CheckFinish, SleepForFinish, PostLoopTest, TakeResult, SleepForResult, PopEnd,
         NotifyFinish, SpuriousWake, Stop
    <3>2. QED
      BY <2>2, <2>3, <3>1
  <2>10. QED
    BY <2>4, <2>5, <2>6, <2>7, <2>8, <2>9 DEF SegNext
<1>4. QED
  BY <1>2, <1>3

LEMMA LoneInResizeStep ==
    ASSUME IInv, DrawingInOrder, LoneInResize, [SegNext]_segVars
    PROVE  LoneInResize'
<1> SUFFICES ASSUME SharedInput, num_frames_processed' \notin crowded'
             PROVE  /\ pp' = "resizing" => InFlight' = {} /\ overlay' \subseteq wiped'
                    /\ pp' = "resized" => InFlight' = {} /\ overlay' = {}
  BY DEF LoneInResize
<1> USE DEF preVars, queues, infVars, postVars, PreStep, InfStep, PostStep, drawVars
<1>1. num_frames_processed' \notin crowded
  BY CrowdGrows
<1>2. CASE SegResizeBegin
  <2>1. /\ pp' = "resizing" /\ num_frames_processed' = num_frames_processed
        /\ overlay' = overlay /\ wiped' = overlay \ Blending /\ ~PushFrame
    BY <1>2 DEF SegResizeBegin, ResizeBegin, PushFrame
  <2>2. InFlight = {}
    BY <1>2, <2>1, CrowdGrows
  <2>3. Blending = {}
    <3>1. ~PostBusy
      BY <2>2, InFlightHere
    <3>2. QED
      BY <3>1 DEF Blending, DrawingInOrder, PostBusy
  <2>4. InFlight' = {}
    BY <2>1, <2>2, FlightStep
  <2>5. QED
    BY <2>1, <2>3, <2>4
<1>3. CASE SegResizeEnd
  <2>1. /\ pp = "resizing" /\ pp' = "resized" /\ overlay' = overlay \ wiped
        /\ num_frames_processed' = num_frames_processed /\ ~PushFrame
    BY <1>3 DEF SegResizeEnd, ResizeEnd, PushFrame
  <2>2. InFlight = {} /\ overlay \subseteq wiped
    BY <1>1, <2>1 DEF LoneInResize
  <2>3. InFlight' = {}
    BY <2>1, <2>2, FlightStep
  <2>4. QED
    BY <2>1, <2>2, <2>3
<1>4. CASE BlendBegin
  <2>1. post = "working" /\ UNCHANGED <<pp, num_frames_processed>>
    BY <1>4 DEF BlendBegin, ipVars
  <2>2. InFlight # {}
    BY <2>1, InFlightHere DEF PostBusy
  <2>3. QED
    BY <1>1, <2>1, <2>2 DEF LoneInResize
<1>5. CASE BlendEnd \/ SegSetFinish \/ SegTakeInput \/ SegInvoke \/ UNCHANGED segVars
  <2>1. UNCHANGED <<pp, num_frames_processed, overlay, wiped>>
    BY <1>5 DEF BlendEnd, SegSetFinish, SetFinish, SegTakeInput, TakeInput, SegInvoke,
       Invoke, segVars, ipVars
  <2>2. pp \in {"resizing", "resized"} => InFlight' \subseteq InFlight
    <3>1. PushFrame => pp' = "pushing"
      BY DEF PushFrame
    <3>2. QED
      BY <2>1, <3>1, FlightStep
  <2>3. QED
    BY <1>1, <2>1, <2>2 DEF LoneInResize
<1>6. CASE Elsewhere
  <2>1. /\ UNCHANGED <<overlay, wiped>>
        /\ \/ UNCHANGED <<pp, num_frames_processed>>
           \/ pp' \notin {"resizing", "resized"}
    BY <1>6 DEF Elsewhere,
       DiscardFrame, TakeFrame, PushFrame, NotifyInference, StartCycle, SleepForInput,
       FillEnd, PushResult, TrimInput, TrimInputDone, TrimResult, TrimResultDone,
       CheckFinish, SleepForFinish, PostLoopTest, TakeResult, SleepForResult, PopEnd,
       NotifyFinish, SpuriousWake, Stop
  <2>2. pp' \in {"resizing", "resized"} => InFlight' \subseteq InFlight
    <3>1. PushFrame => pp' = "pushing"
      BY DEF PushFrame
    <3>2. QED
      BY <3>1, FlightStep
  <2>3. QED
    BY <1>1, <2>1, <2>2 DEF LoneInResize
<1>7. QED
  BY <1>2, <1>3, <1>4, <1>5, <1>6 DEF SegNext

LEMMA LoneInInputStep ==
    ASSUME IInv, DrawingInOrder, LoneInFlight, LoneInInput, [SegNext]_segVars
    PROVE  LoneInInput'
<1> SUFFICES ASSUME inf' \in {"filling", "invoking"}, inf_frame' \notin crowded'
             PROVE  input' = {inf_frame'} /\ input_overlay' = {}
  BY DEF LoneInInput
<1> USE DEF preVars, queues, infVars, postVars, PreStep, InfStep, PostStep, drawVars
<1>1. inf_frame' \notin crowded
  BY CrowdGrows
<1>2. CASE SegTakeInput
  <2>1. /\ preprocess_inference_queue # <<>> /\ inf = "lock"
        /\ inf_frame' = Head(preprocess_inference_queue)
        /\ input' = IF SharedInput THEN resize_output ELSE {inf_frame'}
        /\ input_overlay' = IF SharedInput THEN overlay ELSE {}
    BY <1>2 DEF SegTakeInput, TakeInput
  <2>2. inf_frame' \in InFlight \ crowded
    BY <1>1, <2>1, InFlightHere
  <2>3. draw = "no"
    BY <2>1, PipelineFacts DEF DrawingInOrder, PostBusy
  <2>4. SharedInput => resize_output = {inf_frame'} /\ overlay = {}
    BY <2>2, <2>3 DEF LoneInFlight
  <2>5. QED
    BY <2>1, <2>4
<1>3. CASE SegResizeBegin
  <2>1. /\ UNCHANGED <<inf, inf_frame, input_overlay>>
        /\ inf # "filling" => input' = input
    BY <1>3 DEF SegResizeBegin, ResizeBegin
  <2>2. inf_frame \in InFlight
    BY <2>1, InFlightHere
  <2>3. inf_frame \in crowded'
    BY <1>3, <2>2, CrowdGrows
  <2>4. QED
    BY <2>1, <2>3
<1>4. CASE BlendBegin
  <2>1. post = "working" /\ inf' = inf
    BY <1>4 DEF BlendBegin, ipVars
  <2>2. QED
    BY <2>1, PipelineFacts DEF PostBusy
<1>5. CASE BlendEnd \/ SegSetFinish \/ SegResizeEnd \/ SegInvoke \/ UNCHANGED segVars
  <2>1. SegInvoke => inf' \notin {"filling", "invoking"}
    BY DEF SegInvoke, Invoke
  <2>2. UNCHANGED <<inf, inf_frame, input, input_overlay>>
    BY <1>5, <2>1 DEF BlendEnd, SegSetFinish, SetFinish, SegResizeEnd, ResizeEnd,
       segVars, ipVars
  <2>3. QED
    BY <1>1, <2>2 DEF LoneInInput
<1>6. CASE Elsewhere
  <2>1. /\ UNCHANGED <<inf_frame, input, input_overlay>>
        /\ inf' \in {"filling", "invoking"} => inf \in {"filling", "invoking"}
    BY <1>6 DEF Elsewhere,
       DiscardFrame, TakeFrame, PushFrame, NotifyInference, StartCycle, SleepForInput,
       FillEnd, PushResult, TrimInput, TrimInputDone, TrimResult, TrimResultDone,
       CheckFinish, SleepForFinish, PostLoopTest, TakeResult, SleepForResult, PopEnd,
       NotifyFinish, SpuriousWake, Stop
  <2>2. QED
    BY <1>1, <2>1 DEF LoneInInput
<1>7. QED
  BY <1>2, <1>3, <1>4, <1>5, <1>6 DEF SegNext

LEMMA LoneInOutputStep ==
    ASSUME IInv, LoneInInput, LoneInOutput, [SegNext]_segVars
    PROVE  LoneInOutput'
<1> SUFFICES ASSUME ResultPending', inf_frame' \notin crowded'
             PROVE  output'.input = {inf_frame'} /\ output_overlay' = {}
  BY DEF LoneInOutput
<1> USE DEF preVars, queues, infVars, postVars, PreStep, InfStep, PostStep, drawVars,
            ResultPending, PostBusy
<1>1. inf_frame' \notin crowded
  BY CrowdGrows
<1>2. CASE SegInvoke
  <2>1. /\ output' = [frame |-> inf_frame, input |-> input]
        /\ output_overlay' = input_overlay /\ inf = "invoking" /\ inf_frame' = inf_frame
    BY <1>2 DEF SegInvoke, Invoke
  <2>2. QED
    BY <1>1, <2>1 DEF LoneInInput
<1>3. CASE SegTakeInput
  <2>1. /\ inf = "lock" /\ inf' = "filling"
        /\ UNCHANGED <<inference_postprocess_queue, post>>
    BY <1>3 DEF SegTakeInput, TakeInput
  <2>2. QED
    BY <2>1, PipelineFacts
<1>4. CASE BlendBegin \/ BlendEnd \/ SegSetFinish \/ SegResizeBegin \/ SegResizeEnd
            \/ UNCHANGED segVars
  <2>1. /\ UNCHANGED <<inf, inf_frame, inference_postprocess_queue, output,
                       output_overlay>>
        /\ post' \in {"popping", "working"} => post' = post
    BY <1>4 DEF BlendBegin, BlendEnd, SegSetFinish, SetFinish, SegResizeBegin, ResizeBegin,
       SegResizeEnd, ResizeEnd, segVars, ipVars
  <2>2. QED
    BY <1>1, <2>1 DEF LoneInOutput
<1>5. CASE Elsewhere
  <2>1. UNCHANGED <<inf_frame, output, output_overlay>> /\ ResultPending
    BY <1>5 DEF Elsewhere,
       DiscardFrame, TakeFrame, PushFrame, NotifyInference, StartCycle, SleepForInput,
       FillEnd, PushResult, TrimInput, TrimInputDone, TrimResult, TrimResultDone,
       CheckFinish, SleepForFinish, PostLoopTest, TakeResult, SleepForResult, PopEnd,
       NotifyFinish, SpuriousWake, Stop
  <2>2. QED
    BY <1>1, <2>1 DEF LoneInOutput
<1>6. QED
  BY <1>2, <1>3, <1>4, <1>5 DEF SegNext

LEMMA LoneInPictureStep ==
    ASSUME IInv, DrawingInOrder, LoneInFlight, LoneInPicture, [SegNext]_segVars
    PROVE  LoneInPicture'
<1> SUFFICES ASSUME draw' # "no", post_frame' \notin crowded'
             PROVE  picture' = [base |-> {post_frame'}, overlays |-> {post_frame'}]
  BY DEF LoneInPicture
<1> USE DEF preVars, queues, infVars, postVars, PreStep, InfStep, PostStep, drawVars
<1>1. post_frame' \notin crowded
  BY CrowdGrows
<1>2. CASE BlendBegin
  <2>1. /\ post = "working" /\ draw = "no" /\ post_frame' = post_frame
        /\ picture' = IF SharedInput
             THEN [base |-> resize_output, overlays |-> overlay \cup {post_frame}]
             ELSE [base |-> {post_frame}, overlays |-> {post_frame}]
    BY <1>2 DEF BlendBegin, ipVars
  <2>2. post_frame \in InFlight \ crowded
    BY <1>1, <2>1, InFlightHere DEF PostBusy
  <2>3. SharedInput => resize_output = {post_frame} /\ overlay = {}
    BY <2>1, <2>2 DEF LoneInFlight
  <2>4. QED
    BY <2>1, <2>3
<1>3. CASE SegResizeBegin
  <2>1. UNCHANGED <<draw, post, post_frame>>
    BY <1>3 DEF SegResizeBegin, ResizeBegin
  <2>2. post_frame \in InFlight
    BY <2>1, InFlightHere DEF DrawingInOrder, PostBusy
  <2>3. post_frame \in crowded'
    BY <1>3, <2>2, CrowdGrows
  <2>4. QED
    BY <2>1, <2>3
<1>4. CASE BlendEnd \/ SegSetFinish \/ SegResizeEnd \/ SegTakeInput \/ SegInvoke
            \/ UNCHANGED segVars
  <2>1. SegSetFinish => draw' = "no"
    BY DEF SegSetFinish
  <2>2. UNCHANGED <<picture, post_frame>> /\ draw # "no"
    BY <1>4, <2>1 DEF BlendEnd, SegResizeEnd, ResizeEnd, SegTakeInput, TakeInput, SegInvoke,
       Invoke, segVars, ipVars
  <2>3. QED
    BY <1>1, <2>2 DEF LoneInPicture
<1>5. CASE Elsewhere
  <2>1. TakeResult => draw = "no"
    BY DEF TakeResult, DrawingInOrder
  <2>2. UNCHANGED <<picture, post_frame, draw>>
    BY <1>5, <2>1 DEF Elsewhere,
       DiscardFrame, TakeFrame, PushFrame, NotifyInference, StartCycle, SleepForInput,
       FillEnd, PushResult, TrimInput, TrimInputDone, TrimResult, TrimResultDone,
       CheckFinish, SleepForFinish, PostLoopTest, SleepForResult, PopEnd,
       NotifyFinish, SpuriousWake, Stop
  <2>3. QED
    BY <1>1, <2>2 DEF LoneInPicture
<1>6. QED
  BY <1>2, <1>3, <1>4, <1>5 DEF SegNext
-----------------------------------------------------------------------------
(***************************************************************************)
(* The theorems.                                                             *)
(***************************************************************************)
SegInv == DrawingInOrder /\ LoneFrames

LEMMA SegmentationInvariant == SegSpec => []SegInv
<1>1. SegInit => SegInv
  <2> SUFFICES ASSUME SegInit PROVE SegInv
    OBVIOUS
  <2>1. /\ draw = "no" /\ overlay = {} /\ picture = [base |-> {}, overlays |-> {}]
        /\ inf = "loop" /\ post = "loop" /\ pp = "idle"
        /\ preprocess_inference_queue = <<>> /\ inference_postprocess_queue = <<>>
    BY DEF SegInit, IPInit
  <2>2. DrawingInOrder
    BY <2>1 DEF DrawingInOrder, OverlaysAreEarlier
  <2>3. InFlight = {}
    BY <2>1 DEF InFlight, Range
  <2>4. QED
    BY <2>1, <2>2, <2>3 DEF SegInv, LoneFrames, LoneInFlight, LoneInResize, LoneInInput,
       LoneInOutput, LoneInPicture, ResultPending, PostBusy
<1>2. IInv /\ IInv' /\ SegInv /\ [SegNext]_segVars => SegInv'
  BY DrawingInOrderStep, LoneInFlightStep, LoneInResizeStep, LoneInInputStep,
     LoneInOutputStep, LoneInPictureStep DEF SegInv, LoneFrames
<1>3. QED
  BY <1>1, <1>2, SegmentationKeeps, PTL DEF SegSpec

\* A frame that has the pipeline to itself is segmented from its own pixels and
\* published as an image of itself with its own classes.
THEOREM SegmentationExact == SegSpec => []LoneFrameIsExact
<1>1. IInv /\ SegInv => LoneFrameIsExact
  <2> SUFFICES ASSUME IInv, SegInv, draw = "drawn", post_frame \notin crowded
               PROVE  /\ output.input = {post_frame} /\ output_overlay = {}
                      /\ picture = [base |-> {post_frame}, overlays |-> {post_frame}]
    BY DEF LoneFrameIsExact
  <2>1. PostBusy
    BY DEF SegInv, DrawingInOrder, PostBusy
  <2>2. post_frame = inf_frame
    BY <2>1, PipelineFacts
  <2>3. QED
    BY <2>1, <2>2 DEF SegInv, LoneFrames, LoneInOutput, LoneInPicture, ResultPending
<1>2. QED
  BY <1>1, SegmentationInvariant, SegmentationKeeps, PTL

\* In a crowd the picture may be of later frames, never of an earlier one than the
\* classes blended into it, and it carries no classes of a later frame.
THEOREM SegmentationPictures == SegSpec => []PictureNotOlder
<1>1. SegInv => PictureNotOlder
  BY DEF SegInv, DrawingInOrder, PictureNotOlder
<1>2. QED
  BY <1>1, SegmentationInvariant, PTL

\* Inference may see overlays, but only of frames before its own.
THEOREM SegmentationOverlays == SegSpec => []OverlaysAreEarlier
<1>1. SegInv => OverlaysAreEarlier
  BY DEF SegInv, DrawingInOrder
<1>2. QED
  BY <1>1, SegmentationInvariant, PTL
=============================================================================
