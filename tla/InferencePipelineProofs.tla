----------------------- MODULE InferencePipelineProofs -----------------------
(***************************************************************************)
(* Proofs about InferencePipeline, for every QUEUE_LIMIT and MaxFrames and   *)
(* for both kinds of input image.                                            *)
(***************************************************************************)
EXTENDS InferencePipeline, TLAPS


(***************************************************************************)
(* What push and pop do to the elements of a queue.                          *)
(***************************************************************************)

\* push keeps the elements of the queue and adds one behind them.
LEMMA PushElements ==
    ASSUME NEW q \in Seq(Nat), NEW x \in Nat
    PROVE  /\ Len(Append(q, x)) = Len(q) + 1
           /\ \A i \in 1 .. Len(q) : Append(q, x)[i] = q[i]
           /\ Append(q, x)[Len(q) + 1] = x
  OBVIOUS

\* An index of the longer queue is the new one or an index of the old queue.
LEMMA LastOrEarlier ==
    \A n \in Nat : \A j \in 1 .. n + 1 : j = n + 1 \/ j \in 1 .. n
  OBVIOUS

\* pop moves every element but the first one place to the front.
LEMMA PopElements ==
    ASSUME NEW q \in Seq(Nat), q # <<>>
    PROVE  /\ Len(Tail(q)) = Len(q) - 1
           /\ \A i \in 1 .. Len(q) - 1 : Tail(q)[i] = q[i + 1]
  OBVIOUS
-----------------------------------------------------------------------------
\* The types hold initially.
LEMMA PipelineTypingInit == IPInit => IPTypeOK
<1> SUFFICES ASSUME IPInit PROVE IPTypeOK
  OBVIOUS
<1> USE DEF IPInit
<1>1. <<>> \in Seq(Nat)
  OBVIOUS
<1>2. output \in [frame : Nat, input : SUBSET Nat]
  OBVIOUS
<1>3. QED
  BY <1>1, <1>2 DEF IPTypeOK

\* Every step keeps the types.
LEMMA PipelineTypingStep == IPTypeOK /\ [IPNext]_ipVars => IPTypeOK'
<1> SUFFICES ASSUME IPTypeOK, [IPNext]_ipVars
             PROVE  IPTypeOK'
  OBVIOUS
<1> USE DEF IPTypeOK, preVars, queues, infVars, postVars, PreStep, InfStep, PostStep
<1>1. CASE DiscardFrame
  BY <1>1 DEF DiscardFrame
<1>2. CASE TakeFrame
  BY <1>2 DEF TakeFrame
<1>3. CASE ResizeBegin
  BY <1>3 DEF ResizeBegin
<1>4. CASE ResizeEnd
  BY <1>4 DEF ResizeEnd
<1>5. CASE PushFrame
  BY <1>5 DEF PushFrame
<1>6. CASE NotifyInference
  BY <1>6 DEF NotifyInference
<1>7. CASE StartCycle
  BY <1>7 DEF StartCycle
<1>8. CASE TakeInput
  BY <1>8 DEF TakeInput
<1>9. CASE SleepForInput
  BY <1>9 DEF SleepForInput
<1>10. CASE FillEnd
  BY <1>10 DEF FillEnd
<1>11. CASE Invoke
  BY <1>11 DEF Invoke
<1>12. CASE PushResult
  BY <1>12 DEF PushResult
<1>13. CASE TrimInput
  <2>1. ASSUME NEW s \in Seq(Nat), s # <<>> PROVE Tail(s) \in Seq(Nat)
    BY <2>1
  <2>2. preprocess_inference_queue' \in Seq(Nat) /\ corrupt' \in BOOLEAN
    BY <1>13, <2>1 DEF TrimInput
  <2>3. QED
    BY <1>13, <2>2 DEF TrimInput
<1>14. CASE TrimInputDone
  BY <1>14 DEF TrimInputDone
<1>15. CASE TrimResult
  <2>1. CASE inference_postprocess_queue = <<>>
    BY <1>15, <2>1 DEF TrimResult
  <2>2. CASE inference_postprocess_queue # <<>>
    <3>1. inference_postprocess_queue' = Tail(inference_postprocess_queue)
      BY <1>15, <2>2 DEF TrimResult
    <3>2. corrupt' = corrupt
      BY <1>15, <2>2 DEF TrimResult
    <3>3. inference_postprocess_queue' \in Seq(Nat)
      BY <3>1, <2>2
    <3>4. QED
      BY <1>15, <3>2, <3>3 DEF TrimResult
  <2>3. QED
    BY <2>1, <2>2
<1>16. CASE TrimResultDone
  BY <1>16 DEF TrimResultDone
<1>17. CASE CheckFinish
  BY <1>17 DEF CheckFinish
<1>18. CASE SleepForFinish
  BY <1>18 DEF SleepForFinish
<1>19. CASE PostLoopTest
  BY <1>19 DEF PostLoopTest
<1>20. CASE TakeResult
  BY <1>20 DEF TakeResult
<1>21. CASE SleepForResult
  BY <1>21 DEF SleepForResult
<1>22. CASE PopEnd
  BY <1>22 DEF PopEnd
<1>23. CASE SetFinish
  BY <1>23 DEF SetFinish
<1>24. CASE NotifyFinish
  BY <1>24 DEF NotifyFinish
<1>25. CASE SpuriousWake
  BY <1>25 DEF SpuriousWake
<1>26. CASE Stop
  <2>1. main_running' = FALSE /\ UNCHANGED <<preVars, queues, postprocess_finish, infVars, postVars>>
    BY <1>26 DEF Stop
  <2>2. main_running' \in BOOLEAN /\ postprocess_finish' \in BOOLEAN /\ corrupt' \in BOOLEAN
    BY <2>1
  <2>3. QED
    BY <2>1, <2>2
<1>27. CASE UNCHANGED ipVars
  BY <1>27 DEF ipVars
<1>28. QED
  BY <1>1, <1>2, <1>3, <1>4, <1>5, <1>6, <1>7, <1>8, <1>9, <1>10, <1>11, <1>12,
     <1>13, <1>14, <1>15, <1>16, <1>17, <1>18, <1>19, <1>20, <1>21, <1>22,
     <1>23, <1>24, <1>25, <1>26, <1>27
     DEF IPNext, PreprocessFrame, InferenceWorker, PostprocessWorker

\* Every variable keeps its type in every reachable state, whatever the constants.
THEOREM PipelineTyping == IPSpec => []IPTypeOK
BY PipelineTypingInit, PipelineTypingStep, PTL DEF IPSpec
-----------------------------------------------------------------------------
(***************************************************************************)
(* The inductive invariants.                                                 *)
(***************************************************************************)

\* inference_worker has handed its result over and waits for postprocess_finish.
Awaiting == inf \in {"trim_input", "trim_result", "await", "checked", "sleeping"}

\* postprocess_worker has a result in hand that it has not finished.
PostBusy == post \in {"popping", "working"}

\* The result of the cycle is in exactly one place: still with inference_worker,
\* in the queue, with postprocess_worker, or done; postprocess_finish tells
\* inference_worker which of the last two.
Handshake ==
    /\ ~Awaiting => inference_postprocess_queue = <<>> /\ ~PostBusy
    /\ Awaiting /\ ~postprocess_finish =>
         \/ inference_postprocess_queue = <<inf_frame>> /\ ~PostBusy
         \/ inference_postprocess_queue = <<>> /\ PostBusy /\ post_frame = inf_frame
    /\ Awaiting /\ postprocess_finish =>
         inference_postprocess_queue = <<>> /\ ~PostBusy
    /\ inf \in {"lock", "waiting", "filling", "invoking", "push"} => ~postprocess_finish
    /\ Awaiting \/ inf = "push" => output.frame = inf_frame

\* Frames are ordered along the pipeline: the results taken, the frame in
\* inference, the queued ones from front to back, the latest pushed, the counter.
FrameOrder ==
    /\ \A i, j \in 1 .. Len(preprocess_inference_queue) :
         i < j => preprocess_inference_queue[i] < preprocess_inference_queue[j]
    /\ \A i \in 1 .. Len(preprocess_inference_queue) :
         /\ inf_frame < preprocess_inference_queue[i]
         /\ preprocess_inference_queue[i] <= enqueued
    /\ inf_frame <= enqueued
    /\ enqueued <= num_frames_processed
    /\ pp \in {"converting", "resizing", "resized"} => enqueued < num_frames_processed
    /\ post_frame <= inf_frame
    /\ inf \in {"filling", "invoking", "push"} => post_frame < inf_frame
    /\ inference_postprocess_queue # <<>> => post_frame < inf_frame

\* The pixels of resize_output are never older than the latest frame pushed.
PixelOrder ==
    /\ \A f \in resize_output : f >= enqueued
    /\ pp = "resized" => resize_output = {num_frames_processed}
    /\ InputNotOlderThanFrame
-----------------------------------------------------------------------------
\* Every step keeps the handshake between inference and post-processing.
LEMMA HandshakeStep == IPTypeOK /\ Handshake /\ [IPNext]_ipVars => Handshake'
<1> SUFFICES ASSUME IPTypeOK, Handshake, [IPNext]_ipVars
             PROVE  Handshake'
  OBVIOUS
<1> USE InferencePipelineAssumption DEF IPTypeOK, Handshake, Awaiting, PostBusy, preVars,
    queues, infVars, postVars, PreStep, InfStep, PostStep
<1>1. CASE DiscardFrame
  BY <1>1 DEF DiscardFrame
<1>2. CASE TakeFrame
  BY <1>2 DEF TakeFrame
<1>3. CASE ResizeBegin
  BY <1>3 DEF ResizeBegin
<1>4. CASE ResizeEnd
  BY <1>4 DEF ResizeEnd
<1>5. CASE PushFrame
  BY <1>5 DEF PushFrame
<1>6. CASE NotifyInference
  BY <1>6 DEF NotifyInference
<1>7. CASE StartCycle
  BY <1>7 DEF StartCycle
<1>8. CASE TakeInput
  BY <1>8 DEF TakeInput
<1>9. CASE SleepForInput
  BY <1>9 DEF SleepForInput
<1>10. CASE FillEnd
  BY <1>10 DEF FillEnd
<1>11. CASE Invoke
  BY <1>11 DEF Invoke
<1>12. CASE PushResult
  BY <1>12 DEF PushResult
<1>13. CASE TrimInput
  BY <1>13 DEF TrimInput
<1>14. CASE TrimInputDone
  BY <1>14 DEF TrimInputDone
<1>15. CASE TrimResult
  BY <1>15 DEF TrimResult
<1>16. CASE TrimResultDone
  BY <1>16 DEF TrimResultDone
<1>17. CASE CheckFinish
  BY <1>17 DEF CheckFinish
<1>18. CASE SleepForFinish
  BY <1>18 DEF SleepForFinish
<1>19. CASE PostLoopTest
  BY <1>19 DEF PostLoopTest
<1>20. CASE TakeResult
  BY <1>20 DEF TakeResult
<1>21. CASE SleepForResult
  BY <1>21 DEF SleepForResult
<1>22. CASE PopEnd
  BY <1>22 DEF PopEnd
<1>23. CASE SetFinish
  BY <1>23 DEF SetFinish
<1>24. CASE NotifyFinish
  BY <1>24 DEF NotifyFinish
<1>25. CASE SpuriousWake
  BY <1>25 DEF SpuriousWake
<1>26. CASE Stop
  BY <1>26 DEF Stop
<1>27. CASE UNCHANGED ipVars
  BY <1>27 DEF ipVars
<1>28. QED
  BY <1>1, <1>2, <1>3, <1>4, <1>5, <1>6, <1>7, <1>8, <1>9, <1>10, <1>11,
     <1>12, <1>13, <1>14, <1>15, <1>16, <1>17, <1>18, <1>19, <1>20, <1>21,
     <1>22, <1>23, <1>24, <1>25, <1>26, <1>27
     DEF IPNext, PreprocessFrame, InferenceWorker, PostprocessWorker

\* Every step keeps the frames ordered along the pipeline.
LEMMA FrameOrderStep == IPTypeOK /\ Handshake /\ FrameOrder /\ [IPNext]_ipVars => FrameOrder'
<1> SUFFICES ASSUME IPTypeOK, Handshake, FrameOrder, [IPNext]_ipVars
             PROVE  FrameOrder'
  OBVIOUS
<1> USE InferencePipelineAssumption DEF IPTypeOK, Handshake, Awaiting, PostBusy, FrameOrder, preVars,
    queues, infVars, postVars, PreStep, InfStep, PostStep
<1>1. CASE DiscardFrame
  BY <1>1 DEF DiscardFrame
<1>2. CASE TakeFrame
  BY <1>2 DEF TakeFrame
<1>3. CASE ResizeBegin
  BY <1>3 DEF ResizeBegin
<1>4. CASE ResizeEnd
  BY <1>4 DEF ResizeEnd
<1>5. CASE PushFrame
  <2> DEFINE q == preprocess_inference_queue
  <2>1. /\ q' = Append(q, num_frames_processed)
        /\ enqueued' = num_frames_processed
        /\ enqueued < num_frames_processed
        /\ pp' = "pushing"
        /\ UNCHANGED <<num_frames_processed, inf, inf_frame, post_frame,
                       inference_postprocess_queue>>
    BY <1>5 DEF PushFrame
  <2>2. /\ Len(q) \in Nat /\ Len(q') = Len(q) + 1
        /\ \A i \in 1 .. Len(q) : q'[i] = q[i]
        /\ q'[Len(q) + 1] = num_frames_processed
    BY <2>1, PushElements
  <2>3. \A i \in 1 .. Len(q) : inf_frame < q[i] /\ q[i] <= enqueued
    OBVIOUS
  <2>4. \A i \in 1 .. Len(q') : inf_frame' < q'[i] /\ q'[i] <= enqueued'
    <3> TAKE i \in 1 .. Len(q')
    <3>1. CASE i = Len(q) + 1
      BY <3>1, <2>1, <2>2
    <3>2. CASE i \in 1 .. Len(q)
      <4>0. q \in Seq(Nat)
        OBVIOUS
      <4>1. q'[i] = q[i] /\ inf_frame < q[i] /\ q[i] <= enqueued /\ q[i] \in Nat
        BY ONLY <4>0, <3>2, <2>2, <2>3
      <4>2. inf_frame' = inf_frame /\ enqueued' = num_frames_processed
        BY <2>1
      <4>3. enqueued < num_frames_processed /\ enqueued \in Nat /\ num_frames_processed \in Nat
        BY <2>1
      <4>4. q[i] <= num_frames_processed
        BY ONLY <4>1, <4>3
      <4>5. QED
        BY ONLY <4>1, <4>2, <4>4
    <3>3. QED
      BY <3>1, <3>2, <2>2
  <2>5. \A i, j \in 1 .. Len(q') : i < j => q'[i] < q'[j]
    <3> SUFFICES ASSUME NEW i \in 1 .. Len(q'), NEW j \in 1 .. Len(q'), i < j
                 PROVE  q'[i] < q'[j]
      OBVIOUS
    <3>1. i \in 1 .. Len(q) /\ q'[i] = q[i] /\ q[i] <= enqueued /\ q[i] \in Nat
      BY <2>2, <2>3
    <3>2. CASE j = Len(q) + 1
      BY <3>1, <3>2, <2>1, <2>2
    <3>3. CASE j \in 1 .. Len(q)
      BY <3>1, <3>3, <2>2
    <3>4. j = Len(q) + 1 \/ j \in 1 .. Len(q)
      <4>1. j \in 1 .. Len(q) + 1
        BY <2>2
      <4>2. QED
        BY <4>1, <2>2, LastOrEarlier
    <3>5. QED
      BY <3>2, <3>3, <3>4
  <2>6. QED
    BY <2>1, <2>4, <2>5
<1>6. CASE NotifyInference
  BY <1>6 DEF NotifyInference
<1>7. CASE StartCycle
  BY <1>7 DEF StartCycle
<1>8. CASE TakeInput
  BY <1>8 DEF TakeInput
<1>9. CASE SleepForInput
  BY <1>9 DEF SleepForInput
<1>10. CASE FillEnd
  BY <1>10 DEF FillEnd
<1>11. CASE Invoke
  BY <1>11 DEF Invoke
<1>12. CASE PushResult
  BY <1>12 DEF PushResult
<1>13. CASE TrimInput
  <2> DEFINE q == preprocess_inference_queue
  <2>1. /\ UNCHANGED <<num_frames_processed, enqueued, pp, inf, inf_frame, post_frame,
                       inference_postprocess_queue>>
        /\ \/ q # <<>> /\ q' = Tail(q)
           \/ q' = q
    BY <1>13 DEF TrimInput
  <2>2. CASE q # <<>> /\ q' = Tail(q)
    <3>1. /\ Len(q) \in Nat /\ Len(q') = Len(q) - 1
          /\ \A i \in 1 .. Len(q) - 1 : q'[i] = q[i + 1]
      BY <2>2, PopElements
    <3>2. \A i \in 1 .. Len(q') : /\ i + 1 \in 1 .. Len(q)
                                 /\ q'[i] = q[i + 1]
      BY <3>1
    <3>3. \A i \in 1 .. Len(q') : inf_frame' < q'[i] /\ q'[i] <= enqueued'
      BY <3>2, <2>1
    <3>4. \A i, j \in 1 .. Len(q') : i < j => q'[i] < q'[j]
      <4> SUFFICES ASSUME NEW i \in 1 .. Len(q'), NEW j \in 1 .. Len(q'), i < j
                   PROVE  q'[i] < q'[j]
        OBVIOUS
      <4>1. i + 1 \in 1 .. Len(q) /\ j + 1 \in 1 .. Len(q) /\ i + 1 < j + 1
        BY <3>2
      <4>2. q[i + 1] < q[j + 1]
        BY <4>1
      <4>3. QED
        BY <3>2, <4>2
    <3>5. QED
      BY <2>1, <3>3, <3>4
  <2>3. CASE q' = q
    BY <2>1, <2>3
  <2>4. QED
    BY <2>1, <2>2, <2>3
<1>14. CASE TrimInputDone
  BY <1>14 DEF TrimInputDone
<1>15. CASE TrimResult
  BY <1>15 DEF TrimResult
<1>16. CASE TrimResultDone
  BY <1>16 DEF TrimResultDone
<1>17. CASE CheckFinish
  BY <1>17 DEF CheckFinish
<1>18. CASE SleepForFinish
  BY <1>18 DEF SleepForFinish
<1>19. CASE PostLoopTest
  BY <1>19 DEF PostLoopTest
<1>20. CASE TakeResult
  BY <1>20 DEF TakeResult
<1>21. CASE SleepForResult
  BY <1>21 DEF SleepForResult
<1>22. CASE PopEnd
  BY <1>22 DEF PopEnd
<1>23. CASE SetFinish
  BY <1>23 DEF SetFinish
<1>24. CASE NotifyFinish
  BY <1>24 DEF NotifyFinish
<1>25. CASE SpuriousWake
  BY <1>25 DEF SpuriousWake
<1>26. CASE Stop
  BY <1>26 DEF Stop
<1>27. CASE UNCHANGED ipVars
  BY <1>27 DEF ipVars
<1>28. QED
  BY <1>1, <1>2, <1>3, <1>4, <1>5, <1>6, <1>7, <1>8, <1>9, <1>10, <1>11,
     <1>12, <1>13, <1>14, <1>15, <1>16, <1>17, <1>18, <1>19, <1>20, <1>21,
     <1>22, <1>23, <1>24, <1>25, <1>26, <1>27
     DEF IPNext, PreprocessFrame, InferenceWorker, PostprocessWorker

\* Every step keeps the pixels at least as new as the latest frame pushed.
LEMMA PixelOrderStep == IPTypeOK /\ FrameOrder /\ PixelOrder /\ [IPNext]_ipVars => PixelOrder'
<1> SUFFICES ASSUME IPTypeOK, FrameOrder, PixelOrder, [IPNext]_ipVars
             PROVE  PixelOrder'
  OBVIOUS
<1> USE InferencePipelineAssumption DEF IPTypeOK, FrameOrder, PixelOrder, InputNotOlderThanFrame,
    preVars, queues, infVars, postVars, PreStep, InfStep, PostStep
<1>1. CASE DiscardFrame
  BY <1>1 DEF DiscardFrame
<1>2. CASE TakeFrame
  BY <1>2 DEF TakeFrame
<1>3. CASE ResizeBegin
  BY <1>3 DEF ResizeBegin
<1>4. CASE ResizeEnd
  BY <1>4 DEF ResizeEnd
<1>5. CASE PushFrame
  BY <1>5 DEF PushFrame
<1>6. CASE NotifyInference
  BY <1>6 DEF NotifyInference
<1>7. CASE StartCycle
  BY <1>7 DEF StartCycle
<1>8. CASE TakeInput
  <2> DEFINE q == preprocess_inference_queue
  <2>1. /\ q # <<>> /\ inf_frame' = Head(q) /\ inf' = "filling"
        /\ input' = IF SharedInput THEN resize_output ELSE {Head(q)}
        /\ UNCHANGED <<resize_output, enqueued, pp, num_frames_processed>>
    BY <1>8 DEF TakeInput
  <2>2. Head(q) \in Nat /\ Head(q) <= enqueued
    <3>1. Len(q) \in Nat \ {0} /\ Head(q) = q[1] /\ 1 \in 1 .. Len(q)
      BY <2>1
    <3>2. QED
      BY <3>1
  <2>3. \A f \in resize_output : f \in Nat /\ f >= enqueued
    OBVIOUS
  <2>4. \A f \in input' : f >= inf_frame'
    BY <2>1, <2>2, <2>3
  <2>5. QED
    BY <2>1, <2>4
<1>9. CASE SleepForInput
  BY <1>9 DEF SleepForInput
<1>10. CASE FillEnd
  BY <1>10 DEF FillEnd
<1>11. CASE Invoke
  BY <1>11 DEF Invoke
<1>12. CASE PushResult
  BY <1>12 DEF PushResult
<1>13. CASE TrimInput
  BY <1>13 DEF TrimInput
<1>14. CASE TrimInputDone
  BY <1>14 DEF TrimInputDone
<1>15. CASE TrimResult
  BY <1>15 DEF TrimResult
<1>16. CASE TrimResultDone
  BY <1>16 DEF TrimResultDone
<1>17. CASE CheckFinish
  BY <1>17 DEF CheckFinish
<1>18. CASE SleepForFinish
  BY <1>18 DEF SleepForFinish
<1>19. CASE PostLoopTest
  BY <1>19 DEF PostLoopTest
<1>20. CASE TakeResult
  BY <1>20 DEF TakeResult
<1>21. CASE SleepForResult
  BY <1>21 DEF SleepForResult
<1>22. CASE PopEnd
  BY <1>22 DEF PopEnd
<1>23. CASE SetFinish
  BY <1>23 DEF SetFinish
<1>24. CASE NotifyFinish
  BY <1>24 DEF NotifyFinish
<1>25. CASE SpuriousWake
  BY <1>25 DEF SpuriousWake
<1>26. CASE Stop
  BY <1>26 DEF Stop
<1>27. CASE UNCHANGED ipVars
  BY <1>27 DEF ipVars
<1>28. QED
  BY <1>1, <1>2, <1>3, <1>4, <1>5, <1>6, <1>7, <1>8, <1>9, <1>10, <1>11,
     <1>12, <1>13, <1>14, <1>15, <1>16, <1>17, <1>18, <1>19, <1>20, <1>21,
     <1>22, <1>23, <1>24, <1>25, <1>26, <1>27
     DEF IPNext, PreprocessFrame, InferenceWorker, PostprocessWorker
-----------------------------------------------------------------------------
(***************************************************************************)
(* The theorems.                                                             *)
(***************************************************************************)
IInv == IPTypeOK /\ Handshake /\ FrameOrder /\ PixelOrder

\* The conjunction of the four is inductive.
THEOREM PipelineInvariant == IPSpec => []IInv
<1>1. IPInit => IInv
  BY PipelineTypingInit DEF IPInit, IInv, Handshake, Awaiting, PostBusy, FrameOrder,
     PixelOrder, InputNotOlderThanFrame
<1>2. IInv /\ [IPNext]_ipVars => IInv'
  BY PipelineTypingStep, HandshakeStep, FrameOrderStep, PixelOrderStep DEF IInv
<1>3. QED
  BY <1>1, <1>2, PTL DEF IPSpec

\* While worker() reads the output tensors they hold its own frame's result and no
\* inference is running, under every schedule.
THEOREM PipelineOwnership == IPSpec => []ResultOwnership
<1>1. IInv => ResultOwnership
  BY DEF IInv, Handshake, Awaiting, PostBusy, ResultOwnership
<1>2. QED
  BY <1>1, PipelineInvariant, PTL

\* Inference never reads pixels older than the frame it reports.
THEOREM PipelineInputs == IPSpec => []InputNotOlderThanFrame
<1>1. IInv => InputNotOlderThanFrame
  BY DEF IInv, PixelOrder
<1>2. QED
  BY <1>1, PipelineInvariant, PTL

\* The three threads and their two queues implement an ordered lossy channel.
THEOREM PipelineOrder == IPSpec => PipelineIsOrderedChannel
<1>1. IPInit => Chan!ChanInit
  BY DEF IPInit, Chan!ChanInit
<1>2. IInv /\ [IPNext]_ipVars => [Chan!ChanNext]_(Chan!chanVars)
  <2> SUFFICES ASSUME IInv, [IPNext]_ipVars
               PROVE  Chan!ChanNext \/ UNCHANGED <<enqueued, post_frame, taken>>
    BY DEF Chan!chanVars
  <2> USE DEF preVars, queues, infVars, postVars, PreStep, InfStep, PostStep
  <2>1. CASE PushFrame
    <3>1. /\ enqueued' = num_frames_processed /\ enqueued' \in Nat
          /\ enqueued' > enqueued
          /\ UNCHANGED <<post_frame, taken>>
      BY <2>1 DEF PushFrame, IInv, IPTypeOK, FrameOrder
    <3>2. QED
      BY <3>1 DEF Chan!ChanNext, Chan!Send
  <2>2. CASE TakeResult
    <3>1. /\ inference_postprocess_queue = <<inf_frame>>
          /\ post_frame < inf_frame
          /\ inf_frame <= enqueued
      BY <2>2 DEF TakeResult, IInv, Handshake, Awaiting, FrameOrder
    <3>2. /\ post_frame' = inf_frame /\ post_frame' \in Nat
          /\ taken' = taken + 1
          /\ enqueued' = enqueued
      BY <2>2, <3>1 DEF TakeResult, IInv, IPTypeOK
    <3>3. QED
      BY <3>1, <3>2 DEF Chan!ChanNext, Chan!Deliver, IInv, IPTypeOK
  <2>3. CASE DiscardFrame
    BY <2>3 DEF DiscardFrame
  <2>4. CASE TakeFrame
    BY <2>4 DEF TakeFrame
  <2>5. CASE ResizeBegin
    BY <2>5 DEF ResizeBegin
  <2>6. CASE ResizeEnd
    BY <2>6 DEF ResizeEnd
  <2>7. CASE NotifyInference
    BY <2>7 DEF NotifyInference
  <2>8. CASE StartCycle
    BY <2>8 DEF StartCycle
  <2>9. CASE TakeInput
    BY <2>9 DEF TakeInput
  <2>10. CASE SleepForInput
    BY <2>10 DEF SleepForInput
  <2>11. CASE FillEnd
    BY <2>11 DEF FillEnd
  <2>12. CASE Invoke
    BY <2>12 DEF Invoke
  <2>13. CASE PushResult
    BY <2>13 DEF PushResult
  <2>14. CASE TrimInput
    BY <2>14 DEF TrimInput
  <2>15. CASE TrimInputDone
    BY <2>15 DEF TrimInputDone
  <2>16. CASE TrimResult
    BY <2>16 DEF TrimResult
  <2>17. CASE TrimResultDone
    BY <2>17 DEF TrimResultDone
  <2>18. CASE CheckFinish
    BY <2>18 DEF CheckFinish
  <2>19. CASE SleepForFinish
    BY <2>19 DEF SleepForFinish
  <2>20. CASE PostLoopTest
    BY <2>20 DEF PostLoopTest
  <2>21. CASE SleepForResult
    BY <2>21 DEF SleepForResult
  <2>22. CASE PopEnd
    BY <2>22 DEF PopEnd
  <2>23. CASE SetFinish
    BY <2>23 DEF SetFinish
  <2>24. CASE NotifyFinish
    BY <2>24 DEF NotifyFinish
  <2>25. CASE SpuriousWake
    BY <2>25 DEF SpuriousWake
  <2>26. CASE Stop
    BY <2>26 DEF Stop
  <2>27. CASE UNCHANGED ipVars
    BY <2>27 DEF ipVars
  <2>28. QED
    BY <2>1, <2>2, <2>3, <2>4, <2>5, <2>6, <2>7, <2>8, <2>9, <2>10,
       <2>11, <2>12, <2>13, <2>14, <2>15, <2>16, <2>17, <2>18, <2>19,
       <2>20, <2>21, <2>22, <2>23, <2>24, <2>25, <2>26, <2>27
       DEF IPNext, PreprocessFrame, InferenceWorker, PostprocessWorker
<1>3. QED
  BY <1>1, <1>2, PipelineInvariant, PTL DEF IPSpec, PipelineIsOrderedChannel, Chan!ChanSpec
=============================================================================
