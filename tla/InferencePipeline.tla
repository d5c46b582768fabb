-------------------------- MODULE InferencePipeline --------------------------
(***************************************************************************)
(* The three threads of run_inference_pipeline (inference_handler.cpp) from  *)
(* the conversion of a frame to the worker() call that publishes its result: *)
(*   - the end of preprocess_worker: resize into resize_output, push;        *)
(*   - inference_worker: pop, fill the input tensor, Invoke, push, trim both *)
(*     queues, wait for the post-processing of that frame;                   *)
(*   - postprocess_worker: pop, worker(), set postprocess_finish, notify.    *)
(*                                                                           *)
(* A frame is the value of num_frames_processed when preprocess() took it;   *)
(* an image buffer is the set of frames whose pixels it may hold.  A step of *)
(* the model is a critical section, or one access to what is shared without  *)
(* a lock: resize_output, postprocess_finish, and the two queues where the   *)
(* trimming loops pop them without their mutex.  The outcome of such a pop   *)
(* while the other thread is inside push() or pop() is undefined in C++:     *)
(* the size read may be anything, so an element more may go, and a pop of    *)
(* an emptied queue destroys it (corrupt), after which nothing is specified. *)
(***************************************************************************)
EXTENDS Integers, Sequences

CONSTANTS
    QUEUE_LIMIT,     \* length the queues are trimmed to (1)
    SharedInput,     \* TRUE: the image handed over is an alias of resize_output
                     \* (colour formats); FALSE: its own copy (RAW8, YOLOv8)
    MaxFrames        \* bound of the model on the frames taken by preprocess()

ASSUME InferencePipelineAssumption ==
    /\ QUEUE_LIMIT \in Nat \ {0}
    /\ SharedInput \in BOOLEAN
    /\ MaxFrames \in Nat

VARIABLES
    main_running,
    num_frames_processed,
    resize_output,                \* frames whose pixels may be in the buffer
    pp,                           \* where the end of preprocess_worker is
    preprocess_inference_queue,   \* frames
    inference_postprocess_queue,  \* frames
    postprocess_finish,
    inf,                          \* where inference_worker is
    inf_frame,                    \* frame of its pipeline_data
    input,                        \* frames whose pixels may be in the input tensor
    output,                       \* output tensors: [frame, input] of the last Invoke
    post,                         \* where postprocess_worker is
    post_frame,                   \* frame of its pipeline_data
    enqueued,                     \* history: the latest frame pushed
    taken,                        \* history: how many results were taken
    corrupt                       \* an unlocked pop has destroyed a queue

preVars  == <<num_frames_processed, resize_output, pp, enqueued>>
queues   == <<preprocess_inference_queue, inference_postprocess_queue, corrupt>>
infVars  == <<inf, inf_frame, input, output>>
postVars == <<post, post_frame, taken>>
ipVars == <<main_running, preVars, queues, postprocess_finish, infVars, postVars>>

IPInit ==
    /\ main_running = TRUE
    /\ num_frames_processed = 0
    /\ resize_output = {}
    /\ pp = "idle"
    /\ preprocess_inference_queue = <<>>
    /\ inference_postprocess_queue = <<>>
    /\ postprocess_finish = FALSE
    /\ inf = "loop" /\ inf_frame = 0 /\ input = {}
    /\ output = [frame |-> 0, input |-> {}]
    /\ post = "loop" /\ post_frame = 0 /\ taken = 0
    /\ enqueued = 0
    /\ corrupt = FALSE
-----------------------------------------------------------------------------
(***************************************************************************)
(* preprocess_worker from the call of preprocess() on.                       *)
(***************************************************************************)
PreStep ==
    /\ ~corrupt
    /\ UNCHANGED <<main_running, inference_postprocess_queue, corrupt,
                   postprocess_finish, postVars>>

\* (Variant: a discarded frame is taken off the count.)
DiscardFrameUncounted ==
    /\ main_running
    /\ pp = "idle"
    /\ num_frames_processed < MaxFrames
    /\ num_frames_processed' = num_frames_processed - 1
    /\ PreStep
    /\ UNCHANGED <<resize_output, pp, preprocess_inference_queue, enqueued, infVars>>

\* preprocess() counts the frame and returns false: it is the first one, which
\* only sizes the buffers, or its format is not supported.
DiscardFrame ==
    /\ main_running
    /\ pp = "idle"
    /\ num_frames_processed < MaxFrames
    /\ num_frames_processed' = num_frames_processed + 1
    /\ PreStep
    /\ UNCHANGED <<resize_output, pp, preprocess_inference_queue, enqueued, infVars>>

TakeFrame ==
    /\ main_running
    /\ pp = "idle"
    /\ num_frames_processed \in 1 .. MaxFrames - 1
    /\ num_frames_processed' = num_frames_processed + 1
    /\ pp' = "converting"
    /\ PreStep
    /\ UNCHANGED <<resize_output, preprocess_inference_queue, enqueued, infVars>>

\* The resize overwrites the one resize_output of the model helper, whoever may
\* still be reading it.
ResizeBegin ==
    /\ pp = "converting"
    /\ pp' = "resizing"
    /\ resize_output' = resize_output \cup {num_frames_processed}
    /\ input' = IF SharedInput /\ inf = "filling"
                THEN input \cup {num_frames_processed} ELSE input
    /\ PreStep
    /\ UNCHANGED <<num_frames_processed, preprocess_inference_queue, enqueued,
                   inf, inf_frame, output>>

ResizeEnd ==
    /\ pp = "resizing"
    /\ pp' = "resized"
    /\ resize_output' = {num_frames_processed}
    /\ PreStep
    /\ UNCHANGED <<num_frames_processed, preprocess_inference_queue, enqueued, infVars>>

\* (Variant: the frame is queued while its resize is still under way.)
PushFrameEarly ==
    /\ pp = "resizing"
    /\ pp' = "pushing"
    /\ preprocess_inference_queue' =
         Append(preprocess_inference_queue, num_frames_processed)
    /\ enqueued' = num_frames_processed
    /\ PreStep
    /\ UNCHANGED <<num_frames_processed, resize_output, infVars>>

\* Under preprocess_inference_mutex, which "pushing" stands for.
PushFrame ==
    /\ pp = "resized"
    /\ pp' = "pushing"
    /\ preprocess_inference_queue' =
         Append(preprocess_inference_queue, num_frames_processed)
    /\ enqueued' = num_frames_processed
    /\ PreStep
    /\ UNCHANGED <<num_frames_processed, resize_output, infVars>>

\* (Variant: the push is not followed by notify_one.)
NotifyInferenceForgotten ==
    /\ pp = "pushing"
    /\ pp' = "idle"
    /\ PreStep
    /\ UNCHANGED <<num_frames_processed, resize_output, preprocess_inference_queue,
                   enqueued, infVars>>

\* notify_one(), then the mutex is released.
NotifyInference ==
    /\ pp = "pushing"
    /\ pp' = "idle"
    /\ inf' = IF inf = "waiting" THEN "lock" ELSE inf
    /\ PreStep
    /\ UNCHANGED <<num_frames_processed, resize_output, preprocess_inference_queue,
                   enqueued, inf_frame, input, output>>
-----------------------------------------------------------------------------
(***************************************************************************)
(* inference_worker.                                                         *)
(***************************************************************************)
InfStep ==
    /\ ~corrupt
    /\ UNCHANGED <<main_running, preVars>>

\* (Variant: postprocess_finish is not reset at the start of a cycle.)
StartCycleNoReset ==
    /\ inf = "loop"
    /\ inf' = IF main_running THEN "lock" ELSE "exited"
    /\ InfStep
    /\ UNCHANGED <<queues, postprocess_finish, inf_frame, input, output, postVars>>

StartCycle ==
    /\ inf = "loop"
    /\ \/ /\ main_running
          /\ postprocess_finish' = FALSE
          /\ inf' = "lock"
       \/ /\ ~main_running
          /\ inf' = "exited"
          /\ UNCHANGED postprocess_finish
    /\ InfStep
    /\ UNCHANGED <<queues, inf_frame, input, output, postVars>>

\* (Variant: the front of the queue is read and not popped.)
TakeInputNoPop ==
    /\ inf = "lock"
    /\ pp # "pushing"
    /\ main_running
    /\ preprocess_inference_queue # <<>>
    /\ inf_frame' = Head(preprocess_inference_queue)
    /\ input' = IF SharedInput THEN resize_output
                ELSE {Head(preprocess_inference_queue)}
    /\ inf' = "filling"
    /\ InfStep
    /\ UNCHANGED <<queues, postprocess_finish, output, postVars>>

\* With the mutex: leave, take the front of the queue, or sleep.
TakeInput ==
    /\ inf = "lock"
    /\ pp # "pushing"
    /\ main_running
    /\ preprocess_inference_queue # <<>>
    /\ inf_frame' = Head(preprocess_inference_queue)
    /\ preprocess_inference_queue' = Tail(preprocess_inference_queue)
    /\ input' = IF SharedInput THEN resize_output
                ELSE {Head(preprocess_inference_queue)}
    /\ inf' = "filling"
    /\ InfStep
    /\ UNCHANGED <<inference_postprocess_queue, corrupt, postprocess_finish,
                   output, postVars>>

SleepForInput ==
    /\ inf = "lock"
    /\ pp # "pushing"
    /\ \/ /\ main_running
          /\ preprocess_inference_queue = <<>>
          /\ inf' = "waiting"
       \/ /\ ~main_running
          /\ inf' = "exited"
    /\ InfStep
    /\ UNCHANGED <<queues, postprocess_finish, inf_frame, input, output, postVars>>

\* The input tensor is filled; an input type that is not supported ends here.
FillEnd ==
    /\ inf = "filling"
    /\ inf' \in {"invoking", "loop"}
    /\ InfStep
    /\ UNCHANGED <<queues, postprocess_finish, inf_frame, input, output, postVars>>

\* Invoke() writes the output tensors; when it fails the frame is dropped.
Invoke ==
    /\ inf = "invoking"
    /\ output' = [frame |-> inf_frame, input |-> input]
    /\ inf' \in {"push", "loop"}
    /\ InfStep
    /\ UNCHANGED <<queues, postprocess_finish, inf_frame, input, postVars>>

\* (Variant: the push is not followed by notify_one.)
PushResultNoNotify ==
    /\ inf = "push"
    /\ post # "popping"
    /\ inference_postprocess_queue' = Append(inference_postprocess_queue, inf_frame)
    /\ inf' = "trim_input"
    /\ InfStep
    /\ UNCHANGED <<preprocess_inference_queue, corrupt, postprocess_finish,
                   inf_frame, input, output, postVars>>

PushResult ==
    /\ inf = "push"
    /\ post # "popping"
    /\ inference_postprocess_queue' = Append(inference_postprocess_queue, inf_frame)
    /\ post' = IF post = "waiting" THEN "lock" ELSE post
    /\ inf' = "trim_input"
    /\ InfStep
    /\ UNCHANGED <<preprocess_inference_queue, corrupt, postprocess_finish,
                   inf_frame, input, output, post_frame, taken>>

\* while (preprocess_inference_queue.size() > QUEUE_LIMIT) pop(), no mutex held.
TrimInput ==
    /\ inf = "trim_input"
    /\ Len(preprocess_inference_queue) > QUEUE_LIMIT \/ pp = "pushing"
    /\ \/ /\ preprocess_inference_queue # <<>>
          /\ preprocess_inference_queue' = Tail(preprocess_inference_queue)
          /\ UNCHANGED corrupt
       \/ /\ pp = "pushing"
          /\ preprocess_inference_queue = <<>>
          /\ corrupt' = TRUE
          /\ UNCHANGED preprocess_inference_queue
    /\ InfStep
    /\ UNCHANGED <<inference_postprocess_queue, postprocess_finish, infVars, postVars>>

TrimInputDone ==
    /\ inf = "trim_input"
    /\ Len(preprocess_inference_queue) <= QUEUE_LIMIT \/ pp = "pushing"
    /\ inf' = "trim_result"
    /\ InfStep
    /\ UNCHANGED <<queues, postprocess_finish, inf_frame, input, output, postVars>>

\* The same loop on the other queue, against the pop of postprocess_worker.
TrimResult ==
    /\ inf = "trim_result"
    /\ Len(inference_postprocess_queue) > QUEUE_LIMIT \/ post = "popping"
    /\ IF inference_postprocess_queue = <<>>
       THEN corrupt' = TRUE /\ UNCHANGED inference_postprocess_queue
       ELSE /\ inference_postprocess_queue' = Tail(inference_postprocess_queue)
            /\ UNCHANGED corrupt
    /\ InfStep
    /\ UNCHANGED <<preprocess_inference_queue, postprocess_finish, infVars, postVars>>

TrimResultDone ==
    /\ inf = "trim_result"
    /\ Len(inference_postprocess_queue) <= QUEUE_LIMIT
    /\ inf' = "await"
    /\ InfStep
    /\ UNCHANGED <<queues, postprocess_finish, inf_frame, input, output, postVars>>

\* Under postprocess_mutex the predicate is evaluated; falling asleep is another
\* step, and the thread that sets postprocess_finish does not take the mutex.
CheckFinish ==
    /\ inf = "await"
    /\ inf' = IF postprocess_finish THEN "loop" ELSE "checked"
    /\ InfStep
    /\ UNCHANGED <<queues, postprocess_finish, inf_frame, input, output, postVars>>

SleepForFinish ==
    /\ inf = "checked"
    /\ inf' = "sleeping"
    /\ InfStep
    /\ UNCHANGED <<queues, postprocess_finish, inf_frame, input, output, postVars>>

\* The standard lets a wait return without a notification.
SpuriousWake ==
    /\ \/ inf = "waiting"  /\ inf' = "lock"  /\ UNCHANGED post
       \/ inf = "sleeping" /\ inf' = "await" /\ UNCHANGED post
       \/ post = "waiting" /\ post' = "lock" /\ UNCHANGED inf
    /\ InfStep
    /\ UNCHANGED <<queues, postprocess_finish, inf_frame, input, output, post_frame, taken>>
-----------------------------------------------------------------------------
(***************************************************************************)
(* postprocess_worker.                                                       *)
(***************************************************************************)
PostStep ==
    /\ ~corrupt
    /\ UNCHANGED <<main_running, preVars, preprocess_inference_queue, corrupt,
                   inf_frame, input, output>>

PostLoopTest ==
    /\ post = "loop"
    /\ post' = IF main_running THEN "lock" ELSE "exited"
    /\ PostStep
    /\ UNCHANGED <<inference_postprocess_queue, postprocess_finish, inf, post_frame, taken>>

TakeResult ==
    /\ post = "lock"
    /\ main_running
    /\ inference_postprocess_queue # <<>>
    /\ post_frame' = Head(inference_postprocess_queue)
    /\ inference_postprocess_queue' = Tail(inference_postprocess_queue)
    /\ taken' = taken + 1
    /\ post' = "popping"
    /\ PostStep
    /\ UNCHANGED <<postprocess_finish, inf>>

SleepForResult ==
    /\ post = "lock"
    /\ \/ /\ main_running
          /\ inference_postprocess_queue = <<>>
          /\ post' = "waiting"
       \/ /\ ~main_running
          /\ post' = "exited"
    /\ PostStep
    /\ UNCHANGED <<inference_postprocess_queue, postprocess_finish, inf, post_frame, taken>>

\* pop() returns and the mutex is released: worker() begins to read the tensors.
PopEnd ==
    /\ post = "popping"
    /\ post' = "working"
    /\ PostStep
    /\ UNCHANGED <<inference_postprocess_queue, postprocess_finish, inf, post_frame, taken>>

\* worker() ends, published or failed: postprocess_finish is set without a lock.
SetFinish ==
    /\ post = "working"
    /\ postprocess_finish' = TRUE
    /\ post' = "notify"
    /\ PostStep
    /\ UNCHANGED <<inference_postprocess_queue, inf, post_frame, taken>>

NotifyFinish ==
    /\ post = "notify"
    /\ inf' = IF inf = "sleeping" THEN "await" ELSE inf
    /\ post' = "loop"
    /\ PostStep
    /\ UNCHANGED <<inference_postprocess_queue, postprocess_finish, post_frame, taken>>
-----------------------------------------------------------------------------
Stop ==
    /\ main_running
    /\ main_running' = FALSE
    /\ UNCHANGED <<preVars, queues, postprocess_finish, infVars, postVars>>

PreprocessFrame ==
    \/ DiscardFrame \/ TakeFrame
    \/ ResizeBegin \/ ResizeEnd \/ PushFrame \/ NotifyInference

InferenceWorker ==
    \/ StartCycle \/ TakeInput \/ SleepForInput \/ FillEnd \/ Invoke \/ PushResult
    \/ TrimInput \/ TrimInputDone \/ TrimResult \/ TrimResultDone
    \/ CheckFinish \/ SleepForFinish

PostprocessWorker ==
    \/ PostLoopTest \/ TakeResult \/ SleepForResult \/ PopEnd
    \/ SetFinish \/ NotifyFinish

IPNext ==
    PreprocessFrame \/ InferenceWorker \/ PostprocessWorker \/ SpuriousWake \/ Stop

IPSpec == IPInit /\ [][IPNext]_ipVars

\* Fairness of the scheduler: each thread keeps running when it can; the camera
\* need not deliver frames, and nothing obliges a wait to return spuriously.
IPFairness ==
    /\ WF_ipVars(ResizeBegin \/ ResizeEnd \/ PushFrame \/ NotifyInference)
    /\ WF_ipVars(InferenceWorker)
    /\ WF_ipVars(PostprocessWorker)

IPFairSpec == IPSpec /\ IPFairness
-----------------------------------------------------------------------------
(***************************************************************************)
(* Properties.                                                               *)
(***************************************************************************)

IPTypeOK ==
    /\ main_running \in BOOLEAN
    /\ num_frames_processed \in Nat
    /\ resize_output \in SUBSET Nat
    /\ pp \in {"idle", "converting", "resizing", "resized", "pushing"}
    /\ preprocess_inference_queue \in Seq(Nat)
    /\ inference_postprocess_queue \in Seq(Nat)
    /\ postprocess_finish \in BOOLEAN
    /\ inf \in {"loop", "lock", "waiting", "filling", "invoking", "push",
                "trim_input", "trim_result", "await", "checked", "sleeping", "exited"}
    /\ inf_frame \in Nat
    /\ input \in SUBSET Nat
    /\ output \in [frame : Nat, input : SUBSET Nat]
    /\ post \in {"loop", "lock", "waiting", "popping", "working", "notify", "exited"}
    /\ post_frame \in Nat
    /\ enqueued \in Nat
    /\ taken \in Nat
    /\ corrupt \in BOOLEAN

\* The interpreter has one set of tensors and no lock.  While worker() reads the
\* output tensors they hold the result for the frame it draws on, and inference
\* is not writing them: the postprocess_finish handshake (inference_handler.cpp
\* 129, 164-166, 196, 211) is what keeps the two threads apart.
ResultOwnership ==
    post = "working" => (inf # "invoking" /\ output.frame = post_frame)

\* From the push of a preprocessed frame to its post-processing the two queues,
\* trimmed by a third party without a lock, drop frames but never reorder,
\* repeat or invent one.
Chan == INSTANCE OrderedLossyChannel WITH sent <- enqueued, delivered <- post_frame,
                                handed <- taken
PipelineIsOrderedChannel == Chan!ChanSpec

\* Even when the queue holds aliases of the one resize buffer, inference never
\* reads pixels of a frame older than the one it reports: the tensor mixes at
\* worst the frame with later ones.
InputNotOlderThanFrame ==
    inf \in {"filling", "invoking"} => \A f \in input : f >= inf_frame

\* A sleeping inference_worker is woken for every frame queued: its wait has its
\* predicate, checked under the mutex of the push (lines 110-119, 130-132).
QueuedFrameWakesInference ==
    (inf = "waiting" /\ preprocess_inference_queue # <<>>)
        ~> (inf # "waiting" \/ corrupt)

\* Every inference result is taken by postprocess_worker, whatever the schedule,
\* unless the server is being stopped.
ResultIsTaken ==
    (inference_postprocess_queue # <<>>)
        ~> (inference_postprocess_queue = <<>> \/ ~main_running \/ corrupt)

\* "it populates the preprocessed frame into the inference queue for the
\* inference_postprocess worker to deal with" (inference_handler.cpp:65-66): a
\* queued frame is dealt with, or dropped for a later one, or the server stops.
Queued(f) == \E i \in DOMAIN preprocess_inference_queue :
                preprocess_inference_queue[i] = f
QueuedFrameIsDealtWith ==
    \A f \in 1 .. MaxFrames : Queued(f) ~> (~Queued(f) \/ ~main_running \/ corrupt)
=============================================================================
