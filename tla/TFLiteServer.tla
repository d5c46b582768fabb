---------------------------- MODULE TFLiteServer ----------------------------
(***************************************************************************)
(* The server process of main.cpp: the main thread with its start-up, its    *)
(* loop and its shutdown, the signal handler, the camera callback, and the   *)
(* three threads of run_inference_pipeline.  CameraQueue and                 *)
(* InferencePipeline are composed here: preprocess_worker belongs to both,   *)
(* so the steps of preprocess() are joint steps of the two.                  *)
(***************************************************************************)
EXTENDS Integers, Sequences

CONSTANTS QUEUE_SIZE, SKIP_N_FRAMES, Formats, QUEUE_LIMIT, SharedInput, MaxFrames

VARIABLES
    main_running,
    \* CameraQueue
    slots, insert_idx, n_skipped, cb, sent, gap, before, closed, pre, queue_index,
    slot, map_ready, seen, claimed, delivered, handed, overrun, early,
    \* InferencePipeline
    num_frames_processed, resize_output, pp, preprocess_inference_queue,
    inference_postprocess_queue, postprocess_finish, inf, inf_frame, input,
    output, post, post_frame, enqueued, taken, corrupt,
    \* the main thread and what only the composition sees
    main,            \* where main() is
    created,         \* pthread_create succeeded
    args_freed,      \* how often delete args has run
    signalled,       \* history: the signal handler has run
    metadata         \* pipeline_data->metadata: camera frame, per frame taken

CQ == INSTANCE CameraQueue
IP == INSTANCE InferencePipeline

\* What the two components assume of the constants they share with the process.
ASSUME ServerAssumption ==
    /\ {QUEUE_SIZE, QUEUE_LIMIT} \subseteq Nat \ {0}
    /\ {SKIP_N_FRAMES, MaxFrames} \subseteq Nat
    /\ Formats \subseteq CQ!AllFormats
    /\ SharedInput \in BOOLEAN

\* Variables of the two components, without and with the one they share.
cqOwn == <<slots, insert_idx, n_skipped, cb, sent, gap, before, closed, pre,
           queue_index, slot, map_ready, seen, claimed, delivered, handed, overrun, early>>
ipOwn == <<num_frames_processed, resize_output, pp, preprocess_inference_queue,
           inference_postprocess_queue, postprocess_finish, inf, inf_frame, input,
           output, post, post_frame, enqueued, taken, corrupt>>
cq == <<main_running, cqOwn>>
ip == <<main_running, ipOwn>>
mainVars == <<main, created, args_freed, signalled>>
serverVars == <<cq, ip, mainVars, metadata>>

\* Before line 100 main_running belongs to main alone (libmodal_pipe starts it at
\* 0); the two components begin their life with the value it is given there.
running == IF main = "init" THEN TRUE ELSE main_running
RingOfServer == INSTANCE CameraQueue WITH main_running <- running
PipelineOfServer == INSTANCE InferencePipeline WITH main_running <- running

ServerInit ==
    /\ main = "init" /\ main_running = FALSE
    /\ RingOfServer!CQInit
    /\ PipelineOfServer!IPInit
    /\ created = FALSE /\ args_freed = 0 /\ signalled = FALSE
    /\ metadata = [f \in 1 .. MaxFrames |-> 0]

\* The process is there; its threads; the thread of the camera callback.
Alive == main # "returned"
Threads == Alive /\ created
Client == Alive /\ main \notin {"init", "create", "open"}
-----------------------------------------------------------------------------
(***************************************************************************)
(* The main thread.                                                          *)
(***************************************************************************)

\* (Variant: the handler also releases inference_worker from its wait.)
SignalSetsFinish ==
    /\ Alive
    /\ ~signalled
    /\ signalled' = TRUE
    /\ main_running' = FALSE
    /\ postprocess_finish' = TRUE
    /\ UNCHANGED <<cqOwn, num_frames_processed, resize_output, pp,
                   preprocess_inference_queue, inference_postprocess_queue, inf,
                   inf_frame, input, output, post, post_frame, enqueued, taken,
                   corrupt, main, created, args_freed, metadata>>

\* SIGINT and SIGTERM clear main_running; the handler is installed before init.
Signal ==
    /\ Alive
    /\ ~signalled
    /\ signalled' = TRUE
    /\ main_running' = FALSE
    /\ UNCHANGED <<cqOwn, ipOwn, main, created, args_freed, metadata>>

\* create_model_helper() has returned; main_running = 1.
StartRunning ==
    /\ main = "init"
    /\ main_running' = TRUE
    /\ main' = "create"
    /\ UNCHANGED <<cqOwn, ipOwn, created, args_freed, signalled, metadata>>

\* A failure of pthread_create is reported, args is deleted, and main goes on.
CreateThreads ==
    /\ main = "create"
    /\ main' = "open"
    /\ \/ created' = TRUE /\ UNCHANGED args_freed
       \/ created' = FALSE /\ args_freed' = args_freed + 1
    /\ UNCHANGED <<cq, ip, signalled, metadata>>

\* pipe_client_open starts the callback thread, or main returns -1 there.
OpenClient ==
    /\ main = "open"
    /\ main' \in {"servers", "returned"}
    /\ UNCHANGED <<cq, ip, created, args_freed, signalled, metadata>>

CreateServers ==
    /\ main = "servers"
    /\ main' = "serving"
    /\ UNCHANGED <<cq, ip, created, args_freed, signalled, metadata>>

\* (Variant: the pipe is closed without waiting for the callback.)
CloseClientAtOnce ==
    /\ main = "serving"
    /\ ~main_running
    /\ closed' = "closed"
    /\ main' = "closed"
    /\ UNCHANGED <<main_running, slots, insert_idx, n_skipped, cb, sent, gap, before, pre,
                   queue_index, slot, map_ready, seen, claimed, delivered, handed,
                   overrun, early, ipOwn, created, args_freed, signalled, metadata>>

\* The loop has seen main_running clear: pipe_client_close_all joins the thread
\* of the callback.
CloseClient ==
    /\ main = "serving"
    /\ CQ!CloseClient
    /\ main' = "closed"
    /\ UNCHANGED <<ipOwn, created, args_freed, signalled, metadata>>

NotifyWorkers ==
    /\ main = "closed"
    /\ CQ!NotifyStop
    /\ main' = "join"
    /\ UNCHANGED <<ipOwn, created, args_freed, signalled, metadata>>

\* (Variant: postprocess_thread is not joined.)
PostprocessNotJoined == pre = "exited" /\ inf = "exited"

\* pthread_join waits for run_inference_pipeline, which joins its three threads.
AllJoined == pre = "exited" /\ inf = "exited" /\ post = "exited"
Join ==
    /\ main = "join"
    /\ created => AllJoined
    /\ main' = "delete"
    /\ UNCHANGED <<cq, ip, created, args_freed, signalled, metadata>>

DeleteHelper ==
    /\ main = "delete"
    /\ args_freed' = args_freed + 1
    /\ main' = "deleted"
    /\ UNCHANGED <<cq, ip, created, signalled, metadata>>

Return ==
    /\ main = "deleted"
    /\ main' = "returned"
    /\ UNCHANGED <<cq, ip, created, args_freed, signalled, metadata>>

Main ==
    \/ StartRunning \/ CreateThreads \/ OpenClient \/ CreateServers
    \/ CloseClient \/ NotifyWorkers \/ Join \/ DeleteHelper \/ Return
-----------------------------------------------------------------------------
(***************************************************************************)
(* The other threads.                                                        *)
(***************************************************************************)

Callback ==
    /\ Client
    /\ CQ!Callback
    /\ UNCHANGED <<ipOwn, mainVars, metadata>>

\* preprocess_worker outside preprocess().
WaitForFrame ==
    /\ Threads
    /\ pp = "idle"
    /\ \/ CQ!LoopTest \/ CQ!FindEmpty \/ CQ!ClaimSlot \/ CQ!FallAsleep
       \/ CQ!StopBeforeFrame
    /\ UNCHANGED <<ipOwn, mainVars, metadata>>

PreprocessFrame ==
    /\ Threads
    /\ \/ (CQ!FirstFrame \/ CQ!RefuseFormat) /\ IP!DiscardFrame /\ UNCHANGED metadata
       \/ CQ!ReadBegin /\ IP!TakeFrame /\ UNCHANGED metadata
       \/ CQ!Reading /\ IP!ResizeBegin /\ UNCHANGED <<cqOwn, metadata>>
       \/ (CQ!ConvertEnd \/ CQ!MergeEnd) /\ IP!ResizeEnd /\ UNCHANGED metadata
       \/ /\ CQ!HandOver /\ IP!PushFrame
          /\ metadata' = [metadata EXCEPT ![num_frames_processed] = delivered']
       \/ IP!NotifyInference /\ UNCHANGED <<cqOwn, metadata>>
    /\ UNCHANGED mainVars

InferenceWorker ==
    /\ Threads
    /\ IP!InferenceWorker
    /\ UNCHANGED <<cqOwn, mainVars, metadata>>

PostprocessWorker ==
    /\ Threads
    /\ IP!PostprocessWorker
    /\ UNCHANGED <<cqOwn, mainVars, metadata>>

SpuriousWake ==
    /\ Threads
    /\ \/ CQ!SpuriousWake /\ UNCHANGED ipOwn
       \/ IP!SpuriousWake /\ UNCHANGED cqOwn
    /\ UNCHANGED <<mainVars, metadata>>

ServerNext ==
    \/ Signal \/ Main \/ Callback
    \/ WaitForFrame \/ PreprocessFrame
    \/ InferenceWorker \/ PostprocessWorker \/ SpuriousWake

ServerSpec == ServerInit /\ [][ServerNext]_serverVars

ServerFairSpec ==
    /\ ServerSpec
    /\ WF_serverVars(Main)
    /\ WF_serverVars(Callback /\ cb # "idle")
    /\ WF_serverVars(WaitForFrame \/ PreprocessFrame)
    /\ WF_serverVars(InferenceWorker)
    /\ WF_serverVars(PostprocessWorker)
-----------------------------------------------------------------------------
(***************************************************************************)
(* Properties.                                                               *)
(***************************************************************************)

ServerTypeOK ==
    /\ CQ!CQTypeOK
    /\ IP!IPTypeOK
    /\ main \in {"init", "create", "open", "servers", "serving", "closed", "join",
                 "delete", "deleted", "returned"}
    /\ created \in BOOLEAN
    /\ args_freed \in Nat
    /\ signalled \in BOOLEAN
    /\ metadata \in [1 .. MaxFrames -> Nat]

\* From the camera to worker(), through the ring, three threads and two trimmed
\* queues: results come out under their own camera frame, in camera order, none
\* twice - as long as no slot was overrun while it was read (overrun), or read
\* before the callback's stores into it had settled (early; main.cpp:263-266).
published == IF post_frame = 0 THEN 0 ELSE metadata[post_frame]
EndToEnd == INSTANCE OrderedLossyChannel WITH delivered <- published, handed <- taken
ResultsInCameraOrder ==
    EndToEnd!ChanInit /\ [][EndToEnd!ChanNext \/ overrun \/ early]_(EndToEnd!chanVars)

\* The two halves of preprocess_worker stay in step, so the server really is the
\* composition of the two components.
ServerImplementsRing == RingOfServer!CQSpec
ServerImplementsPipeline == PipelineOfServer!IPSpec

\* delete model_helper (main.cpp:202) comes after the last use of it by any
\* thread: callback, preprocess, inference and postprocess.
HelperOutlivesItsThreads ==
    main \in {"deleted", "returned"} /\ closed = "notified" /\ created
        => pre = "exited" /\ inf = "exited" /\ post = "exited" /\ cb = "idle"

\* "start signal handler so we can exit cleanly" (main.cpp:61): when a signal comes
\* to a process that is serving, main returns.
Serving == main = "serving" /\ created /\ ~signalled
ExitsCleanly == (Serving /\ <>signalled) ~> (main = "returned" \/ corrupt)
=============================================================================
