-------------------------- MODULE TFLiteServerProofs --------------------------
(***************************************************************************)
(* Proofs about TFLiteServer, for all values of the constants: the process   *)
(* implements its two components, so that what is proved of them holds of    *)
(* the process; results come out in camera order; the model helper is        *)
(* deleted last.                                                             *)
(***************************************************************************)
EXTENDS TFLiteServer, TLAPS

\* The theorems of the components, about the process.
Ring == INSTANCE CameraQueueProofs WITH main_running <- running
Pipeline == INSTANCE InferencePipelineProofs WITH main_running <- running

LEMMA Constants ==
    /\ CQ!CameraQueueAssumption /\ IP!InferencePipelineAssumption
    /\ Ring!CameraQueueAssumption /\ Pipeline!InferencePipelineAssumption
  BY ServerAssumption DEF CQ!CameraQueueAssumption, IP!InferencePipelineAssumption,
     Ring!CameraQueueAssumption, Pipeline!InferencePipelineAssumption,
     CQ!AllFormats, Ring!AllFormats
-----------------------------------------------------------------------------
(***************************************************************************)
(* The process implements its components.                                    *)
(***************************************************************************)

\* Only main() and the signal handler write main_running.
LEMMA FlagLeftAlone ==
    ASSUME \/ CQ!Callback \/ CQ!PreprocessWorker \/ CQ!SpuriousWake \/ CQ!CloseClient
           \/ CQ!NotifyStop
           \/ IP!PreprocessFrame \/ IP!InferenceWorker \/ IP!PostprocessWorker
           \/ IP!SpuriousWake
    PROVE  main_running' = main_running
  BY DEF CQ!Callback, CQ!SkipFrame, CQ!RefuseBackup, CQ!RefuseFrame, CQ!NotAccepted,
     CQ!AcceptFrame, CQ!StoreFrame, CQ!CopyDone, CQ!BumpIndex, CQ!BumpSeenFirst,
     CQ!Settle, CQ!NotifyFrame, CQ!PreprocessWorker, CQ!LoopTest, CQ!FindEmpty,
     CQ!ClaimSlot, CQ!FallAsleep, CQ!StopBeforeFrame, CQ!FirstFrame, CQ!RefuseFormat,
     CQ!ReadBegin, CQ!ConvertEnd, CQ!MergeEnd, CQ!HandOver, CQ!SpuriousWake,
     CQ!CloseClient, CQ!NotifyStop,
     IP!PreprocessFrame, IP!DiscardFrame, IP!TakeFrame, IP!ResizeBegin, IP!ResizeEnd,
     IP!PushFrame, IP!NotifyInference, IP!PreStep,
     IP!InferenceWorker, IP!StartCycle, IP!TakeInput, IP!SleepForInput, IP!FillEnd,
     IP!Invoke, IP!PushResult, IP!TrimInput, IP!TrimInputDone, IP!TrimResult,
     IP!TrimResultDone, IP!CheckFinish, IP!SleepForFinish, IP!InfStep,
     IP!PostprocessWorker, IP!PostLoopTest, IP!TakeResult, IP!SleepForResult, IP!PopEnd,
     IP!SetFinish, IP!NotifyFinish, IP!PostStep, IP!SpuriousWake

\* There are threads only once main() has given main_running its value, so that
\* what they read is what the components call main_running.
Started ==
    /\ main_running \in BOOLEAN
    /\ created => main \notin {"init", "create"}

LEMMA StartedStep == Started /\ [ServerNext]_serverVars => Started'
<1> SUFFICES ASSUME Started, [ServerNext]_serverVars
             PROVE  Started'
  OBVIOUS
<1> USE DEF Started, mainVars, cq
<1>1. CASE Signal
  BY <1>1 DEF Signal
<1>2. CASE Main
  <2>1. CASE CloseClient \/ NotifyWorkers
    BY <2>1, FlagLeftAlone DEF CloseClient, NotifyWorkers
  <2>2. CASE StartRunning
    BY <2>2 DEF StartRunning
  <2>3. CASE CreateThreads
    BY <2>3 DEF CreateThreads
  <2>4. CASE OpenClient \/ CreateServers \/ Join \/ DeleteHelper \/ Return
    BY <2>4 DEF OpenClient, CreateServers, Join, DeleteHelper, Return
  <2>5. QED
    BY <1>2, <2>1, <2>2, <2>3, <2>4 DEF Main
<1>3. CASE Callback \/ WaitForFrame \/ PreprocessFrame
  <2>1. \/ CQ!Callback \/ CQ!PreprocessWorker \/ IP!PreprocessFrame
    BY <1>3 DEF Callback, WaitForFrame, PreprocessFrame, CQ!PreprocessWorker,
       IP!PreprocessFrame
  <2>2. QED
    BY <1>3, <2>1, FlagLeftAlone DEF Callback, WaitForFrame, PreprocessFrame
<1>4. CASE InferenceWorker \/ PostprocessWorker \/ SpuriousWake
  BY <1>4, FlagLeftAlone DEF InferenceWorker, PostprocessWorker, SpuriousWake
<1>5. CASE UNCHANGED serverVars
  BY <1>5 DEF serverVars
<1>6. QED
  BY <1>1, <1>2, <1>3, <1>4, <1>5 DEF ServerNext

\* Once main_running has its value, a step of the callback or of the worker in the
\* process is one of the component.
LEMMA SameRingSteps ==
    ASSUME running = main_running, running' = main_running'
    PROVE  /\ CQ!Callback => RingOfServer!Callback
           /\ CQ!PreprocessWorker => RingOfServer!PreprocessWorker
           /\ CQ!SpuriousWake => RingOfServer!SpuriousWake
           /\ CQ!CloseClient => RingOfServer!CloseClient
           /\ CQ!NotifyStop => RingOfServer!NotifyStop
<1>1. CQ!Callback => RingOfServer!Callback
  BY DEF CQ!Callback, CQ!SkipFrame, CQ!RefuseBackup, CQ!RefuseFrame, CQ!AcceptFrame,
     CQ!CopyDone, CQ!BumpIndex, CQ!BumpSeenFirst, CQ!Settle, CQ!NotifyFrame,
     CQ!Arrive, CQ!NotAccepted, CQ!StoreFrame, CQ!Wake, CQ!Settling, CQ!Slot, CQ!NextSlot,
     CQ!Holding, CQ!Reading, CQ!Meta, CQ!NoMeta, CQ!workerVars, CQ!races,
     RingOfServer!Callback, RingOfServer!SkipFrame, RingOfServer!RefuseBackup,
     RingOfServer!RefuseFrame, RingOfServer!AcceptFrame, RingOfServer!CopyDone,
     RingOfServer!BumpIndex, RingOfServer!BumpSeenFirst, RingOfServer!Settle,
     RingOfServer!NotifyFrame, RingOfServer!Arrive, RingOfServer!NotAccepted,
     RingOfServer!StoreFrame, RingOfServer!Wake, RingOfServer!Settling, RingOfServer!Slot,
     RingOfServer!NextSlot, RingOfServer!Holding, RingOfServer!Reading,
     RingOfServer!Meta, RingOfServer!NoMeta,
     RingOfServer!workerVars, RingOfServer!races
<1>2. CQ!PreprocessWorker => RingOfServer!PreprocessWorker
  BY DEF CQ!PreprocessWorker, CQ!LoopTest, CQ!FindEmpty, CQ!ClaimSlot, CQ!FallAsleep,
     CQ!StopBeforeFrame, CQ!FirstFrame, CQ!RefuseFormat, CQ!ReadBegin, CQ!ConvertEnd,
     CQ!MergeEnd, CQ!HandOver, CQ!NextSlot, CQ!Settling, CQ!Unsettled, CQ!SeenMeta, CQ!Meta,
     CQ!callbackVars, CQ!workerVars, CQ!races,
     RingOfServer!PreprocessWorker, RingOfServer!LoopTest, RingOfServer!FindEmpty,
     RingOfServer!ClaimSlot, RingOfServer!FallAsleep, RingOfServer!StopBeforeFrame,
     RingOfServer!FirstFrame, RingOfServer!RefuseFormat, RingOfServer!ReadBegin,
     RingOfServer!ConvertEnd, RingOfServer!MergeEnd, RingOfServer!HandOver,
     RingOfServer!NextSlot, RingOfServer!Settling, RingOfServer!Unsettled,
     RingOfServer!SeenMeta, RingOfServer!Meta, RingOfServer!callbackVars,
     RingOfServer!workerVars, RingOfServer!races
<1>3. CQ!SpuriousWake => RingOfServer!SpuriousWake
  BY DEF CQ!SpuriousWake, CQ!callbackVars, CQ!workerVars, CQ!races,
     RingOfServer!SpuriousWake, RingOfServer!callbackVars, RingOfServer!workerVars,
     RingOfServer!races
<1>4. CQ!CloseClient => RingOfServer!CloseClient
  BY DEF CQ!CloseClient, CQ!Arrive, CQ!callbackVars, CQ!workerVars, CQ!races,
     RingOfServer!CloseClient, RingOfServer!Arrive, RingOfServer!callbackVars,
     RingOfServer!workerVars, RingOfServer!races
<1>5. CQ!NotifyStop => RingOfServer!NotifyStop
  BY DEF CQ!NotifyStop, CQ!Wake, CQ!callbackVars, CQ!workerVars, CQ!races,
     RingOfServer!NotifyStop, RingOfServer!Wake, RingOfServer!callbackVars,
     RingOfServer!workerVars, RingOfServer!races
<1>6. QED
  BY <1>1, <1>2, <1>3, <1>4, <1>5

\* A step of main() that leaves the ring alone is a stutter of the ring, unless it
\* changes what the ring reads as main_running.
LEMMA RingStutters ==
    ASSUME running' = running, UNCHANGED cqOwn
    PROVE  UNCHANGED RingOfServer!cqVars
  BY DEF cqOwn, RingOfServer!cqVars, RingOfServer!callbackVars, RingOfServer!workerVars,
     RingOfServer!races

\* Every step of the process is a step of the ring or leaves it alone.
LEMMA RingStep ==
    Started /\ [ServerNext]_serverVars => [RingOfServer!CQNext]_(RingOfServer!cqVars)
<1> SUFFICES ASSUME Started, [ServerNext]_serverVars
             PROVE  [RingOfServer!CQNext]_(RingOfServer!cqVars)
  OBVIOUS
<1> DEFINE Stutters == UNCHANGED RingOfServer!cqVars
<1> USE DEF mainVars, cq
<1>1. CASE Signal
  <2>1. UNCHANGED <<cqOwn, main>> /\ main_running' = FALSE
    BY <1>1 DEF Signal
  <2>2. CASE main = "init" \/ ~main_running
    <3>1. running' = running
      BY <2>1, <2>2 DEF running, Started
    <3>2. QED
      BY <2>1, <3>1, RingStutters
  <2>3. CASE main # "init" /\ main_running
    <3>1. RingOfServer!Stop
      BY <2>1, <2>3 DEF running, RingOfServer!Stop, cqOwn, RingOfServer!callbackVars,
         RingOfServer!workerVars, RingOfServer!races
    <3>2. QED
      BY <3>1 DEF RingOfServer!CQNext, RingOfServer!Shutdown
  <2>4. QED
    BY <2>2, <2>3
<1>2. CASE StartRunning
  BY <1>2, RingStutters DEF StartRunning, running
<1>3. CASE CreateThreads \/ OpenClient \/ CreateServers \/ Join \/ DeleteHelper \/ Return
  <2>1. running' = running /\ UNCHANGED cqOwn
    BY <1>3 DEF CreateThreads, OpenClient, CreateServers, Join, DeleteHelper, Return, running
  <2>2. QED
    BY <2>1, RingStutters
<1>4. CASE CloseClient
  <2>1. running = main_running /\ running' = main_running'
    BY <1>4 DEF CloseClient, running
  <2>2. RingOfServer!CloseClient
    BY <1>4, <2>1, SameRingSteps DEF CloseClient
  <2>3. QED
    BY <2>2 DEF RingOfServer!CQNext, RingOfServer!Shutdown
<1>5. CASE NotifyWorkers
  <2>1. running = main_running /\ running' = main_running'
    BY <1>5 DEF NotifyWorkers, running
  <2>2. RingOfServer!NotifyStop
    BY <1>5, <2>1, SameRingSteps DEF NotifyWorkers
  <2>3. QED
    BY <2>2 DEF RingOfServer!CQNext, RingOfServer!Shutdown
<1>6. CASE Callback
  <2>1. running = main_running /\ running' = main_running'
    BY <1>6 DEF Callback, Client, running
  <2>2. RingOfServer!Callback
    BY <1>6, <2>1, SameRingSteps DEF Callback
  <2>3. QED
    BY <2>2 DEF RingOfServer!CQNext
<1>7. CASE WaitForFrame
  <2>1. running = main_running /\ running' = main_running'
    BY <1>7 DEF WaitForFrame, Threads, Started, running
  <2>2. CQ!PreprocessWorker
    BY <1>7 DEF WaitForFrame, CQ!PreprocessWorker
  <2>3. RingOfServer!PreprocessWorker
    BY <2>1, <2>2, SameRingSteps
  <2>4. QED
    BY <2>3 DEF RingOfServer!CQNext
<1>8. CASE PreprocessFrame
  <2>1. running = main_running /\ running' = main_running'
    BY <1>8 DEF PreprocessFrame, Threads, Started, running
  <2>2. CQ!PreprocessWorker \/ (UNCHANGED cqOwn /\ main_running' = main_running)
    BY <1>8, FlagLeftAlone DEF PreprocessFrame, CQ!PreprocessWorker, IP!PreprocessFrame
  <2>3. CASE CQ!PreprocessWorker
    <3>1. RingOfServer!PreprocessWorker
      BY <2>1, <2>3, SameRingSteps
    <3>2. QED
      BY <3>1 DEF RingOfServer!CQNext
  <2>4. CASE UNCHANGED cqOwn /\ main_running' = main_running
    BY <2>1, <2>4, RingStutters
  <2>5. QED
    BY <2>2, <2>3, <2>4
<1>9. CASE InferenceWorker \/ PostprocessWorker \/ SpuriousWake
  <2>1. running = main_running /\ running' = main_running'
    BY <1>9 DEF InferenceWorker, PostprocessWorker, SpuriousWake, Threads, Started, running
  <2>2. CASE UNCHANGED cqOwn /\ main_running' = main_running
    BY <2>1, <2>2, RingStutters
  <2>3. CASE CQ!SpuriousWake
    <3>1. RingOfServer!SpuriousWake
      BY <2>1, <2>3, SameRingSteps
    <3>2. QED
      BY <3>1 DEF RingOfServer!CQNext
  <2>4. QED
    BY <1>9, <2>2, <2>3, FlagLeftAlone DEF InferenceWorker, PostprocessWorker, SpuriousWake
<1>10. CASE UNCHANGED serverVars
  <2>1. running' = running /\ UNCHANGED cqOwn
    BY <1>10 DEF serverVars, running
  <2>2. QED
    BY <2>1, RingStutters
<1>11. QED
  BY <1>1, <1>2, <1>3, <1>4, <1>5, <1>6, <1>7, <1>8, <1>9, <1>10 DEF ServerNext, Main

\* The process implements the ring: main(), with its start-up and shutdown, and
\* the threads of the pipeline do to it only what CameraQueue allows.
THEOREM ServerHasRing == ServerSpec => ServerImplementsRing
<1>1. ServerInit => Started /\ RingOfServer!CQInit
  BY DEF ServerInit, Started
<1>2. QED
  BY <1>1, StartedStep, RingStep, PTL DEF ServerSpec, ServerImplementsRing, RingOfServer!CQSpec

\* The same for the steps of the three threads on the pipeline.
LEMMA SamePipelineSteps ==
    ASSUME running = main_running, running' = main_running'
    PROVE  /\ IP!PreprocessFrame => PipelineOfServer!PreprocessFrame
           /\ IP!InferenceWorker => PipelineOfServer!InferenceWorker
           /\ IP!PostprocessWorker => PipelineOfServer!PostprocessWorker
           /\ IP!SpuriousWake => PipelineOfServer!SpuriousWake
<1>1. IP!PreprocessFrame => PipelineOfServer!PreprocessFrame
  BY DEF IP!PreprocessFrame, IP!DiscardFrame, IP!TakeFrame, IP!ResizeBegin,
     IP!ResizeEnd, IP!PushFrame, IP!NotifyInference, IP!PreStep, IP!preVars, IP!queues,
     IP!infVars, IP!postVars, PipelineOfServer!PreprocessFrame,
     PipelineOfServer!DiscardFrame, PipelineOfServer!TakeFrame,
     PipelineOfServer!ResizeBegin, PipelineOfServer!ResizeEnd,
     PipelineOfServer!PushFrame, PipelineOfServer!NotifyInference,
     PipelineOfServer!PreStep, PipelineOfServer!preVars, PipelineOfServer!queues,
     PipelineOfServer!infVars, PipelineOfServer!postVars
<1>2. IP!InferenceWorker => PipelineOfServer!InferenceWorker
  BY DEF IP!InferenceWorker, IP!StartCycle, IP!TakeInput, IP!SleepForInput, IP!FillEnd,
     IP!Invoke, IP!PushResult, IP!TrimInput, IP!TrimInputDone, IP!TrimResult,
     IP!TrimResultDone, IP!CheckFinish, IP!SleepForFinish, IP!InfStep, IP!preVars,
     IP!queues, IP!infVars, IP!postVars, PipelineOfServer!InferenceWorker,
     PipelineOfServer!StartCycle, PipelineOfServer!TakeInput,
     PipelineOfServer!SleepForInput, PipelineOfServer!FillEnd, PipelineOfServer!Invoke,
     PipelineOfServer!PushResult, PipelineOfServer!TrimInput,
     PipelineOfServer!TrimInputDone, PipelineOfServer!TrimResult,
     PipelineOfServer!TrimResultDone, PipelineOfServer!CheckFinish,
     PipelineOfServer!SleepForFinish, PipelineOfServer!InfStep,
     PipelineOfServer!preVars, PipelineOfServer!queues, PipelineOfServer!infVars,
     PipelineOfServer!postVars
<1>3. IP!PostprocessWorker => PipelineOfServer!PostprocessWorker
  BY DEF IP!PostprocessWorker, IP!PostLoopTest, IP!TakeResult, IP!SleepForResult,
     IP!PopEnd, IP!SetFinish, IP!NotifyFinish, IP!PostStep, IP!preVars, IP!queues,
     IP!infVars, IP!postVars, PipelineOfServer!PostprocessWorker,
     PipelineOfServer!PostLoopTest, PipelineOfServer!TakeResult,
     PipelineOfServer!SleepForResult, PipelineOfServer!PopEnd,
     PipelineOfServer!SetFinish, PipelineOfServer!NotifyFinish,
     PipelineOfServer!PostStep, PipelineOfServer!preVars, PipelineOfServer!queues,
     PipelineOfServer!infVars, PipelineOfServer!postVars
<1>4. IP!SpuriousWake => PipelineOfServer!SpuriousWake
  BY DEF IP!SpuriousWake, IP!InfStep, IP!preVars, IP!queues, IP!infVars, IP!postVars,
     PipelineOfServer!SpuriousWake, PipelineOfServer!InfStep, PipelineOfServer!preVars,
     PipelineOfServer!queues, PipelineOfServer!infVars, PipelineOfServer!postVars
<1>5. QED
  BY <1>1, <1>2, <1>3, <1>4

LEMMA PipelineStutters ==
    ASSUME running' = running, UNCHANGED ipOwn
    PROVE  UNCHANGED PipelineOfServer!ipVars
  BY DEF ipOwn, PipelineOfServer!ipVars, PipelineOfServer!preVars, PipelineOfServer!queues,
     PipelineOfServer!infVars, PipelineOfServer!postVars

\* Every step of the process is a step of the pipeline or leaves it alone.
LEMMA PipelineStep ==
    Started /\ [ServerNext]_serverVars
        => [PipelineOfServer!IPNext]_(PipelineOfServer!ipVars)
<1> SUFFICES ASSUME Started, [ServerNext]_serverVars
             PROVE  [PipelineOfServer!IPNext]_(PipelineOfServer!ipVars)
  OBVIOUS
<1> USE DEF mainVars, ip
<1>1. CASE Signal
  <2>1. UNCHANGED <<ipOwn, main>> /\ main_running' = FALSE
    BY <1>1 DEF Signal
  <2>2. CASE main = "init" \/ ~main_running
    <3>1. running' = running
      BY <2>1, <2>2 DEF running, Started
    <3>2. QED
      BY <2>1, <3>1, PipelineStutters
  <2>3. CASE main # "init" /\ main_running
    <3>1. PipelineOfServer!Stop
      BY <2>1, <2>3 DEF running, PipelineOfServer!Stop, ipOwn, PipelineOfServer!preVars,
         PipelineOfServer!queues, PipelineOfServer!infVars, PipelineOfServer!postVars
    <3>2. QED
      BY <3>1 DEF PipelineOfServer!IPNext
  <2>4. QED
    BY <2>2, <2>3
<1>2. CASE StartRunning
  BY <1>2, PipelineStutters DEF StartRunning, running
<1>3. CASE CreateThreads \/ OpenClient \/ CreateServers \/ Join \/ DeleteHelper \/ Return
  <2>1. running' = running /\ UNCHANGED ipOwn
    BY <1>3 DEF CreateThreads, OpenClient, CreateServers, Join, DeleteHelper, Return, running
  <2>2. QED
    BY <2>1, PipelineStutters
<1>4. CASE CloseClient \/ NotifyWorkers
  <2>1. running' = running /\ UNCHANGED ipOwn
    BY <1>4, FlagLeftAlone DEF CloseClient, NotifyWorkers, running
  <2>2. QED
    BY <2>1, PipelineStutters
<1>5. CASE Callback \/ WaitForFrame
  <2>1. running' = running /\ UNCHANGED ipOwn
    <3>1. CQ!Callback \/ CQ!PreprocessWorker
      BY <1>5 DEF Callback, WaitForFrame, CQ!PreprocessWorker
    <3>2. QED
      BY <1>5, <3>1, FlagLeftAlone DEF Callback, WaitForFrame, running
  <2>2. QED
    BY <2>1, PipelineStutters
<1>6. CASE PreprocessFrame
  <2>1. running = main_running /\ running' = main_running'
    BY <1>6 DEF PreprocessFrame, Threads, Started, running
  <2>2. IP!PreprocessFrame
    BY <1>6 DEF PreprocessFrame, IP!PreprocessFrame
  <2>3. PipelineOfServer!PreprocessFrame
    BY <2>1, <2>2, SamePipelineSteps
  <2>4. QED
    BY <2>3 DEF PipelineOfServer!IPNext
<1>7. CASE InferenceWorker \/ PostprocessWorker
  <2>1. running = main_running /\ running' = main_running'
    BY <1>7 DEF InferenceWorker, PostprocessWorker, Threads, Started, running
  <2>2. PipelineOfServer!InferenceWorker \/ PipelineOfServer!PostprocessWorker
    BY <1>7, <2>1, SamePipelineSteps DEF InferenceWorker, PostprocessWorker
  <2>3. QED
    BY <2>2 DEF PipelineOfServer!IPNext
<1>8. CASE SpuriousWake
  <2>1. running = main_running /\ running' = main_running'
    BY <1>8 DEF SpuriousWake, Threads, Started, running
  <2>2. CASE CQ!SpuriousWake /\ UNCHANGED ipOwn
    BY <2>1, <2>2, FlagLeftAlone, PipelineStutters
  <2>3. CASE IP!SpuriousWake
    <3>1. PipelineOfServer!SpuriousWake
      BY <2>1, <2>3, SamePipelineSteps
    <3>2. QED
      BY <3>1 DEF PipelineOfServer!IPNext
  <2>4. QED
    BY <1>8, <2>2, <2>3 DEF SpuriousWake
<1>9. CASE UNCHANGED serverVars
  <2>1. running' = running /\ UNCHANGED ipOwn
    BY <1>9 DEF serverVars, cq, running
  <2>2. QED
    BY <2>1, PipelineStutters
<1>10. QED
  BY <1>1, <1>2, <1>3, <1>4, <1>5, <1>6, <1>7, <1>8, <1>9 DEF ServerNext, Main

\* The process implements the pipeline.
THEOREM ServerHasPipeline == ServerSpec => ServerImplementsPipeline
<1>1. ServerInit => Started /\ PipelineOfServer!IPInit
  BY DEF ServerInit, Started
<1>2. QED
  BY <1>1, StartedStep, PipelineStep, PTL DEF ServerSpec, ServerImplementsPipeline,
     PipelineOfServer!IPSpec
-----------------------------------------------------------------------------
(***************************************************************************)
(* What is proved of the components holds of the process.                    *)
(***************************************************************************)

\* The proofs of a component are about its variables, whoever instantiates it.
LEMMA RingIsTheRing == RingOfServer!CQSpec => Ring!CQSpec
<1>1. RingOfServer!CQInit => Ring!CQInit
  BY DEF RingOfServer!CQInit, RingOfServer!Slot, RingOfServer!NoMeta, Ring!CQInit, Ring!Slot,
     Ring!NoMeta
<1>2. [RingOfServer!CQNext]_(RingOfServer!cqVars) => [Ring!CQNext]_(Ring!cqVars)
  <2> USE DEF RingOfServer!callbackVars, RingOfServer!workerVars, RingOfServer!races,
             Ring!callbackVars, Ring!workerVars, Ring!races
  <2>1. RingOfServer!Callback => Ring!Callback
    BY DEF RingOfServer!Callback, RingOfServer!SkipFrame, RingOfServer!RefuseBackup,
           RingOfServer!RefuseFrame, RingOfServer!AcceptFrame, RingOfServer!CopyDone,
           RingOfServer!BumpIndex, RingOfServer!BumpSeenFirst, RingOfServer!Settle,
           RingOfServer!NotifyFrame, RingOfServer!Arrive, RingOfServer!NotAccepted,
           RingOfServer!StoreFrame, RingOfServer!Wake, RingOfServer!Settling, RingOfServer!Slot,
           RingOfServer!NextSlot, RingOfServer!Holding, RingOfServer!Reading, RingOfServer!Meta,
           RingOfServer!NoMeta, Ring!Callback,
           Ring!SkipFrame, Ring!RefuseBackup, Ring!RefuseFrame, Ring!AcceptFrame, Ring!CopyDone,
           Ring!BumpIndex, Ring!BumpSeenFirst, Ring!Settle, Ring!NotifyFrame, Ring!Arrive,
           Ring!NotAccepted, Ring!StoreFrame, Ring!Wake, Ring!Settling, Ring!Slot, Ring!NextSlot,
           Ring!Holding, Ring!Reading, Ring!Meta, Ring!NoMeta
  <2>2. RingOfServer!PreprocessWorker => Ring!PreprocessWorker
    BY DEF RingOfServer!PreprocessWorker, RingOfServer!LoopTest, RingOfServer!FindEmpty,
           RingOfServer!ClaimSlot, RingOfServer!FallAsleep, RingOfServer!StopBeforeFrame,
           RingOfServer!FirstFrame, RingOfServer!RefuseFormat, RingOfServer!ReadBegin,
           RingOfServer!ConvertEnd, RingOfServer!MergeEnd, RingOfServer!HandOver,
           RingOfServer!NextSlot, RingOfServer!Settling, RingOfServer!Unsettled,
           RingOfServer!SeenMeta, RingOfServer!Meta, Ring!PreprocessWorker, Ring!LoopTest,
           Ring!FindEmpty, Ring!ClaimSlot, Ring!FallAsleep, Ring!StopBeforeFrame, Ring!FirstFrame,
           Ring!RefuseFormat, Ring!ReadBegin, Ring!ConvertEnd, Ring!MergeEnd, Ring!HandOver,
           Ring!NextSlot, Ring!Settling, Ring!Unsettled, Ring!SeenMeta, Ring!Meta
  <2>3. RingOfServer!SpuriousWake => Ring!SpuriousWake
    BY DEF RingOfServer!SpuriousWake, Ring!SpuriousWake
  <2>4. RingOfServer!Shutdown => Ring!Shutdown
    BY DEF RingOfServer!Shutdown, RingOfServer!Stop, RingOfServer!CloseClient,
           RingOfServer!NotifyStop, RingOfServer!Arrive, RingOfServer!Wake, Ring!Shutdown,
           Ring!Stop, Ring!CloseClient, Ring!NotifyStop, Ring!Arrive, Ring!Wake
  <2>5. UNCHANGED RingOfServer!cqVars => UNCHANGED Ring!cqVars
    BY DEF RingOfServer!cqVars, Ring!cqVars
  <2>6. QED
    BY <2>1, <2>2, <2>3, <2>4, <2>5 DEF RingOfServer!CQNext, Ring!CQNext
<1>3. QED
  BY <1>1, <1>2, PTL DEF RingOfServer!CQSpec, Ring!CQSpec

LEMMA PipelineIsThePipeline == PipelineOfServer!IPSpec => Pipeline!IPSpec
<1>1. PipelineOfServer!IPInit => Pipeline!IPInit
  BY DEF PipelineOfServer!IPInit, Pipeline!IPInit
<1>2. [PipelineOfServer!IPNext]_(PipelineOfServer!ipVars) => [Pipeline!IPNext]_(Pipeline!ipVars)
  <2> USE DEF PipelineOfServer!preVars, PipelineOfServer!queues, PipelineOfServer!infVars,
             PipelineOfServer!postVars, Pipeline!preVars, Pipeline!queues, Pipeline!infVars,
             Pipeline!postVars
  <2>1. PipelineOfServer!PreprocessFrame => Pipeline!PreprocessFrame
    BY DEF PipelineOfServer!PreprocessFrame, PipelineOfServer!DiscardFrame,
           PipelineOfServer!TakeFrame, PipelineOfServer!ResizeBegin, PipelineOfServer!ResizeEnd,
           PipelineOfServer!PushFrame, PipelineOfServer!NotifyInference, PipelineOfServer!PreStep,
           Pipeline!PreprocessFrame, Pipeline!DiscardFrame, Pipeline!TakeFrame,
           Pipeline!ResizeBegin, Pipeline!ResizeEnd, Pipeline!PushFrame, Pipeline!NotifyInference,
           Pipeline!PreStep
  <2>2. PipelineOfServer!InferenceWorker => Pipeline!InferenceWorker
    BY DEF PipelineOfServer!InferenceWorker, PipelineOfServer!StartCycle,
           PipelineOfServer!TakeInput, PipelineOfServer!SleepForInput, PipelineOfServer!FillEnd,
           PipelineOfServer!Invoke, PipelineOfServer!PushResult, PipelineOfServer!TrimInput,
           PipelineOfServer!TrimInputDone, PipelineOfServer!TrimResult,
           PipelineOfServer!TrimResultDone, PipelineOfServer!CheckFinish,
           PipelineOfServer!SleepForFinish, PipelineOfServer!InfStep, Pipeline!InferenceWorker,
           Pipeline!StartCycle, Pipeline!TakeInput, Pipeline!SleepForInput, Pipeline!FillEnd,
           Pipeline!Invoke, Pipeline!PushResult, Pipeline!TrimInput, Pipeline!TrimInputDone,
           Pipeline!TrimResult, Pipeline!TrimResultDone, Pipeline!CheckFinish,
           Pipeline!SleepForFinish, Pipeline!InfStep
  <2>3. PipelineOfServer!PostprocessWorker => Pipeline!PostprocessWorker
    BY DEF PipelineOfServer!PostprocessWorker, PipelineOfServer!PostLoopTest,
           PipelineOfServer!TakeResult, PipelineOfServer!SleepForResult, PipelineOfServer!PopEnd,
           PipelineOfServer!SetFinish, PipelineOfServer!NotifyFinish, PipelineOfServer!PostStep,
           Pipeline!PostprocessWorker, Pipeline!PostLoopTest, Pipeline!TakeResult,
           Pipeline!SleepForResult, Pipeline!PopEnd, Pipeline!SetFinish, Pipeline!NotifyFinish,
           Pipeline!PostStep
  <2>4. PipelineOfServer!SpuriousWake => Pipeline!SpuriousWake
    BY DEF PipelineOfServer!SpuriousWake, PipelineOfServer!InfStep, Pipeline!SpuriousWake,
           Pipeline!InfStep
  <2>5. PipelineOfServer!Stop => Pipeline!Stop
    BY DEF PipelineOfServer!Stop, Pipeline!Stop
  <2>6. UNCHANGED PipelineOfServer!ipVars => UNCHANGED Pipeline!ipVars
    BY DEF PipelineOfServer!ipVars, Pipeline!ipVars
  <2>7. QED
    BY <2>1, <2>2, <2>3, <2>4, <2>5, <2>6 DEF PipelineOfServer!IPNext, Pipeline!IPNext
<1>3. QED
  BY <1>1, <1>2, PTL DEF PipelineOfServer!IPSpec, Pipeline!IPSpec

\* The invariants of the two components hold of the process, so that it serves
\* with the images, the tensors and the frames its components promise.
ComponentsInv == Ring!RingInv /\ Pipeline!IInv

LEMMA ComponentsInvariant == ServerSpec => []ComponentsInv
<1>1. ServerSpec => []Ring!RingInv
  BY ServerHasRing, RingIsTheRing, Constants, Ring!RingInvariant DEF ServerImplementsRing
<1>2. ServerSpec => []Pipeline!IInv
  BY ServerHasPipeline, PipelineIsThePipeline, Constants, Pipeline!PipelineInvariant
     DEF ServerImplementsPipeline
<1>3. QED
  BY <1>1, <1>2, PTL DEF ComponentsInv

\* The state of a component, in the terms of the process.
LEMMA ComponentFacts ==
    ASSUME ComponentsInv
    PROVE  /\ sent \in Nat /\ delivered \in Nat /\ claimed \in Nat
           /\ overrun \in BOOLEAN /\ early \in BOOLEAN
           /\ {enqueued, num_frames_processed, inf_frame, post_frame, taken} \subseteq Nat
           /\ preprocess_inference_queue \in Seq(Nat)
           /\ inference_postprocess_queue \in Seq(Nat)
           /\ claimed <= sent
           /\ ~overrun => /\ delivered <= claimed
                          /\ CQ!Holding => delivered < claimed
           /\ \A i \in 1 .. Len(preprocess_inference_queue) :
                /\ inf_frame < preprocess_inference_queue[i]
                /\ preprocess_inference_queue[i] <= enqueued
           /\ post_frame <= inf_frame /\ inf_frame <= enqueued
           /\ enqueued <= num_frames_processed
           /\ pp \in {"converting", "resizing", "resized"} => enqueued < num_frames_processed
           /\ inference_postprocess_queue # <<>> =>
                /\ inference_postprocess_queue = <<inf_frame>>
                /\ post_frame < inf_frame
<1> USE DEF ComponentsInv
<1>1. /\ sent \in Nat /\ delivered \in Nat /\ claimed \in Nat
      /\ overrun \in BOOLEAN /\ early \in BOOLEAN
  BY DEF Ring!RingInv, Ring!CQTypeOK
<1>2. claimed <= sent
  BY <1>1 DEF Ring!RingInv, Ring!WorkerPosition, Ring!Inserted
<1>3. ~overrun => /\ delivered <= claimed
                  /\ CQ!Holding => delivered < claimed
  BY DEF Ring!RingInv, Ring!HeldFrame, Ring!Holding, Ring!Reading, CQ!Holding, CQ!Reading
<1>4. /\ {enqueued, num_frames_processed, inf_frame, post_frame, taken} \subseteq Nat
      /\ preprocess_inference_queue \in Seq(Nat)
      /\ inference_postprocess_queue \in Seq(Nat)
  BY DEF Pipeline!IInv, Pipeline!IPTypeOK
<1>5. /\ \A i \in 1 .. Len(preprocess_inference_queue) :
           /\ inf_frame < preprocess_inference_queue[i]
           /\ preprocess_inference_queue[i] <= enqueued
      /\ post_frame <= inf_frame /\ inf_frame <= enqueued
      /\ enqueued <= num_frames_processed
      /\ pp \in {"converting", "resizing", "resized"} => enqueued < num_frames_processed
      /\ inference_postprocess_queue # <<>> => post_frame < inf_frame
  BY DEF Pipeline!IInv, Pipeline!FrameOrder
<1>6. inference_postprocess_queue # <<>> => inference_postprocess_queue = <<inf_frame>>
  BY DEF Pipeline!IInv, Pipeline!Handshake, Pipeline!IPTypeOK
<1>7. QED
  BY <1>1, <1>2, <1>3, <1>4, <1>5, <1>6
-----------------------------------------------------------------------------
(***************************************************************************)
(* Results in camera order.                                                  *)
(***************************************************************************)

\* The camera frames recorded for the frames of the pipeline grow with them; a
\* frame has its record once it has been pushed.
MetadataInOrder ==
    /\ metadata \in [1 .. MaxFrames -> Nat]
    /\ num_frames_processed <= MaxFrames
    /\ \A f \in 1 .. MaxFrames : f > enqueued => metadata[f] = 0
    /\ \A i \in 1 .. Len(preprocess_inference_queue) :
         metadata[preprocess_inference_queue[i]] # 0
    /\ inf_frame # 0 => metadata[inf_frame] # 0
    /\ post_frame # 0 => metadata[post_frame] # 0
    /\ \A f \in 1 .. MaxFrames : metadata[f] <= delivered
    /\ \A f, g \in 1 .. MaxFrames :
         f < g /\ metadata[f] # 0 /\ metadata[g] # 0 => metadata[f] < metadata[g]

\* One of the two races of the ring has happened.
Raced == overrun \/ early

\* From a slot that was neither overrun nor unsettled the metadata of the claimed
\* frame goes out.
LEMMA ClaimedHandedOver ==
    ASSUME ComponentsInv, CQ!HandOver, ~Raced'
    PROVE  delivered' = claimed /\ delivered < claimed
<1>1. /\ pre = "converted" /\ overrun' = overrun /\ early' = (early \/ Ring!Settling(slot))
      /\ \E m \in Ring!SeenMeta(slot) : delivered' = m.frame
  BY DEF CQ!HandOver, CQ!SeenMeta, CQ!Unsettled, CQ!Settling, CQ!NextSlot, CQ!Meta,
     Ring!SeenMeta, Ring!Unsettled, Ring!Settling, Ring!NextSlot, Ring!Meta
<1>2. ~overrun /\ ~Ring!Settling(slot)
  BY <1>1 DEF Raced
<1>3. delivered' = claimed
  BY <1>1, <1>2, Constants, Ring!SeenMetadata DEF ComponentsInv, Ring!RingInv, Ring!Holding
<1>4. delivered < claimed
  BY <1>1, <1>2, ComponentFacts DEF CQ!Holding
<1>5. QED
  BY <1>3, <1>4

metaVars == <<metadata, num_frames_processed, enqueued, preprocess_inference_queue,
              inf_frame, post_frame, delivered>>

\* A frame is pushed under the metadata of the slot that was converted.
LEMMA MetadataAfterPush ==
    ASSUME ComponentsInv, MetadataInOrder, ~Raced', CQ!HandOver, IP!PushFrame,
           metadata' = [metadata EXCEPT ![num_frames_processed] = delivered']
    PROVE  MetadataInOrder'
<1> DEFINE n == num_frames_processed
           q == preprocess_inference_queue
<1>1. /\ n \in 1 .. MaxFrames /\ enqueued < n /\ enqueued \in Nat /\ n \in Nat
      /\ enqueued' = n /\ n' = n /\ q' = Append(q, n) /\ q \in Seq(Nat)
      /\ inf_frame' = inf_frame /\ post_frame' = post_frame
      /\ inf_frame \in Nat /\ post_frame \in Nat
      /\ inf_frame <= enqueued /\ post_frame <= enqueued
  <2>1. /\ enqueued < n /\ enqueued' = n /\ n' = n /\ q' = Append(q, n)
        /\ inf_frame' = inf_frame /\ post_frame' = post_frame
    BY ComponentFacts DEF IP!PushFrame, IP!infVars, IP!PreStep, IP!postVars
  <2>2. /\ enqueued \in Nat /\ n \in Nat /\ inf_frame \in Nat /\ post_frame \in Nat
        /\ q \in Seq(Nat) /\ inf_frame <= enqueued /\ post_frame <= inf_frame
    BY ComponentFacts
  <2>3. n <= MaxFrames /\ MaxFrames \in Nat
    BY ServerAssumption DEF MetadataInOrder
  <2>4. n \in 1 .. MaxFrames /\ post_frame <= enqueued
    BY <2>1, <2>2, <2>3
  <2>5. QED
    BY <2>1, <2>2, <2>4
<1>2. /\ delivered' = claimed /\ delivered < delivered' /\ delivered \in Nat
      /\ delivered' \in Nat
  BY ComponentFacts, ClaimedHandedOver
<1>3. /\ metadata' \in [1 .. MaxFrames -> Nat]
      /\ metadata'[n] = delivered'
      /\ \A f \in 1 .. MaxFrames : f # n => metadata'[f] = metadata[f]
  BY <1>1, <1>2 DEF MetadataInOrder
<1>4. \A f \in 1 .. MaxFrames : f > enqueued' => metadata'[f] = 0
  BY <1>1, <1>3 DEF MetadataInOrder
<1>5. \A i \in 1 .. Len(q') : metadata'[q'[i]] # 0
  <2> SUFFICES ASSUME NEW i \in 1 .. Len(q')
               PROVE  metadata'[q'[i]] # 0
    OBVIOUS
  <2>1. Len(q') = Len(q) + 1 /\ Len(q) \in Nat
    BY <1>1
  <2>2. CASE i = Len(q) + 1
    <3>1. q'[i] = n
      BY <1>1, <2>2
    <3>2. QED
      BY <1>2, <1>3, <3>1
  <2>3. CASE i \in 1 .. Len(q)
    <3>1. q'[i] = q[i] /\ q[i] \in Nat
      BY <1>1, <2>3
    <3>2. q[i] \in 1 .. enqueued
      <4>1. inf_frame < q[i] /\ q[i] <= enqueued
        BY <2>3, ComponentFacts
      <4>2. QED
        BY <1>1, <3>1, <4>1
    <3>3. metadata'[q[i]] = metadata[q[i]]
      BY <1>1, <1>3, <3>2
    <3>4. QED
      BY <2>3, <3>1, <3>3 DEF MetadataInOrder
  <2>4. QED
    BY <2>1, <2>2, <2>3
<1>6. /\ inf_frame' # 0 => metadata'[inf_frame'] # 0
      /\ post_frame' # 0 => metadata'[post_frame'] # 0
  BY <1>1, <1>3 DEF MetadataInOrder
<1>7. \A f \in 1 .. MaxFrames : metadata'[f] <= delivered'
  BY <1>1, <1>2, <1>3 DEF MetadataInOrder
<1>8. ASSUME NEW f \in 1 .. MaxFrames, NEW g \in 1 .. MaxFrames,
             f < g, metadata'[f] # 0, metadata'[g] # 0
      PROVE  metadata'[f] < metadata'[g]
  <2>1. CASE g = n
    <3>1. metadata'[f] = metadata[f] /\ metadata[f] <= delivered
      BY <1>3, <1>8, <2>1 DEF MetadataInOrder
    <3>2. metadata[f] \in Nat
      BY DEF MetadataInOrder
    <3>3. QED
      BY <1>2, <1>3, <2>1, <3>1, <3>2
  <2>2. CASE g # n
    <3>1. metadata[g] # 0
      BY <1>3, <1>8, <2>2
    <3>2. g <= enqueued
      BY <1>1, <3>1 DEF MetadataInOrder
    <3>3. f # n
      BY <1>1, <1>8, <3>2
    <3>4. QED
      BY <1>3, <1>8, <2>2, <3>3 DEF MetadataInOrder
  <2>3. QED
    BY <2>1, <2>2
<1>9. n' <= MaxFrames
  BY <1>1
<1>10. QED
  BY <1>3, <1>4, <1>5, <1>6, <1>7, <1>8, <1>9 DEF MetadataInOrder

\* A step of the pipeline but the push takes frames on, or off a queue.
LEMMA MetadataAfterMove ==
    ASSUME ComponentsInv, MetadataInOrder, UNCHANGED <<metadata, delivered>>,
           \/ IP!DiscardFrame \/ IP!TakeFrame \/ IP!ResizeBegin \/ IP!ResizeEnd
           \/ IP!NotifyInference \/ IP!InferenceWorker \/ IP!PostprocessWorker
           \/ IP!SpuriousWake
    PROVE  MetadataInOrder'
<1> DEFINE q == preprocess_inference_queue
           r == inference_postprocess_queue
           frames == <<num_frames_processed, enqueued, q, inf_frame, post_frame>>
<1> USE DEF IP!preVars, IP!queues, IP!infVars, IP!postVars
<1>1. CASE UNCHANGED frames
  BY <1>1 DEF MetadataInOrder
<1>2. CASE IP!DiscardFrame \/ IP!TakeFrame
  <2>1. /\ UNCHANGED <<enqueued, q, inf_frame, post_frame>>
        /\ num_frames_processed' <= MaxFrames
    BY <1>2, ComponentFacts, ServerAssumption
       DEF IP!DiscardFrame, IP!TakeFrame, IP!PreStep
  <2>2. QED
    BY <2>1 DEF MetadataInOrder
<1>3. CASE IP!TakeInput
  <2>1. /\ q # <<>> /\ q' = Tail(q) /\ inf_frame' = Head(q)
        /\ UNCHANGED <<num_frames_processed, enqueued, post_frame>>
    BY <1>3 DEF IP!TakeInput, IP!InfStep
  <2>2. q \in Seq(Nat) /\ Len(q) \in Nat /\ Len(q) > 0
    <3>1. q \in Seq(Nat)
      BY ComponentFacts
    <3>2. QED
      BY <2>1, <3>1
  <2>3. inf_frame' = q[1] /\ metadata[q[1]] # 0
    BY <2>1, <2>2 DEF MetadataInOrder
  <2>4. \A i \in 1 .. Len(q') : metadata[q'[i]] # 0
    <3>1. Len(q') = Len(q) - 1 /\ \A i \in 1 .. Len(q) - 1 : q'[i] = q[i + 1]
      BY <2>1, <2>2
    <3>2. \A i \in 1 .. Len(q) - 1 : i + 1 \in 1 .. Len(q)
      BY <2>2
    <3>3. QED
      BY <3>1, <3>2 DEF MetadataInOrder
  <2>5. QED
    BY <2>1, <2>3, <2>4 DEF MetadataInOrder
<1>4. CASE IP!TrimInput
  <2>1. /\ q' = q \/ (q # <<>> /\ q' = Tail(q))
        /\ UNCHANGED <<num_frames_processed, enqueued, inf_frame, post_frame>>
    BY <1>4 DEF IP!TrimInput, IP!InfStep
  <2>2. CASE q # <<>> /\ q' = Tail(q)
    <3>1. q \in Seq(Nat) /\ Len(q) \in Nat
      BY ComponentFacts
    <3>2. Len(q') = Len(q) - 1 /\ \A i \in 1 .. Len(q) - 1 : q'[i] = q[i + 1]
      BY <2>2, <3>1
    <3>3. \A i \in 1 .. Len(q) - 1 : i + 1 \in 1 .. Len(q)
      BY <3>1
    <3>4. \A i \in 1 .. Len(q') : metadata[q'[i]] # 0
      BY <3>2, <3>3 DEF MetadataInOrder
    <3>5. QED
      BY <2>1, <3>4 DEF MetadataInOrder
  <2>3. QED
    BY <1>1, <2>1, <2>2
<1>5. CASE IP!TakeResult
  <2>1. /\ r # <<>> /\ post_frame' = Head(r)
        /\ UNCHANGED <<num_frames_processed, enqueued, q, inf_frame>>
    BY <1>5 DEF IP!TakeResult, IP!PostStep
  <2>2. post_frame' = inf_frame /\ inf_frame # 0
    BY <2>1, ComponentFacts
  <2>3. QED
    BY <2>1, <2>2 DEF MetadataInOrder
<1>6. CASE \/ IP!ResizeBegin \/ IP!ResizeEnd \/ IP!NotifyInference \/ IP!SpuriousWake
  BY <1>1, <1>6 DEF IP!ResizeBegin, IP!ResizeEnd, IP!NotifyInference, IP!PreStep,
     IP!SpuriousWake, IP!InfStep
<1>7. CASE IP!InferenceWorker /\ ~IP!TakeInput /\ ~IP!TrimInput
  BY <1>1, <1>7 DEF IP!InferenceWorker, IP!StartCycle, IP!SleepForInput, IP!FillEnd,
     IP!Invoke, IP!PushResult, IP!TrimInputDone, IP!TrimResult, IP!TrimResultDone,
     IP!CheckFinish, IP!SleepForFinish, IP!InfStep
<1>8. CASE IP!PostprocessWorker /\ ~IP!TakeResult
  BY <1>1, <1>8 DEF IP!PostprocessWorker, IP!PostLoopTest, IP!SleepForResult, IP!PopEnd,
     IP!SetFinish, IP!NotifyFinish, IP!PostStep
<1>9. QED
  BY <1>2, <1>3, <1>4, <1>5, <1>6, <1>7, <1>8 DEF IP!InferenceWorker, IP!PostprocessWorker

\* A step that moves no frame along the pipeline leaves the records alone.
LEMMA MetadataUnmoved ==
    ASSUME MetadataInOrder, UNCHANGED <<ipOwn, metadata, delivered>>
    PROVE  MetadataInOrder'
  BY DEF ipOwn, MetadataInOrder

\* Only the worker's own hand-over changes what the ring has delivered, and a race
\* is never forgotten.
LEMMA RingLeavesDelivered ==
    ASSUME \/ CQ!Callback \/ CQ!SpuriousWake \/ CQ!CloseClient \/ CQ!NotifyStop
           \/ CQ!PreprocessWorker
    PROVE  /\ ~CQ!HandOver => delivered' = delivered
           /\ Raced => Raced'
<1> USE DEF CQ!workerVars, CQ!races, Raced
<1>1. CASE CQ!AcceptFrame
  <2>1. /\ overrun' = (overrun \/ (CQ!Holding /\ slot = insert_idx))
        /\ early' = early /\ delivered' = delivered
    BY <1>1 DEF CQ!AcceptFrame, CQ!StoreFrame
  <2>2. QED
    BY <2>1
<1>2. CASE CQ!Callback /\ ~CQ!AcceptFrame
  BY <1>2 DEF CQ!Callback, CQ!SkipFrame, CQ!RefuseBackup, CQ!RefuseFrame,
     CQ!NotAccepted, CQ!CopyDone, CQ!BumpIndex, CQ!BumpSeenFirst, CQ!Settle,
     CQ!NotifyFrame
<1>3. CASE CQ!ReadBegin \/ CQ!HandOver
  <2>1. overrun' = overrun /\ (early => early') /\ (~CQ!HandOver => delivered' = delivered)
    BY <1>3 DEF CQ!ReadBegin, CQ!HandOver
  <2>2. QED
    BY <2>1
<1>3a. CASE CQ!PreprocessWorker /\ ~(CQ!ReadBegin \/ CQ!HandOver)
  BY <1>3a DEF CQ!PreprocessWorker, CQ!LoopTest, CQ!FindEmpty, CQ!ClaimSlot,
     CQ!FallAsleep, CQ!StopBeforeFrame, CQ!FirstFrame, CQ!RefuseFormat,
     CQ!ConvertEnd, CQ!MergeEnd
<1>4. CASE CQ!SpuriousWake \/ CQ!CloseClient \/ CQ!NotifyStop
  BY <1>4 DEF CQ!SpuriousWake, CQ!CloseClient, CQ!NotifyStop
<1>5. QED
  BY <1>1, <1>2, <1>3, <1>3a, <1>4

\* What a step of the process does to the frames and their records: the push, a
\* move within the pipeline, or neither.
LEMMA FrameSteps ==
    ASSUME ComponentsInv, [ServerNext]_serverVars
    PROVE  /\ Raced => Raced'
           /\ \/ /\ CQ!HandOver /\ IP!PushFrame
                 /\ metadata' = [metadata EXCEPT ![num_frames_processed] = delivered']
              \/ /\ UNCHANGED <<metadata, delivered>>
                 /\ \/ IP!DiscardFrame \/ IP!TakeFrame \/ IP!ResizeBegin \/ IP!ResizeEnd
                    \/ IP!NotifyInference \/ IP!InferenceWorker \/ IP!PostprocessWorker
                    \/ IP!SpuriousWake
              \/ UNCHANGED <<ipOwn, metadata, delivered>>
<1> USE DEF mainVars
<1>1. CASE Signal \/ StartRunning \/ CreateThreads \/ OpenClient \/ CreateServers
            \/ Join \/ DeleteHelper \/ Return \/ UNCHANGED serverVars
  BY <1>1 DEF Signal, StartRunning, CreateThreads, OpenClient, CreateServers, Join,
     DeleteHelper, Return, serverVars, cq, ip, cqOwn, Raced
<1>2. CASE CloseClient \/ NotifyWorkers \/ Callback
  <2>1. CQ!Callback \/ CQ!CloseClient \/ CQ!NotifyStop
    BY <1>2 DEF CloseClient, NotifyWorkers, Callback
  <2>2. UNCHANGED <<ipOwn, metadata>>
    BY <1>2 DEF CloseClient, NotifyWorkers, Callback
  <2>3. ~CQ!HandOver
    BY <2>1 DEF CQ!HandOver, CQ!Callback, CQ!SkipFrame, CQ!RefuseBackup, CQ!RefuseFrame,
       CQ!NotAccepted, CQ!AcceptFrame, CQ!StoreFrame, CQ!CopyDone, CQ!BumpIndex,
       CQ!BumpSeenFirst, CQ!Settle, CQ!NotifyFrame, CQ!CloseClient, CQ!NotifyStop,
       CQ!Wake, CQ!workerVars
  <2>4. QED
    BY <2>1, <2>2, <2>3, RingLeavesDelivered
<1>3. CASE WaitForFrame
  <2>1. CQ!PreprocessWorker /\ ~CQ!HandOver
    BY <1>3 DEF WaitForFrame, CQ!PreprocessWorker, CQ!HandOver, CQ!LoopTest, CQ!FindEmpty,
       CQ!ClaimSlot, CQ!FallAsleep, CQ!StopBeforeFrame
  <2>2. QED
    BY <1>3, <2>1, RingLeavesDelivered DEF WaitForFrame
<1>4. CASE PreprocessFrame
  <2>1. CASE CQ!HandOver /\ IP!PushFrame
             /\ metadata' = [metadata EXCEPT ![num_frames_processed] = delivered']
    <3>1. Raced => Raced'
      BY <2>1, RingLeavesDelivered DEF CQ!PreprocessWorker
    <3>2. QED
      BY <2>1, <3>1
  <2>2. CASE /\ \/ CQ!FirstFrame \/ CQ!RefuseFormat \/ CQ!ReadBegin
                \/ CQ!ConvertEnd \/ CQ!MergeEnd
             /\ UNCHANGED metadata
             /\ IP!DiscardFrame \/ IP!TakeFrame \/ IP!ResizeEnd
    <3>1. CQ!PreprocessWorker
      BY <2>2 DEF CQ!PreprocessWorker
    <3>2. ~CQ!HandOver
      BY <2>2 DEF CQ!HandOver, CQ!FirstFrame, CQ!RefuseFormat, CQ!ReadBegin,
         CQ!ConvertEnd, CQ!MergeEnd
    <3>3. QED
      BY <2>2, <3>1, <3>2, RingLeavesDelivered
  <2>3. CASE UNCHANGED <<cqOwn, metadata>> /\ (IP!ResizeBegin \/ IP!NotifyInference)
    BY <2>3 DEF cqOwn, Raced
  <2>4. QED
    BY <1>4, <2>1, <2>2, <2>3 DEF PreprocessFrame
<1>5. CASE InferenceWorker \/ PostprocessWorker
  BY <1>5 DEF InferenceWorker, PostprocessWorker, cqOwn, Raced
<1>6. CASE SpuriousWake
  <2>1. CASE CQ!SpuriousWake /\ UNCHANGED <<ipOwn, metadata>>
    <3>1. ~CQ!HandOver
      BY <2>1 DEF CQ!SpuriousWake, CQ!HandOver
    <3>2. QED
      BY <2>1, <3>1, RingLeavesDelivered
  <2>2. CASE IP!SpuriousWake /\ UNCHANGED <<cqOwn, metadata>>
    BY <2>2 DEF cqOwn, Raced
  <2>3. QED
    BY <1>6, <2>1, <2>2 DEF SpuriousWake
<1>7. QED
  BY <1>1, <1>2, <1>3, <1>4, <1>5, <1>6 DEF ServerNext, Main

LEMMA MetadataStep ==
    ASSUME ComponentsInv, ~Raced => MetadataInOrder, [ServerNext]_serverVars
    PROVE  (~Raced => MetadataInOrder)'
<1> SUFFICES ASSUME ~Raced'
             PROVE  MetadataInOrder'
  OBVIOUS
<1>1. MetadataInOrder /\ ~Raced
  BY FrameSteps
<1>2. QED
  BY <1>1, FrameSteps, MetadataAfterPush, MetadataAfterMove, MetadataUnmoved

\* A result is published under the record of the frame postprocess_worker took.
LEMMA PublishedStep ==
    ASSUME ComponentsInv, ~Raced, MetadataInOrder, [ServerNext]_serverVars
    PROVE  \/ sent' > sent /\ sent' \in Nat /\ UNCHANGED <<published, taken>>
           \/ /\ published' \in Nat /\ published' > published /\ published' <= sent
              /\ taken' = taken + 1 /\ sent' = sent
           \/ UNCHANGED <<sent, published, taken>>
<1>1. CASE PostprocessWorker /\ IP!TakeResult
  <2>1. /\ post_frame' = Head(inference_postprocess_queue)
        /\ inference_postprocess_queue # <<>> /\ taken' = taken + 1
        /\ sent' = sent /\ metadata' = metadata
    BY <1>1 DEF PostprocessWorker, IP!TakeResult, cqOwn
  <2>2. post_frame' = inf_frame /\ post_frame < inf_frame
    BY <2>1, ComponentFacts
  <2>3. /\ inf_frame \in 1 .. MaxFrames /\ post_frame \in 0 .. MaxFrames
    <3>1. inf_frame \in Nat /\ post_frame \in Nat /\ MaxFrames \in Nat
      BY ComponentFacts, ServerAssumption
    <3>2. inf_frame <= MaxFrames
      BY <3>1, ComponentFacts DEF MetadataInOrder
    <3>3. QED
      BY <2>2, <3>1, <3>2
  <2>4. published' = metadata[inf_frame] /\ metadata[inf_frame] \in Nat \ {0}
    BY <2>1, <2>2, <2>3 DEF published, MetadataInOrder
  <2>5. metadata[inf_frame] <= sent
    <3>1. metadata[inf_frame] <= delivered
      BY <2>3 DEF MetadataInOrder
    <3>2. delivered <= sent /\ delivered \in Nat /\ sent \in Nat
      BY ComponentFacts DEF Raced
    <3>3. QED
      BY <2>4, <3>1, <3>2
  <2>6. published < metadata[inf_frame]
    <3>1. CASE post_frame = 0
      BY <2>4, <3>1 DEF published
    <3>2. CASE post_frame # 0
      BY <2>2, <2>3, <2>4, <3>2 DEF published, MetadataInOrder
    <3>3. QED
      BY <3>1, <3>2
  <2>7. published \in Nat
    BY <2>3 DEF published, MetadataInOrder
  <2>8. QED
    BY <2>1, <2>4, <2>5, <2>6, <2>7
<1>2. CASE ~(PostprocessWorker /\ IP!TakeResult)
  <2>1. UNCHANGED <<post_frame, taken>>
    BY <1>2 DEF ServerNext, Signal, Main, StartRunning, CreateThreads, OpenClient,
       CreateServers, CloseClient, NotifyWorkers, Join, DeleteHelper, Return, Callback,
       WaitForFrame, PreprocessFrame, InferenceWorker, PostprocessWorker, SpuriousWake,
       serverVars, ip, ipOwn,
       IP!DiscardFrame, IP!TakeFrame, IP!ResizeBegin, IP!ResizeEnd,
       IP!PushFrame, IP!NotifyInference, IP!PreStep, IP!postVars,
       IP!InferenceWorker, IP!StartCycle, IP!TakeInput, IP!SleepForInput, IP!FillEnd,
       IP!Invoke, IP!PushResult, IP!TrimInput, IP!TrimInputDone, IP!TrimResult,
       IP!TrimResultDone, IP!CheckFinish, IP!SleepForFinish,
       IP!PostprocessWorker, IP!PostLoopTest, IP!SleepForResult, IP!PopEnd,
       IP!SetFinish, IP!NotifyFinish, IP!SpuriousWake
  <2>2. post_frame # 0 => metadata'[post_frame] = metadata[post_frame]
    <3>1. CASE UNCHANGED metadata
      BY <3>1
    <3>2. CASE /\ IP!PushFrame
               /\ metadata' = [metadata EXCEPT ![num_frames_processed] = delivered']
      <4>1. pp = "resized"
        BY <3>2 DEF IP!PushFrame
      <4>2. post_frame < num_frames_processed /\ post_frame \in Nat
            /\ num_frames_processed \in Nat
        <5>1. /\ post_frame <= inf_frame /\ inf_frame <= enqueued
              /\ enqueued < num_frames_processed
              /\ {post_frame, inf_frame, enqueued, num_frames_processed} \subseteq Nat
          BY <4>1, ComponentFacts
        <5>2. QED
          BY <5>1
      <4>3. post_frame # num_frames_processed
        BY <4>2
      <4>4. post_frame # 0 => post_frame \in 1 .. MaxFrames
        BY <4>2, ServerAssumption DEF MetadataInOrder
      <4>5. QED
        BY <3>2, <4>3, <4>4 DEF MetadataInOrder
    <3>3. QED
      BY <3>1, <3>2, FrameSteps
  <2>3. published' = published
    BY <2>1, <2>2 DEF published
  <2>4. CASE Callback
    <3>1. CQ!Callback /\ sent \in Nat
      BY <2>4, ComponentFacts DEF Callback
    <3>2. sent' = sent \/ sent' = sent + 1
      BY <3>1 DEF CQ!Callback, CQ!SkipFrame, CQ!RefuseBackup, CQ!RefuseFrame,
         CQ!NotAccepted, CQ!AcceptFrame, CQ!StoreFrame, CQ!CopyDone, CQ!BumpIndex,
         CQ!BumpSeenFirst, CQ!Settle, CQ!NotifyFrame
    <3>3. QED
      BY <2>1, <2>3, <3>1, <3>2
  <2>5. CASE ~Callback
    <3>1. sent' = sent
      BY <2>5 DEF ServerNext, Signal, Main, StartRunning, CreateThreads, OpenClient,
         CreateServers, CloseClient, NotifyWorkers, Join, DeleteHelper, Return,
         WaitForFrame, PreprocessFrame, InferenceWorker, PostprocessWorker, SpuriousWake,
         serverVars, cq, cqOwn, CQ!callbackVars,
         CQ!CloseClient, CQ!NotifyStop, CQ!LoopTest, CQ!FindEmpty, CQ!ClaimSlot,
         CQ!FallAsleep, CQ!StopBeforeFrame, CQ!FirstFrame, CQ!RefuseFormat,
         CQ!ReadBegin, CQ!ConvertEnd, CQ!MergeEnd, CQ!HandOver, CQ!SpuriousWake
    <3>2. QED
      BY <2>1, <2>3, <3>1
  <2>6. QED
    BY <2>4, <2>5
<1>3. QED
  BY <1>1, <1>2

\* From the camera to the published result, through the ring, three threads and
\* two trimmed queues: results come out under their own camera frame, in camera
\* order, none twice, as long as no slot is overrun while it is read, or read
\* before the callback's stores into it have settled (main.cpp:263-266).
THEOREM ServerResults == ServerSpec => ResultsInCameraOrder
<1> DEFINE MetadataInv == ~Raced => MetadataInOrder
<1>1. ServerInit => MetadataInv /\ EndToEnd!ChanInit
  <2> SUFFICES ASSUME ServerInit
               PROVE  MetadataInOrder /\ EndToEnd!ChanInit
    OBVIOUS
  <2>1. /\ metadata = [f \in 1 .. MaxFrames |-> 0]
        /\ num_frames_processed = 0 /\ preprocess_inference_queue = <<>>
        /\ inf_frame = 0 /\ post_frame = 0 /\ delivered = 0 /\ sent = 0 /\ taken = 0
    BY DEF ServerInit, RingOfServer!CQInit, PipelineOfServer!IPInit
  <2>2. MetadataInOrder
    BY <2>1, ServerAssumption DEF MetadataInOrder
  <2>3. EndToEnd!ChanInit
    BY <2>1 DEF EndToEnd!ChanInit, published
  <2>4. QED
    BY <2>2, <2>3
<1>2. ComponentsInv /\ MetadataInv /\ [ServerNext]_serverVars => MetadataInv'
  BY MetadataStep
<1>3. ComponentsInv /\ MetadataInv /\ [ServerNext]_serverVars
        => [EndToEnd!ChanNext \/ overrun \/ early]_(EndToEnd!chanVars)
  BY PublishedStep DEF Raced, EndToEnd!ChanNext, EndToEnd!Send, EndToEnd!Deliver, EndToEnd!chanVars
<1>4. QED
  BY <1>1, <1>2, <1>3, ComponentsInvariant, PTL DEF ServerSpec, ResultsInCameraOrder
-----------------------------------------------------------------------------
(***************************************************************************)
(* The model helper is deleted last.                                         *)
(***************************************************************************)

\* main() shuts down in this order; a worker that has left its loop stays out.
ShutdownOrder ==
    /\ main \in {"init", "create", "open", "servers", "serving"} => closed = "open"
    /\ main = "closed" => closed = "closed"
    /\ closed # "open" => cb = "idle"
    /\ main \in {"delete", "deleted", "returned"} /\ closed # "open" /\ created => AllJoined

LEMMA ShutdownOrderStep == ShutdownOrder /\ [ServerNext]_serverVars => ShutdownOrder'
<1> SUFFICES ASSUME ShutdownOrder, [ServerNext]_serverVars
             PROVE  ShutdownOrder'
  OBVIOUS
<1> USE DEF ShutdownOrder, AllJoined, mainVars
<1>1. CASE Signal \/ UNCHANGED serverVars
  BY <1>1 DEF Signal, serverVars, cq, ip, cqOwn, ipOwn
<1>2. CASE StartRunning \/ CreateThreads \/ OpenClient \/ CreateServers
            \/ Join \/ DeleteHelper \/ Return
  BY <1>2 DEF StartRunning, CreateThreads, OpenClient, CreateServers, Join,
     DeleteHelper, Return, cq, ip, cqOwn, ipOwn
<1>3. CASE CloseClient
  BY <1>3 DEF CloseClient, CQ!CloseClient, CQ!Arrive, CQ!callbackVars, ipOwn
<1>4. CASE NotifyWorkers
  BY <1>4 DEF NotifyWorkers, CQ!NotifyStop, CQ!Wake, CQ!callbackVars, ipOwn
<1>5. CASE Callback
  <2>1. CQ!Callback /\ UNCHANGED <<main, created, inf, post>>
    BY <1>5 DEF Callback, ipOwn
  <2>2. closed' = closed
    BY <2>1 DEF CQ!Callback, CQ!SkipFrame, CQ!RefuseBackup, CQ!RefuseFrame,
       CQ!NotAccepted, CQ!AcceptFrame, CQ!StoreFrame, CQ!CopyDone, CQ!BumpIndex,
       CQ!BumpSeenFirst, CQ!Settle, CQ!NotifyFrame
  <2>3. closed = "open" \/ cb # "idle"
    BY <2>1 DEF CQ!Callback, CQ!SkipFrame, CQ!RefuseBackup, CQ!RefuseFrame,
       CQ!AcceptFrame, CQ!CopyDone, CQ!Arrive, CQ!BumpIndex, CQ!BumpSeenFirst,
       CQ!Settle, CQ!Settling, CQ!NotifyFrame
  <2>4. QED
    BY <2>1, <2>2, <2>3
<1>6. CASE WaitForFrame \/ PreprocessFrame
  <2>1. UNCHANGED <<main, created, cb, closed>>
    BY <1>6 DEF WaitForFrame, PreprocessFrame, cqOwn, CQ!callbackVars,
       CQ!LoopTest, CQ!FindEmpty, CQ!ClaimSlot, CQ!FallAsleep, CQ!StopBeforeFrame,
       CQ!FirstFrame, CQ!RefuseFormat, CQ!ReadBegin, CQ!ConvertEnd, CQ!MergeEnd, CQ!HandOver
  <2>2. pre = "exited" => UNCHANGED <<pre, post>> /\ (inf = "exited" => inf' = "exited")
    BY <1>6 DEF WaitForFrame, PreprocessFrame, cqOwn, ipOwn, CQ!Reading,
       CQ!LoopTest, CQ!FindEmpty, CQ!ClaimSlot, CQ!FallAsleep, CQ!StopBeforeFrame,
       CQ!FirstFrame, CQ!RefuseFormat, CQ!ReadBegin, CQ!ConvertEnd, CQ!MergeEnd,
       CQ!HandOver, IP!NotifyInference, IP!PreStep, IP!postVars
  <2>3. QED
    BY <2>1, <2>2
<1>7. CASE InferenceWorker \/ PostprocessWorker \/ SpuriousWake
  <2>1. UNCHANGED <<main, created, cb, closed>>
    BY <1>7 DEF InferenceWorker, PostprocessWorker, SpuriousWake, cqOwn, CQ!SpuriousWake,
       CQ!callbackVars
  <2>2. AllJoined => AllJoined'
    BY <1>7 DEF InferenceWorker, PostprocessWorker, SpuriousWake, cqOwn, ipOwn,
       CQ!SpuriousWake, IP!SpuriousWake, IP!InfStep, IP!postVars, IP!InferenceWorker,
       IP!StartCycle, IP!TakeInput, IP!SleepForInput, IP!FillEnd,
       IP!Invoke, IP!PushResult, IP!TrimInput, IP!TrimInputDone, IP!TrimResult,
       IP!TrimResultDone, IP!CheckFinish, IP!SleepForFinish,
       IP!PostprocessWorker, IP!PostLoopTest, IP!TakeResult, IP!SleepForResult, IP!PopEnd,
       IP!SetFinish, IP!NotifyFinish, IP!PostStep
  <2>3. QED
    BY <2>1, <2>2
<1>8. QED
  BY <1>1, <1>2, <1>3, <1>4, <1>5, <1>6, <1>7 DEF ServerNext, Main

\* delete model_helper comes after the last use of it by any thread.
THEOREM ServerHelper == ServerSpec => []HelperOutlivesItsThreads
<1>1. ServerInit => ShutdownOrder
  BY DEF ServerInit, ShutdownOrder, RingOfServer!CQInit
<1>2. ShutdownOrder => HelperOutlivesItsThreads
  BY DEF ShutdownOrder, HelperOutlivesItsThreads, AllJoined
<1>3. QED
  BY <1>1, <1>2, ShutdownOrderStep, PTL DEF ServerSpec
=============================================================================
