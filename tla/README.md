# Starling2 in TLA+

This directory holds a verification project for the code of the Starling 2 drone in this
repository: TLA+ models of its video pipeline, of the algorithms in it, of its configuration
and of the Vicon bridge, the TLC runs that check them on small instances, and theorems
checked by TLAPS for every instance. The code is the reference: each definition that models
code is listed with the lines it stands for in `PROJECT.json` (`map`).

Contents: [1 the system](#1-the-system) · [2 modules and code](#2-modules-and-code) ·
[3 runs and bounds](#3-runs-and-bounds) · [4 fairness](#4-fairness) ·
[5 what is proved](#5-what-is-proved) · [6 where code and documents disagree](#6-where-code-and-documents-disagree) ·
[7 abstractions](#7-abstractions) · [8 not modelled, and the plan](#8-not-modelled-and-the-plan)

## 1 The system

`voxl-tflite-server` (C++, `src/voxl-tflite-server`) takes frames from a camera pipe of the
Modal Pipe Architecture (MPA), runs a TensorFlow Lite model on them and publishes an image
and, for detectors, a list of detections. Around it are a configuration wizard, a reader of
its output pipe, flight scripts that use MAVSDK and a bridge that feeds Vicon poses to the
autopilot.

| Component | State it keeps | Operations | Talks to |
|---|---|---|---|
| main (`main.cpp`) | `main_running`, `model_helper`, `args` | start-up, signal, loop, close, join, delete | every thread, libmodal_pipe |
| camera callback (`main.cpp:222`) | `n_skipped`, `camera_queue.insert_idx`, the 24 slots | skip, refuse, copy a frame, bump, notify | `preprocess_worker`, by shared memory and `cond_var` |
| `preprocess_worker` (`inference_handler.cpp:69`) | `queue_index`, `new_frame` | wait, claim, preprocess, push | ring; `preprocess_inference_queue` |
| `inference_worker` (`:124`) | reset of `postprocess_finish` | wait, pop, fill and invoke, push, trim both queues, wait for the post-processing | both queues, interpreter |
| `postprocess_worker` (`:170`) | `frames_processed` | wait, pop, `worker()`, set `postprocess_finish`, notify | `inference_postprocess_queue`, output pipes |
| `ModelHelper` (`model_helper.cpp`) | interpreter and tensors, `resize_output`, resize map, `num_frames_processed`, `start_time` | `preprocess`, `run_inference`, virtual `worker` | called by the three workers |
| model helpers (`model_helper/*.cpp`) | labels, colour map, thresholds | decode, suppress, draw, publish | output pipes |
| `resize.c` | lookup table | build the map, resize grey and colour images | `preprocess` |
| `config_file.cpp`, wizard | `/etc/modalai/voxl-tflite-server.conf` | create, read with defaults, rewrite; edit, enable and restart the service | systemd, server |
| `mpa_reader.c`, `mpa_pipe_reader.py` | bytes of a message under way | read, forward, unpack | output pipe |
| `offboard_*.py`, `voxl2_takeoff_land.py` | the step of the mission | connect, health, arm, set-points, start, legs, stop, land | MAVSDK server |
| `viconmavlink.py` | origin, initial attitude, previous position and time | pull a frame, convert, send odometry; heartbeat | Vicon, autopilot |

What makes them correct:

* **ring**: a slot is read only when it is complete; frames come out in order, none twice,
  with their own metadata; below its capacity nothing is lost; the worker is woken for what
  is stored; the frames processed are `skip_n_frames` apart.
* **pipeline**: order is kept through both queues although they are trimmed; the one set of
  tensors is never written while it is read; the image inference reads belongs to the frame
  it reports; every frame queued is dealt with; the queues are bounded.
* **server**: the stages compose; results come out in camera order; nothing is freed while a
  thread uses it; after a signal the process ends.
* **ModelHelper, helpers, resize**: a frame of any format stays in its buffers and goes out
  as the image its metadata states; indices stay in the image, weights keep shape and
  brightness; suppression keeps the best box of every cluster; a batch of detections is that
  of the image it goes with.
* **configuration**: the file stays readable, names a model and labels that belong together,
  and the helper built from it is that of the model's family.
* **reader**: message boundaries survive reads of any size.
* **missions**: a vehicle that is armed is flown, landed or disarmed on every path.
* **bridge**: every pose is measured from one origin and one attitude, and no speed is sent
  that was not flown.

Hard to test, and why models are of use: five threads (main, callback, three workers) with a
signal handler, one mutex that protects a wait and nothing else, a ring with no lock, three
condition variables of which one is notified without its mutex, a flag with two writers,
queues popped by a thread that does not hold their lock, and images that are aliases of one
buffer. Around the server three programs write one file without a lock, and a clock that can
be set divides the bridge's speeds. `PROJECT.json` lists the hazards line by line.

## 2 Modules and code

    OrderedLossyChannel        abstract: a stage drops frames, never reorders or repeats
        ^           ^
        | refined by| refined by
    CameraQueue   InferencePipeline <---- Segmentation    DeepLab drawing in the pipeline
           \         /
          TFLiteServer                   the process: both, main, signal

    FrameFormats    one frame, in bytes and metadata, through every helper
    ImageResize     resize.c
    Detections      post-processing of YOLOv5, YOLOv8 and SSD
    Configuration   file, wizard, server under systemd, choice of the helper
    ViconBridge     viconmavlink.py

Each but the channel has its proofs beside it, `CameraQueueProofs` and so on;
`PreprocessProofs` holds those of `FrameFormats` and `ImageResize`, the two views of
`preprocess()`. `TFLiteServerProofs` instantiates the proofs of the two components for the
process, and `SegmentationProofs` extends those of the pipeline.

Each has an `MC` module with its values and a cfg of the same name; `InferencePipeline` has
that of `HandshakeStall`, its other properties being checked in the run `Segmentation`. For
the variables of the pipeline the steps of the drawing are stutters and hinder no other
step, so that run sees every behaviour of the pipeline, whatever the helper draws.

**`OrderedLossyChannel`** is what every stage of a video pipeline promises: a number goes
in, numbers come out in strictly increasing order, each once. It counts how often something
came out, so a repetition is not a stutter.

**`CameraQueue`**: callback (`cb`) and `preprocess_worker` (`pre`) around `camera_queue`.
`slots`, `insert_idx`, `queue_index`, `n_skipped` are the code's. The callback's path is
`SkipFrame`, `RefuseBackup` or `RefuseFrame`, or `AcceptFrame` (metadata stored, memcpy
begins), `CopyDone`, `BumpIndex`, `NotifyFrame`. `BumpSeenFirst` and `Settle` are the outcome the
data race on `insert_idx` adds on aarch64: the index is visible before the metadata and the
pixels. Until they have settled a reader may find the slot's metadata of a lap ago
(`SeenMeta`; it reads format and frame at different times), and the format it writes back
may be overwritten (`ConvertEnd`). The worker tests the flag (`LoopTest`), compares
(`FindEmpty`, `ClaimSlot`), locks and sleeps (`FallAsleep`), tests the flag again (`StopBeforeFrame`), and in
`preprocess()` uses the first frame to size its buffers (`FirstFrame`), refuses a format, or
reads the slot (`ReadBegin` to `ConvertEnd` or `MergeEnd`, of which the first writes
`meta.format` back into the slot), then reads the metadata and hands over (`HandOver`).
`Stop`, `CloseClient` and `NotifyStop` are the signal and what `main` does.

**`InferencePipeline`**: from `preprocess()` to `worker()`. `pp`, `inf` and `post` are where
the three threads are; the two queues, `postprocess_finish`, `resize_output` and
`num_frames_processed` are the code's. A critical section is a step, except where another
thread reaches into it without the lock: a push and a pop are windows
(`PushFrame`/`NotifyInference`, `TakeResult`/`PopEnd`), which `TrimInput` and `TrimResult`
may hit. Their race is undefined in C++; the model lets the trim remove an element more or
end early, and a pop of a queue that is empty sets `corrupt`, after which the model stops.
The wait for `postprocess_finish` is `CheckFinish` and `SleepForFinish`, two steps, for its
notifier does not take the mutex; the waits on the queues are one step each, for theirs
does. `FillEnd` and `Invoke` also fail, as `run_inference` may.

**`TFLiteServer`** instantiates both. `preprocess_worker` belongs to both, and a step of
`preprocess()` is a joint step of the two (`PreprocessFrame`). It adds `main`:
`StartRunning` after the signal handler is installed, `CreateThreads` (which may fail),
`OpenClient` (which may fail and return), `CreateServers`, the loop and `CloseClient`,
`NotifyWorkers`, `Join`, `DeleteHelper`, `Return`. `metadata` is what travels in
`PipelineData`, and links the end of the second half to the camera's numbers.

**`Segmentation`** extends `InferencePipeline` with what `DeepLabModelHelper::worker` does
to the buffers between `PopEnd` and `SetFinish`: `BlendBegin` and `BlendEnd` paint the
classes into `preprocessed_image`, for colour frames the one `resize_output`. An overlay is
named by its frame; the model follows which overlays may be in the buffer, in the input
tensor and in the picture published. The resize, fill and invoke steps of the pipeline carry
them along; every other step is the pipeline's own (`Elsewhere`).

**`FrameFormats`** follows one frame from the camera slot (`StoreFrame`) through
`preprocess()` (`FirstFrame`, `PreprocessColour`, `PreprocessGrey`, `RefuseFormat`),
`run_inference()` and the `worker()` of each helper, counting the bytes read, written and
filled and rewriting the metadata as the code does. The map, the dimensions and
`resize_output` are made for the first frame, while `Reconnect` lets the camera come back in
another mode, as libmodal_pipe does. The input tensor is any of `Inputs`; YOLOv8 copies the
fixed `YOLO_SIDE * YOLO_SIDE * 3` floats of its `run_inference` whatever the tensor is.

**`ImageResize`**: `InitResizeMap` is `mcv_init_resize_map`, `ResizeGrey` and `ResizeColour`
the two resizers. Both are linear in the image, so that an output byte is the weights it
gives to input bytes; a run covers all images at once. A float is an exact rational off by
at most one part in `K` of a step (`dx`, `dy`); the weights are truncated into a byte, 256
to 0, as the code does.

**`Detections`**: `worker()` of the three detection helpers: decoding, a step a row
(`YoloV5Decode`, `YoloV8Decode`, `SsdDecode`, then `DecodeDone`); `Sort` in any order of
equal scores, `StableSort` in theirs (`SortedBy` is the permutation either makes); the outer
loop of `nms` (`Nms`) and that of OpenCV's `NMSBoxes`, a step a box; `Report`, `Swap` and
`Publish`. `CountFrame` is the other thread, which moves the counter `frame_id` is read
from and may do so between any two of these steps.

**`Configuration`**: a file is the sequence of its keys and whether a comma dangles behind
the last. The wizard of qrb5165 is a process that may be quit or fail at every prompt, and
interrupted between any two of its writes (`Interrupt`). Its steps are `Begin`, `WipeFile`,
`ShellReads`, `ShellWrites`, `EnablePrompt`, `ChooseModel`, `SetNextParam` once per `sed`,
`ChoosePipe`, `RestartService`, `StopService`; the name of a custom model is typed, and may
be one `main` knows (`TypedModels`). The history `choice`
says whether the last choice was carried through to its last key. The server
reads (`ReadConfig`; `Fetched` and `WithDefaults` are its fetches with defaults, which add
what is missing at the end), writes the file back if it missed a key (`ServerWrites`), and
builds its helper (`BuildHelper`) through `Settings` and `CreateModelHelper`, the two tables
of `model_helper.cpp` with the cases that fall through. It dies (`ServerDies`), fails, and
is started again up to systemd's burst limit.

**`ViconBridge`**: the loop of `viconmavlink.py` (`Connect`, `GetFrame`, `SetOrigin`,
`SendOdometry`, `WakeUp`, `End`) against a vehicle that flies on (`Fly`) and a wall clock
that is set (`SetClock`). A frame says with a flag each whether position and attitude were
occluded (`FrameOf`). Quaternions have integer components and any length, which makes
their products exact; the four functions that turn them are the code's, component by
component.

Operators marked "(Variant ...)" are not the code: they are the faults used to check that
each property can fail.

## 3 Runs and bounds

Passing runs:

| Run | Checks | Bounds | States |
|---|---|---|---|
| `Ring` | `CQTypeOK`, `ImageIsTheFrame`, `FormatNotStale`; refinement `ChannelUntilRace`; `MetadataOfALap`, `ClaimsIncrease`, `NothingSkippedBelowCapacity`, `AcceptedFramesSpaced`; liveness `AcceptedFrameWakesWorker` | 3 slots, skip 1, 5 frames, formats yuv, raw8 and an unsupported one | 0.95 M |
| `Server` | `HelperOutlivesItsThreads`; refinement `ResultsInCameraOrder`; `ServerImplementsRing`, `ServerImplementsPipeline` | 2 slots, skip 0, limit 1, 3 frames, all raw8, whose image is a copy | 0.99 M |
| `Segmentation` | `IPTypeOK`, `ResultOwnership`, `InputNotOlderThanFrame`; refinement `PipelineIsOrderedChannel`; liveness `QueuedFrameWakesInference`, `ResultIsTaken`; `LoneFrameIsExact`, `PictureNotOlder`, `OverlaysAreEarlier` | limit 1 (the code's), shared image, 5 frames | 0.79 M |
| `Formats` | `AccessesFit`, `PublishedIsWholeImage` | 7 helpers, 8 formats, widths 4 and 6, tensors 2 by 2 by 3 and 3 by 2 by 1, `YOLO_SIDE` 2, 2 reconnects | 0.14 M |
| `Resize` | `BlankOnlyForLines`, `RampPreserved`, `RedAsGrey` | images 1 to 5, tensors 1 to 3 a side, every rounding | 0.19 M |
| `Detections` | `KeptDoNotOverlap`, `LostOnlyToBetter`, `ConfidenceNotOverstated`, `BatchOfThisFrame`, `FrameIdsInOrder` | 7 rows (two of them empty boxes), 3 at a time, 3 frames | 3.5 M |
| `Config` | `OwnFileStaysParsable`, `LostOnlyFromIncomplete`, `FileStaysCoherent`, `ServesItsFamily`; liveness `ChosenModelServes` | 7 initial files, 2 sets of installed models, 3 runs of the wizard, 2 typed names, 1 crash, 1 retry | 1.62 M |
| `Bridge` | `MeasuredFromOrigin`, `SpeedPlausible`, `AttitudeFromReference` | 4 places on a diagonal, 3 attitudes, 3 ticks, clock set by 1, delay 1 | 1.55 M |

`MaxFrames` bounds the frames accepted (taken, in the pipeline; counted, in `Detections`)
and every counter; `gap` stops one above `SKIP_N_FRAMES`, where nothing reads it. Five
frames in three slots are the second lap: the ring is full, looks empty, is overrun while it
is read, is used again after it, and its slots hold the metadata of a lap ago. Five frames in the pipeline are one to size the buffers, and a queue
that is longer than its limit while a frame is in each of the other two stages. The server's
three frames in two slots overrun the ring, fill every stage, and meet the signal at every
point of start-up and shutdown; they are raw8, which `cv::merge` copies out of the resize
buffer: what happens to formats is the matter of `Ring`, and to shared images of
`Segmentation`. Two reconnects are a change of mode and the way back; of the two tensors
one is the `YOLO_SIDE` square that YOLOv8 copies and one is not. Sizes
1 to 5 against 1 to 3 scale up, down, exactly and not, with single rows and columns. The
rows of `Detections` hold equal, nested, touching and empty boxes, some just over and some
just under half overlapped, with equal scores and scores beside every threshold; three are
the least in which a merged box could wrongly merge another. The initial files are: none,
the factory's, one edited by hand for a gate model, one with another model's labels, one of
before two of the keys existed, one without labels, and one with its keys in another
order. Three runs of the wizard are a
choice, one that fails half-way, and a third on what they left; the
names typed are one `main` knows and one it does not; one crash and one retry
reach both a server restarted in the middle of a run and one that gave up. Within three
ticks any number of frames may come, in each of which position and attitude are occluded or
not, and the vehicle crosses all places. Deadlock is not checked:
the camera may stop, processes end, and bounded numbers of frames, runs and ticks run out.

Runs that show a disagreement (section 6): `HandshakeStall`, `CleanExit`, `AttitudeFrame`,
`ResizeSums`.

What the properties say, in words:

* `ClaimsIncrease`, `NothingSkippedBelowCapacity`: the ring has no lock and cannot tell full
  from empty, yet the slots are claimed in camera order, and nothing is lost while fewer than
  `QUEUE_SIZE` frames are waiting.
* `ChannelUntilRace`, `MetadataOfALap`: what is read out of those slots has two races. Up to
  the first overrun the ring is an ordered lossy channel in every step but one that hands on
  a slot which has not settled; and what such a step hands on is the metadata of the frame
  claimed or of the one a lap before it, nothing else.
* `ImageIsTheFrame`: pixels and metadata match, except after the two races that `overrun`
  and `early` record.
* `FormatNotStale`: the format written back by `preprocess()` is not taken for the camera's a
  lap later, but after an overrun or from a slot that has not settled.
* `AcceptedFramesSpaced`: `skip_n_frames` is respected over every mixture of skipped,
  backed-up and refused frames.
* `AcceptedFrameWakesWorker`: the wait for a camera frame has no predicate and an unlocked
  notifier, and can miss a wake-up; what is left of it is enough for the worker to leave its
  sleep once another frame is accepted.
* `ResultOwnership`: the handshake with `postprocess_finish` keeps inference out of the
  output tensors while a helper reads them.
* `InputNotOlderThanFrame`: the shared resize buffer can be ahead of the frame inference
  reports, never behind it.
* `QueuedFrameWakesInference`, `ResultIsTaken`: the two waits with a predicate and a locked
  notifier lose no wake-up, the trimming notwithstanding.
* `HelperOutlivesItsThreads`: on the orderly way out the helper is deleted after the last
  thread and the last callback.
* `LoneFrameIsExact`, `PictureNotOlder`, `OverlaysAreEarlier`: the sharing of one buffer by
  three threads is harmless only for a frame that is alone in the pipeline; for the others
  these are the bounds of the harm.
* `AccessesFit`, `PublishedIsWholeImage`: with the exceptions they name, no helper leaves
  its buffers in any format, and none sends an image whose metadata lie. Among the
  exceptions is a YOLOv8 or YOLO11 whose input is not 640 by 640 by 3, of which the fixed
  copy takes too much or too little.
* `BlankOnlyForLines`, `RampPreserved`, `RedAsGrey`: the table leaves no pixel of the output
  without a value, however the scale is rounded, and is in the right place; red is resized
  like grey (green and blue are not, section 6).
* `KeptDoNotOverlap`, `LostOnlyToBetter`: suppression against its definition, for every
  order `std::sort` may leave; `LostOnlyToBetter` excepts pairs of boxes without area, of
  which OpenCV's function keeps one wherever they are. `BatchOfThisFrame`,
  `FrameIdsInOrder`: what a reader may conclude from a batch although its number is another
  thread's counter.
* `OwnFileStaysParsable`, `LostOnlyFromIncomplete`, `FileStaysCoherent`: what unlocked edits
  by three programs cannot do to a complete file, which is one that this version would have
  written: every key is there, the last is one the wizard never sets, and no comma dangles
  (`Complete`; a file that is missing counts, for it is written anew). Labels are those of
  the model after a choice that was carried through, and stay so without one if they were
  when the history began (`ChoiceCounts`); a choice that was cut off between its keys may
  leave the model of one and the labels of another. `ServesItsFamily`,
  `ChosenModelServes`: what is built from it. The second says which choices serve and which
  one never does, with all its files installed: YOLOv8 or YOLO11 after a model without
  labels.
* `MeasuredFromOrigin`, `SpeedPlausible`, `AttitudeFromReference`: what was occluded, and
  when, does not show in a pose that was seen.

Each module also has a type invariant. `CQTypeOK` and `IPTypeOK` are checked in their runs
and proved; `FmtTypeOK`, `DetTypeOK` and `ConfTypeOK` are proved, as conjuncts of the
inductive invariants of their modules; those of the other modules say what their variables
range over, for the reader, and what a proof needs of them is in its invariant. Proved and
in no run are also `SumsOfWeights`, what the sum of the weights of a pixel is, and
`SegmentationIsPipeline`, that every behaviour of `SegSpec` is one of `IPSpec`.

## 4 Fairness

Safety runs use the specification without fairness. `CQFairSpec`, `IPFairSpec`,
`SegFairSpec` and `ServerFairSpec` assume weak fairness of each thread: the operating system goes on running a
thread that can go on. `ConfSpec` assumes it of the server's start (`WF(ServerStep)`), never
of the wizard, whose user may leave a prompt open. Nothing is assumed of the camera, of the
signal, of crashes, or of spurious wake-ups, which the C++ standard permits and does not
promise. In particular the two findings about lost wake-ups do not rest on unfair
scheduling: the thread is asleep and nobody will call notify. With the test and the sleep of
the handshake joined into one step `QueuedFrameIsDealtWith` holds on the same instance, so
the split is the cause.

## 5 What is proved

Eight proof modules hold 7427 obligations. Every safety invariant, action property and
refinement that a passing run checks is a theorem, for every value of the constants under
assumptions the code justifies:

| Assumption | Says |
|---|---|
| `CameraQueueAssumption`, `InferencePipelineAssumption`, `ServerAssumption` | the ring and the queue limit have at least one place, counts are natural numbers, formats are known |
| `FrameFormatsAssumption` | helpers are the code's, modes are a known shape with natural sizes, a model has up to 3 channels |
| `ImageResizeAssumption` | sizes are positive, and the rounding of a position is less than 1/256 of a pixel (`K * n >= 256`; a float has 24 bits, of which a position in a 4K image takes 12) |
| `DetectionsAssumption` | a row is a box with integer corner and natural sides, a confidence, and one natural score for each of at least one class |
| `ConfigurationAssumption` | a file found is a sequence of lines in any order, with each key at most once and a model from the known names or none |
| `ViconAssumption` | places and attitudes have integer components, no attitude is zero |

| Theorem | States |
|---|---|
| `RingTyping` | `CQSpec => []CQTypeOK` |
| `RingImages`, `RingFormats` | `CQSpec => []ImageIsTheFrame`, `CQSpec => []FormatNotStale` |
| `RingClaims`, `RingLossless`, `RingSpacing` | `CQSpec => ClaimsIncrease`, `NothingSkippedBelowCapacity`, `AcceptedFramesSpaced` |
| `RingOrder`, `RingMetadata` | `CQSpec => ChannelUntilRace`, `CQSpec => MetadataOfALap` |
| `PipelineTyping` | `IPSpec => []IPTypeOK` |
| `PipelineOwnership`, `PipelineInputs` | `IPSpec => []ResultOwnership`, `IPSpec => []InputNotOlderThanFrame` |
| `PipelineOrder` | `IPSpec => PipelineIsOrderedChannel` |
| `ServerHasRing`, `ServerHasPipeline` | `ServerSpec => ServerImplementsRing`, `ServerSpec => ServerImplementsPipeline` |
| `ServerResults` | `ServerSpec => ResultsInCameraOrder` |
| `ServerHelper` | `ServerSpec => []HelperOutlivesItsThreads` |
| `SegmentationPipeline` | `SegSpec => SegmentationIsPipeline` |
| `SegmentationExact`, `SegmentationPictures`, `SegmentationOverlays` | `SegSpec => []LoneFrameIsExact`, `[]PictureNotOlder`, `[]OverlaysAreEarlier` |
| `FormatTypes`, `FormatsFit`, `FormatsPublished` | `FmtSpec => []FmtTypeOK`, `[]AccessesFit`, `[]PublishedIsWholeImage` |
| `ResizeNoBlank`, `ResizeSums` | `ResizeSpec => []BlankOnlyForLines`, `[]SumsOfWeights` |
| `ResizeRamp`, `ResizeRed` | `ResizeSpec => []RampPreserved`, `[]RedAsGrey` |
| `DetectionsTypes` | `DetSpec => []DetTypeOK` |
| `DetectionsDisjoint`, `DetectionsComplete` | `DetSpec => []KeptDoNotOverlap`, `DetSpec => []LostOnlyToBetter` |
| `DetectionsConfidence`, `DetectionsBatch`, `DetectionsIds` | `DetSpec => []ConfidenceNotOverstated`, `[]BatchOfThisFrame`, `[]FrameIdsInOrder` |
| `ConfigurationTypes` | `ConfSpec => []ConfTypeOK` |
| `FileParsable`, `FileLost`, `FileCoherent` | `ConfSpec => []OwnFileStaysParsable`, `[]LostOnlyFromIncomplete`, `[]FileStaysCoherent` |
| `ServerFamily` | `ConfSpec => []ServesItsFamily` |
| `BridgeOrigin`, `BridgeAttitude`, `BridgeSpeed` | `VBSpec => []MeasuredFromOrigin`, `[]AttitudeFromReference`, `[]SpeedPlausible` |

`RingInvariant`, `PipelineInvariant`, `FormatsInvariant`, `ResizeInvariant`,
`DetectionsInvariant`, `ConfigurationInvariant` and `BridgeInvariant` state the inductive
invariants they rest on.

*The ring* (`CameraQueueProofs`). The properties speak of the slot being claimed, and are
not inductive: one must know what all slots hold. `Age(i)` is how many bumps ago
`insert_idx` passed slot `i` (1 to `QUEUE_SIZE`). `RingContents` says that a slot that is
not being filled holds frame `Inserted + 1 - Age(i)`; a bump makes every age one more and
`Inserted` one more, so the equation survives. `WorkerPosition` says that the frames between
the indices are later than the last claim, and that with less than a lap between them the
distance is exactly the number unclaimed; after a lap only the inequality is left, which is
why `ClaimsIncrease` needs no condition and `NothingSkippedBelowCapacity` has one.
`HeldFrame` follows the claimed slot to the hand-over as long as the callback has not
written it. `RingContents` also says what the callback's store under way replaces (`before`):
the frame `QUEUE_SIZE` before it, or none, which is `MetadataOfALap`. The remainder in `(i + 1) % QUEUE_SIZE` is dealt with once, in `NextSlotIs`.
`FormatNotStale` follows from these with `FreshFormats`: the slots with a frame later than
the last claim have the camera's format, since only the frame claimed is written back to.
`AcceptedFramesSpaced` needs nothing of the ring but that `n_skipped` never exceeds the
frames that went by.

*The pipeline* (`InferencePipelineProofs`). `IInv` is the type invariant with three
conjuncts. `Handshake`: from the push of a result until `postprocess_finish` is set, the one
result under way is either queued or in the post-processing thread, never both, and the
output tensors belong to it. `FrameOrder`: the frame numbers never decrease from the
post-processing thread over inference and the input queue, front to back, to the latest push
and the counter; a push adds at the end, a pop and a trim remove from the front.
`PixelOrder`: the resized buffers hold nothing older than the frame they are read for.

*The server* (`TFLiteServerProofs`). `RingStep` and `PipelineStep` map each step of the
process to a step of the component or to a stutter. The pipeline needs one fact for it,
`Started`: there are threads only once `main` has set the flag. The components' own theorems
then hold of the process (`ComponentsInvariant`), through instances of their proof modules.
What joins the two halves is `MetadataInOrder`: a number of the pipeline has a camera frame
once it was pushed, none of these is later than the last one handed over, and they grow with
the numbers; the ring supplies that each is later than the one before, as long as it is not
overrun and nothing was read early. `ShutdownOrder` records in which order `main` closes, joins and deletes, and that
the callback rests once the client is closed.

*DeepLab* (`SegmentationProofs`). A step of `SegNext` is one of `IPNext` or leaves its
variables, so `IInv` holds. `DrawingInOrder` bounds what is in the buffer, the tensor and
the picture by the frame being drawn. For a frame that never had company the five parts of
`LoneFrames` follow it from the resize over the input and the output tensor to the picture;
`LoneInFlight` is the one that matters, for it says that while the frame is in flight nobody
else is, and the others are then equalities between sets of one element.

*Formats* (`PreprocessProofs`). `FmtIInv` says at each stage what the metadata and the
headers of the images are, from the mode of the frame and that of the first frame, which
made the buffers (`Sized`, `Unconverted`, `Converted`). The counts of bytes are products, so
what is compared is kept as a product and only the facts needed of it are stated
(`ImageBytesNat`, `TensorFits`, `HalfNat`).

*The resize map* (`PreprocessProofs`). `ResizeInv` says that a table that is built is
`Entry` of every pixel, and `ColourOfTable` that a colour output is the table's, so that
the theorems become arithmetic about one entry. The products are beyond a linear solver:
`Monotone`, `QuotientBound` and `QuotientSandwich` state once what is needed of `*` and
`\div`, and `PositionInside` concludes that the strict scale `(w_in - 1) / w_out`, rounded by
less than a step, stays at or above 0 and below `w_in - 1`. `FourWeights` truncates the four
products and bounds their sum and their moments; an exact hit is the case in which one of
them is 256. `BlendScaled` is the linearity that takes the red channel back to grey.

*Detections* (`DetectionsProofs`). `DetIInv` is the invariant of the four loops. `Marked`
says that what a kept box overlaps, further on, is marked; `Disjoint` that what has been
kept is not overlapped; `PassedAreCovered` that a candidate that has been passed or
marked is covered by a kept one at least as good, for which the order of scores (`Ordered`)
is needed; `RowsDecoded` and `MadeOfRows` tie the candidates to the rows in both directions,
over the permutation the sort makes. `ReportsThisFrame` and the two properties of the batch
are inductive with the types. That every row has a best class (`HighestIsBest`) is an
induction over its length: the library's induction rules take an operator and cannot be
used, but `SetInduction` states the rule for a set, and is derived from the well-foundedness
of `<` on `Nat`.

*Configuration* (`ConfigurationProofs`). The lemmas are about the edits: `SetParam...` and
`WithDefaults...` say that each keeps a key to one line, keeps a complete file complete and
gives the value it sets; `ChoiceIsCoherent` that every choice of the wizard, carried
through, leaves labels and model together; `HelperIsOfFamily` that the switch, whatever
falls through, ends in the model's family. `ConfIInv` adds where the three programs are:
`StaysComplete` and `NothingToWrite` (a complete file stays so, and no reader wants to write
it back), `Choosing` (how much of a choice is in the file while the wizard is inside one),
`ServesWhatStarts`.

*The bridge* (`ViconBridgeProofs`). `BridgeInv` is inductive in four conjuncts: the
types; the origin is where the vehicle was seen first (`InvOrigin`); the reference is the
conjugate of the flipped attitude first seen in a frame other than the one that gives the
origin (`InvLevel`); the pose sent is made from both (`InvSent`). What is left for the attitude is
algebra: `FlipCancels` shows that a conjugated flipped quaternion takes the flip of another
back, so that the quaternion sent is `level` conjugated times the attitude; `RelativeTurn`
that turning by `level` and then by it is turning by the attitude, up to the two lengths.
Polynomials of that degree are more than the solver expands at once; `Times...`,
`Distribute` and `RotScaled` take them apart by associativity. `SpeedInv` is a second
invariant over it: the vehicle, and the frame in hand, are no further from the last pose
sent than it can have flown since, along each axis (`InvReach`), in ticks that are counted
from the pose and the delay before it.

Not proved, checked by TLC only: the four liveness properties (`AcceptedFrameWakesWorker`,
`QueuedFrameWakesInference`, `ResultIsTaken`, `ChosenModelServes`), for fairness and `ENABLED`
are out of the prover's reach. The four runs of section 6 refute what they check.

## 6 Where code and documents disagree

Shown by a run:

| Run | What happens |
|---|---|
| `CleanExit` | `main.cpp:61` has the signal handled "so we can exit cleanly". From a server that serves: the signal comes, `preprocess_worker` and `inference_worker` leave their loops, `postprocess_worker` is asleep (`inference_handler.cpp:178`-`:183`); `main` notifies only the condition of the camera (`main.cpp:198`), nobody is left to notify the other, and `main` stays in `pthread_join`. The waits at 131 and 165 are notified by nobody at shutdown either |
| `HandshakeStall` | `postprocess_finish` is set and notified without `postprocess_mutex` (`:196`, `:211`): a wake-up between test and sleep is lost and inference stops for ever |
| `AttitudeFrame` | `flip_quaternion_flu_to_frd` multiplies by a unit from the left, and the inverse of the flipped reference cancels it (`viconmavlink.py:138`): positions go out forward-right-down, attitudes as turns about forward-left-up axes, a yaw to the left as one to the right |
| `ResizeSums` | `resize.c:170-171` has the four weights sum to "no more than 255", due to truncation. Half-way between input pixels nothing is truncated and they sum to 256, which overflows nothing |

Met while modelling, in the behaviour of the models but without a run of their own:

* *Ring and pipeline.* A ring of 24 holds 23: 24 unread frames look like none. The wait for
  a camera frame can miss its wake-up (`:82`-`:85`); the next frame repairs it. `insert_idx`
  is a plain `int`, whose new value can be seen before the metadata and the pixels. The queue of "max size 1"
  is longer during an inference. The colour image in the queue is an alias of the buffer the
  next frame is resized into. A signal while the model is loaded is undone by `main_running
  = 1`. If `pthread_create` fails `args` is deleted twice.
* *Images.* At an exact hit one weight is 256, which becomes 0 in the `uint8_t`, and the
  pixel black. YOLOv8 copies 640 by 640 by 3 floats into a tensor of any size
  (`yolov8_model_helper.cpp:172`). The sums for green and blue of the colour resizer each
  use a byte of the other (`p7`, `p10`). A grey stereo pair goes out with the size of two
  images although the CHANGELOG (0.2.4) has only the left one published. DeepLab's overlay
  can land on a later frame and is read back by inference (CHANGELOG 0.2.5).
* *Detections.* For two boxes without area OpenCV's overlap is 1, whatever their distance:
  `NMSBoxes` keeps one of them, where `nms` of YOLOv5 keeps both. YOLOv5 publishes the
  confidence of the last class instead of the best one (`yolov5_model_helper.cpp:173`).
  `frame_id` is another thread's counter.
* *Configuration.* Options 7 and 9 of the wizard never set `requires_labels`. After FastDepth
  or PoseNet it is false; the server then reads no labels, the constructor of YOLOv8 exits
  (`yolov8_model_helper.cpp:11-18`), and systemd gives up, with the model and the labels the
  wizard printed installed: the second half of `ChosenModelServes`. Option 8 ends at a `set_param_bool` with one argument, before its labels, and the custom YOLOv8
  it names is served by the generic SSD helper. `sed` leaves a comma behind a last key
  (`set_param_string_last` is never called), which breaks a file upgraded from before that
  key, or one whose keys stand in another order. A file that says a model needs no labels,
  and has no key for them, is not given one when it is read; the labels of a model chosen
  later then have no line for `sed` to find. A server that writes defaults back can restore
  a file that was just wiped, or undo edits made since it read.
* *Scripts.* `offboard_position_velocity_ned.py:58` announces "Go 10m North ... 0m Down" and
  commands 50, 0, -10, and lands before it leaves offboard mode. The bridge's velocities are
  differences of local positions sent as `MAV_FRAME_BODY_FRD`; an occluded frame after the
  origin is sent as the place Vicon reports for it, its zero point.

## 7 Abstractions

* In the pipeline a frame is its number, and pixels are the set of frame numbers they may
  come from (0: memory never written). Sizes, strides and formats are `FrameFormats`'
  matter, where a frame has no pixels; values of pixels are `ImageResize`'s. Timestamps are
  left out.
* Four formats stand for the camera's in `CameraQueue`: `yuv` (NV12, NV21, YUV422 and
  stereo), `raw8` (and stereo), `rgb` (what is written back), `other` (refused).
* The memcpy and the conversion are windows with a begin and an end.
* A condition wait is: test, sleep, wake. The mutex of a wait is modelled where it excludes
  something.
* Machine: sequentially consistent, but for the stores of metadata and pixels against
  `insert_idx` (`BumpSeenFirst`, `Settle`), which also stands for loads made early. The queues are exchanged under
  mutexes, which order what they protect.
* Confidences are whole percentages, boxes whole pixels; the grids and anchors that scale a
  YOLO box are not repeated, a row holds the box they give.
* Paths in the configuration are names, and only the keys the wizard sets, with the one that
  is last in a factory file, are kept. A write of the file is one step: `sed -i` renames a
  finished copy, and the server's write is one call of libmodal_json. An interruption ends the
  script and the server it runs together, as Ctrl-C does; a kill of one of them alone is not
  modelled.
* The Vicon vehicle moves at most a grid step a tick along each axis. A quaternion's length
  is free, as rotations do not depend on it.
* libmodal_pipe is external: the signal handler clears `main_running`, closing the client
  joins the thread of the callback, a lost camera is reconnected. So are OpenCV (`NMSBoxes`,
  `copyMakeBorder`), systemd, the Vicon SDK and pymavlink.
* The join of a thread that was not created (undefined) is a step that returns.

## 8 Not modelled, and the plan

Left out for good, with the reason:

* *utilities, gate helpers' numbers, drawing, labels printed*: arithmetic and output without
  state; what they publish is in `FrameFormats`.
* *timing statistics, choice of delegate, the TensorFlow Lite interpreter*: no other code
  depends on the first two; the third is a call that succeeds or fails.
* *MPA pipe reader*: two stateless loops over messages far below `PIPE_BUF`. They do not
  reopen a pipe that is made anew (`mpa_reader.c:39`), and the Python one spins at end of
  file (`mpa_pipe_reader.py:17`).
* *offboard flight scripts*: straight lines of MAVSDK calls; what can go wrong is decided by
  an autopilot that is not in this repository. Their error paths are among the hazards of
  `PROJECT.json`.
* *PID file, command line switches, packaging, model conversion, docker, the apq8096 wizard*
  (the same steps with fewer models), *the heartbeat thread* (a constant message that shares
  pymavlink's sequence number with the poses).

Hazards known and without a property: the input queue is trimmed only by the inference
thread and grows as long as an inference lasts (`inference_handler.cpp:118`); the early
returns of `main` with threads running (`main.cpp:100`, `:117`, `:131`); a leak in DeepLab
(`deep_lab_model_helper.cpp:37`); `start_time` shared by three threads
(`model_helper.cpp:407`).

The plan from here: RAW8. `output_image` is then a header on the camera slot, drawn on and
published by post-processing (`model_helper.cpp:325`), so the window in which the callback
may overrun it is longer than `CameraQueue` has it. It asks for the slot of a grey frame to
be followed through both queues of `TFLiteServer`, a property that says how many frames may
come in before its picture goes out, and its proof from `RingInv`, `IInv` and
`MetadataInOrder`.
