----------------------------- MODULE CameraQueue -----------------------------
(***************************************************************************)
(* The ring of QUEUE_SIZE camera frames between the camera callback of       *)
(* main.cpp (the thread of libmodal_pipe that runs _camera_helper_cb) and    *)
(* preprocess_worker of inference_handler.cpp.  Neither side takes a lock    *)
(* for the ring: the callback fills the slot at insert_idx and bumps the     *)
(* index, the worker compares its own queue_index with it, and the only      *)
(* mutex protects a wait that has no predicate.  insert_idx is a plain int,  *)
(* so on the aarch64 target the worker may see it move before it sees what   *)
(* was stored into the slot, metadata and pixels alike (BumpSeenFirst); a    *)
(* load that the worker makes early comes to the same.  Otherwise the        *)
(* accesses are those of a sequentially consistent machine.                  *)
(*                                                                           *)
(* The memcpy of a frame into its slot, and the conversion of a slot into an *)
(* RGB image, are windows (a begin and an end step), so they can overlap.    *)
(* Pixels are abstracted to the set of frames they may come from.            *)
(***************************************************************************)
EXTENDS Integers

CONSTANTS
    QUEUE_SIZE,      \* slots of the ring (24 in model_helper.h)
    SKIP_N_FRAMES,   \* skip_n_frames of the configuration file
    Formats,         \* formats the camera sends, a subset of AllFormats
    MaxFrames        \* bound of the model on the frames accepted

\* "yuv": NV12, NV21, YUV422 and their stereo pairs, converted to RGB;
\* "raw8": RAW8 and STEREO_RAW8; "rgb", "other": formats preprocess() refuses.
AllFormats == {"yuv", "raw8", "rgb", "other"}

ASSUME CameraQueueAssumption ==
    /\ QUEUE_SIZE \in Nat \ {0}
    /\ SKIP_N_FRAMES \in Nat
    /\ Formats \subseteq AllFormats
    /\ MaxFrames \in Nat

VARIABLES
    main_running,    \* the flag of libmodal_pipe every loop of the server tests
    slots,           \* camera_queue.queue: metadata (frame, format) and pixels
    insert_idx,      \* camera_queue.insert_idx
    n_skipped,       \* static counter of the callback
    cb,              \* where the callback thread is
    sent,            \* history: frames accepted so far, the number of the latest
    gap,             \* history: frames that arrived and were not accepted since
    before,          \* the slot's metadata before the store under way
    closed,          \* main: "open", then "closed" (client pipe), "notified"
    pre,             \* where preprocess_worker is
    queue_index,     \* preprocess_worker's next slot
    slot,            \* slot new_frame points to
    map_ready,       \* the first frame has been used to build the resize map
    seen,            \* frames whose pixels the conversion may have read
    claimed,         \* history: the frame in the slot claimed last
    delivered,       \* history: the latest frame handed to the inference queue
    handed,          \* history: how many frames were handed over
    overrun,         \* history: the callback has written the slot being read
    early            \* history: a slot was read before its last stores were visible

callbackVars == <<insert_idx, n_skipped, cb, sent, gap, before>>
workerVars   == <<queue_index, slot, map_ready, seen, claimed, delivered, handed>>
races        == <<overrun, early>>
cqVars == <<main_running, slots, callbackVars, closed, pre, workerVars, races>>

Slot == 0 .. QUEUE_SIZE - 1
\* (Variant that is not the code: the index is not wrapped.)
NextSlotUnwrapped(i) == i + 1
NextSlot(i) == (i + 1) % QUEUE_SIZE

\* The worker is between grabbing new_frame and its last read of *new_frame.
Reading == pre \in {"converting", "merging"}
Holding == Reading \/ pre \in {"claimed", "converted"}

\* Where the camera callback's stores are under way: in the slot it fills and, if
\* the index was seen first, in the slot it has just passed.
Settling(i) == cb = "settling" /\ NextSlot(i) = insert_idx
Unsettled(i) == Settling(i) \/ (cb \in {"copying", "copied"} /\ i = insert_idx)

\* The metadata the worker may find in a slot; it reads format and frame at
\* different times, so it may find one of them old and the other new.
NoMeta == [frame |-> 0, format |-> "other"]
Meta(i) == [frame |-> slots[i].frame, format |-> slots[i].format]
SeenMeta(i) == {Meta(i)} \cup (IF Unsettled(i) THEN {before} ELSE {})

CQInit ==
    /\ main_running = TRUE
    /\ slots = [i \in Slot |-> [frame |-> 0, format |-> "other", pixels |-> {0}]]
    /\ insert_idx = 0 /\ n_skipped = 0 /\ cb = "idle"
    /\ sent = 0 /\ gap = 0 /\ before = NoMeta
    /\ closed = "open"
    /\ pre = "loop" /\ queue_index = 0 /\ slot = 0
    /\ map_ready = FALSE /\ seen = {} /\ claimed = 0 /\ delivered = 0 /\ handed = 0
    /\ overrun = FALSE /\ early = FALSE
-----------------------------------------------------------------------------
(***************************************************************************)
(* The camera callback.                                                      *)
(***************************************************************************)

\* A frame arrives at a free callback; the history counts those not accepted.
\* (It is only compared with SKIP_N_FRAMES, so it stops counting above it.)
Arrive == closed = "open" /\ cb = "idle"
NotAccepted ==
    /\ gap' = IF gap <= SKIP_N_FRAMES THEN gap + 1 ELSE gap
    /\ UNCHANGED <<main_running, slots, insert_idx, cb, sent, before, closed, pre,
                   workerVars, races>>

SkipFrame ==
    /\ Arrive
    /\ n_skipped < SKIP_N_FRAMES
    /\ n_skipped' = n_skipped + 1
    /\ NotAccepted

\* More bytes are waiting in the pipe: this frame is dropped, and counted.
RefuseBackup ==
    /\ Arrive
    /\ n_skipped >= SKIP_N_FRAMES
    /\ n_skipped' = 1
    /\ NotAccepted

\* Nobody listens to the output pipes, or the frame is larger than a slot.
RefuseFrame ==
    /\ Arrive
    /\ n_skipped >= SKIP_N_FRAMES
    /\ n_skipped' = 0
    /\ NotAccepted

\* The metadata is written and the memcpy begins: from here on a reader of the
\* slot may see old and new pixels, and the old metadata.
StoreFrame(format) ==
    /\ gap' = 0
    /\ sent' = sent + 1
    /\ before' = Meta(insert_idx)
    /\ slots' = [slots EXCEPT ![insert_idx] =
                   [frame |-> sent + 1, format |-> format,
                    pixels |-> @.pixels \cup {sent + 1}]]
    /\ cb' = "copying"
    /\ overrun' = (overrun \/ (Holding /\ slot = insert_idx))
    /\ seen' = IF Reading /\ slot = insert_idx
               THEN seen \cup {sent + 1} ELSE seen
    /\ UNCHANGED <<main_running, insert_idx, closed, pre, queue_index, slot,
                   map_ready, claimed, delivered, handed, early>>

\* (Variant: n_skipped is not reset when a frame is accepted.)
AcceptFrameKeepsSkipped ==
    /\ Arrive
    /\ n_skipped >= SKIP_N_FRAMES
    /\ sent < MaxFrames
    /\ \E f \in Formats : StoreFrame(f)
    /\ UNCHANGED n_skipped

\* (Variant: the format of a slot is only written the first time it is used.)
AcceptFrameKeepsFormat ==
    /\ Arrive
    /\ n_skipped >= SKIP_N_FRAMES
    /\ sent < MaxFrames
    /\ n_skipped' = 0
    /\ \E f \in Formats : StoreFrame(IF slots[insert_idx].frame = 0
                                     THEN f ELSE slots[insert_idx].format)

AcceptFrame ==
    /\ Arrive
    /\ n_skipped >= SKIP_N_FRAMES
    /\ sent < MaxFrames
    /\ n_skipped' = 0
    /\ \E f \in Formats : StoreFrame(f)

CopyDone ==
    /\ cb = "copying"
    /\ slots' = [slots EXCEPT ![insert_idx].pixels = {sent}]
    /\ cb' = "copied"
    /\ UNCHANGED <<main_running, insert_idx, n_skipped, sent, gap, before, closed,
                   pre, workerVars, races>>

\* (Variant: the index is published before the pixels are copied.)
BumpIndexBeforeCopy ==
    /\ cb = "copying"
    /\ insert_idx' = NextSlot(insert_idx)
    /\ cb' = "notify"
    /\ before' = NoMeta
    /\ UNCHANGED <<main_running, slots, n_skipped, sent, gap, closed, pre,
                   workerVars, races>>

BumpIndex ==
    /\ cb = "copied"
    /\ insert_idx' = NextSlot(insert_idx)
    /\ cb' = "notify"
    /\ before' = NoMeta
    /\ UNCHANGED <<main_running, slots, n_skipped, sent, gap, closed, pre,
                   workerVars, races>>

\* insert_idx is a plain int and no barrier orders the stores: on the aarch64
\* target the worker may see the new index before the metadata and the pixels.
\* They settle before the callback takes the lock of the pipe for its next frame;
\* that they do so before notify_all loses nothing, for it only acts on a worker
\* that is asleep, and waking up orders what the worker reads then.
BumpSeenFirst ==
    /\ cb = "copying"
    /\ insert_idx' = NextSlot(insert_idx)
    /\ cb' = "settling"
    /\ UNCHANGED <<main_running, slots, n_skipped, sent, gap, before, closed, pre,
                   workerVars, races>>

Settle ==
    /\ \E i \in Slot : /\ Settling(i)
                       /\ slots' = [slots EXCEPT ![i].pixels = {sent}]
    /\ cb' = "notify"
    /\ before' = NoMeta
    /\ UNCHANGED <<main_running, insert_idx, n_skipped, sent, gap, closed, pre,
                   workerVars, races>>

\* cond_var.notify_all(), without the mutex: it wakes the worker only if the
\* worker is already asleep.
Wake == pre' = IF pre = "waiting" THEN "loop" ELSE pre

\* (Variant: only the first frame put into an empty ring is announced.)
NotifyFrameWhenEmpty ==
    /\ cb = "notify"
    /\ cb' = "idle"
    /\ IF NextSlot(queue_index) = insert_idx THEN Wake ELSE UNCHANGED pre
    /\ UNCHANGED <<main_running, slots, insert_idx, n_skipped, sent, gap, before,
                   closed, workerVars, races>>

NotifyFrame ==
    /\ cb = "notify"
    /\ cb' = "idle"
    /\ Wake
    /\ UNCHANGED <<main_running, slots, insert_idx, n_skipped, sent, gap, before,
                   closed, workerVars, races>>
-----------------------------------------------------------------------------
(***************************************************************************)
(* preprocess_worker, and the part of preprocess() that reads the slot.      *)
(***************************************************************************)

LoopTest ==
    /\ pre = "loop"
    /\ pre' = IF main_running THEN "compare" ELSE "exited"
    /\ UNCHANGED <<main_running, slots, callbackVars, closed, workerVars, races>>

\* The two indices are equal: nothing to read.  Locking the mutex and falling
\* asleep come later, and the comparison is not repeated under the mutex.
FindEmpty ==
    /\ pre = "compare"
    /\ queue_index = insert_idx
    /\ pre' = "empty"
    /\ UNCHANGED <<main_running, slots, callbackVars, closed, workerVars, races>>

\* (Variant: the indices are not compared.)
ClaimSlotUnchecked ==
    /\ pre = "compare"
    /\ slot' = queue_index
    /\ queue_index' = NextSlot(queue_index)
    /\ claimed' = slots[queue_index].frame
    /\ pre' = "claimed"
    /\ UNCHANGED <<main_running, slots, callbackVars, closed, map_ready, seen,
                   delivered, handed, races>>

\* (Variant: the worker catches up by moving to insert_idx after a claim.)
ClaimSlotCatchUp ==
    /\ pre = "compare"
    /\ queue_index # insert_idx
    /\ slot' = queue_index
    /\ queue_index' = insert_idx
    /\ claimed' = slots[queue_index].frame
    /\ pre' = "claimed"
    /\ UNCHANGED <<main_running, slots, callbackVars, closed, map_ready, seen,
                   delivered, handed, races>>

\* (Variant: the index is bumped before the frame is grabbed.)
ClaimSlotBumpedFirst ==
    /\ pre = "compare"
    /\ queue_index # insert_idx
    /\ slot' = NextSlot(queue_index)
    /\ queue_index' = NextSlot(queue_index)
    /\ claimed' = slots[queue_index].frame
    /\ pre' = "claimed"
    /\ UNCHANGED <<main_running, slots, callbackVars, closed, map_ready, seen,
                   delivered, handed, races>>

ClaimSlot ==
    /\ pre = "compare"
    /\ queue_index # insert_idx
    /\ slot' = queue_index
    /\ queue_index' = NextSlot(queue_index)
    /\ claimed' = slots[queue_index].frame
    /\ pre' = "claimed"
    /\ UNCHANGED <<main_running, slots, callbackVars, closed, map_ready, seen,
                   delivered, handed, races>>

FallAsleep ==
    /\ pre = "empty"
    /\ pre' = "waiting"
    /\ UNCHANGED <<main_running, slots, callbackVars, closed, workerVars, races>>

\* The standard allows a wait without predicate to return at any time.
SpuriousWake ==
    /\ pre = "waiting"
    /\ pre' = "loop"
    /\ UNCHANGED <<main_running, slots, callbackVars, closed, workerVars, races>>

StopBeforeFrame ==
    /\ pre = "claimed"
    /\ ~main_running
    /\ pre' = "exited"
    /\ UNCHANGED <<main_running, slots, callbackVars, closed, workerVars, races>>

\* The first frame only sizes the buffers: preprocess() returns false.
FirstFrame ==
    /\ pre = "claimed"
    /\ main_running
    /\ ~map_ready
    /\ map_ready' = TRUE
    /\ pre' = "loop"
    /\ UNCHANGED <<main_running, slots, callbackVars, closed, queue_index, slot,
                   seen, claimed, delivered, handed, races>>

\* The default branch of the switch over meta.format: preprocess() returns false.
RefuseFormat ==
    /\ pre = "claimed"
    /\ main_running
    /\ map_ready
    /\ \E m \in SeenMeta(slot) : m.format \notin {"yuv", "raw8"}
    /\ pre' = "loop"
    /\ UNCHANGED <<main_running, slots, callbackVars, closed, workerVars, races>>

\* preprocess() reads the pixels of the slot until the conversion ends: cvtColor
\* for a colour frame, the grey resize for RAW8.
ReadBegin ==
    /\ pre = "claimed"
    /\ main_running
    /\ map_ready
    /\ \E m \in SeenMeta(slot) : \/ m.format = "yuv"  /\ pre' = "converting"
                                 \/ m.format = "raw8" /\ pre' = "merging"
    /\ seen' = slots[slot].pixels
    /\ early' = (early \/ Settling(slot))
    /\ UNCHANGED <<main_running, slots, callbackVars, closed, queue_index, slot,
                   map_ready, claimed, delivered, handed, overrun>>

\* meta is a reference into the slot: after a colour conversion preprocess()
\* writes the new format back into the camera queue, where a store of the callback
\* that is still under way may overwrite it.
ConvertEnd ==
    /\ pre = "converting"
    /\ \/ slots' = [slots EXCEPT ![slot].format = "rgb"]
       \/ Unsettled(slot) /\ UNCHANGED slots
    /\ pre' = "converted"
    /\ UNCHANGED <<main_running, callbackVars, closed, workerVars, races>>

MergeEnd ==
    /\ pre = "merging"
    /\ pre' = "converted"
    /\ UNCHANGED <<main_running, slots, callbackVars, closed, workerVars, races>>

\* (Variant: the metadata is read through queue_index, which was bumped.)
HandOverNextSlot ==
    /\ pre = "converted"
    /\ \E m \in SeenMeta(queue_index) : delivered' = m.frame
    /\ handed' = handed + 1
    /\ pre' = "loop"
    /\ UNCHANGED <<main_running, slots, callbackVars, closed, queue_index, slot,
                   map_ready, seen, claimed, races>>

\* The metadata of the result is read from the slot now, after the conversion.
HandOver ==
    /\ pre = "converted"
    /\ \E m \in SeenMeta(slot) : delivered' = m.frame
    /\ handed' = handed + 1
    /\ early' = (early \/ Settling(slot))
    /\ pre' = "loop"
    /\ UNCHANGED <<main_running, slots, callbackVars, closed, queue_index, slot,
                   map_ready, seen, claimed, overrun>>
-----------------------------------------------------------------------------
(***************************************************************************)
(* What the main thread does to the two: the signal handler clears           *)
(* main_running; main closes the client pipe, which waits for a callback     *)
(* under way, and later calls notify_all once.                               *)
(***************************************************************************)

Stop ==
    /\ main_running
    /\ main_running' = FALSE
    /\ UNCHANGED <<slots, callbackVars, closed, pre, workerVars, races>>

CloseClient ==
    /\ ~main_running
    /\ Arrive
    /\ closed' = "closed"
    /\ UNCHANGED <<main_running, slots, callbackVars, pre, workerVars, races>>

NotifyStop ==
    /\ closed = "closed"
    /\ closed' = "notified"
    /\ Wake
    /\ UNCHANGED <<main_running, slots, callbackVars, workerVars, races>>

Callback ==
    \/ SkipFrame \/ RefuseBackup \/ RefuseFrame \/ AcceptFrame
    \/ CopyDone \/ BumpIndex \/ BumpSeenFirst \/ Settle \/ NotifyFrame

PreprocessWorker ==
    \/ LoopTest \/ FindEmpty \/ ClaimSlot \/ FallAsleep
    \/ StopBeforeFrame \/ FirstFrame \/ RefuseFormat
    \/ ReadBegin \/ ConvertEnd \/ MergeEnd \/ HandOver

Shutdown == Stop \/ CloseClient \/ NotifyStop

CQNext == Callback \/ PreprocessWorker \/ SpuriousWake \/ Shutdown

CQSpec == CQInit /\ [][CQNext]_cqVars

\* Fairness of the scheduler: every thread of the server keeps running.  The
\* camera and the signal are the environment and promise nothing.
CQFairness ==
    /\ WF_cqVars(CopyDone \/ BumpIndex \/ Settle \/ NotifyFrame)
    /\ WF_cqVars(PreprocessWorker)
    /\ WF_cqVars(CloseClient \/ NotifyStop)

CQFairSpec == CQSpec /\ CQFairness
-----------------------------------------------------------------------------
(***************************************************************************)
(* Properties.                                                               *)
(***************************************************************************)

CQTypeOK ==
    /\ main_running \in BOOLEAN
    /\ slots \in [Slot -> [frame : Nat, format : AllFormats, pixels : SUBSET Nat]]
    /\ insert_idx \in Slot
    /\ n_skipped \in Nat
    /\ cb \in {"idle", "copying", "copied", "settling", "notify"}
    /\ sent \in Nat
    /\ gap \in Nat
    /\ before \in [frame : Nat, format : AllFormats]
    /\ closed \in {"open", "closed", "notified"}
    /\ pre \in {"loop", "compare", "empty", "waiting", "claimed", "converting",
                "merging", "converted", "exited"}
    /\ queue_index \in Slot
    /\ slot \in Slot
    /\ map_ready \in BOOLEAN
    /\ seen \in SUBSET Nat
    /\ claimed \in Nat
    /\ delivered \in Nat
    /\ handed \in Nat
    /\ overrun \in BOOLEAN
    /\ early \in BOOLEAN

\* Frames whose slot the index has moved past.
Inserted == IF cb \in {"copying", "copied"} THEN sent - 1 ELSE sent

\* The ring is an ordered lossy channel: the frames that reach the inference queue
\* carry their own metadata, in camera order, none twice - although the ring may be
\* lapped, an empty ring looks like a full one, and no lock orders the two threads.
\* Two races break it: the callback has written the slot being read (an overrun),
\* or its stores into the slot handed on have not settled (main.cpp:263-266).
Chan == INSTANCE OrderedLossyChannel
ChannelUntilRace ==
    Chan!ChanInit /\ [][Chan!ChanNext \/ overrun \/ Settling(slot)]_(Chan!chanVars)

\* What goes out with an image when the index was seen before the metadata is that
\* of the frame which was in the slot a lap ago, or of none; from a settled slot
\* it is that of the frame claimed (main.cpp:263-266, inference_handler.cpp:112).
LastLap(f) == IF f > QUEUE_SIZE THEN f - QUEUE_SIZE ELSE 0
MetadataOfALap ==
    [][handed' # handed /\ ~overrun =>
         \/ delivered' = claimed
         \/ Settling(slot) /\ delivered' = LastLap(claimed)]_cqVars

\* A slot being filled is never claimed: even after the ring has been lapped, the
\* worker claims frames in strictly increasing order (inference_handler.cpp:82
\* against main.cpp:266).
ClaimsIncrease == [][claimed' # claimed => claimed' > claimed]_claimed

\* Below its capacity the ring loses nothing: if fewer than QUEUE_SIZE frames
\* were inserted since the last claim, the next claim takes the very next frame.
NothingSkippedBelowCapacity ==
    [][(pre = "compare" /\ pre' = "claimed" /\ Inserted - claimed < QUEUE_SIZE)
          => claimed' = claimed + 1]_cqVars

\* The pixels that were converted are those of the frame whose metadata belongs
\* with them, unless the callback overran the slot during the conversion or the
\* index was seen before the pixels.
ImageIsTheFrame ==
    (pre = "converted" /\ ~overrun /\ ~early) => seen = {slots[slot].frame}

\* preprocess() leaves the format of its output in the camera slot; no later lap
\* mistakes it for the format of a camera frame and refuses the frame, unless the
\* callback's store of the new format has not settled (main.cpp:263-266).
FormatNotStale ==
    (pre = "claimed" /\ \E m \in SeenMeta(slot) : m.format = "rgb")
        => ("rgb" \in Formats \/ overrun \/ Settling(slot))

\* "how many frames to skip between processed frames" (config_file.h:71): at
\* least skip_n_frames frames separate two accepted ones, whatever is refused.
AcceptedFramesSpaced == [][sent' # sent => gap >= SKIP_N_FRAMES]_cqVars

\* A frame accepted while preprocess_worker is asleep gets it out of its wait, if
\* only by the time it has been copied; the frames the worker can sleep on are
\* those stored between its comparison and its wait (inference_handler.cpp:82-86).
AcceptedFrameWakesWorker ==
    (pre = "waiting" /\ cb # "idle") ~> pre # "waiting"
=============================================================================
