------------------------------ MODULE Detections ------------------------------
(***************************************************************************)
(* Post-processing of the three helpers that publish ai_detection_t:         *)
(* YOLOv5, YOLOv8 and the generic object detection (SSD) helper.  The thread *)
(* postprocess_worker turns the output tensor of a frame into boxes,         *)
(* suppresses overlapping ones, fills one ai_detection_t per box and writes  *)
(* the batch and then the image.  Meanwhile preprocess_worker counts further *)
(* frames in num_frames_processed, which is what frame_id is taken from.     *)
(* Confidences are percentages; a box is [x, y, w, h] in whole pixels.       *)
(***************************************************************************)
EXTENDS Integers, Sequences, FiniteSets, SequencesExt

CONSTANTS
    RowValues,   \* rows the network can put out: [box, conf, classes], where conf
                 \* is YOLOv5's box confidence and classes a sequence of scores
    Rows,        \* rows of the output tensor (anchors of all the grids)
    MaxFrames    \* bound of the model on num_frames_processed

ASSUME DetectionsAssumption ==
    /\ \A row \in RowValues :
          /\ row.box \in [x : Int, y : Int, w : Nat, h : Nat]
          /\ row.conf \in Nat
          /\ row.classes \in Seq(Nat) /\ row.classes # <<>>
    /\ Rows \in Nat /\ MaxFrames \in Nat

VARIABLES
    helper,                \* which model helper was created
    num_frames_processed,  \* counter of preprocess_worker
    frame,                 \* the frame being post-processed
    tensor,                \* its rows: [box, conf, classes]
    stage,                 \* where worker() is
    bbox_list,             \* candidate boxes
    is_merged,             \* YOLOv5: candidates merged into an earlier one
    next,                  \* loop index
    kept,                  \* boxes left by the suppression
    temp_vector,           \* detections being filled
    detections_vector,     \* detections of the last frame
    sent_id                \* history: the highest frame_id on DETECTION_CH

detVars == <<helper, num_frames_processed, frame, tensor, stage, bbox_list,
             is_merged, next, kept, temp_vector, detections_vector, sent_id>>
frameVars == <<helper, frame, tensor>>
outputs   == <<detections_vector, sent_id>>

DetInit ==
    /\ helper \in {"yolov5", "yolov8", "ssd"}
    /\ num_frames_processed = 0
    /\ frame = 0 /\ tensor = <<>> /\ stage = "idle"
    /\ bbox_list = <<>> /\ is_merged = {} /\ next = 1 /\ kept = <<>>
    /\ temp_vector = <<>> /\ detections_vector = <<>> /\ sent_id = 0

\* preprocess_worker counts another frame, at any time.
CountFrame ==
    /\ num_frames_processed < MaxFrames
    /\ num_frames_processed' = num_frames_processed + 1
    /\ UNCHANGED <<frameVars, stage, bbox_list, is_merged, next, kept,
                   temp_vector, outputs>>

\* postprocess_worker calls worker() for a later frame than the last one.
TakeResult ==
    /\ stage = "idle"
    /\ frame' \in frame + 1 .. num_frames_processed
    /\ tensor' \in [1 .. Rows -> RowValues]
    /\ stage' = "decode"
    /\ temp_vector' = <<>>
    /\ UNCHANGED <<helper, num_frames_processed, bbox_list, is_merged, next, kept,
                   outputs>>
-----------------------------------------------------------------------------
(***************************************************************************)
(* Decoding, row by row: a candidate for each that passes the thresholds.    *)
(***************************************************************************)
Highest(s) == CHOOSE i \in DOMAIN s :
                 /\ \A j \in DOMAIN s : s[j] <= s[i]
                 /\ \A j \in 1 .. i - 1 : s[j] < s[i]

Candidate(row, class_conf, detection_conf) ==
    [box |-> row.box, class_id |-> Highest(row.classes),
     score |-> row.classes[Highest(row.classes)],
     class_conf |-> class_conf, detection_conf |-> detection_conf]

\* (Variant: the two confidences of the box are exchanged.)
GetBBoxExchanged(row) ==
    IF row.conf >= 40 /\ row.classes[Highest(row.classes)] >= 20
    THEN <<Candidate(row, row.conf, Last(row.classes))>> ELSE <<>>

\* get_bbox: the box keeps confidence_of_class, a loop variable that ends as the
\* confidence of the last class, as its class_conf.
GetBBox(row) ==
    IF row.conf >= 40 /\ row.classes[Highest(row.classes)] >= 20
    THEN <<Candidate(row, Last(row.classes), row.conf)>> ELSE <<>>

\* One row of YOLOv8: there is no box confidence, which is reported as -1.
ScoredBox(row) ==
    LET best == row.classes[Highest(row.classes)]
    IN  IF best > 45 THEN <<Candidate(row, best, -1)>> ELSE <<>>

\* One detection of an SSD model; its class and score are the network's own.
ScoredDetection(row) ==
    LET best == row.classes[Highest(row.classes)]
    IN  IF best > 60 THEN <<Candidate(row, best, -1)>> ELSE <<>>

DecodeRow(candidates) ==
    /\ stage = "decode" /\ next <= Rows
    /\ bbox_list' = bbox_list \o candidates
    /\ next' = next + 1
    /\ UNCHANGED <<num_frames_processed, frameVars, stage, is_merged, kept,
                   temp_vector, outputs>>

YoloV5Decode == DecodeRow(GetBBox(tensor[next]))
YoloV8Decode == DecodeRow(ScoredBox(tensor[next]))
SsdDecode    == DecodeRow(ScoredDetection(tensor[next]))

\* SSD models suppress inside the network: every row above 60 % is reported.
DecodeDone(following) ==
    /\ stage = "decode" /\ next > Rows
    /\ kept' = IF following = "report" THEN bbox_list ELSE <<>>
    /\ next' = 1
    /\ stage' = following
    /\ UNCHANGED <<num_frames_processed, frameVars, bbox_list, is_merged, temp_vector,
                   outputs>>
-----------------------------------------------------------------------------
(***************************************************************************)
(* Non-maximum suppression.                                                  *)
(***************************************************************************)
Least(a, b) == IF a < b THEN a ELSE b
Most(a, b) == IF a < b THEN b ELSE a
Sides(a, b) ==
    [w |-> Least(a.x + a.w, b.x + b.w) - Most(a.x, b.x),
     h |-> Least(a.y + a.h, b.y + b.h) - Most(a.y, b.y)]
Area(r) == r.w * r.h

\* calc_iou(a, b) > 0.5.  Two empty boxes divide zero by zero, and the
\* comparison with the NaN is false.
CalcIou(a, b) ==
    LET s == Sides(a, b)
    IN  s.w >= 0 /\ s.h >= 0 /\ 2 * Area(s) > Area(a) + Area(b) - Area(s)

\* The candidates in the order p, by descending score.
SortedBy(p) ==
    /\ \A i, j \in DOMAIN p : i < j => bbox_list[p[i]].score >= bbox_list[p[j]].score
    /\ bbox_list' = [i \in DOMAIN p |-> bbox_list[p[i]]]
    /\ UNCHANGED <<num_frames_processed, frameVars, is_merged, next, kept, temp_vector,
                   outputs>>

\* std::sort: equal scores end in any order.
Sort ==
    /\ stage = "sort"
    /\ stage' = "nms"
    /\ \E p \in Bijection(DOMAIN bbox_list, DOMAIN bbox_list) : SortedBy(p)

\* (Variant: a merged box still merges those behind it.)
NmsMergedMerges ==
    /\ stage = "nms" /\ next <= Len(bbox_list)
    /\ kept' = IF next \in is_merged THEN kept ELSE Append(kept, bbox_list[next])
    /\ is_merged' = is_merged \cup
          {i \in next + 1 .. Len(bbox_list) : CalcIou(bbox_list[next].box, bbox_list[i].box)}
    /\ next' = next + 1
    /\ UNCHANGED <<num_frames_processed, frameVars, stage, bbox_list, temp_vector, outputs>>

\* (Variant: a box is only compared with the next one.)
NmsAdjacent ==
    /\ stage = "nms" /\ next <= Len(bbox_list)
    /\ IF next \in is_merged THEN UNCHANGED <<kept, is_merged>>
       ELSE /\ kept' = Append(kept, bbox_list[next])
            /\ is_merged' = is_merged \cup
                  {i \in {next + 1} \cap DOMAIN bbox_list :
                      CalcIou(bbox_list[next].box, bbox_list[i].box)}
    /\ next' = next + 1
    /\ UNCHANGED <<num_frames_processed, frameVars, stage, bbox_list, temp_vector, outputs>>

\* One pass of the outer loop of nms; the classes are not compared.
Nms ==
    /\ stage = "nms" /\ next <= Len(bbox_list)
    /\ IF next \in is_merged THEN UNCHANGED <<kept, is_merged>>
       ELSE /\ kept' = Append(kept, bbox_list[next])
            /\ is_merged' = is_merged \cup
                  {i \in next + 1 .. Len(bbox_list) :
                      CalcIou(bbox_list[next].box, bbox_list[i].box)}
    /\ next' = next + 1
    /\ UNCHANGED <<num_frames_processed, frameVars, stage, bbox_list, temp_vector, outputs>>

NmsDone ==
    /\ stage = "nms" /\ next > Len(bbox_list)
    /\ next' = 1
    /\ stage' = "report"
    /\ UNCHANGED <<num_frames_processed, frameVars, bbox_list, is_merged, kept,
                   temp_vector, outputs>>

\* cv::dnn::NMSBoxes: by score, equal scores in their order, a box is kept when
\* no kept one overlaps it; here two empty boxes do overlap.
StableSort ==
    /\ stage = "sort"
    /\ stage' = "nmsboxes"
    /\ \E p \in Bijection(DOMAIN bbox_list, DOMAIN bbox_list) :
          /\ SortedBy(p)
          /\ \A i, j \in DOMAIN p :
                i < j /\ bbox_list[p[i]].score = bbox_list[p[j]].score => p[i] < p[j]

BothEmpty(a, b) == Area(a) + Area(b) = 0
Overlaps(a, b) == CalcIou(a, b) \/ BothEmpty(a, b)

NMSBoxes ==
    /\ stage = "nmsboxes" /\ next <= Len(bbox_list)
    /\ kept' = IF \E k \in DOMAIN kept : Overlaps(kept[k].box, bbox_list[next].box)
               THEN kept ELSE Append(kept, bbox_list[next])
    /\ next' = next + 1
    /\ UNCHANGED <<num_frames_processed, frameVars, stage, bbox_list, is_merged,
                   temp_vector, outputs>>

NMSBoxesDone ==
    /\ stage = "nmsboxes" /\ next > Len(bbox_list)
    /\ next' = 1
    /\ stage' = "report"
    /\ UNCHANGED <<num_frames_processed, frameVars, bbox_list, is_merged, kept,
                   temp_vector, outputs>>
-----------------------------------------------------------------------------
(***************************************************************************)
(* One ai_detection_t per box, then the two pipes.                           *)
(***************************************************************************)

\* (Variant: the first frame, which is not processed, is taken off the id.)
DetectionOffByOne(b) ==
    [frame_id |-> num_frames_processed - 1, of |-> frame, class_id |-> b.class_id,
     class_confidence |-> b.class_conf, detection_confidence |-> b.detection_conf,
     box |-> b.box]

Detection(b) ==
    [frame_id |-> num_frames_processed, of |-> frame, class_id |-> b.class_id,
     class_confidence |-> b.class_conf, detection_confidence |-> b.detection_conf,
     box |-> b.box]

Report ==
    /\ stage = "report" /\ next <= Len(kept)
    /\ temp_vector' = Append(temp_vector, Detection(kept[next]))
    /\ next' = next + 1
    /\ UNCHANGED <<num_frames_processed, frameVars, stage, bbox_list, is_merged,
                   kept, outputs>>

\* (Variant: the member is only replaced when there is something new.)
SwapWhenFound ==
    /\ stage = "report" /\ next > Len(kept)
    /\ detections_vector' = IF temp_vector = <<>> THEN detections_vector ELSE temp_vector
    /\ stage' = "publish"
    /\ UNCHANGED <<num_frames_processed, frameVars, bbox_list, is_merged, next,
                   kept, temp_vector, sent_id>>

Swap ==
    /\ stage = "report" /\ next > Len(kept)
    /\ detections_vector' = temp_vector
    /\ stage' = "publish"
    /\ UNCHANGED <<num_frames_processed, frameVars, bbox_list, is_merged, next,
                   kept, temp_vector, sent_id>>

\* The batch is written if there is one, then the image; the local vectors go.
Publish ==
    /\ stage = "publish"
    /\ sent_id' = IF detections_vector = <<>> THEN sent_id
                  ELSE Last(detections_vector).frame_id
    /\ stage' = "idle"
    /\ tensor' = <<>> /\ bbox_list' = <<>> /\ is_merged' = {} /\ next' = 1
    /\ kept' = <<>> /\ temp_vector' = <<>>
    /\ UNCHANGED <<helper, num_frames_processed, frame, detections_vector>>

YoloV5Postprocess ==
    /\ helper = "yolov5"
    /\ YoloV5Decode \/ DecodeDone("sort") \/ Sort \/ Nms \/ NmsDone \/ Report \/ Swap
YoloV8Postprocess ==
    /\ helper = "yolov8"
    /\ \/ YoloV8Decode \/ DecodeDone("sort") \/ StableSort \/ NMSBoxes \/ NMSBoxesDone
       \/ Report \/ Swap
SsdPostprocess ==
    /\ helper = "ssd"
    /\ SsdDecode \/ DecodeDone("report") \/ Report \/ Swap

YoloV5Worker == helper = "yolov5" /\ Publish
YoloV8Worker == helper = "yolov8" /\ Publish
SsdWorker    == helper = "ssd" /\ Publish

DetNext ==
    \/ CountFrame \/ TakeResult
    \/ YoloV5Postprocess \/ YoloV8Postprocess \/ SsdPostprocess
    \/ YoloV5Worker \/ YoloV8Worker \/ SsdWorker

DetSpec == DetInit /\ [][DetNext]_detVars
-----------------------------------------------------------------------------
(***************************************************************************)
(* Properties.                                                               *)
(***************************************************************************)

\* The type invariant.
DetTypeOK ==
    /\ helper \in {"yolov5", "yolov8", "ssd"}
    /\ num_frames_processed \in 0 .. MaxFrames
    /\ frame \in 0 .. num_frames_processed
    /\ stage \in {"idle", "decode", "sort", "nms", "nmsboxes", "report", "publish"}
    /\ is_merged \subseteq DOMAIN bbox_list
    /\ next \in 1 .. Rows + 1
    /\ Len(kept) <= Len(bbox_list) /\ Len(bbox_list) <= Rows
    /\ Len(temp_vector) <= Len(kept)

Suppressing == helper # "ssd" /\ stage \in {"report", "publish"}

\* Rows of the tensor the thresholds let through, by their definition.
Detected(row) ==
    LET best(t) == \E i \in DOMAIN row.classes : row.classes[i] >= t
    IN  IF helper = "yolov5" THEN row.conf >= 40 /\ best(20) ELSE best(46)

\* What is reported no longer overlaps, whatever order the sort leaves equal
\* scores in: of two boxes that overlap by more than half one has been dropped.
KeptDoNotOverlap ==
    Suppressing => \A i, j \in DOMAIN kept :
                      i # j => ~CalcIou(kept[i].box, kept[j].box)

\* Nothing is lost: every row above the thresholds is reported, or overlaps a
\* reported box with at least its score, of whatever class.  Boxes of no area are
\* the exception: NMSBoxes keeps one of them, wherever they are.
LostOnlyToBetter ==
    Suppressing =>
        \A r \in DOMAIN tensor : Detected(tensor[r]) =>
            \E k \in DOMAIN kept :
               /\ kept[k].score >= tensor[r].classes[Highest(tensor[r].classes)]
               /\ \/ kept[k].box = tensor[r].box
                  \/ CalcIou(kept[k].box, tensor[r].box)
                  \/ helper = "yolov8" /\ BothEmpty(kept[k].box, tensor[r].box)

\* The confidence published with a class is never above the one the network gave
\* to that class in any row; YOLOv5 publishes the confidence of the last class
\* instead (yolov5_model_helper.cpp:173), the other helpers the right one.
ConfidenceNotOverstated ==
    \A d \in {temp_vector[i] : i \in DOMAIN temp_vector} :
        \E r \in DOMAIN tensor :
            /\ tensor[r].box = d.box
            /\ Highest(tensor[r].classes) = d.class_id
            /\ d.class_confidence <= tensor[r].classes[d.class_id]
            /\ helper # "yolov5" => d.class_confidence = tensor[r].classes[d.class_id]

\* The batch that goes out with an image is that of the same frame: a frame
\* without detections does not repeat those of an earlier one.
BatchOfThisFrame ==
    stage = "publish" => \A i \in DOMAIN detections_vector : detections_vector[i].of = frame

\* frame_id is read from a counter of another thread: it may name a later frame,
\* two frames may share it, and one batch may have two, but it is never that of
\* an earlier frame and never goes back, within a batch or between batches.
FrameIdsInOrder ==
    \A i \in DOMAIN temp_vector :
       /\ temp_vector[i].frame_id \in Most(frame, sent_id) .. num_frames_processed
       /\ \A j \in 1 .. i - 1 : temp_vector[j].frame_id <= temp_vector[i].frame_id
=============================================================================
