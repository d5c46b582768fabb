--------------------------- MODULE DetectionsProofs ---------------------------
(***************************************************************************)
(* Proofs about Detections, for every tensor, of any number of rows and any  *)
(* number of classes, and any number of frames: what the suppression keeps   *)
(* and drops, the confidences, and the frame a batch belongs to.             *)
(***************************************************************************)
EXTENDS Detections, WellFoundedInduction, TLAPS

Boxes == [x : Int, y : Int, w : Nat, h : Nat]
Candidates ==
    [box : Boxes, class_id : Nat, score : Nat, class_conf : Int, detection_conf : Int]
Reported ==
    [frame_id : Nat, of : Nat, class_id : Nat, class_confidence : Int,
     detection_confidence : Int, box : Boxes]

\* The value of a row: the score of its best class.
Score(row) == row.classes[Highest(row.classes)]

\* Where worker() is, and how far its loops have come.
LoopsInStep ==
    /\ bbox_list \in Seq(Candidates) /\ kept \in Seq(Candidates)
    /\ temp_vector \in Seq(Reported) /\ detections_vector \in Seq(Reported)
    /\ stage # "idle" => tensor \in [1 .. Rows -> RowValues]
    /\ stage = "idle" => tensor = <<>> /\ bbox_list = <<>> /\ next = 1
    /\ stage = "decode" => Len(bbox_list) < next
    /\ stage \in {"idle", "decode", "sort"} => kept = <<>> /\ is_merged = {}
    /\ stage = "sort" => helper # "ssd" /\ next = 1
    /\ stage = "nms" => helper = "yolov5"
    /\ stage = "nmsboxes" => helper = "yolov8"
    /\ stage \in {"nms", "nmsboxes"} => Len(kept) < next /\ next <= Len(bbox_list) + 1
    /\ stage \notin {"report", "publish"} => temp_vector = <<>>
    /\ stage = "report" => Len(temp_vector) = next - 1 /\ next <= Len(kept) + 1
    /\ stage = "publish" => detections_vector = temp_vector

\* A candidate is made of a row, and does not overstate its class.
FromRow(c) ==
    \E r \in DOMAIN tensor :
        /\ c.box = tensor[r].box
        /\ c.class_id = Highest(tensor[r].classes)
        /\ c.class_conf <= Score(tensor[r])
        /\ helper # "yolov5" => c.class_conf = Score(tensor[r])

MadeOfRows ==
    /\ \A i \in DOMAIN bbox_list : FromRow(bbox_list[i])
    /\ \A k \in DOMAIN kept : FromRow(kept[k])

\* Every detected row that has been read has its candidate.
RowsDecoded ==
    stage # "idle" /\ helper # "ssd" =>
        \A r \in DOMAIN tensor :
            (stage = "decode" => r < next) /\ Detected(tensor[r]) =>
                \E i \in DOMAIN bbox_list : /\ bbox_list[i].box = tensor[r].box
                                            /\ bbox_list[i].score = Score(tensor[r])

\* The candidates are in order of their scores while they are suppressed, and
\* NMSBoxes has kept none that is worse than one to come.
Ordered ==
    /\ stage \in {"nms", "nmsboxes"} =>
          \A i, j \in DOMAIN bbox_list : i < j => bbox_list[i].score >= bbox_list[j].score
    /\ stage = "nmsboxes" =>
          \A k \in DOMAIN kept : \A i \in next .. Len(bbox_list) :
              kept[k].score >= bbox_list[i].score

\* What has been kept does not overlap, and what it overlaps is marked.
Disjoint ==
    stage # "idle" /\ helper # "ssd" =>
        \A i, j \in DOMAIN kept : i # j => ~CalcIou(kept[i].box, kept[j].box)
Marked ==
    stage = "nms" =>
        \A k \in DOMAIN kept : \A i \in next .. Len(bbox_list) :
            CalcIou(kept[k].box, bbox_list[i].box) => i \in is_merged

\* A box that has been passed or marked is kept, or is overlapped by a better one.
Covers(k, c) ==
    /\ k.score >= c.score
    /\ \/ k.box = c.box
       \/ CalcIou(k.box, c.box)
       \/ helper = "yolov8" /\ BothEmpty(k.box, c.box)
Covered(boxes, c) == \E k \in DOMAIN boxes : Covers(boxes[k], c)
Passed(i) ==
    \/ stage \in {"nms", "nmsboxes"} /\ i < next
    \/ stage = "nms" /\ i \in is_merged
    \/ Suppressing
PassedAreCovered == \A i \in DOMAIN bbox_list : Passed(i) => Covered(kept, bbox_list[i])

\* The detections being filled are of this frame; no id is from the future.
ReportsThisFrame ==
    /\ sent_id \in 0 .. num_frames_processed
    /\ \A i \in DOMAIN temp_vector : temp_vector[i].of = frame

\* The inductive invariant.
DetIInv ==
    /\ DetTypeOK /\ LoopsInStep
    /\ MadeOfRows /\ RowsDecoded /\ Ordered /\ Disjoint /\ Marked /\ PassedAreCovered
    /\ ReportsThisFrame /\ ConfidenceNotOverstated /\ FrameIdsInOrder
-----------------------------------------------------------------------------
(***************************************************************************)
(* Induction over the length of a sequence, and the best class of a row.     *)
(***************************************************************************)

\* Every set of numbers has a least one.
LEMMA LeastNat ==
    ASSUME NEW T \in SUBSET Nat, T # {}
    PROVE  \E n \in T : \A m \in T : n <= m
<1> DEFINE R == OpToRel(<, Nat)
<1>1. IsWellFoundedOn(R, Nat)
  BY NatLessThanWellFounded
<1>2. R = {ss \in Nat \X Nat : ss[1] < ss[2]}
  BY DEF OpToRel
<1> HIDE DEF R
<1>3. PICK n \in T : \A m \in T : ~(<<m, n>> \in R)
  BY <1>1, WFMin
<1>4. \A m \in T : ~(m < n)
  BY <1>2, <1>3
<1>5. QED
  BY <1>4

\* Induction for a set: one that holds 0, and n + 1 with n, holds every number.
LEMMA SetInduction ==
    ASSUME NEW S, 0 \in S, \A n \in Nat : n \in S => n + 1 \in S
    PROVE  Nat \subseteq S
<1> SUFFICES ASSUME Nat \ S # {} PROVE FALSE
  OBVIOUS
<1>1. PICK n \in Nat \ S : \A m \in Nat \ S : n <= m
  BY LeastNat
<1>2. n # 0 /\ n - 1 \in Nat /\ n - 1 < n
  BY <1>1
<1>3. n - 1 \in S
  BY <1>1, <1>2
<1>4. QED
  BY <1>1, <1>2, <1>3

\* The search for the best class finds one, whatever the number of classes.
LEMMA HighestIsBest ==
    ASSUME NEW s \in Seq(Nat), s # <<>>
    PROVE  /\ Highest(s) \in DOMAIN s
           /\ \A j \in DOMAIN s : s[j] <= s[Highest(s)]
<1> DEFINE First(i, n) == /\ \A j \in 1 .. n : s[j] <= s[i]
                          /\ \A j \in 1 .. i - 1 : s[j] < s[i]
           S == {n \in Nat : n \in 1 .. Len(s) => \E i \in 1 .. n : First(i, n)}
<1>1. DOMAIN s = 1 .. Len(s) /\ Len(s) \in Nat /\ Len(s) # 0
      /\ \A i \in 1 .. Len(s) : s[i] \in Nat
  OBVIOUS
<1>2. 0 \in S
  OBVIOUS
<1>3. ASSUME NEW n \in Nat, n \in S PROVE n + 1 \in S
  <2>1. CASE n = 0
    <3>1. 1 <= Len(s) => First(1, 1)
      BY <1>1
    <3>2. QED
      BY <2>1, <3>1
  <2>2. CASE n # 0 /\ n + 1 \in 1 .. Len(s)
    <3>1. PICK i \in 1 .. n : First(i, n)
      BY <1>3, <2>2
    <3>2. CASE s[n + 1] <= s[i]
      <4>1. First(i, n + 1)
        BY <1>1, <2>2, <3>1, <3>2
      <4>2. QED
        BY <3>1, <4>1
    <3>3. CASE s[i] < s[n + 1]
      <4>1. First(n + 1, n + 1)
        BY <1>1, <2>2, <3>1, <3>3
      <4>2. QED
        BY <4>1
    <3>4. QED
      BY <1>1, <2>2, <3>1, <3>2, <3>3
  <2>3. QED
    BY <2>1, <2>2, <1>1
<1>4. Len(s) \in S
  <2> HIDE DEF S
  <2>1. Nat \subseteq S
    BY <1>2, <1>3, SetInduction
  <2>2. QED
    BY <1>1, <2>1
<1>5. PICK i \in DOMAIN s : First(i, Len(s))
  <2>1. Len(s) \in 1 .. Len(s)
    BY <1>1
  <2>2. \E i \in 1 .. Len(s) : First(i, Len(s))
    <3> HIDE DEF First
    <3>1. QED
      BY <1>4, <2>1
  <2>3. QED
    BY <1>1, <2>2
<1>6. \E i1 \in DOMAIN s : /\ \A j \in DOMAIN s : s[j] <= s[i1]
                           /\ \A j \in 1 .. i1 - 1 : s[j] < s[i1]
  BY <1>1, <1>5
<1>7. QED
  BY <1>6 DEF Highest

\* What the decoding and the property say of a row agree.
LEMMA RowFacts ==
    ASSUME NEW row \in RowValues
    PROVE  /\ row.box \in Boxes /\ row.conf \in Nat
           /\ row.classes \in Seq(Nat) /\ row.classes # <<>>
           /\ Highest(row.classes) \in Nat /\ Highest(row.classes) \in DOMAIN row.classes
           /\ Score(row) \in Nat
           /\ \A i \in DOMAIN row.classes : row.classes[i] \in Nat /\ row.classes[i] <= Score(row)
           /\ Last(row.classes) \in Nat /\ Last(row.classes) <= Score(row)
<1>1. /\ row.box \in Boxes /\ row.conf \in Nat
      /\ row.classes \in Seq(Nat) /\ row.classes # <<>>
  BY DetectionsAssumption DEF Boxes
<1>2. /\ Highest(row.classes) \in DOMAIN row.classes
      /\ \A i \in DOMAIN row.classes : row.classes[i] <= Score(row)
  BY <1>1, HighestIsBest DEF Score
<1>3. /\ DOMAIN row.classes \subseteq Nat /\ Len(row.classes) \in DOMAIN row.classes
      /\ \A i \in DOMAIN row.classes : row.classes[i] \in Nat
  BY <1>1
<1>4. QED
  BY <1>1, <1>2, <1>3 DEF Score, Last
-----------------------------------------------------------------------------
(***************************************************************************)
(* Boxes, and the candidates of a row.                                       *)
(***************************************************************************)

\* Overlap is symmetric: the loops look at each pair from one side only.
LEMMA OverlapSymmetric ==
    ASSUME NEW a \in Boxes, NEW b \in Boxes
    PROVE  CalcIou(a, b) <=> CalcIou(b, a)
<1>1. Sides(a, b) = Sides(b, a)
  BY DEF Sides, Least, Most, Boxes
<1>2. Area(a) \in Int /\ Area(b) \in Int /\ Area(Sides(a, b)) \in Int
  <2>1. Sides(a, b).w \in Int /\ Sides(a, b).h \in Int
    BY DEF Sides, Least, Most, Boxes
  <2>2. QED
    BY <2>1 DEF Area, Boxes
<1>3. QED
  BY <1>1, <1>2 DEF CalcIou

\* At most one candidate is made of a row, with the confidences of the row.
LEMMA CandidatesOfRow ==
    ASSUME NEW row \in RowValues, NEW c,
           c \in {GetBBox(row), ScoredBox(row), ScoredDetection(row)}
    PROVE  /\ c \in Seq(Candidates) /\ Len(c) <= 1
           /\ \A i \in DOMAIN c : /\ c[i].box = row.box
                                  /\ c[i].class_id = Highest(row.classes)
                                  /\ c[i].score = Score(row)
                                  /\ c[i].class_conf <= Score(row)
                                  /\ c \in {ScoredBox(row), ScoredDetection(row)} =>
                                        c[i].class_conf = Score(row)
<1> DEFINE conf5 == Last(row.classes)
           made(class_conf, detection_conf) == Candidate(row, class_conf, detection_conf)
<1>1. /\ c = GetBBox(row) => c = <<>> \/ c = <<made(conf5, row.conf)>>
      /\ c \in {ScoredBox(row), ScoredDetection(row)} => c = <<>> \/ c = <<made(Score(row), -1)>>
  BY DEF GetBBox, ScoredBox, ScoredDetection, Score
<1>2. ASSUME NEW class_conf \in Int, NEW detection_conf \in Int
      PROVE  /\ made(class_conf, detection_conf) \in Candidates
             /\ made(class_conf, detection_conf).box = row.box
             /\ made(class_conf, detection_conf).class_id = Highest(row.classes)
             /\ made(class_conf, detection_conf).score = Score(row)
             /\ made(class_conf, detection_conf).class_conf = class_conf
  BY RowFacts DEF Candidate, Candidates, Score
<1> HIDE DEF made
<1>3. /\ row.conf \in Int /\ conf5 \in Int /\ conf5 <= Score(row)
      /\ Score(row) \in Int /\ Score(row) <= Score(row)
  BY RowFacts
<1>4. CASE c = <<>>
  BY <1>4
<1>5. CASE c = <<made(conf5, row.conf)>> /\ c \notin {ScoredBox(row), ScoredDetection(row)}
  BY <1>2, <1>3, <1>5
<1>6. CASE c = <<made(Score(row), -1)>>
  BY <1>2, <1>3, <1>6
<1>7. QED
  BY <1>1, <1>4, <1>5, <1>6

\* A row the property calls detected has one.
LEMMA DetectedHasCandidate ==
    ASSUME NEW row \in RowValues, Detected(row)
    PROVE  /\ helper = "yolov5" => Len(GetBBox(row)) = 1
           /\ helper # "yolov5" => Len(ScoredBox(row)) = 1
<1>1. /\ helper = "yolov5" => row.conf >= 40 /\ \E i \in DOMAIN row.classes : row.classes[i] >= 20
      /\ helper # "yolov5" => \E i \in DOMAIN row.classes : row.classes[i] >= 46
  BY DEF Detected
<1>2. /\ helper = "yolov5" => row.conf >= 40 /\ Score(row) >= 20
      /\ helper # "yolov5" => Score(row) > 45
  BY <1>1, RowFacts
<1>3. QED
  BY <1>2 DEF GetBBox, ScoredBox, Score
-----------------------------------------------------------------------------
(***************************************************************************)
(* The invariant, action by action.                                          *)
(***************************************************************************)

LEMMA InitDetIInv == DetInit => DetIInv
<1> SUFFICES ASSUME DetInit PROVE DetIInv
  OBVIOUS
<1> USE DEF DetInit
<1>1. DetTypeOK /\ LoopsInStep
  BY DetectionsAssumption DEF DetTypeOK, LoopsInStep
<1>2. MadeOfRows /\ RowsDecoded /\ Ordered /\ Disjoint /\ Marked /\ PassedAreCovered
  BY DEF MadeOfRows, RowsDecoded, Ordered, Disjoint, Marked, PassedAreCovered, Passed, Suppressing
<1>3. ReportsThisFrame /\ ConfidenceNotOverstated /\ FrameIdsInOrder
  BY DetectionsAssumption DEF ReportsThisFrame, ConfidenceNotOverstated, FrameIdsInOrder
<1>4. QED
  BY <1>1, <1>2, <1>3 DEF DetIInv

\* What depends on the tensor and the boxes only.
BoxesInv == MadeOfRows /\ RowsDecoded /\ Ordered /\ Disjoint /\ Marked /\ PassedAreCovered
ReportInv == ReportsThisFrame /\ ConfidenceNotOverstated /\ FrameIdsInOrder

LEMMA BoxesKept ==
    ASSUME BoxesInv,
           UNCHANGED <<helper, tensor, stage, bbox_list, is_merged, next, kept>>
    PROVE  BoxesInv'
<1>1. UNCHANGED <<MadeOfRows, RowsDecoded>>
  BY DEF MadeOfRows, FromRow, RowsDecoded, Detected
<1>2. UNCHANGED <<Ordered, Disjoint, Marked>>
  BY DEF Ordered, Disjoint, Marked
<1>3. UNCHANGED PassedAreCovered
  BY DEF PassedAreCovered, Passed, Covered, Covers, Suppressing
<1>4. QED
  BY <1>1, <1>2, <1>3 DEF BoxesInv

\* While the detections of the frame are not touched, time only passes.
LEMMA ReportKept ==
    ASSUME DetTypeOK, ReportInv, num_frames_processed' \in Nat,
           num_frames_processed <= num_frames_processed',
           UNCHANGED <<helper, frame, tensor, temp_vector, sent_id>>
    PROVE  ReportInv'
<1>1. ReportsThisFrame'
  BY DEF ReportInv, ReportsThisFrame, DetTypeOK
<1>2. ConfidenceNotOverstated'
  BY DEF ReportInv, ConfidenceNotOverstated
<1>3. FrameIdsInOrder'
  BY <1>1 DEF ReportInv, FrameIdsInOrder, Most, DetTypeOK, ReportsThisFrame
<1>4. QED
  BY <1>1, <1>2, <1>3 DEF ReportInv

\* An empty vector of detections says nothing.
LEMMA NothingReported ==
    ASSUME temp_vector' = <<>>, sent_id' \in 0 .. num_frames_processed'
    PROVE  ReportInv'
  BY DEF ReportInv, ReportsThisFrame, ConfidenceNotOverstated, FrameIdsInOrder

LEMMA CountFrameStep == DetIInv /\ CountFrame => DetIInv'
<1> SUFFICES ASSUME DetIInv, CountFrame PROVE DetIInv'
  OBVIOUS
<1> USE DEF CountFrame, frameVars, outputs
<1>1. DetTypeOK' /\ LoopsInStep'
  BY DetectionsAssumption DEF DetIInv, DetTypeOK, LoopsInStep
<1>2. BoxesInv'
  BY BoxesKept DEF DetIInv, BoxesInv
<1>3. ReportInv'
  <2>1. num_frames_processed' \in Nat /\ num_frames_processed <= num_frames_processed'
    BY DetectionsAssumption DEF DetIInv, DetTypeOK
  <2>2. QED
    BY <2>1, ReportKept DEF DetIInv, ReportInv
<1>4. QED
  BY <1>1, <1>2, <1>3 DEF DetIInv, BoxesInv, ReportInv

LEMMA TakeResultStep == DetIInv /\ TakeResult => DetIInv'
<1> SUFFICES ASSUME DetIInv, TakeResult PROVE DetIInv'
  OBVIOUS
<1> USE DEF TakeResult, outputs
<1>1. /\ bbox_list = <<>> /\ next = 1 /\ kept = <<>> /\ is_merged = {}
      /\ Rows \in Nat
  BY DetectionsAssumption DEF DetIInv, LoopsInStep
<1>2. DetTypeOK' /\ LoopsInStep'
  BY <1>1 DEF DetIInv, DetTypeOK, LoopsInStep
<1>3. BoxesInv'
  BY <1>1 DEF BoxesInv, MadeOfRows, RowsDecoded, Ordered, Disjoint, Marked, PassedAreCovered,
     Passed, Suppressing
<1>4. ReportInv'
  BY NothingReported DEF DetIInv, ReportsThisFrame
<1>5. QED
  BY <1>2, <1>3, <1>4 DEF DetIInv, BoxesInv, ReportInv

\* The positions of a concatenation.
LEMMA Concatenated ==
    ASSUME NEW S, NEW s \in Seq(S), NEW t \in Seq(S)
    PROVE  /\ s \o t \in Seq(S) /\ Len(s \o t) = Len(s) + Len(t)
           /\ \A i \in DOMAIN s : i \in DOMAIN (s \o t) /\ (s \o t)[i] = s[i]
           /\ \A i \in DOMAIN t : Len(s) + i \in DOMAIN (s \o t) /\ (s \o t)[Len(s) + i] = t[i]
           /\ \A i \in DOMAIN (s \o t) :
                 \/ i \in DOMAIN s /\ (s \o t)[i] = s[i]
                 \/ i - Len(s) \in DOMAIN t /\ (s \o t)[i] = t[i - Len(s)]
  OBVIOUS

\* One row more is decoded.
LEMMA DecodeRowStep ==
    ASSUME DetIInv, NEW c, DecodeRow(c),
           \/ helper = "yolov5" /\ c = GetBBox(tensor[next])
           \/ helper = "yolov8" /\ c = ScoredBox(tensor[next])
           \/ helper = "ssd" /\ c = ScoredDetection(tensor[next])
    PROVE  DetIInv'
<1> DEFINE row == tensor[next]
<1> USE DEF DecodeRow, frameVars, outputs
<1>1. /\ tensor \in [1 .. Rows -> RowValues] /\ next \in 1 .. Rows /\ row \in RowValues
      /\ bbox_list \in Seq(Candidates) /\ kept = <<>> /\ is_merged = {} /\ temp_vector = <<>>
      /\ Rows \in Nat /\ Len(bbox_list) < next
  BY DetectionsAssumption DEF DetIInv, DetTypeOK, LoopsInStep
<1>2. /\ c \in Seq(Candidates) /\ Len(c) <= 1 /\ Len(c) \in Nat
      /\ \A i \in DOMAIN c : /\ c[i].box = row.box
                             /\ c[i].class_id = Highest(row.classes)
                             /\ c[i].score = Score(row)
                             /\ c[i].class_conf <= Score(row)
                             /\ helper # "yolov5" => c[i].class_conf = Score(row)
  BY <1>1, CandidatesOfRow
<1>3. bbox_list' \in Seq(Candidates) /\ Len(bbox_list') = Len(bbox_list) + Len(c)
  BY <1>1, <1>2, Concatenated
<1>4. DetTypeOK' /\ LoopsInStep'
  BY <1>1, <1>2, <1>3 DEF DetIInv, DetTypeOK, LoopsInStep
<1>5. MadeOfRows'
  <2>1. \A i \in DOMAIN c : FromRow(c[i])
    BY <1>1, <1>2 DEF FromRow
  <2>2. \A i \in DOMAIN bbox_list : FromRow(bbox_list[i])
    BY DEF DetIInv, MadeOfRows
  <2>3. \A i \in DOMAIN bbox_list' : FromRow(bbox_list'[i])
    BY <1>1, <1>2, <2>1, <2>2, Concatenated
  <2>4. QED
    BY <1>1, <2>3 DEF MadeOfRows, FromRow
<1>6. RowsDecoded'
  <2> SUFFICES ASSUME helper # "ssd", NEW r \in DOMAIN tensor, r < next + 1, Detected(tensor[r])
               PROVE  \E i \in DOMAIN bbox_list' : /\ bbox_list'[i].box = tensor[r].box
                                                   /\ bbox_list'[i].score = Score(tensor[r])
    BY <1>1 DEF RowsDecoded, Detected
  <2>1. CASE r < next
    <3>1. PICK i \in DOMAIN bbox_list : /\ bbox_list[i].box = tensor[r].box
                                        /\ bbox_list[i].score = Score(tensor[r])
      BY <2>1 DEF DetIInv, RowsDecoded
    <3>2. i \in DOMAIN bbox_list' /\ bbox_list'[i] = bbox_list[i]
      BY <1>1, <1>2, Concatenated
    <3>3. QED
      BY <3>1, <3>2
  <2>2. CASE r = next
    <3>1. Len(c) = 1
      BY <1>1, <2>2, DetectedHasCandidate DEF DetIInv, DetTypeOK
    <3>2. 1 \in DOMAIN c
      BY <1>2, <3>1
    <3>3. /\ Len(bbox_list) + 1 \in DOMAIN bbox_list'
          /\ bbox_list'[Len(bbox_list) + 1] = c[1]
      BY <1>1, <1>2, <3>2, Concatenated
    <3>4. QED
      BY <1>2, <2>2, <3>2, <3>3
  <2>3. QED
    BY <1>1, <2>1, <2>2
<1>7. Ordered' /\ Disjoint' /\ Marked' /\ PassedAreCovered'
  BY <1>1 DEF Ordered, Disjoint, Marked, PassedAreCovered, Passed, Suppressing
<1>8. ReportInv'
  BY <1>1, NothingReported DEF DetIInv, ReportsThisFrame
<1>9. QED
  BY <1>4, <1>5, <1>6, <1>7, <1>8 DEF DetIInv, ReportInv

LEMMA DecodeDoneStep ==
    ASSUME DetIInv, NEW following, DecodeDone(following),
           \/ helper \in {"yolov5", "yolov8"} /\ following = "sort"
           \/ helper = "ssd" /\ following = "report"
    PROVE  DetIInv'
<1> USE DEF DecodeDone, frameVars, outputs
<1>1. /\ tensor \in [1 .. Rows -> RowValues] /\ next = Rows + 1 /\ Rows \in Nat
      /\ bbox_list \in Seq(Candidates) /\ kept = <<>> /\ is_merged = {} /\ temp_vector = <<>>
  BY DetectionsAssumption DEF DetIInv, DetTypeOK, LoopsInStep
<1>2. DetTypeOK' /\ LoopsInStep'
  BY <1>1 DEF DetIInv, DetTypeOK, LoopsInStep
<1>3. MadeOfRows'
  BY <1>1 DEF DetIInv, MadeOfRows, FromRow
<1>4. RowsDecoded'
  <2>1. \A r \in DOMAIN tensor : r < next
    BY <1>1
  <2>2. QED
    BY <2>1 DEF DetIInv, RowsDecoded, Detected
<1>5. Ordered' /\ Disjoint' /\ Marked' /\ PassedAreCovered'
  BY <1>1 DEF Ordered, Disjoint, Marked, PassedAreCovered, Passed, Suppressing
<1>6. ReportInv'
  BY <1>1, NothingReported DEF DetIInv, ReportsThisFrame
<1>7. QED
  BY <1>2, <1>3, <1>4, <1>5, <1>6 DEF DetIInv, ReportInv

\* Sorting loses no candidate, and the sorted ones are in order.
LEMMA SortStep ==
    ASSUME DetIInv, stage = "sort",
           \/ helper = "yolov5" /\ stage' = "nms"
           \/ helper = "yolov8" /\ stage' = "nmsboxes",
           NEW p \in Bijection(DOMAIN bbox_list, DOMAIN bbox_list), SortedBy(p)
    PROVE  DetIInv'
<1> DEFINE D == DOMAIN bbox_list
<1>0. UNCHANGED <<num_frames_processed, helper, frame, tensor, is_merged, next, kept,
                  temp_vector, detections_vector, sent_id>>
  BY DEF SortedBy, frameVars, outputs
<1>1. /\ tensor \in [1 .. Rows -> RowValues] /\ next = 1 /\ Rows \in Nat
      /\ bbox_list \in Seq(Candidates) /\ kept = <<>> /\ is_merged = {} /\ temp_vector = <<>>
  BY DetectionsAssumption DEF DetIInv, DetTypeOK, LoopsInStep
<1>2. /\ DOMAIN p = D /\ \A i \in D : p[i] \in D
      /\ \A j \in D : \E i \in D : p[i] = j
  BY DEF Bijection, Injection, Surjection
<1>3. /\ D = 1 .. Len(bbox_list) /\ Len(bbox_list) \in Nat
      /\ \A i \in D : bbox_list[i] \in Candidates
  BY <1>1
<1>4. /\ bbox_list' \in Seq(Candidates) /\ Len(bbox_list') = Len(bbox_list)
      /\ DOMAIN bbox_list' = D /\ \A i \in D : bbox_list'[i] = bbox_list[p[i]]
      /\ \A i, j \in D : i < j => bbox_list'[i].score >= bbox_list'[j].score
  <2>1. bbox_list' = [i \in D |-> bbox_list[p[i]]]
    BY <1>2 DEF SortedBy
  <2>2. \A i, j \in D : i < j => bbox_list[p[i]].score >= bbox_list[p[j]].score
    BY <1>2 DEF SortedBy
  <2>3. QED
    BY <1>2, <1>3, <2>1, <2>2
<1>5. DetTypeOK' /\ LoopsInStep'
  BY <1>0, <1>1, <1>4 DEF DetIInv, DetTypeOK, LoopsInStep
<1>6. MadeOfRows'
  <2>1. \A i \in D : FromRow(bbox_list[i])
    BY DEF DetIInv, MadeOfRows
  <2>2. \A i \in D : FromRow(bbox_list'[i])
    BY <1>2, <1>4, <2>1
  <2>3. QED
    BY <1>0, <1>1, <1>4, <2>2 DEF MadeOfRows, FromRow
<1>7. RowsDecoded'
  <2> SUFFICES ASSUME helper # "ssd", NEW r \in DOMAIN tensor, Detected(tensor[r])
               PROVE  \E i \in DOMAIN bbox_list' : /\ bbox_list'[i].box = tensor[r].box
                                                   /\ bbox_list'[i].score = Score(tensor[r])
    BY <1>0 DEF RowsDecoded, Detected
  <2>1. PICK j \in D : /\ bbox_list[j].box = tensor[r].box
                       /\ bbox_list[j].score = Score(tensor[r])
    BY DEF DetIInv, RowsDecoded
  <2>2. PICK i \in D : p[i] = j
    BY <1>2
  <2>3. QED
    BY <1>4, <2>1, <2>2
<1>8. Ordered'
  BY <1>0, <1>1, <1>4 DEF Ordered
<1>9. Disjoint' /\ Marked' /\ PassedAreCovered'
  BY <1>0, <1>1, <1>4 DEF Disjoint, Marked, PassedAreCovered, Passed, Suppressing
<1>10. ReportInv'
  BY <1>0, <1>1, NothingReported DEF DetIInv, ReportsThisFrame
<1>11. QED
  BY <1>5, <1>6, <1>7, <1>8, <1>9, <1>10 DEF DetIInv, ReportInv

\* The positions of a sequence with one element more.
LEMMA Appended ==
    ASSUME NEW S, NEW s \in Seq(S), NEW e \in S
    PROVE  /\ Append(s, e) \in Seq(S) /\ Len(Append(s, e)) = Len(s) + 1 /\ Len(s) \in Nat
           /\ DOMAIN s = 1 .. Len(s)
           /\ DOMAIN Append(s, e) = DOMAIN s \cup {Len(s) + 1}
           /\ \A i \in DOMAIN s : Append(s, e)[i] = s[i] /\ i # Len(s) + 1
           /\ Append(s, e)[Len(s) + 1] = e
  OBVIOUS

\* A box that is kept beside those it overlaps with none of.
LEMMA KeepOneMore ==
    ASSUME DetIInv, helper # "ssd", stage # "idle", next \in DOMAIN bbox_list,
           kept' = Append(kept, bbox_list[next]),
           UNCHANGED <<helper, tensor, bbox_list>>,
           \A k \in DOMAIN kept : ~CalcIou(kept[k].box, bbox_list[next].box)
    PROVE  /\ Disjoint' /\ MadeOfRows'
           /\ \A i \in DOMAIN bbox_list :
                 Covered(kept, bbox_list[i]) => Covered(kept', bbox_list[i])
           /\ \A i \in DOMAIN bbox_list :
                 Covers(bbox_list[next], bbox_list[i]) => Covered(kept', bbox_list[i])
           /\ Covered(kept', bbox_list[next])
<1>1. /\ bbox_list \in Seq(Candidates) /\ kept \in Seq(Candidates)
      /\ bbox_list[next] \in Candidates
      /\ \A k \in DOMAIN kept : kept[k] \in Candidates
  BY DEF DetIInv, LoopsInStep
<1>2. /\ DOMAIN kept' = DOMAIN kept \cup {Len(kept) + 1}
      /\ \A k \in DOMAIN kept : kept'[k] = kept[k] /\ k # Len(kept) + 1
      /\ kept'[Len(kept) + 1] = bbox_list[next]
  BY <1>1, Appended
<1>3. Disjoint'
  <2>1. \A i, j \in DOMAIN kept : i # j => ~CalcIou(kept[i].box, kept[j].box)
    BY DEF DetIInv, Disjoint
  <2>2. \A k \in DOMAIN kept : ~CalcIou(bbox_list[next].box, kept[k].box)
    BY <1>1, OverlapSymmetric DEF Candidates
  <2>3. \A i, j \in DOMAIN kept' : i # j => ~CalcIou(kept'[i].box, kept'[j].box)
    BY <1>2, <2>1, <2>2
  <2>4. QED
    BY <2>3 DEF Disjoint
<1>4. MadeOfRows'
  <2>1. /\ \A k \in DOMAIN kept' : FromRow(kept'[k])
        /\ \A i \in DOMAIN bbox_list : FromRow(bbox_list[i])
    BY <1>2 DEF DetIInv, MadeOfRows
  <2>2. QED
    BY <2>1 DEF FromRow, MadeOfRows
<1>5. \A i \in DOMAIN bbox_list :
         Covered(kept, bbox_list[i]) => Covered(kept', bbox_list[i])
  BY <1>2 DEF Covered
<1>6. \A i \in DOMAIN bbox_list :
         Covers(bbox_list[next], bbox_list[i]) => Covered(kept', bbox_list[i])
  BY <1>2 DEF Covered
<1>7. Covers(bbox_list[next], bbox_list[next])
  BY <1>1 DEF Covers, Candidates
<1>8. QED
  BY <1>3, <1>4, <1>5, <1>6, <1>7

LEMMA NmsStep == DetIInv /\ helper = "yolov5" /\ Nms => DetIInv'
<1> SUFFICES ASSUME DetIInv, helper = "yolov5", Nms PROVE DetIInv'
  OBVIOUS
<1> DEFINE b == bbox_list[next]
           over == {i \in next + 1 .. Len(bbox_list) : CalcIou(b.box, bbox_list[i].box)}
<1>0. /\ stage = "nms" /\ next <= Len(bbox_list) /\ next' = next + 1
      /\ UNCHANGED <<num_frames_processed, helper, frame, tensor, stage, bbox_list,
                     temp_vector, detections_vector, sent_id>>
  BY DEF Nms, frameVars, outputs
<1>1. /\ bbox_list \in Seq(Candidates) /\ kept \in Seq(Candidates) /\ temp_vector = <<>>
      /\ next \in DOMAIN bbox_list /\ b \in Candidates /\ next \in Nat
      /\ DOMAIN bbox_list = 1 .. Len(bbox_list) /\ Len(bbox_list) \in Nat
      /\ Len(kept) < next /\ Len(bbox_list) <= Rows /\ Rows \in Nat
      /\ is_merged \subseteq DOMAIN bbox_list
  BY <1>0, DetectionsAssumption DEF DetIInv, DetTypeOK, LoopsInStep
<1>2. Ordered' /\ RowsDecoded' /\ ReportInv'
  <2>1. Ordered' /\ RowsDecoded'
    BY <1>0 DEF DetIInv, Ordered, RowsDecoded, Detected
  <2>2. ReportInv'
    BY <1>0, <1>1, NothingReported DEF DetIInv, ReportsThisFrame
  <2>3. QED
    BY <2>1, <2>2
<1>3. \A i \in DOMAIN bbox_list : i < next \/ i \in is_merged => Covered(kept, bbox_list[i])
  BY <1>0 DEF DetIInv, PassedAreCovered, Passed
<1>4. ASSUME \A i \in DOMAIN bbox_list :
                i < next + 1 \/ i \in is_merged' => Covered(kept', bbox_list[i])
      PROVE  PassedAreCovered'
  BY <1>0, <1>4 DEF PassedAreCovered, Passed, Covered, Covers, Suppressing
<1>5. CASE next \in is_merged
  <2>1. UNCHANGED <<kept, is_merged>>
    BY <1>5 DEF Nms
  <2>2. DetTypeOK' /\ LoopsInStep'
    BY <1>0, <1>1, <2>1 DEF DetIInv, DetTypeOK, LoopsInStep
  <2>3. MadeOfRows' /\ Disjoint'
    BY <1>0, <2>1 DEF DetIInv, MadeOfRows, FromRow, Disjoint
  <2>4. Marked'
    BY <1>0, <1>1, <2>1 DEF DetIInv, Marked
  <2>5. PassedAreCovered'
    BY <1>1, <1>3, <1>4, <1>5, <2>1
  <2>6. QED
    BY <1>2, <2>2, <2>3, <2>4, <2>5 DEF DetIInv, ReportInv
<1>6. CASE next \notin is_merged
  <2>1. kept' = Append(kept, b) /\ is_merged' = is_merged \cup over
    BY <1>6 DEF Nms
  <2>2. \A k \in DOMAIN kept : ~CalcIou(kept[k].box, b.box)
    BY <1>0, <1>1, <1>6 DEF DetIInv, Marked
  <2>3. /\ Disjoint' /\ MadeOfRows'
        /\ \A i \in DOMAIN bbox_list :
              Covered(kept, bbox_list[i]) => Covered(kept', bbox_list[i])
        /\ \A i \in DOMAIN bbox_list : Covers(b, bbox_list[i]) => Covered(kept', bbox_list[i])
        /\ Covered(kept', b)
    BY <1>0, <1>1, <2>1, <2>2, KeepOneMore
  <2>4. /\ kept' \in Seq(Candidates) /\ Len(kept') = Len(kept) + 1 /\ Len(kept) \in Nat
        /\ DOMAIN kept' = DOMAIN kept \cup {Len(kept) + 1}
        /\ \A k \in DOMAIN kept : kept'[k] = kept[k]
        /\ kept'[Len(kept) + 1] = b
    BY <1>1, <2>1, Appended
  <2>5. DetTypeOK' /\ LoopsInStep'
    <3>1. is_merged' \subseteq DOMAIN bbox_list
      BY <1>1, <2>1
    <3>2. QED
      BY <1>0, <1>1, <2>4, <3>1 DEF DetIInv, DetTypeOK, LoopsInStep
  <2>6. Marked'
    <3> SUFFICES ASSUME NEW k \in DOMAIN kept', NEW i \in next + 1 .. Len(bbox_list),
                        CalcIou(kept'[k].box, bbox_list[i].box)
                 PROVE  i \in is_merged'
      BY <1>0 DEF Marked
    <3>1. CASE k \in DOMAIN kept
      BY <1>0, <1>1, <2>1, <2>4, <3>1 DEF DetIInv, Marked
    <3>2. CASE k = Len(kept) + 1
      BY <2>1, <2>4, <3>2
    <3>3. QED
      BY <2>4, <3>1, <3>2
  <2>7. PassedAreCovered'
    <3>1. ASSUME NEW i \in over PROVE i \in DOMAIN bbox_list /\ Covered(kept', bbox_list[i])
      <4>1. i \in DOMAIN bbox_list /\ next < i /\ CalcIou(b.box, bbox_list[i].box)
        BY <1>1
      <4>2. b.score >= bbox_list[i].score
        BY <1>0, <1>1, <4>1 DEF DetIInv, Ordered
      <4>3. Covers(b, bbox_list[i])
        BY <4>1, <4>2 DEF Covers
      <4>4. QED
        BY <2>3, <4>1, <4>3
    <3>2. \A i \in DOMAIN bbox_list :
             i < next + 1 \/ i \in is_merged' => Covered(kept', bbox_list[i])
      <4> HIDE DEF over, b
      <4>1. \A i \in DOMAIN bbox_list : i < next + 1 => i < next \/ i = next
        BY <1>1
      <4>2. Covered(kept', bbox_list[next])
        BY <2>3 DEF b
      <4>3. QED
        BY <1>3, <2>1, <2>3, <3>1, <4>1, <4>2
    <3>3. QED
      BY <1>4, <3>2
  <2>8. QED
    BY <1>2, <2>3, <2>5, <2>6, <2>7 DEF DetIInv, ReportInv
<1>7. QED
  BY <1>5, <1>6

\* nms and NMSBoxes end when every candidate has been passed.
LEMMA SuppressedStep ==
    ASSUME DetIInv, NmsDone \/ NMSBoxesDone
    PROVE  DetIInv'
<1>0. /\ stage \in {"nms", "nmsboxes"} /\ next > Len(bbox_list) /\ next' = 1
      /\ stage' = "report" /\ helper \in {"yolov5", "yolov8"}
      /\ UNCHANGED <<num_frames_processed, helper, frame, tensor, bbox_list, is_merged, kept,
                     temp_vector, detections_vector, sent_id>>
  BY DEF NmsDone, NMSBoxesDone, frameVars, outputs, DetIInv, LoopsInStep
<1>1. /\ bbox_list \in Seq(Candidates) /\ kept \in Seq(Candidates) /\ temp_vector = <<>>
      /\ DOMAIN bbox_list = 1 .. Len(bbox_list) /\ Len(bbox_list) \in Nat
      /\ Rows \in Nat /\ next \in Nat
  BY <1>0, DetectionsAssumption DEF DetIInv, DetTypeOK, LoopsInStep
<1>2. DetTypeOK' /\ LoopsInStep'
  BY <1>0, <1>1 DEF DetIInv, DetTypeOK, LoopsInStep
<1>3. MadeOfRows' /\ RowsDecoded'
  BY <1>0 DEF DetIInv, MadeOfRows, FromRow, RowsDecoded, Detected
<1>4. Ordered' /\ Disjoint' /\ Marked'
  BY <1>0 DEF DetIInv, Ordered, Disjoint, Marked
<1>5. PassedAreCovered'
  <2>1. \A i \in DOMAIN bbox_list : Covered(kept, bbox_list[i])
    BY <1>0, <1>1 DEF DetIInv, PassedAreCovered, Passed
  <2>2. QED
    BY <1>0, <2>1 DEF PassedAreCovered, Covered, Covers
<1>6. ReportInv'
  BY <1>0, <1>1, NothingReported DEF DetIInv, ReportsThisFrame
<1>7. QED
  BY <1>2, <1>3, <1>4, <1>5, <1>6 DEF DetIInv, ReportInv

LEMMA NMSBoxesStep == DetIInv /\ helper = "yolov8" /\ NMSBoxes => DetIInv'
<1> SUFFICES ASSUME DetIInv, helper = "yolov8", NMSBoxes PROVE DetIInv'
  OBVIOUS
<1> DEFINE b == bbox_list[next]
<1>0. /\ stage = "nmsboxes" /\ next <= Len(bbox_list) /\ next' = next + 1
      /\ UNCHANGED <<num_frames_processed, helper, frame, tensor, stage, bbox_list, is_merged,
                     temp_vector, detections_vector, sent_id>>
  BY DEF NMSBoxes, frameVars, outputs
<1>1. /\ bbox_list \in Seq(Candidates) /\ kept \in Seq(Candidates) /\ temp_vector = <<>>
      /\ next \in DOMAIN bbox_list /\ b \in Candidates /\ next \in Nat
      /\ DOMAIN bbox_list = 1 .. Len(bbox_list) /\ Len(bbox_list) \in Nat
      /\ Len(kept) < next /\ Len(bbox_list) <= Rows /\ Rows \in Nat
      /\ \A k \in DOMAIN kept : kept[k] \in Candidates
  BY <1>0, DetectionsAssumption DEF DetIInv, DetTypeOK, LoopsInStep
<1>2. RowsDecoded' /\ Marked' /\ ReportInv'
  <2>1. RowsDecoded' /\ Marked'
    BY <1>0 DEF DetIInv, RowsDecoded, Detected, Marked
  <2>2. ReportInv'
    BY <1>0, <1>1, NothingReported DEF DetIInv, ReportsThisFrame
  <2>3. QED
    BY <2>1, <2>2
<1>3. \A i \in DOMAIN bbox_list : i < next => Covered(kept, bbox_list[i])
  BY <1>0 DEF DetIInv, PassedAreCovered, Passed
<1>4. ASSUME \A i \in DOMAIN bbox_list : i < next + 1 => Covered(kept', bbox_list[i])
      PROVE  PassedAreCovered'
  BY <1>0, <1>4 DEF PassedAreCovered, Passed, Covered, Covers, Suppressing
<1>5. CASE \E k \in DOMAIN kept : Overlaps(kept[k].box, b.box)
  <2>1. UNCHANGED kept
    BY <1>5 DEF NMSBoxes
  <2>2. DetTypeOK' /\ LoopsInStep'
    BY <1>0, <1>1, <2>1 DEF DetIInv, DetTypeOK, LoopsInStep
  <2>3. MadeOfRows' /\ Disjoint'
    BY <1>0, <2>1 DEF DetIInv, MadeOfRows, FromRow, Disjoint
  <2>4. Covered(kept, b)
    <3>1. PICK k \in DOMAIN kept : Overlaps(kept[k].box, b.box)
      BY <1>5
    <3>2. kept[k].score >= b.score
      BY <1>0, <1>1 DEF DetIInv, Ordered
    <3>3. QED
      BY <3>1, <3>2 DEF Covered, Covers, Overlaps
  <2>5. PassedAreCovered'
    <3>1. \A i \in DOMAIN bbox_list : i < next + 1 => i < next \/ i = next
      BY <1>1
    <3>2. QED
      BY <1>3, <1>4, <2>1, <2>4, <3>1
  <2>6. Ordered'
    BY <1>0, <1>1, <2>1 DEF DetIInv, Ordered
  <2>7. QED
    BY <1>2, <2>2, <2>3, <2>5, <2>6 DEF DetIInv, ReportInv
<1>6. CASE ~ \E k \in DOMAIN kept : Overlaps(kept[k].box, b.box)
  <2>1. kept' = Append(kept, b)
    BY <1>6 DEF NMSBoxes
  <2>2. \A k \in DOMAIN kept : ~CalcIou(kept[k].box, b.box)
    BY <1>6 DEF Overlaps
  <2>3. /\ Disjoint' /\ MadeOfRows'
        /\ \A i \in DOMAIN bbox_list :
              Covered(kept, bbox_list[i]) => Covered(kept', bbox_list[i])
        /\ Covered(kept', b)
    BY <1>0, <1>1, <2>1, <2>2, KeepOneMore
  <2>4. /\ kept' \in Seq(Candidates) /\ Len(kept') = Len(kept) + 1 /\ Len(kept) \in Nat
        /\ DOMAIN kept' = DOMAIN kept \cup {Len(kept) + 1}
        /\ \A k \in DOMAIN kept : kept'[k] = kept[k]
        /\ kept'[Len(kept) + 1] = b
    BY <1>1, <2>1, Appended
  <2>5. DetTypeOK' /\ LoopsInStep'
    BY <1>0, <1>1, <2>4 DEF DetIInv, DetTypeOK, LoopsInStep
  <2>6. Ordered'
    <3>1. \A i, j \in DOMAIN bbox_list : i < j => bbox_list[i].score >= bbox_list[j].score
      BY <1>0 DEF DetIInv, Ordered
    <3>2. \A k \in DOMAIN kept : \A i \in next .. Len(bbox_list) :
             kept[k].score >= bbox_list[i].score
      BY <1>0 DEF DetIInv, Ordered
    <3>3. \A k \in DOMAIN kept' : \A i \in next + 1 .. Len(bbox_list) :
             kept'[k].score >= bbox_list[i].score
      <4>1. ASSUME NEW i \in next + 1 .. Len(bbox_list)
            PROVE  /\ i \in DOMAIN bbox_list /\ next < i /\ i \in next .. Len(bbox_list)
                   /\ bbox_list[next].score >= bbox_list[i].score
        BY <1>1, <3>1
      <4>2. ASSUME NEW k \in DOMAIN kept', NEW i \in next + 1 .. Len(bbox_list)
            PROVE  kept'[k].score >= bbox_list[i].score
        BY <2>4, <3>2, <4>1
      <4>3. QED
        BY <4>2
    <3>4. QED
      BY <1>0, <3>1, <3>3 DEF Ordered
  <2>7. PassedAreCovered'
    <3>1. \A i \in DOMAIN bbox_list : i < next + 1 => i < next \/ i = next
      BY <1>1
    <3>2. QED
      BY <1>3, <1>4, <2>3, <3>1
  <2>8. QED
    BY <1>2, <2>3, <2>5, <2>6, <2>7 DEF DetIInv, ReportInv
<1>7. QED
  BY <1>5, <1>6

\* A detection is of this frame, counts no frame that is not there yet, and has
\* the class and confidence of a row.
LEMMA ReportStep == DetIInv /\ Report => DetIInv'
<1> SUFFICES ASSUME DetIInv, Report PROVE DetIInv'
  OBVIOUS
<1> DEFINE d == Detection(kept[next])
<1>0. /\ stage = "report" /\ next <= Len(kept) /\ next' = next + 1
      /\ UNCHANGED <<num_frames_processed, helper, frame, tensor, stage, bbox_list, is_merged,
                     kept, detections_vector, sent_id>>
  BY DEF Report, frameVars, outputs
<1>1. /\ kept \in Seq(Candidates) /\ temp_vector \in Seq(Reported)
      /\ next \in DOMAIN kept /\ kept[next] \in Candidates /\ next \in Nat
      /\ Len(kept) \in Nat /\ Len(kept) <= Rows /\ Rows \in Nat
      /\ Len(temp_vector) = next - 1
      /\ num_frames_processed \in Nat /\ frame \in 0 .. num_frames_processed
      /\ sent_id \in 0 .. num_frames_processed
  BY <1>0, DetectionsAssumption DEF DetIInv, DetTypeOK, LoopsInStep, ReportsThisFrame
<1>a. temp_vector' = Append(temp_vector, d)
  BY DEF Report
<1>2. /\ d \in Reported
      /\ d.frame_id = num_frames_processed /\ d.of = frame /\ d.box = kept[next].box
      /\ d.class_id = kept[next].class_id /\ d.class_confidence = kept[next].class_conf
  BY <1>1 DEF Detection, Reported, Candidates
<1> HIDE DEF d
<1>3. /\ temp_vector' \in Seq(Reported) /\ Len(temp_vector') = Len(temp_vector) + 1
      /\ DOMAIN temp_vector = 1 .. Len(temp_vector) /\ Len(temp_vector) \in Nat
      /\ DOMAIN temp_vector' = DOMAIN temp_vector \cup {Len(temp_vector) + 1}
      /\ \A i \in DOMAIN temp_vector : temp_vector'[i] = temp_vector[i]
      /\ temp_vector'[Len(temp_vector) + 1] = d
  BY <1>a, <1>1, <1>2, Appended
<1>4. DetTypeOK' /\ LoopsInStep'
  <2>1. Len(temp_vector') = next' - 1 /\ next' <= Len(kept) + 1 /\ next' \in 1 .. Rows + 1
    <3>1. Len(temp_vector') = Len(temp_vector) + 1
      BY <1>3
    <3>2. next' = next + 1 /\ next <= Len(kept) /\ next >= 1
      BY <1>0, <1>1
    <3>3. QED
      BY <1>1, <3>1, <3>2
  <2>2. DetTypeOK'
    <3>1. Len(temp_vector') <= Len(kept')
      BY <1>0, <1>1, <2>1
    <3>2. QED
      BY <1>0, <2>1, <3>1 DEF DetIInv, DetTypeOK
  <2>3. LoopsInStep'
    BY <1>0, <1>3, <2>1 DEF DetIInv, LoopsInStep
  <2>4. QED
    BY <2>2, <2>3
<1>5. MadeOfRows' /\ RowsDecoded'
  BY <1>0 DEF DetIInv, MadeOfRows, FromRow, RowsDecoded, Detected
<1>6. Ordered' /\ Disjoint' /\ Marked' /\ PassedAreCovered'
  BY <1>0 DEF DetIInv, Ordered, Disjoint, Marked, PassedAreCovered, Passed, Covered, Covers,
     Suppressing
<1>7. ReportsThisFrame'
  BY <1>0, <1>2, <1>3 DEF DetIInv, ReportsThisFrame
<1>8. ConfidenceNotOverstated'
  <2> DEFINE Told(e) == \E r \in DOMAIN tensor :
                /\ tensor[r].box = e.box
                /\ Highest(tensor[r].classes) = e.class_id
                /\ e.class_confidence <= tensor[r].classes[e.class_id]
                /\ helper # "yolov5" => e.class_confidence = tensor[r].classes[e.class_id]
  <2>1. FromRow(kept[next])
    BY <1>1 DEF DetIInv, MadeOfRows
  <2>2. Told(d)
    BY <1>2, <2>1 DEF FromRow, Score
  <2>3. \A i \in DOMAIN temp_vector : Told(temp_vector[i])
    BY DEF DetIInv, ConfidenceNotOverstated
  <2>4. \A i \in DOMAIN temp_vector' : Told(temp_vector'[i])
    <3> HIDE DEF Told
    <3>1. QED
      BY <1>3, <2>2, <2>3
  <2>5. QED
    BY <1>0, <2>4 DEF ConfidenceNotOverstated
<1>9. FrameIdsInOrder'
  <2> DEFINE from == Most(frame, sent_id)
  <2>1. from \in Int /\ from <= num_frames_processed
    BY <1>1 DEF Most
  <2>2. /\ \A i \in DOMAIN temp_vector : temp_vector[i].frame_id \in from .. num_frames_processed
        /\ \A i \in DOMAIN temp_vector : \A j \in 1 .. i - 1 :
              temp_vector[j].frame_id <= temp_vector[i].frame_id
    BY DEF DetIInv, FrameIdsInOrder
  <2> HIDE DEF from
  <2>3. \A i \in DOMAIN temp_vector' :
           temp_vector'[i].frame_id \in from .. num_frames_processed
    BY <1>1, <1>2, <1>3, <2>1, <2>2
  <2>4. \A i \in DOMAIN temp_vector' : \A j \in 1 .. i - 1 : j \in DOMAIN temp_vector
    BY <1>3
  <2>5. \A i \in DOMAIN temp_vector' : \A j \in 1 .. i - 1 :
           temp_vector'[j].frame_id <= temp_vector'[i].frame_id
    <3>1. \A j \in DOMAIN temp_vector : temp_vector[j].frame_id <= d.frame_id
      BY <1>1, <1>2, <2>1, <2>2
    <3>2. QED
      BY <1>3, <2>2, <2>4, <3>1
  <2>6. QED
    BY <1>0, <2>3, <2>5 DEF FrameIdsInOrder, from, Most
<1>10. QED
  BY <1>4, <1>5, <1>6, <1>7, <1>8, <1>9 DEF DetIInv

LEMMA SwapStep == DetIInv /\ Swap => DetIInv'
<1> SUFFICES ASSUME DetIInv, Swap PROVE DetIInv'
  OBVIOUS
<1> USE DEF Swap, frameVars, outputs
<1>1. DetTypeOK' /\ LoopsInStep'
  BY DEF DetIInv, DetTypeOK, LoopsInStep
<1>2. MadeOfRows' /\ RowsDecoded'
  BY DEF DetIInv, MadeOfRows, FromRow, RowsDecoded, Detected
<1>3. Ordered' /\ Disjoint' /\ Marked' /\ PassedAreCovered'
  BY DEF DetIInv, Ordered, Disjoint, Marked, PassedAreCovered, Passed, Covered, Covers,
     Suppressing
<1>4. ReportInv'
  <2>1. num_frames_processed' \in Nat /\ num_frames_processed <= num_frames_processed'
    BY DEF DetIInv, DetTypeOK
  <2>2. QED
    BY <2>1, ReportKept DEF DetIInv, ReportInv
<1>5. QED
  BY <1>1, <1>2, <1>3, <1>4 DEF DetIInv, ReportInv

\* The id that goes out is the last of the batch.
LEMMA PublishStep == DetIInv /\ Publish => DetIInv'
<1> SUFFICES ASSUME DetIInv, Publish PROVE DetIInv'
  OBVIOUS
<1> USE DEF Publish
<1>1. /\ detections_vector = temp_vector /\ temp_vector \in Seq(Reported)
      /\ sent_id \in 0 .. num_frames_processed /\ num_frames_processed \in Nat
  BY DetectionsAssumption DEF DetIInv, LoopsInStep, ReportsThisFrame, DetTypeOK
<1>2. sent_id' \in 0 .. num_frames_processed
  <2>1. CASE temp_vector = <<>>
    BY <1>1, <2>1
  <2>2. CASE temp_vector # <<>>
    <3>1. Len(temp_vector) \in DOMAIN temp_vector
      BY <1>1, <2>2
    <3>2. /\ temp_vector[Len(temp_vector)].frame_id \in Nat
          /\ temp_vector[Len(temp_vector)].frame_id <= num_frames_processed
      <4>1. temp_vector[Len(temp_vector)] \in Reported
        BY <1>1, <3>1
      <4>2. temp_vector[Len(temp_vector)].frame_id \in Most(frame, sent_id) .. num_frames_processed
        BY <3>1 DEF DetIInv, FrameIdsInOrder
      <4>3. Most(frame, sent_id) \in Int
        BY <1>1 DEF DetIInv, DetTypeOK, Most
      <4>4. QED
        BY <1>1, <4>1, <4>2, <4>3 DEF Reported
    <3>3. QED
      BY <1>1, <2>2, <3>2 DEF Last
  <2>3. QED
    BY <2>1, <2>2
<1>3. DetTypeOK' /\ LoopsInStep'
  BY <1>1, DetectionsAssumption DEF DetIInv, DetTypeOK, LoopsInStep
<1>4. MadeOfRows' /\ RowsDecoded' /\ Ordered' /\ Disjoint' /\ Marked' /\ PassedAreCovered'
  BY DEF MadeOfRows, RowsDecoded, Ordered, Disjoint, Marked, PassedAreCovered, Passed,
     Suppressing
<1>5. ReportInv'
  BY <1>2, NothingReported
<1>6. QED
  BY <1>3, <1>4, <1>5 DEF DetIInv, ReportInv

LEMMA DetStutter == DetIInv /\ UNCHANGED detVars => DetIInv'
<1> SUFFICES ASSUME DetIInv, UNCHANGED detVars PROVE DetIInv'
  OBVIOUS
<1> USE DEF detVars
<1>1. DetTypeOK' /\ LoopsInStep'
  BY DEF DetIInv, DetTypeOK, LoopsInStep
<1>2. BoxesInv'
  BY BoxesKept DEF DetIInv, BoxesInv
<1>3. ReportInv'
  <2>1. num_frames_processed' \in Nat /\ num_frames_processed <= num_frames_processed'
    BY DEF DetIInv, DetTypeOK
  <2>2. QED
    BY <2>1, ReportKept DEF DetIInv, ReportInv
<1>4. QED
  BY <1>1, <1>2, <1>3 DEF DetIInv, BoxesInv, ReportInv
-----------------------------------------------------------------------------
(***************************************************************************)
(* The theorems.                                                             *)
(***************************************************************************)

LEMMA PostprocessSteps ==
    /\ DetIInv /\ YoloV5Postprocess => DetIInv'
    /\ DetIInv /\ YoloV8Postprocess => DetIInv'
    /\ DetIInv /\ SsdPostprocess => DetIInv'
<1>1. DetIInv /\ YoloV5Postprocess => DetIInv'
  BY DecodeRowStep, DecodeDoneStep, SortStep, NmsStep, SuppressedStep, ReportStep, SwapStep
  DEF YoloV5Postprocess, YoloV5Decode, Sort
<1>2. DetIInv /\ YoloV8Postprocess => DetIInv'
  BY DecodeRowStep, DecodeDoneStep, SortStep, NMSBoxesStep, SuppressedStep, ReportStep, SwapStep
  DEF YoloV8Postprocess, YoloV8Decode, StableSort
<1>3. DetIInv /\ SsdPostprocess => DetIInv'
  BY DecodeRowStep, DecodeDoneStep, ReportStep, SwapStep DEF SsdPostprocess, SsdDecode
<1>4. QED
  BY <1>1, <1>2, <1>3

\* The inductive invariant holds of every behaviour.
THEOREM DetectionsInvariant == DetSpec => []DetIInv
<1>1. DetIInv /\ [DetNext]_detVars => DetIInv'
  BY CountFrameStep, TakeResultStep, PostprocessSteps, PublishStep, DetStutter
  DEF DetNext, YoloV5Worker, YoloV8Worker, SsdWorker
<1>2. QED
  BY <1>1, InitDetIInv, PTL DEF DetSpec

\* Type correctness: no vector is ever longer than the tensor has rows.
THEOREM DetectionsTypes == DetSpec => []DetTypeOK
  BY DetectionsInvariant, PTL DEF DetIInv

\* Whatever the tensor and the order of equal scores, the boxes of YOLOv5 and
\* YOLOv8 that are reported do not overlap by more than half.
THEOREM DetectionsDisjoint == DetSpec => []KeptDoNotOverlap
<1>1. DetIInv => KeptDoNotOverlap
  BY DEF DetIInv, Disjoint, KeptDoNotOverlap, Suppressing
<1>2. QED
  BY <1>1, DetectionsInvariant, PTL

\* And no detected row is lost but to an overlapping one of at least its score.
THEOREM DetectionsComplete == DetSpec => []LostOnlyToBetter
<1>1. DetIInv => LostOnlyToBetter
  <2> SUFFICES ASSUME DetIInv, Suppressing, NEW r \in DOMAIN tensor, Detected(tensor[r])
               PROVE  \E k \in DOMAIN kept :
                         /\ kept[k].score >= tensor[r].classes[Highest(tensor[r].classes)]
                         /\ \/ kept[k].box = tensor[r].box
                            \/ CalcIou(kept[k].box, tensor[r].box)
                            \/ helper = "yolov8" /\ BothEmpty(kept[k].box, tensor[r].box)
    BY DEF LostOnlyToBetter
  <2>1. PICK i \in DOMAIN bbox_list : /\ bbox_list[i].box = tensor[r].box
                                      /\ bbox_list[i].score = Score(tensor[r])
    BY DEF DetIInv, RowsDecoded, Suppressing
  <2>2. PICK k \in DOMAIN kept : Covers(kept[k], bbox_list[i])
    BY DEF DetIInv, PassedAreCovered, Passed, Covered
  <2>3. QED
    BY <2>1, <2>2 DEF Covers, Score
<1>2. QED
  BY <1>1, DetectionsInvariant, PTL

\* No class is published with more confidence than the network has in it, and by
\* YOLOv8 and the SSD helper with exactly that.
THEOREM DetectionsConfidence == DetSpec => []ConfidenceNotOverstated
  BY DetectionsInvariant, PTL DEF DetIInv

\* A batch goes out with the image of its frame only.
THEOREM DetectionsBatch == DetSpec => []BatchOfThisFrame
<1>1. DetIInv => BatchOfThisFrame
  BY DEF DetIInv, LoopsInStep, ReportsThisFrame, BatchOfThisFrame
<1>2. QED
  BY <1>1, DetectionsInvariant, PTL

\* However the counter of the other thread advances, frame_id never goes back and
\* is never that of an earlier frame.
THEOREM DetectionsIds == DetSpec => []FrameIdsInOrder
  BY DetectionsInvariant, PTL DEF DetIInv
=============================================================================
