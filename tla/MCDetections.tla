---------------------------- MODULE MCDetections ----------------------------
(***************************************************************************)
(* Detections with boxes that are equal, nested, just over and just under    *)
(* half overlapped, touching and empty, and scores on both sides of every    *)
(* threshold.                                                                *)
(***************************************************************************)
EXTENDS Detections

Row(x, w, conf, classes) ==
    [box |-> [x |-> x, y |-> 0, w |-> w, h |-> 2], conf |-> conf, classes |-> classes]
MCRowValues ==
    {Row(0, 4, 40, <<90, 10>>), Row(1, 4, 40, <<50, 50>>), Row(2, 4, 90, <<10, 70>>),
     Row(0, 4, 40, <<20, 10>>), Row(5, 0, 39, <<46, 45>>), Row(0, 4, 90, <<10, 19>>),
     Row(4, 0, 40, <<50, 46>>)}
=============================================================================
