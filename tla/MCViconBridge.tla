---------------------------- MODULE MCViconBridge ----------------------------
(***************************************************************************)
(* Four places on a diagonal off Vicon's origin; level, a quarter turn to    *)
(* the left, and a quarter roll.                                             *)
(***************************************************************************)
EXTENDS ViconBridge

MCPlaces == {<<x, x, 1>> : x \in 3 .. 6}
MCAttitudes == {<<0, 0, 0, 1>>, <<0, 0, 1, 1>>, <<1, 0, 0, 1>>}
=============================================================================
