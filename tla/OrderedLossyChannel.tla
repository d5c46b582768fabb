------------------------- MODULE OrderedLossyChannel -------------------------
(***************************************************************************)
(* What a stage of the video pipeline promises to the next one.  A stage    *)
(* is given numbered frames and hands some of them on: it may drop frames,   *)
(* as real-time video does, and it never repeats, reorders or invents one.   *)
(* Only the two frontiers matter, and how often a frame has left: a frame     *)
(* handed on a second time would change the count and not the frontier.      *)
(***************************************************************************)
EXTENDS Naturals

VARIABLES
    sent,        \* number of the latest frame given to the stage
    delivered,   \* number of the latest frame the stage handed on; 0: none yet
    handed       \* how many frames the stage has handed on

chanVars == <<sent, delivered, handed>>

ChanInit ==
    /\ sent = 0
    /\ delivered = 0
    /\ handed = 0

\* A later frame enters; numbers may be passed over (a frame refused before it
\* entered keeps its number).
Send ==
    /\ sent' \in Nat
    /\ sent' > sent
    /\ UNCHANGED <<delivered, handed>>

\* A frame leaves: one that has entered, later than every one that left before.
Deliver ==
    /\ delivered' \in Nat
    /\ delivered' > delivered
    /\ delivered' <= sent
    /\ handed' = handed + 1
    /\ UNCHANGED sent

ChanNext == Send \/ Deliver

ChanSpec == ChanInit /\ [][ChanNext]_chanVars
=============================================================================
