-------------------------- MODULE ViconBridgeProofs --------------------------
(***************************************************************************)
(* For every set of places and attitudes, every clock and every length of    *)
(* time: what the positions and the attitudes of the odometry are measured   *)
(* from.                                                                     *)
(***************************************************************************)
EXTENDS ViconBridge, TLAPS

\* Neither a position nor an attitude is taken for a missing one.
LEMMA NotNone ==
    /\ \A v \in Vector : v # None
    /\ \A q \in Quaternion : q # None
  BY DEF Vector, Quaternion, None

\* The map of FLU to FRD is a product with a unit from the left, which the
\* inverse of the reference takes back: the attitude is the one relative to the
\* reference in Vicon's own axes, for all attitudes.
LEMMA FlipCancels ==
    ASSUME NEW p \in Quaternion, NEW q \in Quaternion
    PROVE  QuatMult(QuatConjugate(FlipQuaternionFluToFrd(p)), FlipQuaternionFluToFrd(q))
             = QuatMult(QuatConjugate(p), q)
  BY DEF Quaternion, QuatMult, QuatConjugate, FlipQuaternionFluToFrd

LEMMA Times ==
    ASSUME NEW p \in Quaternion, NEW q \in Quaternion
    PROVE  /\ QuatMult(p, q) \in Quaternion
           /\ QuatConjugate(p) \in Quaternion
           /\ Square(p) \in Int
  BY DEF Quaternion, QuatMult, QuatConjugate, Square

\* The quaternion of the same attitude, n times as long.
Multiple(n, q) == <<n * q[1], n * q[2], n * q[3], n * q[4]>>

LEMMA TimesInverse ==
    ASSUME NEW p \in Quaternion, NEW q \in Quaternion
    PROVE  QuatMult(p, QuatMult(QuatConjugate(p), q)) = Multiple(Square(p), q)
  BY SMTT(60) DEF Quaternion, QuatMult, QuatConjugate, Square, Multiple

LEMMA SquareOfTimes ==
    ASSUME NEW p \in Quaternion, NEW q \in Quaternion
    PROVE  Square(QuatMult(QuatConjugate(p), q)) = Square(p) * Square(q)
  BY SMTT(60) DEF Quaternion, QuatMult, QuatConjugate, Square

LEMMA Products ==
    ASSUME NEW n \in Int, NEW a \in Int, NEW b \in Int
    PROVE  (n * a) * (n * b) = (n * n) * (a * b)
<1>1. (n * a) * (n * b) = n * (a * (n * b))
  BY SMT
<1>2. a * (n * b) = n * (a * b)
  BY SMT
<1>3. (n * n) * (a * b) = n * (n * (a * b))
  BY SMT
<1>. QED  BY <1>1, <1>2, <1>3

LEMMA Distribute ==
    ASSUME NEW m \in Int, NEW x \in Int, NEW y \in Int, NEW z \in Int, NEW t \in Int
    PROVE  /\ m * x - m * y + m * z + m * t = m * (x - y + z + t)
           /\ m * x + m * y - m * z + m * t = m * (x + y - z + t)
           /\ m * x - m * y - m * z - m * t = m * (x - y - z - t)
  BY SMT

LEMMA TimesMultiples ==
    ASSUME NEW n \in Int, NEW p \in Quaternion, NEW q \in Quaternion
    PROVE  QuatMult(Multiple(n, p), Multiple(n, q)) = Multiple(n * n, QuatMult(p, q))
<1>1. \A i, j \in 1 .. 4 : p[i] \in Int /\ q[j] \in Int
  BY DEF Quaternion
<1>2. \A i, j \in 1 .. 4 : (n * p[i]) * (n * q[j]) = (n * n) * (p[i] * q[j])
  BY <1>1, Products
<1>. QED  BY <1>1, <1>2, Distribute, SMTT(60) DEF QuatMult, Multiple

LEMMA TimesMultiple ==
    ASSUME NEW n \in Int, NEW p \in Quaternion, NEW q \in Quaternion
    PROVE  QuatMult(Multiple(n, p), q) = Multiple(n, QuatMult(p, q))
<1>1. \A i, j \in 1 .. 4 : p[i] \in Int /\ q[j] \in Int
  BY DEF Quaternion
<1>2. \A i, j \in 1 .. 4 : (n * p[i]) * q[j] = n * (p[i] * q[j])
  BY <1>1, SMT
<1>. QED  BY <1>1, <1>2, Distribute, SMTT(60) DEF QuatMult, Multiple

LEMMA RotScaled ==
    ASSUME NEW n \in Int, NEW q \in Quaternion, NEW v \in Vector
    PROVE  Rot(Multiple(n, q), v) = Scaled(n * n, Rot(q, v))
<1>. DEFINE w == <<v[1], v[2], v[3], 0>>
            r == QuatMult(q, w)
            c == QuatConjugate(q)
<1>1. w \in Quaternion /\ r \in Quaternion /\ c \in Quaternion
  BY Times DEF Vector, Quaternion
<1>2. QuatMult(Multiple(n, q), w) = Multiple(n, r)
  BY <1>1, TimesMultiple
<1>3. QuatConjugate(Multiple(n, q)) = Multiple(n, c)
  BY SMT DEF Quaternion, QuatConjugate, Multiple
<1>. HIDE DEF w, r, c
<1>4. QuatMult(Multiple(n, r), Multiple(n, c)) = Multiple(n * n, QuatMult(r, c))
  BY <1>1, TimesMultiples
<1>5. Rot(Multiple(n, q), v) = LET t == QuatMult(Multiple(n, r), Multiple(n, c))
                               IN  <<t[1], t[2], t[3]>>
  BY <1>2, <1>3 DEF Rot, w
<1>6. Rot(q, v) = LET t == QuatMult(r, c) IN <<t[1], t[2], t[3]>>
  BY DEF Rot, r, c, w
<1>. QED  BY <1>4, <1>5, <1>6 DEF Scaled, Multiple

\* Turning from p by the attitude of q relative to p gives q.
LEMMA RelativeTurn ==
    ASSUME NEW p \in Quaternion, NEW q \in Quaternion, NEW v \in Vector
    PROVE  LET s == QuatMult(QuatConjugate(p), q)
           IN  Scaled(Square(q), Rot(QuatMult(p, s), v))
                 = Scaled(Square(p) * Square(s), Rot(q, v))
<1>. DEFINE s == QuatMult(QuatConjugate(p), q)
            n == Square(p)
            m == Square(q)
            t == Rot(q, v)
<1>1. n \in Int /\ m \in Int /\ t \in Vector
  <2>1. n \in Int /\ m \in Int
    BY Times
  <2>2. <<v[1], v[2], v[3], 0>> \in Quaternion
    BY DEF Vector, Quaternion
  <2>3. QuatMult(QuatMult(q, <<v[1], v[2], v[3], 0>>), QuatConjugate(q)) \in Quaternion
    BY <2>2, Times
  <2>. QED  BY <2>1, <2>3 DEF Rot, Vector, Quaternion
<1>2. Rot(QuatMult(p, s), v) = Scaled(n * n, t)
  BY <1>1, TimesInverse, RotScaled
<1>3. n * Square(s) = n * (n * m)
  BY SquareOfTimes
<1>. HIDE DEF s, n, m, t
<1>4. Scaled(m, Scaled(n * n, t)) = Scaled(n * (n * m), t)
  <2>1. \A i \in 1 .. 3 : t[i] \in Int
    BY <1>1 DEF Vector
  <2>2. \A i \in 1 .. 3 : m * ((n * n) * t[i]) = (n * (n * m)) * t[i]
    BY <1>1, <2>1, SMT
  <2>. QED  BY <2>2 DEF Scaled
<1>5. Scaled(m, Rot(QuatMult(p, s), v)) = Scaled(n * Square(s), t)
  BY <1>2, <1>3, <1>4
<1>. QED  BY <1>5 DEF s, n, m, t
-----------------------------------------------------------------------------
(***************************************************************************)
(* The inductive invariant.  A frame that is seen fixes the history variable *)
(* at once and the script's own variable one step later, so the two agree    *)
(* except while that frame is in hand.                                       *)
(***************************************************************************)

Frames == [pos : Vector, quat : Quaternion, occ_pos : BOOLEAN, occ_quat : BOOLEAN]
SeenInHand == pc = "frame" /\ ~frame.occ_pos

\* A frame whose attitude is seen, and that will be sent.
ToSend == pc = "frame" /\ ~frame.occ_quat /\ (initial_pos # None \/ frame.occ_pos)

InvTypes ==
    /\ place \in Places
    /\ pc = "frame" => frame \in Frames
    /\ home \in Places \union {None} /\ initial_pos \in Places \union {None}
    /\ level \in Quaternion \union {None}

InvOrigin ==
    /\ initial_pos # None => initial_pos = home
    /\ home # None /\ initial_pos = None =>
          pc = "ended" \/ (SeenInHand /\ frame.pos = home)
    /\ SeenInHand => home # None

InvLevel ==
    /\ initial_quat_inv # None =>
          level # None /\ initial_quat_inv = QuatConjugate(FlipQuaternionFluToFrd(level))
    /\ level # None /\ initial_quat_inv = None =>
          pc = "ended" \/ (ToSend /\ frame.quat = level)
    /\ ToSend => level # None

InvSent ==
    odom # None =>
        /\ ~odom.frame.occ_pos =>
            home # None /\ odom.pos = FluToFrd(Minus(odom.frame.pos, home))
        /\ ~odom.frame.occ_quat =>
            /\ level # None /\ odom.frame.quat \in Quaternion
            /\ odom.quat = QuatFormChange(QuatMult(QuatConjugate(level), odom.frame.quat))

BridgeInv == InvTypes /\ InvOrigin /\ InvLevel /\ InvSent

\* What GetFrame can give.
LEMMA FrameFacts ==
    ASSUME InvTypes, NEW q \in Attitudes, NEW op \in BOOLEAN, NEW oq \in BOOLEAN
    PROVE  /\ FrameOf(q, op, oq) \in Frames
           /\ ~FrameOf(q, op, oq).occ_pos => FrameOf(q, op, oq).pos = place
<1>1. place \in Vector /\ Origin \in Vector
  BY ViconAssumption DEF InvTypes, Vector, Origin
<1>2. q \in Quaternion /\ <<1, 0, 0, 0>> \in Quaternion
  BY ViconAssumption DEF Quaternion
<1>. QED  BY <1>1, <1>2 DEF FrameOf, Frames

\* The first frame seen becomes the origin, the next one the reference, and
\* whatever is sent of a frame that is seen is measured from these two.
THEOREM BridgeInvariant == VBSpec => []BridgeInv
<1>. USE ViconAssumption
<1>1. VBInit => BridgeInv
  BY DEF VBInit, BridgeInv, InvTypes, InvOrigin, InvLevel, InvSent, SeenInHand, ToSend
<1>2. BridgeInv /\ [VBNext]_vbVars => BridgeInv'
  <2>. SUFFICES ASSUME BridgeInv, [VBNext]_vbVars PROVE BridgeInv'
    OBVIOUS
  <2>. USE DEF BridgeInv, InvTypes, InvOrigin, InvLevel, InvSent, SeenInHand, ToSend, world
  <2>1. CASE Fly
    BY <2>1 DEF Fly
  <2>2. CASE SetClock
    BY <2>2 DEF SetClock
  <2>3. CASE Connect
    BY <2>3 DEF Connect
  <2>4. CASE GetFrame
    <3>1. frame' \in Frames /\ (~frame'.occ_pos => frame'.pos = place)
      BY <2>4, FrameFacts DEF GetFrame
    <3>2. place # None /\ frame'.quat # None
      BY <3>1, NotNone DEF Frames, Vector
    <3>3. pc = "pull" /\ pc' = "frame"
      BY <2>4 DEF GetFrame
    <3>4. (home = None <=> initial_pos = None) /\ (level = None <=> initial_quat_inv = None)
      BY <3>3
    <3>. HIDE DEF InvSent
    <3>5. InvTypes'
      BY <2>4, <3>1 DEF GetFrame, Frames
    <3>6. InvOrigin' /\ InvLevel'
      BY <2>4, <3>1, <3>2, <3>3, <3>4 DEF GetFrame
    <3>7. InvSent'
      BY <2>4 DEF GetFrame, InvSent
    <3>. QED  BY <3>5, <3>6, <3>7
  <2>5. CASE SetOrigin
    <3>1. frame \in Frames /\ home # None /\ frame.pos = home
      BY <2>5 DEF SetOrigin
    <3>. QED  BY <2>5, <3>1 DEF SetOrigin
  <2>6. CASE SendOdometry
    <3>1. /\ frame \in Frames /\ odom'.frame = frame /\ odom'.pos = Position
          /\ odom'.quat = QuatFormChange(RelQuat(Reference))
          /\ initial_quat_inv' = Reference
          /\ pc = "frame" /\ pc' = "sleep" /\ (initial_pos # None \/ frame.occ_pos)
          /\ UNCHANGED <<place, time, offset, initial_pos, home, level>>
      BY <2>6 DEF SendOdometry
    <3>2. ~frame.occ_pos =>
             home # None /\ odom'.pos = FluToFrd(Minus(odom'.frame.pos, home))
      <4>. SUFFICES ASSUME ~frame.occ_pos
                    PROVE  home # None /\ odom'.pos = FluToFrd(Minus(odom'.frame.pos, home))
        OBVIOUS
      <4>1. initial_pos # None /\ initial_pos = home
        BY <2>6 DEF SendOdometry
      <4>. QED  BY <3>1, <4>1 DEF Position
    <3>3. CASE frame.occ_quat
      <4>1. Reference = initial_quat_inv
        BY <3>3 DEF Reference
      <4>2. level # None => initial_quat_inv # None
        BY <3>1, <3>3
      <4>3. InvSent'
        BY <3>1, <3>2, <3>3
      <4>4. InvTypes' /\ InvOrigin'
        BY <3>1
      <4>5. InvLevel'
        BY <3>1, <4>1, <4>2
      <4>. QED  BY <4>3, <4>4, <4>5
    <3>4. CASE ~frame.occ_quat
      <4>1. /\ ToSend /\ level # None /\ level \in Quaternion /\ frame.quat \in Quaternion
        BY <2>6, <3>1, <3>4 DEF SendOdometry, Frames
      <4>2. Reference = QuatConjugate(FlipQuaternionFluToFrd(level))
        BY <3>1, <3>4, <4>1 DEF Reference
      <4>3. Reference # None
        <5>1. FlipQuaternionFluToFrd(level) \in Quaternion
          BY <4>1 DEF FlipQuaternionFluToFrd, Quaternion
        <5>. QED  BY <5>1, <4>2, Times, NotNone
      <4>4. RelQuat(Reference) = QuatMult(QuatConjugate(level), frame.quat)
        BY <4>1, <4>2, <4>3, FlipCancels DEF RelQuat
      <4>5. InvSent'
        BY <3>1, <3>2, <4>1, <4>4
      <4>. HIDE DEF InvSent
      <4>. QED  BY <3>1, <4>1, <4>2, <4>3, <4>5
    <3>. QED  BY <3>3, <3>4
  <2>7. CASE WakeUp
    BY <2>7 DEF WakeUp
  <2>8. CASE End
    BY <2>8 DEF End
  <2>9. CASE UNCHANGED vbVars
    BY <2>9 DEF vbVars
  <2>. QED  BY <2>1, <2>2, <2>3, <2>4, <2>5, <2>6, <2>7, <2>8, <2>9 DEF VBNext
<1>. QED  BY <1>1, <1>2, PTL DEF VBSpec

\* The position of every pose that was seen is the way from where the vehicle
\* was seen first.
THEOREM BridgeOrigin == VBSpec => []MeasuredFromOrigin
<1>1. BridgeInv => MeasuredFromOrigin
  BY DEF BridgeInv, InvSent, MeasuredFromOrigin
<1>. QED  BY <1>1, BridgeInvariant, PTL

\* The attitude of every pose that was seen is the turn from the reference to
\* what Vicon saw, about the vehicle's axes and for all attitudes.
THEOREM BridgeAttitude == VBSpec => []AttitudeFromReference
<1>1. BridgeInv => AttitudeFromReference
  <2>. SUFFICES ASSUME BridgeInv, odom # None, ~odom.frame.occ_quat, NEW v \in Axes
                PROVE  Scaled(Square(odom.frame.quat), Rot(QuatMult(level, SentQuat), v))
                         = Scaled(Square(level) * Square(SentQuat), Rot(odom.frame.quat, v))
    BY DEF AttitudeFromReference
  <2>. DEFINE q == odom.frame.quat
  <2>1. /\ level \in Quaternion /\ q \in Quaternion
        /\ odom.quat = QuatFormChange(QuatMult(QuatConjugate(level), q))
    BY DEF BridgeInv, InvTypes, InvSent
  <2>2. SentQuat = QuatMult(QuatConjugate(level), q)
    BY <2>1 DEF SentQuat, QuatFormChange, QuatMult
  <2>3. v \in Vector
    BY DEF Axes, Vector
  <2>. QED  BY <2>1, <2>2, <2>3, RelativeTurn
<1>. QED  BY <1>1, BridgeInvariant, PTL
-----------------------------------------------------------------------------
(***************************************************************************)
(* Speed.                                                                    *)
(***************************************************************************)

\* Two points no more than n steps apart along each axis.
Near(u, v, n) == \A i \in 1 .. 3 : u[i] - v[i] \in -n .. n

LEMMA NearComponents ==
    ASSUME NEW u \in Vector, NEW v \in Vector, NEW n \in Int
    PROVE  /\ u[1] \in Int /\ u[2] \in Int /\ u[3] \in Int
           /\ Near(u, v, n) <=> /\ -n <= u[1] - v[1] /\ u[1] - v[1] <= n
                                /\ -n <= u[2] - v[2] /\ u[2] - v[2] <= n
                                /\ -n <= u[3] - v[3] /\ u[3] - v[3] <= n
<1>1. \A i \in 1 .. 3 : u[i] \in Int /\ v[i] \in Int
  BY DEF Vector
<1>2. \A i \in 1 .. 3 : i = 1 \/ i = 2 \/ i = 3
  OBVIOUS
<1>3. Near(u, v, n) <=> /\ u[1] - v[1] \in -n .. n /\ u[2] - v[2] \in -n .. n
                        /\ u[3] - v[3] \in -n .. n
  BY <1>2 DEF Near
<1>. QED  BY <1>1, <1>3

\* Two stretches in a row.
LEMMA NearAdd ==
    ASSUME NEW u \in Vector, NEW v \in Vector, NEW w \in Vector, NEW n \in Int, NEW m \in Int,
           Near(u, v, n), Near(v, w, m)
    PROVE  Near(u, w, n + m)
  BY NearComponents

LEMMA NearMore ==
    ASSUME NEW u \in Vector, NEW v \in Vector, NEW n \in Int, NEW m \in Int,
           Near(u, v, n), n <= m
    PROVE  Near(u, v, m)
  BY NearComponents

\* The way from a third point keeps the distance of two.
LEMMA NearSeenFrom ==
    ASSUME NEW u \in Vector, NEW v \in Vector, NEW h \in Vector, NEW n \in Int,
           Near(u, v, n)
    PROVE  Near(FluToFrd(Minus(u, h)), FluToFrd(Minus(v, h)), n)
<1>1. FluToFrd(Minus(u, h)) \in Vector /\ FluToFrd(Minus(v, h)) \in Vector
  BY DEF FluToFrd, Minus, Vector
<1>2. /\ u[1] \in Int /\ u[2] \in Int /\ u[3] \in Int
      /\ v[1] \in Int /\ v[2] \in Int /\ v[3] \in Int
      /\ h[1] \in Int /\ h[2] \in Int /\ h[3] \in Int
  BY DEF Vector
<1>. QED  <2>. DEFINE a == FluToFrd(Minus(u, h))
              b == FluToFrd(Minus(v, h))
  <2>1. /\ a[1] = u[1] - h[1] /\ a[2] = -(u[2] - h[2]) /\ a[3] = -(u[3] - h[3])
        /\ b[1] = v[1] - h[1] /\ b[2] = -(v[2] - h[2]) /\ b[3] = -(v[3] - h[3])
    BY DEF FluToFrd, Minus
  <2>. HIDE DEF a, b
  <2>2. /\ -n <= u[1] - v[1] /\ u[1] - v[1] <= n
        /\ -n <= u[2] - v[2] /\ u[2] - v[2] <= n
        /\ -n <= u[3] - v[3] /\ u[3] - v[3] <= n
    BY NearComponents
  <2>3. /\ -n <= a[1] - b[1] /\ a[1] - b[1] <= n
        /\ -n <= a[2] - b[2] /\ a[2] - b[2] <= n
        /\ -n <= a[3] - b[3] /\ a[3] - b[3] <= n
    BY <1>2, <2>1, <2>2
  <2>4. a \in Vector /\ b \in Vector
    BY <1>1 DEF a, b
  <2>5. Near(a, b, n)
    BY <2>3, <2>4, NearComponents
  <2>. QED  BY <2>5 DEF a, b

\* The position sent of a place, and when the last pose was sent.
Way(p) == FluToFrd(Minus(p, home))
SentAt == prev_time - odom.offset

LEMMA WayIsVector == ASSUME NEW p \in Vector, home \in Vector PROVE Way(p) \in Vector
  BY DEF Way, FluToFrd, Minus, Vector

InvTimes ==
    /\ {time, offset, prev_time} \subseteq Int
    /\ pc = "frame" => ticks \in 0 .. MaxDelay
    /\ odom = None => prev_pos = None
    /\ odom # None => /\ prev_pos \in Vector /\ odom.offset \in Int
                      /\ SentAt <= time
                      /\ initial_pos = None => prev_pos = Origin

\* The vehicle is no further from the last pose sent than it can have flown since,
\* and since the frame of that pose; and neither is the frame in hand.
InvReach ==
    /\ SeenInHand => Near(place, frame.pos, ticks)
    /\ odom # None /\ odom.sound =>
         /\ home # None => Near(Way(place), prev_pos, time - SentAt + MaxDelay)
         /\ SeenInHand => Near(Way(frame.pos), prev_pos, time - SentAt + MaxDelay)

SpeedInv == InvTimes /\ InvReach /\ SpeedPlausible

LEMMA PlacesAreVectors == Places \subseteq Vector
  BY ViconAssumption DEF Vector

\* A tick brings the vehicle one step further at most.
LEMMA FlyOn ==
    ASSUME BridgeInv, SpeedInv, Fly
    PROVE  SpeedInv'
<1>. USE ViconAssumption DEF BridgeInv, InvTypes, InvOrigin, SpeedInv, SeenInHand
<1>1. /\ place \in Vector /\ place' \in Vector /\ Near(place', place, 1)
      /\ time' = time + 1 /\ time \in Int /\ MaxDelay \in Int
      /\ pc = "frame" => ticks' = ticks + 1 /\ ticks' \in 0 .. MaxDelay
      /\ UNCHANGED <<offset, pc, frame, initial_pos, prev_pos, prev_time, odom, last, home>>
  BY PlacesAreVectors DEF Fly, Near, InvTimes
<1>2. odom # None => /\ prev_pos \in Vector /\ SentAt \in Int /\ SentAt' = SentAt
  BY <1>1 DEF InvTimes, SentAt
<1>3. InvTimes'
  BY <1>1, <1>2 DEF InvTimes
<1>4. SeenInHand => Near(place', frame.pos, ticks')
  <2>. SUFFICES ASSUME SeenInHand PROVE Near(place', frame.pos, ticks + 1)
    BY <1>1
  <2>1. frame.pos \in Vector /\ ticks \in Int /\ Near(place, frame.pos, ticks)
    BY DEF Frames, InvReach, InvTimes
  <2>2. Near(place', frame.pos, 1 + ticks)
    BY <1>1, <2>1, NearAdd
  <2>. QED  BY <2>1, <2>2
<1>5. ASSUME odom # None, odom.sound, home # None
      PROVE  Near(Way(place'), prev_pos, time' - SentAt + MaxDelay)
  <2>. DEFINE d == time - SentAt + MaxDelay
  <2>1. d \in Int /\ home \in Vector /\ Near(Way(place), prev_pos, d)
    BY <1>1, <1>2, <1>5, PlacesAreVectors DEF InvReach
  <2>2. Way(place) \in Vector /\ Way(place') \in Vector
    BY <1>1, <2>1, WayIsVector
  <2>3. Near(Way(place'), Way(place), 1)
    BY <1>1, <2>1, NearSeenFrom DEF Way
  <2>4. Near(Way(place'), prev_pos, 1 + d)
    BY <1>2, <1>5, <2>1, <2>2, <2>3, NearAdd
  <2>5. 1 + d = time' - SentAt + MaxDelay
    BY <1>1, <1>2, <1>5
  <2>. QED  BY <2>4, <2>5
<1>6. ASSUME odom # None, odom.sound, SeenInHand
      PROVE  Near(Way(frame.pos), prev_pos, time' - SentAt + MaxDelay)
  <2>. DEFINE d == time - SentAt + MaxDelay
  <2>1. /\ d \in Int /\ home \in Vector /\ frame.pos \in Vector
        /\ Near(Way(frame.pos), prev_pos, d)
    BY <1>1, <1>2, <1>6, PlacesAreVectors DEF InvReach, Frames
  <2>2. time' - SentAt + MaxDelay \in Int /\ d <= time' - SentAt + MaxDelay
    BY <1>1, <1>2, <1>6
  <2>. QED  BY <1>2, <1>6, <2>1, <2>2, WayIsVector, NearMore
<1>7. InvReach'
  BY <1>1, <1>2, <1>4, <1>5, <1>6 DEF InvReach, Way
<1>8. SpeedPlausible'
  BY <1>1 DEF SpeedPlausible
<1>. QED  BY <1>3, <1>7, <1>8

\* The frame shows the vehicle where it is.
LEMMA FrameInReach ==
    ASSUME BridgeInv, SpeedInv, GetFrame
    PROVE  SpeedInv'
<1>. USE ViconAssumption DEF BridgeInv, InvTypes, InvOrigin, SpeedInv, SeenInHand
<1>1. /\ pc = "pull" /\ pc' = "frame" /\ ticks' = 0
      /\ home' = IF home = None /\ ~frame'.occ_pos THEN place ELSE home
      /\ UNCHANGED <<place, time, offset, initial_pos, prev_pos, prev_time, odom, last>>
  BY DEF GetFrame, world
<1>2. ~frame'.occ_pos => frame'.pos = place
  BY FrameFacts DEF GetFrame
<1>3. place \in Vector /\ MaxDelay \in Nat
  BY PlacesAreVectors
<1>4. InvTimes'
  BY <1>1, <1>3 DEF InvTimes, SentAt
<1>5. Near(place, place, 0)
  BY <1>3, NearComponents
<1>6. ASSUME odom # None, odom.sound, home' # None
      PROVE  Near(FluToFrd(Minus(place, home')), prev_pos, time - SentAt + MaxDelay)
  <2>. DEFINE d == time - SentAt + MaxDelay
  <2>1. d \in Int /\ 0 <= d /\ prev_pos \in Vector
    BY <1>3, <1>6 DEF InvTimes, SentAt
  <2>2. CASE home # None
    BY <1>1, <1>6, <2>2 DEF InvReach, Way
  <2>3. CASE home = None
    <3>1. home' = place /\ prev_pos = Origin
      BY <1>1, <1>6, <2>3 DEF InvTimes
    <3>2. FluToFrd(Minus(place, place)) = Origin
      BY <1>3 DEF FluToFrd, Minus, Origin, Vector
    <3>3. Near(Origin, Origin, 0) /\ Origin \in Vector
      BY NearComponents DEF Origin, Vector
    <3>. QED  BY <2>1, <3>1, <3>2, <3>3, NearMore
  <2>. QED  BY <2>2, <2>3
<1>7. InvReach'
  BY <1>1, <1>2, <1>5, <1>6, NotNone, <1>3 DEF InvReach, Way, SentAt
<1>8. SpeedPlausible'
  BY <1>1 DEF SpeedPlausible
<1>. QED  BY <1>4, <1>7, <1>8

\* The velocity sent is the way flown since the pose before.
LEMMA SentInReach ==
    ASSUME BridgeInv, SpeedInv, SendOdometry
    PROVE  SpeedInv'
<1>. USE ViconAssumption DEF BridgeInv, InvTypes, InvOrigin, SpeedInv, SeenInHand
<1>. DEFINE now == time + offset
<1>1. /\ pc = "frame" /\ pc' = "sleep" /\ ~(initial_pos = None /\ ~frame.occ_pos)
      /\ prev_pos' = Position /\ prev_time' = now
      /\ odom'.pos = Position /\ odom'.vel = Velocity(Position, now)
      /\ odom'.offset = offset /\ odom'.sound = (~frame.occ_pos \/ initial_pos = None)
      /\ odom = None => last' = None
      /\ odom # None => last' = [offset |-> odom.offset, sound |-> odom.sound]
      /\ UNCHANGED <<place, time, offset, initial_pos, home>>
  BY DEF SendOdometry, world
<1>2. /\ place \in Vector /\ MaxDelay \in Nat /\ frame.pos \in Vector
      /\ {time, offset, now, prev_time} \subseteq Int /\ ticks \in 0 .. MaxDelay
      /\ initial_pos \in Vector \union {None}
  BY <1>1, PlacesAreVectors DEF Frames, InvTimes
<1>3. Position \in Vector
  BY <1>2 DEF Position, Origin, FluToFrd, Minus, Vector
<1>4. SentAt' = time
  BY <1>1, <1>2 DEF SentAt
<1>5. odom' # None
  BY DEF SendOdometry, None
<1>6. InvTimes'
  BY <1>1, <1>2, <1>3, <1>4, <1>5 DEF InvTimes, Position
<1>7. ~frame.occ_pos => /\ initial_pos = home /\ home # None /\ home \in Vector
                    /\ Position = Way(frame.pos)
  BY <1>1, <1>2 DEF Position, Way
<1>8. initial_pos = None => home = None
  BY <1>1
<1>9. InvReach'
  <2>. SUFFICES ASSUME odom'.sound, home # None
                PROVE  Near(Way(place), Position, time - time + MaxDelay)
    BY <1>1, <1>4 DEF InvReach, Way
  <2>1. ~frame.occ_pos
    BY <1>1, <1>8
  <2>2. Near(place, frame.pos, ticks)
    BY <1>1, <2>1 DEF InvReach
  <2>3. Near(place, frame.pos, MaxDelay)
    BY <1>2, <2>2, NearMore
  <2>4. Near(Way(place), Way(frame.pos), MaxDelay)
    BY <1>2, <1>7, <2>1, <2>3, NearSeenFrom DEF Way
  <2>5. time - time + MaxDelay = MaxDelay
    BY <1>2
  <2>. QED  BY <1>7, <2>1, <2>4, <2>5
<1>10. SpeedPlausible'
  <2>. SUFFICES ASSUME odom'.sound, last' # None => last'.sound /\ last'.offset = offset,
                       NEW i \in 1 .. 3
                PROVE  LET limit == Velocity(Position, now).dt + MaxDelay
                       IN  Velocity(Position, now).moved[i] \in -limit .. limit
    BY <1>1 DEF SpeedPlausible
  <2>1. CASE prev_pos = None \/ ~(now > prev_time)
    <3>1. Velocity(Position, now) = [moved |-> Origin, dt |-> 1]
      BY <2>1 DEF Velocity
    <3>2. Origin[i] = 0
      BY DEF Origin
    <3>. QED  BY <1>2, <3>1, <3>2
  <2>2. CASE prev_pos # None /\ now > prev_time
    <3>1. Velocity(Position, now) = [moved |-> Minus(Position, prev_pos), dt |-> now - prev_time]
      BY <2>2 DEF Velocity
    <3>2. odom # None /\ prev_pos \in Vector /\ odom.offset \in Int
      BY <2>2 DEF InvTimes
    <3>3. last'.sound = odom.sound /\ last'.offset = odom.offset /\ last' # None
      <4>1. last' = [offset |-> odom.offset, sound |-> odom.sound]
        BY <1>1, <3>2
      <4>2. last' # None
        BY <4>1 DEF None
      <4>. QED  BY <4>1, <4>2
    <3>4. odom.sound /\ odom.offset = offset
      BY <3>3
    <3>5. now - prev_time = time - SentAt
      BY <1>2, <3>4 DEF SentAt
    <3>. DEFINE limit == now - prev_time + MaxDelay
    <3>6. limit \in Int /\ 0 <= limit /\ limit = time - SentAt + MaxDelay
      BY <1>2, <2>2, <3>5
    <3>7. Near(Position, prev_pos, limit)
      <4>1. CASE ~frame.occ_pos
        BY <1>1, <1>7, <3>2, <3>4, <3>6, <4>1 DEF InvReach
      <4>2. CASE frame.occ_pos
        <5>1. Position = Origin /\ prev_pos = Origin
          BY <1>1, <3>2, <4>2 DEF Position, InvTimes
        <5>2. Near(Origin, Origin, 0) /\ Origin \in Vector
          BY NearComponents DEF Origin, Vector
        <5>. QED  BY <3>6, <5>1, <5>2, NearMore
      <4>. QED  BY <4>1, <4>2
    <3>8. Minus(Position, prev_pos)[i] = Position[i] - prev_pos[i]
      BY DEF Minus
    <3>. QED  BY <3>1, <3>7, <3>8 DEF Near
  <2>. QED  BY <2>1, <2>2
<1>. QED  BY <1>6, <1>9, <1>10

LEMMA SpeedInvStep ==
    ASSUME BridgeInv, SpeedInv, [VBNext]_vbVars
    PROVE  SpeedInv'
<1>1. CASE Fly
  BY <1>1, FlyOn
<1>2. CASE GetFrame
  BY <1>2, FrameInReach
<1>3. CASE SendOdometry
  BY <1>3, SentInReach
<1>4. CASE SetClock \/ Connect \/ SetOrigin \/ WakeUp \/ End \/ UNCHANGED vbVars
  <2>1. /\ UNCHANGED <<place, time, prev_pos, prev_time, odom, last, home>>
        /\ pc' = "frame" => UNCHANGED <<pc, frame, ticks>>
        /\ initial_pos' = None => initial_pos = None
        /\ offset' \in Int
    <3>1. SetOrigin => initial_pos' # None /\ pc' = "pull"
      BY NotNone DEF SetOrigin, BridgeInv, InvTypes, Frames
    <3>2. offset \in Int
      BY DEF SpeedInv, InvTimes
    <3>. QED  BY <1>4, <3>1, <3>2, ViconAssumption
           DEF SetClock, Connect, SetOrigin, WakeUp, End, vbVars, world
  <2>2. InvTimes'
    BY <2>1 DEF SpeedInv, InvTimes, SentAt
  <2>3. InvReach'
    BY <2>1 DEF SpeedInv, InvReach, SeenInHand, SentAt, Way
  <2>4. SpeedPlausible'
    BY <2>1 DEF SpeedInv, SpeedPlausible
  <2>. QED  BY <2>2, <2>3, <2>4 DEF SpeedInv
<1>. QED  BY <1>1, <1>2, <1>3, <1>4 DEF VBNext

\* No velocity is sent that the vehicle could not have flown, but for the delay of
\* the time stamp, while the clock is not set and no occluded pose is sent.
THEOREM BridgeSpeed == VBSpec => []SpeedPlausible
<1>1. VBInit => SpeedInv
  BY ViconAssumption
     DEF VBInit, SpeedInv, InvTimes, InvReach, SpeedPlausible, SeenInHand
<1>2. BridgeInv /\ SpeedInv /\ [VBNext]_vbVars => SpeedInv'
  BY SpeedInvStep
<1>3. SpeedInv => SpeedPlausible
  BY DEF SpeedInv
<1>. QED  BY <1>1, <1>2, <1>3, BridgeInvariant, PTL DEF VBSpec
=============================================================================
