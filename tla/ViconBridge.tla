----------------------------- MODULE ViconBridge -----------------------------
(***************************************************************************)
(* viconmavlink.py: the loop that pulls a frame from the Vicon stream, takes *)
(* the first one that sees the vehicle as origin and the next one as         *)
(* reference of attitude, and sends odometry to the autopilot.  The vehicle  *)
(* flies on, and segments get occluded, while the loop works and sleeps.     *)
(*                                                                         *)
(* A quaternion is <<x, y, z, w>>, as Vicon gives it, with integer           *)
(* components and any length but zero: q and 2q are the same attitude.        *)
(* Lengths are steps of a grid, times are ticks; the vehicle moves at most   *)
(* one step per tick along each axis.                                        *)
(***************************************************************************)
EXTENDS Integers

CONSTANTS
    Places,         \* where the vehicle can be, in Vicon's axes
    Attitudes,      \* the attitudes it can have
    MaxTime,        \* bound of the model: ticks
    MaxOffset,      \* bound of the model: how far the host's clock is set
    MaxDelay        \* ticks the loop may take from the frame to the time stamp

ASSUME ViconAssumption ==
    /\ Places \subseteq Int \X Int \X Int
    /\ Attitudes \subseteq Int \X Int \X Int \X Int
    /\ <<0, 0, 0, 0>> \notin Attitudes
    /\ {MaxTime, MaxOffset, MaxDelay} \subseteq Nat

VARIABLES
    place, time, offset,    \* the vehicle, time, and how far the clock is off
    pc, ticks,              \* the loop, and the ticks since its last step
    frame,                  \* what the frame in hand says of the segment, or None
    initial_pos,            \* None until origin_set
    initial_quat_inv,
    prev_pos, prev_time,
    odom,                   \* the odometry sent last, and what it came from
    last,                   \* of the odometry before: its source
    home, level             \* history: where the vehicle was seen first, and with
                            \* which attitude in the first frame that can be sent

vbVars == <<place, time, offset, pc, ticks, frame, initial_pos, initial_quat_inv,
            prev_pos, prev_time, odom, last, home, level>>
world == <<place, time, offset>>

None == <<>>
Origin == <<0, 0, 0>>
Minus(p, q) == <<p[1] - q[1], p[2] - q[2], p[3] - q[3]>>

\* Forward, left, up to forward, right, down.
FluToFrd(p) == <<p[1], -p[2], -p[3]>>

QuatConjugate(q) == <<-q[1], -q[2], -q[3], q[4]>>
QuatFormChange(q) == <<q[4], q[1], q[2], q[3]>>
QuatMult(a, b) ==
    << a[4] * b[1] - a[3] * b[2] + a[2] * b[3] + a[1] * b[4],
       a[3] * b[1] + a[4] * b[2] - a[1] * b[3] + a[2] * b[4],
       a[1] * b[2] - a[2] * b[1] + a[4] * b[3] + a[3] * b[4],
       a[4] * b[4] - a[1] * b[1] - a[2] * b[2] - a[3] * b[3] >>
FlipQuaternionFluToFrd(q) == <<q[4], -q[3], q[2], -q[1]>>

VBInit ==
    /\ place \in Places /\ time = 0 /\ offset = 0
    /\ pc = "connect" /\ ticks = 0 /\ frame = None
    /\ initial_pos = None /\ initial_quat_inv = None
    /\ prev_pos = None /\ prev_time = 0
    /\ odom = None /\ last = None
    /\ home = None /\ level = None

-----------------------------------------------------------------------------
(* Around the loop.                                                         *)

\* A tick passes and the vehicle moves; only so many do in the middle of a turn.
Fly ==
    /\ time < MaxTime
    /\ pc = "frame" => ticks < MaxDelay
    /\ time' = time + 1
    /\ place' \in {p \in Places : \A i \in 1 .. 3 : p[i] - place[i] \in -1 .. 1}
    /\ ticks' = IF pc = "frame" THEN ticks + 1 ELSE 1
    /\ UNCHANGED <<offset, pc, frame, initial_pos, initial_quat_inv, prev_pos, prev_time,
                   odom, last, home, level>>

\* time.time() is the wall clock, which the host sets.
SetClock ==
    /\ offset' \in 0 .. MaxOffset \ {offset}
    /\ UNCHANGED <<place, time, pc, ticks, frame, initial_pos, initial_quat_inv, prev_pos,
                   prev_time, odom, last, home, level>>

-----------------------------------------------------------------------------
(* The loop.                                                                *)

Connect ==
    /\ pc = "connect"
    /\ pc' = "pull"
    /\ UNCHANGED <<world, ticks, frame, initial_pos, initial_quat_inv, prev_pos, prev_time,
                   odom, last, home, level>>

\* What a frame says of the segment, in two answers with a flag each.  Where it does
\* not see it Vicon reports zeroes for the position, and a quaternion that says nothing.
FrameOf(q, occ_pos, occ_quat) ==
    [pos |-> IF occ_pos THEN Origin ELSE place,
     quat |-> IF occ_quat THEN <<1, 0, 0, 0>> ELSE q,
     occ_pos |-> occ_pos, occ_quat |-> occ_quat]

\* GetFrame and the two questions about it.  While there is no new frame the
\* inner loop asks again.
GetFrame ==
    /\ pc = "pull"
    /\ frame' \in {FrameOf(q, op, oq) : q \in Attitudes, op \in BOOLEAN, oq \in BOOLEAN}
    /\ home' = IF home = None /\ ~frame'.occ_pos THEN place ELSE home
    /\ level' = IF level = None /\ ~frame'.occ_quat /\ (home # None \/ frame'.occ_pos)
                THEN frame'.quat ELSE level
    /\ pc' = "frame" /\ ticks' = 0
    /\ UNCHANGED <<world, initial_pos, initial_quat_inv, prev_pos, prev_time, odom, last>>

\* (Variant: an occluded frame gives the origin too.)
SetOriginWherever ==
    /\ pc = "frame" /\ initial_pos = None
    /\ initial_pos' = frame.pos
    /\ pc' = "pull" /\ frame' = None
    /\ UNCHANGED <<world, ticks, initial_quat_inv, prev_pos, prev_time, odom, last, home, level>>

\* The frame that gives the origin is not sent.
SetOrigin ==
    /\ pc = "frame" /\ initial_pos = None /\ ~frame.occ_pos
    /\ initial_pos' = frame.pos
    /\ pc' = "pull" /\ frame' = None
    /\ UNCHANGED <<world, ticks, initial_quat_inv, prev_pos, prev_time, odom, last, home, level>>

Position ==
    IF initial_pos = None THEN Origin ELSE FluToFrd(Minus(frame.pos, initial_pos))

\* (Variant: an occluded frame gives the reference too.)
ReferenceFromAnyFrame ==
    IF initial_quat_inv = None
    THEN QuatConjugate(FlipQuaternionFluToFrd(frame.quat)) ELSE initial_quat_inv

\* The inverse of the first orientation that is seen.
Reference ==
    IF initial_quat_inv = None /\ ~frame.occ_quat
    THEN QuatConjugate(FlipQuaternionFluToFrd(frame.quat)) ELSE initial_quat_inv

RelQuat(reference) ==
    IF reference # None THEN QuatMult(reference, FlipQuaternionFluToFrd(frame.quat))
    ELSE frame.quat

\* (Variant: the previous position is the first one for good.)
VelocityFromFirst(pos, now) ==
    IF prev_pos # None /\ now > prev_time
    THEN [moved |-> pos, dt |-> now - prev_time]
    ELSE [moved |-> Origin, dt |-> 1]

\* A velocity is moved / dt; it is zero for the first pose and when the clock
\* has not advanced.
Velocity(pos, now) ==
    IF prev_pos # None /\ now > prev_time
    THEN [moved |-> Minus(pos, prev_pos), dt |-> now - prev_time]
    ELSE [moved |-> Origin, dt |-> 1]

\* From the reference of attitude to mav_out.mav.send: the last three fields of
\* the record are not in the message, they say what it was made from.
SendOdometry ==
    LET now == time + offset
        pos == Position
    IN  /\ pc = "frame" /\ ~(initial_pos = None /\ ~frame.occ_pos)
        /\ initial_quat_inv' = Reference
        /\ prev_pos' = pos /\ prev_time' = now
        /\ odom' = [pos |-> pos, vel |-> Velocity(pos, now),
                    quat |-> QuatFormChange(RelQuat(Reference)),
                    frame |-> frame, offset |-> offset,
                    sound |-> ~frame.occ_pos \/ initial_pos = None]
        /\ last' = IF odom = None THEN None ELSE [offset |-> odom.offset, sound |-> odom.sound]
        /\ pc' = "sleep" /\ ticks' = 0 /\ frame' = None
        /\ UNCHANGED <<world, initial_pos, home, level>>

WakeUp ==
    /\ pc = "sleep" /\ ticks > 0
    /\ pc' = "pull"
    /\ UNCHANGED <<world, ticks, frame, initial_pos, initial_quat_inv, prev_pos, prev_time,
                   odom, last, home, level>>

\* An exception of the stream other than NoFrame ends the script, and with it
\* the heartbeat; so does Ctrl-C.
End ==
    /\ pc # "ended"
    /\ pc' = "ended"
    /\ UNCHANGED <<world, ticks, frame, initial_pos, initial_quat_inv, prev_pos, prev_time,
                   odom, last, home, level>>

VBNext ==
    \/ Fly \/ SetClock
    \/ Connect \/ GetFrame \/ SetOrigin \/ SendOdometry \/ WakeUp \/ End

VBSpec == VBInit /\ [][VBNext]_vbVars

-----------------------------------------------------------------------------
(* Properties.                                                              *)

Vector == Int \X Int \X Int
Quaternion == Int \X Int \X Int \X Int

\* Every variable keeps its type; the loop has a frame in hand whenever it works
\* on one, and has a previous pose once it has sent one.
BridgeTypeOK ==
    /\ place \in Places /\ time \in 0 .. MaxTime /\ offset \in 0 .. MaxOffset
    /\ pc \in {"connect", "pull", "frame", "sleep", "ended"} /\ ticks \in 0 .. MaxDelay + 1
    /\ initial_pos \in Places \union {None}
    /\ initial_quat_inv = None \/ initial_quat_inv \in Quaternion
    /\ prev_pos = None <=> odom = None
    /\ odom # None =>
          /\ odom.pos = prev_pos /\ odom.pos \in Vector
          /\ odom.vel.dt > 0 /\ odom.quat \in Quaternion
    /\ pc = "frame" => frame # None /\ frame.quat \in Quaternion

\* The position of a pose that was seen is the way from where the vehicle was
\* seen first, whatever was occluded before and since.
MeasuredFromOrigin ==
    odom # None =>
        (~odom.frame.occ_pos => odom.pos = FluToFrd(Minus(odom.frame.pos, home)))

\* No velocity is sent that the vehicle could not have flown, but for the delay
\* of the time stamp: as long as the clock is not set between two poses, and
\* neither is an occluded one sent as if it were measured.
SpeedPlausible ==
    odom # None =>
        (odom.sound /\ (last # None => last.sound /\ last.offset = odom.offset) =>
            \A i \in 1 .. 3 :
                LET limit == odom.vel.dt + MaxDelay
                IN  odom.vel.moved[i] \in -limit .. limit)

\* Rot(q, v) is v turned by q, times the square of q's length.
Rot(q, v) ==
    LET r == QuatMult(QuatMult(q, <<v[1], v[2], v[3], 0>>), QuatConjugate(q))
    IN  <<r[1], r[2], r[3]>>
Square(q) == q[1] * q[1] + q[2] * q[2] + q[3] * q[3] + q[4] * q[4]
Scaled(n, v) == <<n * v[1], n * v[2], n * v[3]>>
Axes == {<<1, 0, 0>>, <<0, 1, 0>>, <<0, 0, 1>>}

\* The attitude the autopilot reads, its components as Vicon orders them.
SentQuat == <<odom.quat[2], odom.quat[3], odom.quat[4], odom.quat[1]>>

\* The attitude of a pose that was seen is the turn, about the vehicle's axes at
\* that time, from the first attitude seen, but for the frame that gives the origin.
AttitudeFromReference ==
    odom # None =>
        (~odom.frame.occ_quat =>
            \A v \in Axes :
                Scaled(Square(odom.frame.quat), Rot(QuatMult(level, SentQuat), v))
                  = Scaled(Square(level) * Square(SentQuat), Rot(odom.frame.quat, v)))

\* "FLU-to-FRD mapping" (line 37) and "Compute position in meters, FRD frame"
\* (109): a vehicle whose reference is along Vicon's axes moves, in the positions
\* sent, into the direction in which the attitudes sent point it.
AttitudeInFrameOfPosition ==
    odom # None =>
        (~odom.frame.occ_quat /\ level = <<0, 0, 0, 1>> =>
            \A v \in Axes :
                Scaled(Square(SentQuat), FluToFrd(Rot(odom.frame.quat, v)))
                  = Scaled(Square(odom.frame.quat), Rot(SentQuat, FluToFrd(v))))
=============================================================================
