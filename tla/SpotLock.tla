------------------------------ MODULE SpotLock ------------------------------
(***************************************************************************)
(* The spot-lock / goto regulator (components/control_loop/src/spot_lock.c)*)
(* as a pure function of one cycle: which source owns the target, whether  *)
(* the session is engaged, and the thrust and steering it commands.        *)
(*                                                                         *)
(* Geometry is reduced to what the drive laws tell apart: the boat and its *)
(* targets are points, in whole metres, of a north-south line, and the bow *)
(* heads to a quarter of the compass.  Headings and errors are in degrees  *)
(* * 10 as in the code; on quarter turns the cosine taper is exactly 1 or  *)
(* the floor.  Gains, caps, rounding and saturation are the code's.        *)
(***************************************************************************)
EXTENDS SignalChain

Sources == {"NONE", "HOLD", "GOTO"}
SubStates == {"OFF", "ACTIVE", "PAUSED"}
Headings == {0, 900, 1800, 2700}

SplitDeg10 == 900            \* SPOT_LOCK_REVERSE_SPLIT_DEG10
ConeDeg10 == 300             \* SPOT_LOCK_GOTO_ALIGN_CONE_DEG10
AlignFloorPct == 20          \* SPOT_LOCK_ALIGN_FLOOR
TurnCreepPct == 15           \* SPOT_LOCK_GOTO_TURN_CREEP

\* spot_lock_state; ref is the position of the target.
SpotLockType(MaxFrames) ==
  [substate : SubStates, source : Sources, ref : Int, override_frames : 0..MaxFrames]

-----------------------------------------------------------------------------
(* The drive laws.                                                         *)

\* Signed bow-to-target error in [-1800, 1800].
HeadingErrorDeg10(bearing, heading) ==
  LET diff == (bearing - heading) % 3600 IN IF diff > 1800 THEN diff - 3600 ELSE diff

ServoCommand(err, p) ==
  LET scaled == p.spot_lock_servo_gain * Magnitude(err)
  IN  Clamp(Sign(err) * ((scaled + 5) \div 10), -FullScale, FullScale)

\* Faulty: the cap is missing.
ThrottleCommandUncapped(dist, p) == p.spot_lock_throttle_gain * dist

ThrottleCommand(dist, p) ==
  Clamp(p.spot_lock_throttle_gain * dist, 0, PercentOfFull(p.spot_lock_max_throttle_pct))

\* Full cruise beyond the slowdown distance, linear down to the deadband edge.
GotoThrottleCommand(dist, p) ==
  LET cruise == PercentOfFull(p.max_throttle_fwd_pct)
      span == p.goto_slowdown_distance_m - p.spot_lock_deadband_m
  IN  IF dist >= p.goto_slowdown_distance_m \/ span <= 0 THEN cruise
      ELSE Clamp((2 * cruise * (dist - p.spot_lock_deadband_m) + span) \div (2 * span), 0, cruise)

\* magnitude * pct%, rounded to nearest.
Scaled(magnitude, pct) == (magnitude * pct + 50) \div 100

\* HOLD drives forward or astern, whichever swings the hull less.
HoldDrive(err, dist, p) ==
  LET astern == err > SplitDeg10 \/ err < -SplitDeg10
      steer == IF err > SplitDeg10 THEN err - 1800
               ELSE IF err < -SplitDeg10 THEN err + 1800 ELSE err
      thrust == Scaled(ThrottleCommand(dist, p), IF steer = 0 THEN 100 ELSE AlignFloorPct)
  IN  [throttle |-> IF astern THEN -thrust ELSE thrust, servo |-> ServoCommand(steer, p)]

\* GOTO turns the bow to the target first and only ever drives forward.
GotoDrive(err, dist, p) ==
  LET pct == IF Magnitude(err) >= ConeDeg10 THEN TurnCreepPct ELSE 100
  IN  [throttle |-> Scaled(GotoThrottleCommand(dist, p), pct), servo |-> ServoCommand(err, p)]

Idle == [throttle |-> 0, servo |-> 0]

\* The drive of an ACTIVE session: relax inside the deadband, else steer and
\* thrust by the law of the source that owns the target.
ActiveDrive(in, p, source, ref) ==
  LET dist == Magnitude(ref - in.pos)
      err  == HeadingErrorDeg10(IF ref >= in.pos THEN 0 ELSE 1800, in.heading)
  IN  IF dist <= p.spot_lock_deadband_m THEN Idle
      ELSE IF source = "GOTO" THEN GotoDrive(err, dist, p) ELSE HoldDrive(err, dist, p)

-----------------------------------------------------------------------------
(* The decision.  A result is [st, drive, manual_override], st the new     *)
(* spot_lock_state; the reported sub-state is st.substate.                 *)

MakeOff(st, manual_override) ==
  [st |-> [st EXCEPT !.substate = "OFF", !.source = "NONE", !.override_frames = 0],
   drive |-> Idle, manual_override |-> manual_override]

\* Consecutive cycles of full throttle deflection, this one included.
OverrideFrames(in, st) == IF in.full_deflect THEN st.override_frames + 1 ELSE 0

\* An engaged session pauses on sensor loss only, keeping its target.
HoldOrPause(in, p, st) ==
  IF in.gps_fresh /\ in.imu_ok /\ in.gps_fix
    THEN [st |-> [st EXCEPT !.substate = "ACTIVE"],
          drive |-> ActiveDrive(in, p, st.source, st.ref), manual_override |-> FALSE]
    ELSE [st |-> [st EXCEPT !.substate = "PAUSED"],
          drive |-> Idle, manual_override |-> FALSE]

\* Faulty: an edge moves the anchor of a running hold.
RunCh3HoldReanchors(in, p, st) ==
  IF in.ch3_edge /\ in.sticks_neutral /\ in.gps_fresh /\ in.gps_fix
    THEN HoldOrPause(in, p, [st EXCEPT !.source = "HOLD", !.ref = in.pos])
  ELSE IF st.source = "HOLD" THEN HoldOrPause(in, p, st)
  ELSE MakeOff(st, FALSE)

\* Faulty: the sticks are not checked on entry.
RunCh3HoldAnyStick(in, p, st) ==
  IF st.source = "HOLD" THEN HoldOrPause(in, p, st)
  ELSE IF in.ch3_edge /\ in.gps_fresh /\ in.gps_fix
    THEN HoldOrPause(in, p, [st EXCEPT !.source = "HOLD", !.ref = in.pos])
  ELSE MakeOff(st, FALSE)

\* Faulty: any stick off neutral drops a running hold.
RunCh3HoldDropsOnStick(in, p, st) ==
  IF st.source = "HOLD" /\ in.sticks_neutral THEN HoldOrPause(in, p, st)
  ELSE IF in.ch3_edge /\ in.sticks_neutral /\ in.gps_fresh /\ in.gps_fix
    THEN HoldOrPause(in, p, [st EXCEPT !.source = "HOLD", !.ref = in.pos])
  ELSE MakeOff(st, FALSE)

\* A hold is entered on a CH3 edge with neutral sticks and a fresh fix, at the
\* boat's own position; a CH3 still held keeps its anchor.
RunCh3Hold(in, p, st) ==
  IF st.source = "HOLD" THEN HoldOrPause(in, p, st)
  ELSE IF in.ch3_edge /\ in.sticks_neutral /\ in.gps_fresh /\ in.gps_fix
    THEN HoldOrPause(in, p, [st EXCEPT !.source = "HOLD", !.ref = in.pos])
  ELSE MakeOff(st, FALSE)

\* Faulty: the target is latched on entry only.
RunGotoLatchesOnce(in, p, st) ==
  LET entering == st.source # "GOTO"
  IN  IF entering /\ ~in.sticks_neutral THEN MakeOff(st, FALSE)
      ELSE HoldOrPause(in, p,
             [st EXCEPT !.source = "GOTO", !.ref = IF entering THEN in.goto_target ELSE @])

\* An app target is latched on entry and re-latched while the link is fresh.
RunGoto(in, p, st) ==
  LET entering == st.source # "GOTO"
  IN  IF entering /\ ~in.sticks_neutral THEN MakeOff(st, FALSE)
      ELSE HoldOrPause(in, p,
             [st EXCEPT !.source = "GOTO",
                        !.ref = IF entering \/ in.comms_fresh THEN in.goto_target ELSE @])

\* One cycle: disarmed wins, then manual abort, then CH3, then goto, then off.
SpotLockStep(in, p, st, HoldFrames) ==
  LET frames == OverrideFrames(in, st)
      counted == [st EXCEPT !.override_frames = frames]
  IN  IF ~in.armed THEN MakeOff(st, FALSE)
      ELSE IF in.full_deflect /\ frames >= HoldFrames THEN MakeOff(st, TRUE)
      ELSE IF in.ch3_on THEN RunCh3Hold(in, p, counted)
      ELSE IF in.goto_engage THEN RunGoto(in, p, counted)
      ELSE MakeOff(counted, FALSE)
=============================================================================
