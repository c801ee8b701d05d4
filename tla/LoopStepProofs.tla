--------------------------- MODULE LoopStepProofs ---------------------------
(***************************************************************************)
(* Facts about one step of what the control cycle is made of, for every    *)
(* input: the control state machine and the calibration sequence, then the *)
(* spot-lock regulator, its drive laws first and then one decision.        *)
(***************************************************************************)
EXTENDS LoopStep, SignalChainProofs

(* The state machine and the calibration.                                  *)

\* The next state is a control state, and it is FAILSAFE exactly on a lost link,
\* whatever the current state and the requests.
LEMMA NextStateFailsafe ==
  ASSUME NEW current \in SmStates, NEW si
  PROVE  /\ NextState(current, si) \in SmStates
         /\ NextState(current, si) = "FAILSAFE" <=> ~si.rc_valid
  BY DEF NextState, SmStates, NextFromDisarmed, NextFromDeploy, NextFromArmed,
         NextFromFailsafe, NextFromCalibration

\* ARMED is reached only from DISARMED or ARMED, and from DISARMED only with a
\* neutral throttle.
LEMMA NextStateArmed ==
  ASSUME NEW current \in SmStates, NEW si, NextState(current, si) = "ARMED"
  PROVE  /\ current \in {"DISARMED", "ARMED"}
         /\ current = "DISARMED" => si.throttle_neutral
  BY DEF NextState, SmStates, NextFromDisarmed, NextFromDeploy, NextFromArmed,
         NextFromFailsafe, NextFromCalibration, CanArm, ArmBlockReason

\* ESC_CALIBRATION is reached only with a live link, from DISARMED or from itself.
LEMMA NextStateCalibration ==
  ASSUME NEW current \in SmStates, NEW si, NextState(current, si) = "ESC_CALIBRATION"
  PROVE  si.rc_valid /\ current \in {"DISARMED", "ESC_CALIBRATION"}
  BY DEF NextState, SmStates, NextFromDisarmed, NextFromDeploy, NextFromArmed,
         NextFromFailsafe, NextFromCalibration, CanEnterCalibration

\* From DEPLOY a cycle goes nowhere but to DEPLOY, DISARMED or FAILSAFE.
LEMMA NextStateDeploy ==
  ASSUME NEW current \in SmStates, NEW si, NextState(current, si) = "DEPLOY"
  PROVE  current \in {"DISARMED", "DEPLOY"}
  BY DEF NextState, SmStates, NextFromDisarmed, NextFromDeploy, NextFromArmed,
         NextFromFailsafe, NextFromCalibration

\* What a step of the calibration yields: with a live link it never asks for
\* FAILSAFE, and its pulse is one of the three constants.
LEMMA CalibStepNextFacts ==
  ASSUME NEW step \in CalibSteps, NEW event \in CalibEvents, NEW rc_valid \in BOOLEAN,
         NEW timeout \in BOOLEAN
  PROVE  LET r == CalibStepNext(step, event, rc_valid, timeout)
         IN  /\ r.step \in CalibSteps /\ r.exit \in CalibExits
             /\ r.esc_us \in {1000, 1500, 2000}
             /\ rc_valid => r.exit # "TO_FAILSAFE"
             /\ r.exit = "NONE" => rc_valid /\ r.step # "DONE" /\ r.esc_us = CalibUsForStep(r.step)
             /\ r.exit # "NONE" => r.esc_us = CalibNeutralUs
             /\ r.exit = "NONE" => r.step \in {step, StepAfter(step)}
             /\ r.exit = "NONE" /\ event # "NEXT" => r.step = step
  BY DEF CalibStepNext, CalibExit, CalibAdvance, StepAfter, CalibUsForStep, CalibNeutralUs,
         CalibSteps, CalibExits, CalibEvents

\* The entry frame of a calibration starts it at its neutral pulse, or gives it up.
LEMMA CalibEntry ==
  ASSUME NEW rc_valid \in BOOLEAN
  PROVE  LET r == CalibStepNext("NEUTRAL", "NONE", rc_valid, FALSE)
         IN  /\ rc_valid => r.step = "NEUTRAL" /\ r.esc_us = CalibNeutralUs /\ r.exit = "NONE"
             /\ ~rc_valid => r.step = "DONE" /\ r.esc_us = CalibNeutralUs /\ r.exit = "TO_FAILSAFE"
  BY DEF CalibStepNext, CalibExit, CalibAdvance, CalibUsForStep

-----------------------------------------------------------------------------
(* The spot-lock regulator.                                                *)

\* A steering command is within the full scale.
LEMMA ServoCommandBounded ==
  ASSUME NEW p, ValidParams(p), NEW err \in Int
  PROVE  ServoCommand(err, p) \in -FullScale..FullScale
<1> DEFINE g == p.spot_lock_servo_gain
           scaled == g * Magnitude(err)
           x == Sign(err) * ((scaled + 5) \div 10)
<1>1. g \in 0..1000
  BY SpotLockParams
<1>2. Magnitude(err) \in Nat /\ Sign(err) \in {-1, 0, 1}
  BY DEF Magnitude, Sign
<1>3. ServoCommand(err, p) = Clamp(x, -FullScale, FullScale)
  BY Zenon DEF ServoCommand
<1> HIDE DEF g
<1>4. scaled \in Int
  BY <1>1, <1>2
<1> HIDE DEF scaled
<1>5. (scaled + 5) \div 10 \in Int
  BY <1>4
<1>6. x \in Int
  BY <1>2, <1>5
<1> HIDE DEF x
<1>7. -FullScale \in Int /\ FullScale \in Int /\ -FullScale <= FullScale
  BY DEF FullScale
<1> QED
  BY <1>3, <1>6, <1>7, ClampInWindow

\* The thrust of a hold is at most its configured share of the full scale.
LEMMA ThrottleCommandBounded ==
  ASSUME NEW p, ValidParams(p), NEW dist \in Nat
  PROVE  ThrottleCommand(dist, p) \in 0..PercentOfFull(p.spot_lock_max_throttle_pct)
<1> DEFINE g == p.spot_lock_throttle_gain
           cap == PercentOfFull(p.spot_lock_max_throttle_pct)
<1>1. g \in 0..1000
  BY SpotLockParams
<1>2. cap \in 0..FullScale
  <2>1. p.spot_lock_max_throttle_pct \in 0..100
    BY SpotLockParams
  <2> QED
    BY <2>1, PercentInFull
<1>3. ThrottleCommand(dist, p) = Clamp(g * dist, 0, cap)
  BY Zenon DEF ThrottleCommand
<1> HIDE DEF g, cap
<1>4. g * dist \in Int
  BY <1>1
<1>5. 0 \in Int /\ cap \in Int /\ 0 <= cap
  BY <1>2 DEF FullScale
<1>6. Clamp(g * dist, 0, cap) \in 0..cap
  BY <1>4, <1>5, ClampInWindow
<1> QED
  BY <1>3, <1>6 DEF cap

\* The thrust of a goto is at most the forward power limit.
LEMMA GotoThrottleBounded ==
  ASSUME NEW p, ValidParams(p), NEW dist \in Nat
  PROVE  GotoThrottleCommand(dist, p) \in 0..PercentOfFull(p.max_throttle_fwd_pct)
<1> DEFINE cap == PercentOfFull(p.max_throttle_fwd_pct)
           db == p.spot_lock_deadband_m
           span == p.goto_slowdown_distance_m - db
           x == (2 * cap * (dist - db) + span) \div (2 * span)
<1>1. cap \in 0..FullScale
  <2>1. p.max_throttle_fwd_pct \in 0..100
    BY ThrottleParams
  <2> QED
    BY <2>1, PercentInFull
<1>2. db \in Int /\ span \in Int
  <2>1. db \in 0..100 /\ p.goto_slowdown_distance_m \in 3..200
    BY SpotLockParams
  <2> DEFINE slow == p.goto_slowdown_distance_m
  <2>2. span = slow - db
    OBVIOUS
  <2> HIDE DEF db, slow, span
  <2> QED
    BY <2>1, <2>2 DEF slow
<1>3. GotoThrottleCommand(dist, p)
        = IF dist >= p.goto_slowdown_distance_m \/ span <= 0 THEN cap ELSE Clamp(x, 0, cap)
  BY Zenon DEF GotoThrottleCommand
<1> HIDE DEF db, span, cap
<1>4. 0 \in Int /\ cap \in Int /\ 0 <= cap /\ cap \in 0..cap
  BY <1>1 DEF FullScale
<1>5. ~(span <= 0) => Clamp(x, 0, cap) \in 0..cap
  <2>1. HAVE ~(span <= 0)
  <2>2. 2 * cap * (dist - db) \in Int
    BY <1>2, <1>4
  <2>3. x \in Int
    <3> DEFINE a == 2 * cap * (dist - db)
    <3> HIDE DEF a
    <3>1. (a + span) \div (2 * span) \in Int
      BY <1>2, <2>1, <2>2 DEF a
    <3> QED
      BY <3>1 DEF a
  <2> HIDE DEF x
  <2> QED
    BY <1>4, <2>3, ClampInWindow
<1> HIDE DEF x
<1> QED
  BY <1>3, <1>4, <1>5, Zenon DEF cap

\* Taking a percentage of a magnitude never exceeds it.
LEMMA ScaledBounded ==
  ASSUME NEW magnitude \in Nat, NEW pct \in {100, AlignFloorPct, TurnCreepPct}
  PROVE  Scaled(magnitude, pct) \in 0..magnitude
  BY DEF Scaled, AlignFloorPct, TurnCreepPct

\* A bow-to-target error is an integer.
LEMMA HeadingErrorIsInt ==
  ASSUME NEW bearing \in {0, 1800}, NEW heading \in Headings
  PROVE  HeadingErrorDeg10(bearing, heading) \in Int
  BY DEF HeadingErrorDeg10, Headings

\* What may be said of the drive of a session owned by source.
DriveBounded(d, source, p) ==
  /\ d.throttle \in -SessionCap(source, p)..SessionCap(source, p)
  /\ d.throttle \in -FullScale..FullScale
  /\ d.servo \in -FullScale..FullScale
  /\ source = "GOTO" => d.throttle >= 0

\* A cap is a share of the full scale.
LEMMA SessionCapInFull ==
  ASSUME NEW p, ValidParams(p), NEW source
  PROVE  SessionCap(source, p) \in 0..FullScale
<1>1. p.spot_lock_max_throttle_pct \in 0..100 /\ p.max_throttle_fwd_pct \in 0..100
  BY SpotLockParams, ThrottleParams
<1>2. /\ PercentOfFull(p.spot_lock_max_throttle_pct) \in 0..FullScale
      /\ PercentOfFull(p.max_throttle_fwd_pct) \in 0..FullScale
  BY <1>1, PercentInFull
<1> QED
  BY <1>2, Zenon DEF SessionCap

\* A thrust within the cap is within the full scale.
LEMMA CapInFull ==
  ASSUME NEW cap \in 0..FullScale, NEW x \in -cap..cap
  PROVE  x \in -FullScale..FullScale
  BY DEF FullScale

\* No drive at all is within every cap.
LEMMA IdleBounded ==
  ASSUME NEW p, ValidParams(p), NEW source
  PROVE  DriveBounded(Idle, source, p)
<1> DEFINE cap == SessionCap(source, p)
<1>1. cap \in 0..FullScale
  BY SessionCapInFull
<1>2. Idle.throttle = 0 /\ Idle.servo = 0
  BY DEF Idle
<1> HIDE DEF cap
<1>3. 0 \in -cap..cap /\ 0 \in -FullScale..FullScale /\ 0 >= 0
  BY <1>1 DEF FullScale
<1> QED
  BY <1>2, <1>3, Zenon DEF DriveBounded, cap

\* The drive of a hold: a thrust within the hold's cap, either way.
LEMMA HoldDriveBounded ==
  ASSUME NEW p, ValidParams(p), NEW err \in Int, NEW dist \in Nat
  PROVE  DriveBounded(HoldDrive(err, dist, p), "HOLD", p)
<1> DEFINE d == HoldDrive(err, dist, p)
           cap == PercentOfFull(p.spot_lock_max_throttle_pct)
           t == ThrottleCommand(dist, p)
           astern == err > SplitDeg10 \/ err < -SplitDeg10
           steer == IF err > SplitDeg10 THEN err - 1800
                    ELSE IF err < -SplitDeg10 THEN err + 1800 ELSE err
           pct == IF steer = 0 THEN 100 ELSE AlignFloorPct
           thrust == Scaled(t, pct)
<1>0. cap \in 0..FullScale
  <2>1. p.spot_lock_max_throttle_pct \in 0..100
    BY SpotLockParams
  <2> QED
    BY <2>1, PercentInFull
<1>1. cap \in Nat
  <2> HIDE DEF cap
  <2> QED
    BY <1>0 DEF FullScale
<1>2. t \in 0..cap
  BY ThrottleCommandBounded
<1>3. steer \in Int
  BY DEF SplitDeg10
<1>4. d = [throttle |-> IF astern THEN -thrust ELSE thrust, servo |-> ServoCommand(steer, p)]
  BY DEF HoldDrive
<1> HIDE DEF cap, t, steer, astern
<1>5. pct \in {100, AlignFloorPct, TurnCreepPct}
  OBVIOUS
<1> HIDE DEF pct
<1>6. thrust \in 0..cap
  <2>1. t \in Nat
    BY <1>1, <1>2
  <2>2. thrust \in 0..t
    BY <1>5, <2>1, ScaledBounded
  <2> HIDE DEF thrust
  <2> QED
    BY <1>1, <1>2, <2>2
<1>7. ServoCommand(steer, p) \in -FullScale..FullScale
  BY <1>3, ServoCommandBounded
<1> HIDE DEF thrust, d
<1>8. -thrust \in -cap..cap /\ thrust \in -cap..cap
  BY <1>1, <1>6
<1>9. d.throttle = (IF astern THEN -thrust ELSE thrust) /\ d.servo = ServoCommand(steer, p)
  BY <1>4
<1> QED
  <2>1. d.throttle \in -cap..cap /\ d.servo \in -FullScale..FullScale
    BY <1>7, <1>8, <1>9
  <2>2. d.throttle \in -FullScale..FullScale
    BY <1>0, <2>1, CapInFull
  <2>3. SessionCap("HOLD", p) = cap
    BY Zenon DEF SessionCap, cap
  <2>4. DriveBounded(d, "HOLD", p)
    BY <2>1, <2>2, <2>3, Zenon DEF DriveBounded
  <2> QED
    BY <2>4, Zenon DEF d

\* The drive of a goto: a thrust ahead, within the forward power limit.
LEMMA GotoDriveBounded ==
  ASSUME NEW p, ValidParams(p), NEW err \in Int, NEW dist \in Nat
  PROVE  DriveBounded(GotoDrive(err, dist, p), "GOTO", p)
<1> DEFINE d == GotoDrive(err, dist, p)
           cap == PercentOfFull(p.max_throttle_fwd_pct)
           t == GotoThrottleCommand(dist, p)
           pct == IF Magnitude(err) >= ConeDeg10 THEN TurnCreepPct ELSE 100
           thrust == Scaled(t, pct)
<1>0. cap \in 0..FullScale
  <2>1. p.max_throttle_fwd_pct \in 0..100
    BY ThrottleParams
  <2> QED
    BY <2>1, PercentInFull
<1>1. cap \in Nat
  <2> HIDE DEF cap
  <2> QED
    BY <1>0 DEF FullScale
<1>2. t \in 0..cap
  BY GotoThrottleBounded
<1>3. d = [throttle |-> thrust, servo |-> ServoCommand(err, p)]
  BY DEF GotoDrive
<1> HIDE DEF cap, t
<1>4. pct \in {100, AlignFloorPct, TurnCreepPct}
  OBVIOUS
<1> HIDE DEF pct
<1>5. thrust \in 0..cap
  <2>1. t \in Nat
    BY <1>1, <1>2
  <2>2. thrust \in 0..t
    BY <1>4, <2>1, ScaledBounded
  <2> HIDE DEF thrust
  <2> QED
    BY <1>1, <1>2, <2>2
<1>6. ServoCommand(err, p) \in -FullScale..FullScale
  <2>1. err \in Int
    OBVIOUS
  <2> QED
    BY <2>1, ServoCommandBounded
<1> HIDE DEF thrust, d
<1>7. d.throttle = thrust /\ d.servo = ServoCommand(err, p)
  BY <1>3
<1> QED
  <2>1. d.throttle \in 0..cap /\ d.servo \in -FullScale..FullScale
    BY <1>5, <1>6, <1>7
  <2>2. d.throttle \in -cap..cap /\ d.throttle >= 0
    <3>1. d.throttle \in 0..cap => d.throttle \in -cap..cap /\ d.throttle >= 0
      BY ONLY <1>1
    <3> QED
      BY <2>1, <3>1
  <2>3. d.throttle \in -FullScale..FullScale
    BY <1>0, <2>2, CapInFull
  <2>4. SessionCap("GOTO", p) = cap
    BY Zenon DEF SessionCap, cap
  <2>5. DriveBounded(d, "GOTO", p)
    BY <2>1, <2>2, <2>3, <2>4, Zenon DEF DriveBounded
  <2> QED
    BY <2>5, Zenon DEF d

\* The drive of an engaged session is within its cap, and a goto drives ahead only.
LEMMA ActiveDriveBounded ==
  ASSUME NEW p, ValidParams(p), NEW in, in.pos \in Int, in.heading \in Headings,
         NEW source \in {"HOLD", "GOTO"}, NEW ref \in Int
  PROVE  DriveBounded(ActiveDrive(in, p, source, ref), source, p)
<1> DEFINE dist == Magnitude(ref - in.pos)
           bearing == IF ref >= in.pos THEN 0 ELSE 1800
           err == HeadingErrorDeg10(bearing, in.heading)
<1>1. dist \in Nat
  BY DEF Magnitude
<1>2. err \in Int
  BY HeadingErrorIsInt
<1>3. ActiveDrive(in, p, source, ref)
        = IF dist <= p.spot_lock_deadband_m THEN Idle
          ELSE IF source = "GOTO" THEN GotoDrive(err, dist, p) ELSE HoldDrive(err, dist, p)
  BY Zenon DEF ActiveDrive
<1> HIDE DEF dist, err
<1>4. DriveBounded(GotoDrive(err, dist, p), "GOTO", p)
  BY <1>1, <1>2, GotoDriveBounded
<1>5. DriveBounded(HoldDrive(err, dist, p), "HOLD", p)
  BY <1>1, <1>2, HoldDriveBounded
<1>6. DriveBounded(Idle, source, p)
  BY IdleBounded
<1> QED
  BY <1>3, <1>4, <1>5, <1>6, Zenon

\* On its target a session asks for nothing.
LEMMA OnTargetIdles ==
  ASSUME NEW p, ValidParams(p), NEW in, in.pos \in Int, NEW source, NEW ref, ref = in.pos
  PROVE  ActiveDrive(in, p, source, ref) = Idle
<1>1. p.spot_lock_deadband_m >= 0
  BY SpotLockParams
<1>2. Magnitude(ref - in.pos) <= p.spot_lock_deadband_m
  BY <1>1 DEF Magnitude
<1> QED
  BY <1>2 DEF ActiveDrive

-----------------------------------------------------------------------------
(* The decision.                                                           *)

\* What a decision r guarantees of the session it leaves, given the inputs and the
\* session st it found.
DecisionOK(r, in, p, st, n) ==
  /\ r.st \in SpotLockType(n)
  /\ r.st.substate # "OFF" => r.st.source # "NONE"
  /\ DriveBounded(r.drive, r.st.source, p)
  /\ r.st.substate = "PAUSED" => r.drive = Idle
  /\ st.source = "HOLD" /\ r.st.source = "HOLD" => r.st.ref = st.ref
  /\ st.source # "HOLD" /\ r.st.source = "HOLD"
       => /\ r.st.substate # "OFF" /\ in.ch3_edge /\ in.sticks_neutral
          /\ in.gps_fresh /\ in.gps_fix /\ r.drive = Idle

\* Switching off leaves a session of no source, which asks for nothing.
LEMMA MakeOffOK ==
  ASSUME NEW p, ValidParams(p), NEW in, NEW n \in Nat, NEW st, NEW frames, NEW manual_override,
         [st EXCEPT !.override_frames = 0] \in SpotLockType(n)
  PROVE  DecisionOK(MakeOff(st, manual_override), in, p, st, n)
<1> DEFINE r == MakeOff(st, manual_override)
<1>1. r.st = [st EXCEPT !.substate = "OFF", !.source = "NONE", !.override_frames = 0]
  BY DEF MakeOff
<1>2. r.drive = Idle
  BY DEF MakeOff
<1> HIDE DEF r
<1>3. r.st \in SpotLockType(n) /\ r.st.substate = "OFF" /\ r.st.source = "NONE"
  BY <1>1 DEF SpotLockType, SubStates, Sources
<1>4. DriveBounded(r.drive, r.st.source, p)
  BY <1>2, IdleBounded
<1> QED
  BY <1>3, <1>4 DEF DecisionOK, r

\* An engaged session keeps its source and its target; it drives or it pauses.
LEMMA HoldOrPauseFacts ==
  ASSUME NEW p, ValidParams(p), NEW in, in.pos \in Int, in.heading \in Headings, NEW n \in Nat,
         NEW st \in SpotLockType(n), st.source \in {"HOLD", "GOTO"}
  PROVE  LET r == HoldOrPause(in, p, st)
         IN  /\ r.st \in SpotLockType(n) /\ r.st.substate # "OFF"
             /\ r.st.source = st.source /\ r.st.ref = st.ref
             /\ DriveBounded(r.drive, r.st.source, p)
             /\ r.st.substate = "PAUSED" => r.drive = Idle
             /\ st.ref = in.pos => r.drive = Idle
<1> DEFINE r == HoldOrPause(in, p, st)
           source == st.source
           ref == st.ref
<1>1. source \in {"HOLD", "GOTO"} /\ ref \in Int
  BY DEF SpotLockType
<1>2. CASE in.gps_fresh /\ in.imu_ok /\ in.gps_fix
  <2>1. r.st = [st EXCEPT !.substate = "ACTIVE"] /\ r.drive = ActiveDrive(in, p, source, ref)
    BY <1>2 DEF HoldOrPause
  <2> HIDE DEF r
  <2>2. /\ r.st \in SpotLockType(n) /\ r.st.substate = "ACTIVE"
        /\ r.st.source = source /\ r.st.ref = ref
    BY <2>1 DEF SpotLockType, SubStates, Sources
  <2> HIDE DEF source, ref
  <2>3. DriveBounded(ActiveDrive(in, p, source, ref), source, p)
    BY <1>1, ActiveDriveBounded
  <2>4. DriveBounded(r.drive, r.st.source, p)
    BY <2>1, <2>2, <2>3
  <2>5. ref = in.pos => r.drive = Idle
    BY <1>1, <2>1, OnTargetIdles
  <2> QED
    BY <2>2, <2>4, <2>5 DEF r, source, ref
<1>3. CASE ~(in.gps_fresh /\ in.imu_ok /\ in.gps_fix)
  <2>1. r.st = [st EXCEPT !.substate = "PAUSED"] /\ r.drive = Idle
    BY <1>3 DEF HoldOrPause
  <2> HIDE DEF r
  <2>2. /\ r.st \in SpotLockType(n) /\ r.st.substate = "PAUSED"
        /\ r.st.source = source /\ r.st.ref = ref
    BY <2>1 DEF SpotLockType, SubStates, Sources
  <2>3. DriveBounded(r.drive, r.st.source, p)
    BY <2>1, IdleBounded
  <2> QED
    BY <2>1, <2>2, <2>3 DEF r, source, ref
<1> QED
  BY <1>2, <1>3

\* A CH3 hold that owns the target keeps its anchor; one that takes the target over
\* does so on an edge, with neutral sticks and a fresh fix.
LEMMA RunCh3HoldOK ==
  ASSUME NEW p, ValidParams(p), NEW in, in.pos \in Int, in.heading \in Headings, NEW n \in Nat,
         NEW st \in SpotLockType(n)
  PROVE  DecisionOK(RunCh3Hold(in, p, st), in, p, st, n)
<1> DEFINE r == RunCh3Hold(in, p, st)
           entry == in.ch3_edge /\ in.sticks_neutral /\ in.gps_fresh /\ in.gps_fix
           taken == [st EXCEPT !.source = "HOLD", !.ref = in.pos]
<1>1. CASE st.source = "HOLD"
  <2>1. r = HoldOrPause(in, p, st)
    BY <1>1 DEF RunCh3Hold
  <2>2. /\ r.st \in SpotLockType(n) /\ r.st.substate # "OFF"
        /\ r.st.source = st.source /\ r.st.ref = st.ref
        /\ DriveBounded(r.drive, r.st.source, p)
        /\ r.st.substate = "PAUSED" => r.drive = Idle
    BY <1>1, <2>1, HoldOrPauseFacts
  <2> HIDE DEF r
  <2> QED
    BY <1>1, <2>2 DEF DecisionOK, r
<1>2. CASE st.source # "HOLD" /\ entry
  <2>1. r = HoldOrPause(in, p, taken)
    BY <1>2 DEF RunCh3Hold
  <2>2. taken \in SpotLockType(n) /\ taken.source = "HOLD" /\ taken.ref = in.pos
    BY DEF SpotLockType, Sources
  <2> HIDE DEF taken
  <2>3. /\ r.st \in SpotLockType(n) /\ r.st.substate # "OFF"
        /\ r.st.source = taken.source
        /\ DriveBounded(r.drive, r.st.source, p)
        /\ r.st.substate = "PAUSED" => r.drive = Idle
        /\ r.drive = Idle
    BY <2>1, <2>2, HoldOrPauseFacts
  <2> HIDE DEF r
  <2> QED
    BY <1>2, <2>2, <2>3 DEF DecisionOK, r
<1>3. CASE st.source # "HOLD" /\ ~entry
  <2>1. r = MakeOff(st, FALSE)
    BY <1>3 DEF RunCh3Hold
  <2>2. [st EXCEPT !.override_frames = 0] \in SpotLockType(n)
    BY DEF SpotLockType
  <2> QED
    BY <2>1, <2>2, MakeOffOK
<1> QED
  BY <1>1, <1>2, <1>3

\* An app-commanded target is owned by the goto, and driven within the goto's cap.
LEMMA RunGotoOK ==
  ASSUME NEW p, ValidParams(p), NEW in, in.pos \in Int, in.goto_target \in Int,
         in.heading \in Headings, NEW n \in Nat, NEW st \in SpotLockType(n)
  PROVE  DecisionOK(RunGoto(in, p, st), in, p, st, n)
<1> DEFINE r == RunGoto(in, p, st)
           entering == st.source # "GOTO"
           taken == [st EXCEPT !.source = "GOTO",
                               !.ref = IF entering \/ in.comms_fresh THEN in.goto_target ELSE @]
<1>1. CASE entering /\ ~in.sticks_neutral
  <2>1. r = MakeOff(st, FALSE)
    BY <1>1 DEF RunGoto
  <2>2. [st EXCEPT !.override_frames = 0] \in SpotLockType(n)
    BY DEF SpotLockType
  <2> QED
    BY <2>1, <2>2, MakeOffOK
<1>2. CASE ~(entering /\ ~in.sticks_neutral)
  <2>1. r = HoldOrPause(in, p, taken)
    BY <1>2 DEF RunGoto
  <2>2. taken \in SpotLockType(n) /\ taken.source = "GOTO"
    BY DEF SpotLockType, Sources
  <2> HIDE DEF taken
  <2>3. /\ r.st \in SpotLockType(n) /\ r.st.substate # "OFF"
        /\ r.st.source = taken.source
        /\ DriveBounded(r.drive, r.st.source, p)
        /\ r.st.substate = "PAUSED" => r.drive = Idle
    BY <2>1, <2>2, HoldOrPauseFacts
  <2> HIDE DEF r
  <2> QED
    BY <2>2, <2>3 DEF DecisionOK, r
<1> QED
  BY <1>1, <1>2

\* One decision of the regulator, armed or not.
LEMMA SpotLockStepOK ==
  ASSUME NEW p, ValidParams(p), NEW in, in.pos \in Int, in.goto_target \in Int,
         in.heading \in Headings, NEW HoldFrames \in Nat \ {0},
         NEW st \in SpotLockType(HoldFrames - 1)
  PROVE  DecisionOK(SpotLockStep(in, p, st, HoldFrames), in, p, st, HoldFrames - 1)
<1> DEFINE n == HoldFrames - 1
           r == SpotLockStep(in, p, st, HoldFrames)
           frames == OverrideFrames(in, st)
           counted == [st EXCEPT !.override_frames = frames]
<1>1. n \in Nat
  OBVIOUS
<1>2. [st EXCEPT !.override_frames = 0] \in SpotLockType(n)
  BY DEF SpotLockType
<1>3. CASE ~in.armed \/ (in.full_deflect /\ frames >= HoldFrames)
  <2>1. r = MakeOff(st, FALSE) \/ r = MakeOff(st, TRUE)
    BY <1>3 DEF SpotLockStep
  <2> HIDE DEF n, r
  <2> QED
    BY <1>1, <1>2, <2>1, MakeOffOK DEF n, r
<1>4. CASE in.armed /\ ~(in.full_deflect /\ frames >= HoldFrames)
  <2>1. frames \in 0..n
    BY <1>4 DEF OverrideFrames, SpotLockType
  <2>2. /\ counted \in SpotLockType(n)
        /\ counted.source = st.source /\ counted.ref = st.ref
    BY <2>1 DEF SpotLockType
  <2>3. [counted EXCEPT !.override_frames = 0] \in SpotLockType(n)
    <3> HIDE DEF n, counted
    <3> QED
      BY <1>1, <2>2 DEF SpotLockType
  <2>4. r \in {RunCh3Hold(in, p, counted), RunGoto(in, p, counted), MakeOff(counted, FALSE)}
    BY <1>4 DEF SpotLockStep
  <2> HIDE DEF n, r, counted
  <2>5. DecisionOK(r, in, p, counted, n)
    BY <1>1, <2>2, <2>3, <2>4, RunCh3HoldOK, RunGotoOK, MakeOffOK
  <2> QED
    BY <2>2, <2>5 DEF DecisionOK, n, r
<1> QED
  BY <1>3, <1>4

-----------------------------------------------------------------------------
(* One cycle with inputs in and settings p, by its intermediate results:   *)
(* the debounced link, the answer of the state machine, that of the        *)
(* regulator and that of the calibration.                                  *)

RcOf(in)    == RcDebounceUpdate(rc_debounce, in.frame_valid)
SmOf(in, p) == SmStep(state, SmInputs(in, p, RcOf(in).valid))
SlOf(in, p) == ResolveSpotLock(in, p, SmOf(in, p))
CalOf(in)   == CalibNext(in, RcOf(in).valid)

\* The command the ramp moves towards.
TargetOf(in, p) ==
  ThrottleTarget(in.ch2_us, ThrottleMode(SmOf(in, p), SlOf(in, p)),
                 SlOf(in, p).drive.throttle, p)

\* A cycle from a state of the invariant, with inputs and settings of their types; no dwell
\* is longer than dwellMax.
CoreCycle(in, p, dwellMax) ==
  /\ ValidParams(p) /\ dwellMax \in Nat /\ ReverseDwellFrames(p) \in 0..dwellMax
  /\ in \in InputType /\ CoreInv(dwellMax) /\ LoopStep(in, p)

\* What such a cycle starts from.
LEMMA CycleFrom ==
  ASSUME NEW in, NEW p, NEW dwellMax, CoreCycle(in, p, dwellMax)
  PROVE  /\ ValidParams(p) /\ dwellMax \in Nat /\ ReverseDwellFrames(p) \in 0..dwellMax
         /\ in \in InputType /\ LoopStep(in, p)
         /\ state \in SmStates /\ rc_debounce \in RcDebounceType
         /\ ramp \in [value : -FullScale..FullScale, dwell : 0..dwellMax]
         /\ servo_slew \in ServoWindowMin..ServoWindowMax
         /\ calib_step \in CalibSteps
         /\ spot_lock \in SpotLockType(OverrideHoldFrames - 1)
         /\ attempt \in AttemptType
         /\ ramp.dwell > 0 => ramp.value = 0
         /\ state = "ESC_CALIBRATION" => ramp = RampAtRest
         /\ state = "ESC_CALIBRATION"
              => calib_step # "DONE" /\ out.esc_us = CalibUsForStep(calib_step)
  BY Zenon DEF CoreCycle, CoreInv, CoreTypeOK, RestsDuringDwell, RampParkedInCalibration,
               PulseOfStep

\* The dwell of legal settings is a number of cycles.
LEMMA DwellFramesIsNat ==
  ASSUME NEW p, ValidParams(p)
  PROVE  ReverseDwellFrames(p) \in 0..ReverseDwellFrames([reverse_neutral_dwell_ms |-> 2000])
<1> DEFINE ms == p.reverse_neutral_dwell_ms
<1>1. ms \in 0..2000
  BY ThrottleParams
<1>2. ReverseDwellFrames(p) = (ms + LoopPeriodMs - 1) \div LoopPeriodMs
  BY Zenon DEF ReverseDwellFrames
<1>3. ReverseDwellFrames([reverse_neutral_dwell_ms |-> 2000]) = 100
  BY DEF ReverseDwellFrames, LoopPeriodMs
<1> HIDE DEF ms
<1> QED BY <1>1, <1>2, <1>3 DEF LoopPeriodMs

\* The cycle in terms of its intermediate results.
LEMMA StepShape ==
  ASSUME NEW in, NEW p, LoopStep(in, p)
  PROVE  /\ rc_debounce' = RcOf(in)
         /\ state' = ControlStateNext(SmOf(in, p), CalOf(in))
         /\ ramp' = RampNext(in, p, SmOf(in, p), SlOf(in, p))
         /\ servo_slew' = ServoSlewNext(in, p, SmOf(in, p), SlOf(in, p))
         /\ calib_step' = IF Calibrating(SmOf(in, p)) THEN CalOf(in).step ELSE calib_step
         /\ spot_lock' = SlOf(in, p).st
         /\ attempt' = AttemptNext(in, p, SmOf(in, p), SlOf(in, p))
         /\ out' = [esc_us |-> EscNext(p, SmOf(in, p), CalOf(in), ramp'.value),
                    servo_us |-> ServoUs(servo_slew', p),
                    goto_latch_clear |-> GotoLatchClear(in, SmOf(in, p), SlOf(in, p))]
  BY Zenon DEF LoopStep, RcOf, SmOf, SlOf, CalOf

\* The inputs the lemmas below read, by their types.
LEMMA InputFacts ==
  ASSUME NEW in \in InputType
  PROVE  /\ in.frame_valid \in BOOLEAN /\ in.ch1_us \in Nat /\ in.ch2_us \in Nat
         /\ in.calib_event \in CalibEvents /\ in.calib_timeout \in BOOLEAN
         /\ in.pos \in Int /\ in.goto_target \in Int /\ in.heading \in Headings
         /\ in.gps_fresh \in BOOLEAN /\ in.gps_fix \in BOOLEAN
  BY DEF InputType

\* The debounced link.
LEMMA LinkNext ==
  ASSUME NEW db \in RcDebounceType, NEW frame_valid \in BOOLEAN
  PROVE  RcDebounceUpdate(db, frame_valid) \in RcDebounceType
  BY RcDebounceAssumption DEF RcDebounceUpdate, RcDebounceType

\* What the state machine is given and what it answers.
LEMMA SmFacts ==
  ASSUME NEW in, NEW p
  PROVE  /\ SmOf(in, p).state = NextState(state, SmInputs(in, p, RcOf(in).valid))
         /\ SmOf(in, p).throttle_target = ThrottleTargetFor(SmOf(in, p).state)
         /\ SmInputs(in, p, RcOf(in).valid).rc_valid = RcOf(in).valid
         /\ SmInputs(in, p, RcOf(in).valid).throttle_neutral
              = ThrottleIsNeutral(in.ch2_us, p)
  BY DEF SmOf, SmStep, SmInputs

\* What the calibration answers: the pulse of its step, or neutral when it ends; and
\* only its own NEXT moves it on.
LEMMA CalFacts ==
  ASSUME NEW in \in InputType, calib_step \in CalibSteps, RcOf(in).valid \in BOOLEAN
  PROVE  /\ CalOf(in).step \in CalibSteps /\ CalOf(in).exit \in CalibExits
         /\ CalOf(in).esc_us \in {1000, 1500, 2000}
         /\ RcOf(in).valid => CalOf(in).exit # "TO_FAILSAFE"
         /\ CalOf(in).exit = "NONE"
              => CalOf(in).step # "DONE" /\ CalOf(in).esc_us = CalibUsForStep(CalOf(in).step)
         /\ CalOf(in).exit # "NONE" => CalOf(in).esc_us = CalibNeutralUs
         /\ CalOf(in).exit = "NONE"
              => CalOf(in).step \in IF state = "ESC_CALIBRATION"
                                    THEN {calib_step, StepAfter(calib_step)} ELSE {"NEUTRAL"}
<1>1. in.calib_event \in CalibEvents /\ in.calib_timeout \in BOOLEAN
  BY InputFacts
<1>2. CASE state = "ESC_CALIBRATION"
  <2>1. CalOf(in) = CalibStepNext(calib_step, in.calib_event, RcOf(in).valid, in.calib_timeout)
    BY <1>2, Zenon DEF CalOf, CalibNext
  <2> QED
    BY <1>1, <1>2, <2>1, CalibStepNextFacts
<1>3. CASE state # "ESC_CALIBRATION"
  <2>1. CalOf(in) = CalibStepNext("NEUTRAL", "NONE", RcOf(in).valid, FALSE)
    BY <1>3, Zenon DEF CalOf, CalibNext
  <2>2. /\ RcOf(in).valid => /\ CalOf(in).step = "NEUTRAL" /\ CalOf(in).esc_us = CalibNeutralUs
                           /\ CalOf(in).exit = "NONE"
        /\ ~RcOf(in).valid => /\ CalOf(in).step = "DONE" /\ CalOf(in).esc_us = CalibNeutralUs
                            /\ CalOf(in).exit = "TO_FAILSAFE"
    BY <2>1, CalibEntry
  <2> QED
    BY <1>3, <2>2 DEF CalibSteps, CalibExits, CalibUsForStep, CalibNeutralUs
<1> QED
  BY <1>2, <1>3

\* The next control state: FAILSAFE exactly on a lost link, ARMED exactly when the
\* state machine says so, ESC_CALIBRATION only while the sequence runs.
LEMMA StateNext ==
  ASSUME NEW in, NEW p, NEW dwellMax, CoreCycle(in, p, dwellMax)
  PROVE  /\ rc_debounce' \in RcDebounceType /\ RcOf(in).valid \in BOOLEAN
         /\ state' \in SmStates
         /\ state' = "FAILSAFE" <=> ~RcOf(in).valid
         /\ state' = "ARMED" <=> SmOf(in, p).state = "ARMED"
         /\ state' = "ESC_CALIBRATION" <=> Calibrating(SmOf(in, p)) /\ CalOf(in).exit = "NONE"
         /\ ~Calibrating(SmOf(in, p)) => state' = SmOf(in, p).state
         /\ Calibrating(SmOf(in, p)) /\ state' # "ESC_CALIBRATION" => state' = "DISARMED"
<1>1. /\ state \in SmStates /\ rc_debounce \in RcDebounceType /\ calib_step \in CalibSteps
      /\ in \in InputType /\ LoopStep(in, p)
  BY CycleFrom
<1>2. RcOf(in) \in RcDebounceType
  BY <1>1, InputFacts, LinkNext DEF RcOf
<1>3. RcOf(in).valid \in BOOLEAN
  BY <1>2 DEF RcDebounceType
<1>4. /\ SmOf(in, p).state \in SmStates
      /\ SmOf(in, p).state = "FAILSAFE" <=> ~RcOf(in).valid
  BY <1>1, NextStateFailsafe, SmFacts
<1>5. Calibrating(SmOf(in, p)) => RcOf(in).valid
  BY <1>1, NextStateCalibration, SmFacts DEF Calibrating
<1>6. CalOf(in).exit \in CalibExits /\ (RcOf(in).valid => CalOf(in).exit # "TO_FAILSAFE")
  BY <1>1, <1>3, CalFacts
<1>7. state' = ControlStateNext(SmOf(in, p), CalOf(in)) /\ rc_debounce' = RcOf(in)
  BY <1>1, StepShape
<1>8. state' = IF Calibrating(SmOf(in, p)) /\ CalOf(in).exit # "NONE" THEN "DISARMED" ELSE SmOf(in, p).state
  BY <1>5, <1>6, <1>7, Zenon DEF ControlStateNext
<1> QED
  BY <1>2, <1>3, <1>4, <1>5, <1>7, <1>8 DEF Calibrating, SmStates

\* The session after a cycle, and the drive it asks for.
LEMMA SpotNext ==
  ASSUME NEW in, NEW p, NEW dwellMax, CoreCycle(in, p, dwellMax)
  PROVE  /\ spot_lock' = SlOf(in, p).st
         /\ spot_lock' \in SpotLockType(OverrideHoldFrames - 1)
         /\ spot_lock'.substate # "OFF" => state' = "ARMED" /\ spot_lock'.source # "NONE"
         /\ DriveBounded(SlOf(in, p).drive, spot_lock'.source, p)
         /\ spot_lock'.substate = "PAUSED" => SlOf(in, p).drive = Idle
         /\ spot_lock.source = "HOLD" /\ spot_lock'.source = "HOLD"
              => spot_lock'.ref = spot_lock.ref
         /\ spot_lock.source # "HOLD" /\ spot_lock'.source = "HOLD"
              => /\ state' = "ARMED" /\ spot_lock'.substate # "OFF" /\ in.ch3_edge
                 /\ SticksNeutral(in, p) /\ in.gps_fresh /\ in.gps_fix
                 /\ SlOf(in, p).drive = Idle
<1> DEFINE i == SpotLockInputs(in, p)
           n == OverrideHoldFrames - 1
<1>1. spot_lock \in SpotLockType(n)
  BY CycleFrom
<1>2. spot_lock' = SlOf(in, p).st
  BY CycleFrom, StepShape
<1>3. state' = "ARMED" <=> SmOf(in, p).state = "ARMED"
  BY StateNext
<1>4. ValidParams(p) /\ OverrideHoldFrames \in Nat \ {0}
  BY CycleFrom, LoopStepAssumption
<1>5. CASE SmOf(in, p).state = "ARMED"
  <2>1. SlOf(in, p) = SpotLockStep(i, p, spot_lock, OverrideHoldFrames)
    BY <1>5, Zenon DEF SlOf, ResolveSpotLock
  <2>2. /\ i.pos = in.pos /\ i.goto_target = in.goto_target /\ i.heading = in.heading
        /\ i.ch3_edge = in.ch3_edge /\ i.sticks_neutral = SticksNeutral(in, p)
        /\ i.gps_fresh = in.gps_fresh /\ i.gps_fix = in.gps_fix
    BY DEF SpotLockInputs
  <2>3. in.pos \in Int /\ in.goto_target \in Int /\ in.heading \in Headings
    BY CycleFrom, InputFacts
  <2> HIDE DEF i
  <2>4. i.pos \in Int /\ i.goto_target \in Int /\ i.heading \in Headings
    BY <2>2, <2>3
  <2>5. DecisionOK(SlOf(in, p), i, p, spot_lock, n)
    BY <1>1, <1>4, <2>1, <2>4, SpotLockStepOK
  <2> HIDE DEF n
  <2> QED
    BY <1>2, <1>3, <1>5, <2>2, <2>5 DEF DecisionOK, n
<1>6. CASE SmOf(in, p).state # "ARMED"
  <2>1. SlOf(in, p).st = [spot_lock EXCEPT !.substate = "OFF"] /\ SlOf(in, p).drive = Idle
    BY <1>6 DEF SlOf, ResolveSpotLock
  <2> HIDE DEF n
  <2>2. /\ SlOf(in, p).st \in SpotLockType(n) /\ SlOf(in, p).st.substate = "OFF"
        /\ SlOf(in, p).st.source = spot_lock.source /\ SlOf(in, p).st.ref = spot_lock.ref
    BY <1>1, <2>1 DEF SpotLockType, SubStates
  <2>3. DriveBounded(SlOf(in, p).drive, SlOf(in, p).st.source, p)
    BY <1>4, <2>1, IdleBounded
  <2> QED
    BY <1>2, <1>3, <1>6, <2>2, <2>3 DEF n
<1> QED
  BY <1>5, <1>6

\* The ramp after a cycle that does not calibrate, and what it never does.
LEMMA ThrustNext ==
  ASSUME NEW in, NEW p, NEW dwellMax, CoreCycle(in, p, dwellMax)
  PROVE  /\ TargetOf(in, p) \in -FullScale..FullScale
         /\ Calibrating(SmOf(in, p)) => ramp' = RampAtRest
         /\ ramp' \in [value : -FullScale..FullScale, dwell : 0..dwellMax]
         /\ ramp'.dwell > 0 => ramp'.value = 0
         /\ Magnitude(ramp'.value) > Magnitude(ramp.value)
              => Magnitude(ramp'.value - ramp.value) <= p.esc_ramp_up_us_per_cycle
         /\ ~Calibrating(SmOf(in, p)) /\ ~(Magnitude(ramp'.value) > Magnitude(ramp.value))
              => Magnitude(ramp'.value - ramp.value) <= p.esc_ramp_down_us_per_cycle
         /\ ramp.value > 0 => ramp'.value >= 0
         /\ ramp.value < 0 => ramp'.value <= 0
         /\ TargetOf(in, p) = 0 => Magnitude(ramp'.value) <= Magnitude(ramp.value)
         /\ TargetOf(in, p) >= 0 => ramp'.value >= 0 \/ ramp'.value >= ramp.value
         /\ \/ Magnitude(ramp'.value) <= Magnitude(TargetOf(in, p))
            \/ Magnitude(ramp'.value) <= Magnitude(ramp.value)
<1> DEFINE value == ramp.value
           dwell == ramp.dwell
           frames == ReverseDwellFrames(p)
           t == TargetOf(in, p)
<1>1. ValidParams(p) /\ in \in InputType /\ LoopStep(in, p)
  BY CycleFrom
<1>2. dwellMax \in Nat /\ frames \in 0..dwellMax
  BY CycleFrom
<1>3. ramp \in [value : -FullScale..FullScale, dwell : 0..dwellMax]
  BY CycleFrom
<1>4. /\ ramp = [value |-> value, dwell |-> dwell]
      /\ value \in -FullScale..FullScale /\ dwell \in 0..dwellMax
  <2> HIDE DEF frames
  <2> QED
    BY <1>3
<1>5. dwell > 0 => value = 0
  BY CycleFrom
<1>6. t \in -FullScale..FullScale
  <2>1. SlOf(in, p).drive.throttle \in -FullScale..FullScale
    BY SpotNext, Zenon DEF DriveBounded
  <2>2. in.ch2_us \in Nat
    BY <1>1, InputFacts
  <2> QED
    BY <1>1, <2>1, <2>2, ThrottleTargetBounded, Zenon DEF TargetOf
<1>7. CASE Calibrating(SmOf(in, p))
  <2>1. ramp' = RampAtRest
    BY <1>1, <1>7, StepShape, Zenon DEF RampNext
  <2>2. ramp'.value = 0 /\ ramp'.dwell = 0
    BY <2>1 DEF RampAtRest
  <2> HIDE DEF frames, t
  <2>3. ramp' \in [value : -FullScale..FullScale, dwell : 0..dwellMax]
    BY <1>2, <2>1 DEF RampAtRest, FullScale
  <2> HIDE DEF value
  <2>4. /\ value \in Int /\ t \in Int /\ Magnitude(0) = 0 /\ Magnitude(value) >= 0
        /\ ~(Magnitude(0) > Magnitude(value)) /\ Magnitude(0) <= Magnitude(value)
        /\ 0 >= 0 /\ 0 <= 0 /\ ~(0 > 0)
    <3>1. value \in Int /\ t \in Int
      BY <1>4, <1>6, FullScaleInt, Zenon
    <3>2. Magnitude(0) = 0 /\ Magnitude(value) \in Nat
      BY <3>1, MagnitudeFacts
    <3> QED
      BY <3>1, <3>2
  <2> QED
    BY <1>6, <1>7, <2>1, <2>2, <2>3, <2>4, Zenon DEF t, value, frames
<1>8. CASE ~Calibrating(SmOf(in, p))
  <2>1. ramp' = AdvanceRamp(ramp, t, frames, p)
    BY <1>1, <1>8, StepShape, Zenon DEF RampNext, TargetOf
  <2>2. ramp' = AdvanceRamp([value |-> value, dwell |-> dwell], t, frames, p)
    BY <1>4, <2>1, Zenon
  <2> HIDE DEF value, dwell, frames, t
  <2>3. LET r == ramp'
        IN  /\ r \in [value : -FullScale..FullScale, dwell : 0..dwellMax]
            /\ r.dwell > 0 => r.value = 0
            /\ Magnitude(r.value) > Magnitude(value)
                 => Magnitude(r.value - value) <= p.esc_ramp_up_us_per_cycle
            /\ ~(Magnitude(r.value) > Magnitude(value))
                 => Magnitude(r.value - value) <= p.esc_ramp_down_us_per_cycle
            /\ value > 0 => r.value >= 0
            /\ value < 0 => r.value <= 0
            /\ t = 0 => Magnitude(r.value) <= Magnitude(value)
            /\ t >= 0 => r.value >= 0 \/ r.value >= value
            /\ Magnitude(r.value) <= Magnitude(t) \/ Magnitude(r.value) <= Magnitude(value)
    BY <1>1, <1>2, <1>4, <1>5, <1>6, <2>2, AdvanceRampFacts
  <2> QED
    BY <1>6, <1>8, <2>3, Zenon DEF value, frames, t
<1> QED
  BY <1>7, <1>8

\* The thrust before and after a cycle is an integer within the full scale.
LEMMA ThrustIsInt ==
  ASSUME NEW in, NEW p, NEW dwellMax, CoreCycle(in, p, dwellMax)
  PROVE  /\ ramp.value \in -FullScale..FullScale /\ ramp'.value \in -FullScale..FullScale
         /\ ramp.value \in Int /\ ramp'.value \in Int
<1>1. ramp \in [value : -FullScale..FullScale, dwell : 0..dwellMax]
  BY CycleFrom
<1>2. ramp' \in [value : -FullScale..FullScale, dwell : 0..dwellMax]
  BY ThrustNext
<1>3. ramp.value \in -FullScale..FullScale /\ ramp'.value \in -FullScale..FullScale
  BY <1>1, <1>2
<1> QED
  BY <1>3, FullScaleInt, Zenon

\* A cycle that enters the calibration does not end it again.
LEMMA EntryHasNoExit ==
  ASSUME NEW in, NEW p, NEW dwellMax, CoreCycle(in, p, dwellMax),
         Calibrating(SmOf(in, p)), state # "ESC_CALIBRATION"
  PROVE  CalOf(in).exit = "NONE"
<1>1. RcOf(in).valid = TRUE
  BY CycleFrom, StateNext, SmFacts, NextStateCalibration DEF Calibrating
<1>2. CalOf(in) = CalibStepNext("NEUTRAL", "NONE", TRUE, FALSE)
  BY <1>1, Zenon DEF CalOf, CalibNext
<1> QED
  BY <1>2, CalibEntry

\* The servo after a cycle.
LEMMA ServoNext ==
  ASSUME NEW in, NEW p, NEW dwellMax, CoreCycle(in, p, dwellMax)
  PROVE  /\ servo_slew' \in ServoWindowMin..ServoWindowMax
         /\ ServoUs(servo_slew', p) \in ServoWindowMin..ServoWindowMax
<1> DEFINE mode == ServoMode(SmOf(in, p), SlOf(in, p))
           cmd == SlOf(in, p).drive.servo
<1>1. ValidParams(p) /\ in.ch1_us \in Nat
  BY CycleFrom, InputFacts
<1>2. cmd \in -FullScale..FullScale
  BY SpotNext, Zenon DEF DriveBounded
<1>3. servo_slew \in ServoWindowMin..ServoWindowMax
  BY CycleFrom
<1>4. servo_slew' = ServoSlew(servo_slew, in.ch1_us, mode, cmd, p)
  BY CycleFrom, StepShape, Zenon DEF ServoSlewNext
<1> HIDE DEF mode, cmd
<1>5. servo_slew' \in ServoWindowMin..ServoWindowMax
  BY <1>1, <1>2, <1>3, <1>4, ServoBounded
<1>6. ServoUs(servo_slew', p) \in ServoWindowMin..ServoWindowMax
  BY <1>1, <1>2, <1>5, ServoBounded
<1> QED
  BY <1>5, <1>6

\* The telemetry of the last attempt.
LEMMA AttemptNextOK ==
  ASSUME NEW in, NEW p, NEW dwellMax, CoreCycle(in, p, dwellMax)
  PROVE  attempt' \in AttemptType
<1>1. attempt \in AttemptType
  BY CycleFrom
<1>2. attempt' = AttemptNext(in, p, SmOf(in, p), SlOf(in, p))
  BY CycleFrom, StepShape
<1>3. CASE ~in.ch3_edge
  BY <1>1, <1>2, <1>3, Zenon DEF AttemptNext
<1>4. CASE in.ch3_edge
  <2> DEFINE seq == (attempt.seq + 1) % AttemptSeqMod
             ok == SlOf(in, p).st.source = "HOLD" /\ Drives(SlOf(in, p))
             armed == SmOf(in, p).state = "ARMED"
             sticks == SticksNeutral(in, p)
  <2>1. attempt' = [seq |-> seq, armed |-> armed, sticks_neutral |-> sticks,
                    gps_fresh |-> in.gps_fresh, gps_fix |-> in.gps_fix, ok |-> ok]
    BY <1>2, <1>4 DEF AttemptNext
  <2>2. seq \in 0..(AttemptSeqMod - 1)
    <3> DEFINE q == attempt.seq
    <3>1. q \in 0..(AttemptSeqMod - 1) /\ AttemptSeqMod \in Nat \ {0}
      BY <1>1, LoopStepAssumption DEF AttemptType
    <3> HIDE DEF q
    <3>2. (q + 1) % AttemptSeqMod \in 0..(AttemptSeqMod - 1)
      BY <3>1
    <3> QED
      BY <3>2 DEF q
  <2>3. ok \in BOOLEAN /\ armed \in BOOLEAN /\ sticks \in BOOLEAN
    BY DEF SticksNeutral, ThrottleIsNeutral, SteerIsNeutral
  <2>4. in.gps_fresh \in BOOLEAN /\ in.gps_fix \in BOOLEAN
    BY CycleFrom, InputFacts
  <2> HIDE DEF seq, ok, armed, sticks
  <2> QED
    BY <2>1, <2>2, <2>3, <2>4 DEF AttemptType
<1> QED
  BY <1>3, <1>4

\* The pulses written at the end of a cycle, and where they come from.
LEMMA OutNext ==
  ASSUME NEW in, NEW p, NEW dwellMax, CoreCycle(in, p, dwellMax)
  PROVE  /\ out' \in [esc_us : EscWindowMin..EscWindowMax,
                      servo_us : ServoWindowMin..ServoWindowMax, goto_latch_clear : BOOLEAN]
         /\ Calibrating(SmOf(in, p)) => out'.esc_us = CalOf(in).esc_us
         /\ ~Calibrating(SmOf(in, p))
              => out'.esc_us \in p.esc_reverse_max_us..p.esc_forward_max_us
<1> DEFINE esc == EscNext(p, SmOf(in, p), CalOf(in), ramp'.value)
           servo == ServoUs(servo_slew', p)
           clear == GotoLatchClear(in, SmOf(in, p), SlOf(in, p))
<1>1. out' = [esc_us |-> esc, servo_us |-> servo, goto_latch_clear |-> clear]
  BY CycleFrom, StepShape, Zenon
<1>2. servo \in ServoWindowMin..ServoWindowMax
  BY ServoNext
<1>3. clear \in BOOLEAN
  BY StateNext DEF GotoLatchClear
<1>4. /\ esc \in EscWindowMin..EscWindowMax
      /\ Calibrating(SmOf(in, p)) => esc = CalOf(in).esc_us
      /\ ~Calibrating(SmOf(in, p)) => esc \in p.esc_reverse_max_us..p.esc_forward_max_us
  <2>1. CASE Calibrating(SmOf(in, p))
    <3> DEFINE us == CalOf(in).esc_us
    <3>1. us \in {1000, 1500, 2000}
      BY CycleFrom, CalFacts, StateNext
    <3>2. esc = ClampPwmUs(us, EscWindowMin, EscWindowMax)
      BY <2>1, Zenon DEF EscNext
    <3> HIDE DEF us, esc
    <3>3. esc = us /\ esc \in EscWindowMin..EscWindowMax
      BY <3>1, <3>2 DEF ClampPwmUs, Clamp, EscWindowMin, EscWindowMax
    <3> QED
      BY <2>1, <3>3, Zenon DEF us
  <2>2. CASE ~Calibrating(SmOf(in, p))
    <3> DEFINE v == ramp'.value
    <3>1. v \in -FullScale..FullScale
      <4>1. ramp' \in [value : -FullScale..FullScale, dwell : 0..dwellMax]
        BY ThrustNext
      <4> QED
        BY <4>1
    <3>2. esc = EscUs(v, p)
      BY <2>2, Zenon DEF EscNext
    <3> HIDE DEF v, esc
    <3> QED
      BY <2>2, <3>1, <3>2, CycleFrom, EscUsBounded
  <2> QED
    BY <2>1, <2>2
<1> HIDE DEF esc, servo, clear
<1>5. out'.esc_us = esc
  BY <1>1
<1>6. out' \in [esc_us : EscWindowMin..EscWindowMax,
                servo_us : ServoWindowMin..ServoWindowMax, goto_latch_clear : BOOLEAN]
  BY <1>1, <1>2, <1>3, <1>4
<1> QED
  BY <1>4, <1>5, <1>6

-----------------------------------------------------------------------------
(* The invariant of the core: at boot, and through a cycle.                *)

\* What boot writes.
LEMMA BootValues ==
  ASSUME NEW p, ValidParams(p), NEW dwellMax \in Nat
  PROVE  /\ RcDebounceInit \in RcDebounceType /\ RcDebounceInit.valid
         /\ RampAtRest \in [value : -FullScale..FullScale, dwell : 0..dwellMax]
         /\ ServoCenterUs(p) \in ServoWindowMin..ServoWindowMax
         /\ SpotLockBoot \in SpotLockType(OverrideHoldFrames - 1)
         /\ AttemptBoot \in AttemptType
         /\ OutBoot \in [esc_us : EscWindowMin..EscWindowMax,
                         servo_us : ServoWindowMin..ServoWindowMax, goto_latch_clear : BOOLEAN]
<1>1. RcDebounceInit \in RcDebounceType /\ RcDebounceInit.valid
  BY RcDebounceAssumption DEF RcDebounceInit, RcDebounceType
<1>2. RampAtRest \in [value : -FullScale..FullScale, dwell : 0..dwellMax]
  BY DEF RampAtRest, FullScale
<1>3. ServoCenterUs(p) \in ServoWindowMin..ServoWindowMax
  <2>1. 1500 \in Nat /\ 0 \in -FullScale..FullScale
    BY DEF FullScale
  <2> QED
    BY <2>1, ServoTargetBounded
<1>4. SpotLockBoot \in SpotLockType(OverrideHoldFrames - 1)
  BY LoopStepAssumption DEF SpotLockBoot, SpotLockType, SubStates, Sources
<1>5. AttemptBoot \in AttemptType
  BY LoopStepAssumption DEF AttemptBoot, AttemptType
<1>6. OutBoot \in [esc_us : EscWindowMin..EscWindowMax, servo_us : ServoWindowMin..ServoWindowMax,
                   goto_latch_clear : BOOLEAN]
  BY DEF OutBoot, PwmOutNeutralUs, EscWindowMin, EscWindowMax, ServoWindowMin, ServoWindowMax
<1> QED
  BY <1>1, <1>2, <1>3, <1>4, <1>5, <1>6

\* A boot with legal settings satisfies the invariant.
LEMMA CoreInit ==
  ASSUME NEW p, ValidParams(p), LoopInit(p), NEW dwellMax \in Nat
  PROVE  CoreInv(dwellMax)
<1>1. /\ state = "DISARMED" /\ rc_debounce = RcDebounceInit /\ ramp = RampAtRest
      /\ servo_slew = ServoCenterUs(p) /\ calib_step = "NEUTRAL"
      /\ spot_lock = SpotLockBoot /\ attempt = AttemptBoot /\ out = OutBoot
  BY DEF LoopInit
<1>2. CoreTypeOK(dwellMax)
  BY <1>1, BootValues DEF CoreTypeOK, SmStates, CalibSteps
<1>3. FailsafeIffLinkLost /\ RampParkedInCalibration /\ PulseOfStep
  BY <1>1, BootValues DEF FailsafeIffLinkLost, RampParkedInCalibration, PulseOfStep
<1>4. EngagedOnlyWhenArmed /\ RestsDuringDwell
  BY <1>1 DEF EngagedOnlyWhenArmed, RestsDuringDwell, SpotLockBoot, RampAtRest
<1> QED
  BY <1>2, <1>3, <1>4 DEF CoreInv

\* So does a reset, from any state.
LEMMA CoreReset ==
  ASSUME NEW p, ValidParams(p), LoopReset(p), NEW dwellMax \in Nat
  PROVE  CoreInv(dwellMax)'
<1>1. /\ state' = "DISARMED" /\ rc_debounce' = RcDebounceInit /\ ramp' = RampAtRest
      /\ servo_slew' = ServoCenterUs(p) /\ calib_step' = "NEUTRAL"
      /\ spot_lock' = SpotLockBoot /\ attempt' = AttemptBoot /\ out' = OutBoot
  BY DEF LoopReset
<1>2. CoreTypeOK(dwellMax)'
  BY <1>1, BootValues DEF CoreTypeOK, SmStates, CalibSteps
<1>3. FailsafeIffLinkLost' /\ RampParkedInCalibration' /\ PulseOfStep'
  BY <1>1, BootValues DEF FailsafeIffLinkLost, RampParkedInCalibration, PulseOfStep
<1>4. EngagedOnlyWhenArmed' /\ RestsDuringDwell'
  BY <1>1 DEF EngagedOnlyWhenArmed, RestsDuringDwell, SpotLockBoot, RampAtRest
<1> QED
  BY <1>2, <1>3, <1>4 DEF CoreInv

\* A step that leaves the core alone keeps the invariant.
LEMMA CoreStutter ==
  ASSUME NEW dwellMax, CoreInv(dwellMax), UNCHANGED loopVars
  PROVE  CoreInv(dwellMax)'
  BY DEF CoreInv, CoreTypeOK, FailsafeIffLinkLost, EngagedOnlyWhenArmed, RestsDuringDwell,
         RampParkedInCalibration, PulseOfStep, loopVars

\* A cycle keeps the invariant.
LEMMA CycleKeepsCore ==
  ASSUME NEW in, NEW p, NEW dwellMax, CoreCycle(in, p, dwellMax)
  PROVE  CoreInv(dwellMax)'
<1>0. in \in InputType /\ LoopStep(in, p) /\ calib_step \in CalibSteps /\ RcOf(in).valid \in BOOLEAN
  BY CycleFrom, StateNext
<1>1. CoreTypeOK(dwellMax)'
  <2>1. calib_step' \in CalibSteps
    <3>1. CalOf(in).step \in CalibSteps
      BY <1>0, CalFacts
    <3>2. calib_step' = IF Calibrating(SmOf(in, p)) THEN CalOf(in).step ELSE calib_step
      BY <1>0, StepShape
    <3> QED
      BY <1>0, <3>1, <3>2, Zenon
  <2>2. state' \in SmStates /\ rc_debounce' \in RcDebounceType
    BY StateNext
  <2>3. ramp' \in [value : -FullScale..FullScale, dwell : 0..dwellMax]
    BY ThrustNext
  <2>4. spot_lock' \in SpotLockType(OverrideHoldFrames - 1)
    BY SpotNext
  <2>5. out' \in [esc_us : EscWindowMin..EscWindowMax,
                  servo_us : ServoWindowMin..ServoWindowMax, goto_latch_clear : BOOLEAN]
    BY OutNext
  <2> QED
    BY <2>1, <2>2, <2>3, <2>4, <2>5, ServoNext, AttemptNextOK, Zenon DEF CoreTypeOK
<1>2. FailsafeIffLinkLost'
  BY <1>0, StateNext, StepShape DEF FailsafeIffLinkLost
<1>3. EngagedOnlyWhenArmed'
  BY SpotNext DEF EngagedOnlyWhenArmed
<1>4. RestsDuringDwell'
  BY ThrustNext DEF RestsDuringDwell
<1>5. PulseOfStep'
  <2>1. SUFFICES ASSUME state' = "ESC_CALIBRATION"
                 PROVE  calib_step' # "DONE" /\ out'.esc_us = CalibUsForStep(calib_step')
    BY DEF PulseOfStep
  <2>2. Calibrating(SmOf(in, p)) /\ CalOf(in).exit = "NONE"
    BY <2>1, StateNext
  <2>3. calib_step' = CalOf(in).step /\ out'.esc_us = CalOf(in).esc_us
    BY <1>0, <2>2, StepShape, OutNext
  <2>4. CalOf(in).step # "DONE" /\ CalOf(in).esc_us = CalibUsForStep(CalOf(in).step)
    BY <1>0, <2>2, CalFacts
  <2> QED
    BY <2>3, <2>4, Zenon
<1>6. RampParkedInCalibration'
  BY StateNext, ThrustNext DEF RampParkedInCalibration
<1> QED
  BY <1>1, <1>2, <1>3, <1>4, <1>5, <1>6 DEF CoreInv

\* Outside ESC_CALIBRATION the pulse after a cycle lies in the map of its settings, or is
\* neutral.
LEMMA PulseNext ==
  ASSUME NEW in, NEW p, NEW dwellMax, CoreCycle(in, p, dwellMax)
  PROVE  \/ state' = "ESC_CALIBRATION"
         \/ out'.esc_us \in p.esc_reverse_max_us..p.esc_forward_max_us
         \/ out'.esc_us = PwmOutNeutralUs
<1>1. CASE ~Calibrating(SmOf(in, p))
  BY <1>1, OutNext, Zenon
<1>2. CASE Calibrating(SmOf(in, p)) /\ state' # "ESC_CALIBRATION"
  <2>1. CalOf(in).exit # "NONE"
    BY <1>2, StateNext
  <2>2. CalOf(in).esc_us = CalibNeutralUs
    BY <2>1, CalFacts, StateNext, CycleFrom
  <2> QED
    BY <1>2, <2>2, OutNext DEF CalibNeutralUs, PwmOutNeutralUs
<1> QED
  BY <1>1, <1>2

-----------------------------------------------------------------------------
(* The contract, part by part.                                             *)

\* The target of the ramp by who drives: nobody out of ARMED, the session while one
\* is engaged, the stick otherwise.
LEMMA TargetByOwner ==
  ASSUME NEW in, NEW p, NEW dwellMax, CoreCycle(in, p, dwellMax)
  PROVE  /\ SmOf(in, p).state # "ARMED" => TargetOf(in, p) = 0
         /\ spot_lock'.substate # "OFF" => TargetOf(in, p) = SlOf(in, p).drive.throttle
         /\ spot_lock'.substate = "OFF" /\ ThrottleIsNeutral(in.ch2_us, p) => TargetOf(in, p) = 0
<1>1. Drives(SlOf(in, p)) <=> spot_lock'.substate # "OFF"
  BY CycleFrom, StepShape, Zenon DEF Drives
<1>2. SmOf(in, p).throttle_target = IF SmOf(in, p).state = "ARMED" THEN "TRACK" ELSE "NEUTRAL"
  BY SmFacts, Zenon DEF ThrottleTargetFor
<1>3. ValidParams(p)
  BY CycleFrom
<1>4. CASE spot_lock'.substate # "OFF"
  <2>1. SmOf(in, p).state = "ARMED"
    BY <1>4, SpotNext, StateNext
  <2>2. ThrottleMode(SmOf(in, p), SlOf(in, p)) = "SPOT_LOCK"
    BY <1>1, <1>4, Zenon DEF ThrottleMode
  <2>3. TargetOf(in, p) = SlOf(in, p).drive.throttle
    BY <2>2 DEF TargetOf, ThrottleTarget
  <2> QED
    BY <1>4, <2>1, <2>3
<1>5. CASE spot_lock'.substate = "OFF"
  <2> DEFINE m == ThrottleMode(SmOf(in, p), SlOf(in, p))
  <2>1. m = IF SmOf(in, p).state = "ARMED" THEN "TRACK" ELSE "NEUTRAL"
    BY <1>1, <1>2, <1>5, Zenon DEF ThrottleMode
  <2>2. m # "SPOT_LOCK" /\ (SmOf(in, p).state # "ARMED" => m = "NEUTRAL")
    BY <2>1
  <2>3. TargetOf(in, p) = ThrottleTarget(in.ch2_us, m, SlOf(in, p).drive.throttle, p)
    BY Zenon DEF TargetOf
  <2> HIDE DEF m
  <2>4. ThrottleIsNeutral(in.ch2_us, p) => TargetOf(in, p) = 0
    BY <1>3, <2>2, <2>3, NeutralStickNeutralTarget
  <2>5. SmOf(in, p).state # "ARMED" => TargetOf(in, p) = 0
    BY <2>2, <2>3 DEF ThrottleTarget
  <2> QED
    BY <1>5, <2>4, <2>5
<1> QED
  BY <1>4, <1>5

\* The modes follow one another as the contract says.
LEMMA ModeFollows ==
  ASSUME NEW in, NEW p, NEW dwellMax, CoreCycle(in, p, dwellMax)
  PROVE  state' \in Mode!Follows(state)
<1> DEFINE si == SmInputs(in, p, RcOf(in).valid)
<1>1. state \in SmStates
  BY CycleFrom
<1>2. SmOf(in, p).state = NextState(state, si)
  BY SmFacts
<1>3. /\ ~Calibrating(SmOf(in, p)) => state' = SmOf(in, p).state
      /\ Calibrating(SmOf(in, p)) => state' \in {"ESC_CALIBRATION", "DISARMED"}
      /\ state' \in SmStates
  BY StateNext
<1> HIDE DEF si
<1>4. CASE state = "DISARMED"
  BY <1>3, <1>4 DEF SmStates, Mode!Follows
<1>5. CASE state = "ARMED"
  BY <1>2, <1>3, <1>5 DEF NextState, NextFromArmed, Calibrating, Mode!Follows
<1>6. CASE state = "FAILSAFE"
  BY <1>2, <1>3, <1>6 DEF NextState, NextFromFailsafe, Calibrating, Mode!Follows
<1>7. CASE state = "ESC_CALIBRATION"
  BY <1>2, <1>3, <1>7 DEF NextState, NextFromCalibration, Calibrating, Mode!Follows
<1>8. CASE state = "DEPLOY"
  BY <1>2, <1>3, <1>8 DEF NextState, NextFromDeploy, Calibrating, Mode!Follows
<1> QED
  BY <1>1, <1>4, <1>5, <1>6, <1>7, <1>8 DEF SmStates

\* Who owns the thrust.
Owner ==
  IF spot_lock.substate # "OFF" THEN spot_lock.source
  ELSE IF state = "ARMED" THEN "STICK" ELSE "NONE"

\* A cycle that ends in ARMED is a Drive of the contract.
LEMMA ArmedCycleDrives ==
  ASSUME NEW in, NEW p, NEW dwellMax, CoreCycle(in, p, dwellMax), state' = "ARMED"
  PROVE  Mode!Drive
<1>1. "ARMED" \in Mode!Follows(state)
  BY ModeFollows
<1>2. /\ ramp'.value \in -FullScale..FullScale
      /\ ramp.value > 0 => ramp'.value >= 0
      /\ ramp.value < 0 => ramp'.value <= 0
  BY ThrustIsInt, ThrustNext
<1>3. Owner' \in {"STICK", "HOLD", "GOTO"}
  BY SpotNext DEF Owner, SpotLockType, Sources
<1>4. Owner' = "GOTO" => ramp'.value >= 0 \/ ramp'.value >= ramp.value
  <2>1. SUFFICES ASSUME Owner' = "GOTO"
                 PROVE  ramp'.value >= 0 \/ ramp'.value >= ramp.value
    OBVIOUS
  <2>2. spot_lock'.substate # "OFF" /\ spot_lock'.source = "GOTO"
    BY <2>1 DEF Owner
  <2>3. TargetOf(in, p) = SlOf(in, p).drive.throttle /\ SlOf(in, p).drive.throttle >= 0
    BY <2>2, TargetByOwner, SpotNext DEF DriveBounded
  <2>4. TargetOf(in, p) >= 0
    BY <2>3
  <2> QED
    BY <2>4, ThrustNext
<1> QED
  BY <1>1, <1>2, <1>3, <1>4, Zenon DEF Mode!Drive, Owner

\* Any other cycle is a Stop.
LEMMA OtherCycleStops ==
  ASSUME NEW in, NEW p, NEW dwellMax, CoreCycle(in, p, dwellMax), state' # "ARMED"
  PROVE  Mode!Stop
<1> DEFINE v == ramp.value
           w == ramp'.value
<1>1. state' \in Mode!Follows(state) \ {"ARMED"}
  BY ModeFollows
<1>2. Owner' = "NONE"
  BY SpotNext DEF Owner
<1>3. v \in Int /\ w \in Int /\ w \in -FullScale..FullScale
  BY ThrustIsInt
<1>4. (v > 0 => w >= 0) /\ (v < 0 => w <= 0)
  BY ThrustNext
<1>5. Magnitude(w) <= Magnitude(v)
  <2>1. SmOf(in, p).state # "ARMED"
    BY StateNext
  <2> QED
    BY <2>1, TargetByOwner, ThrustNext
<1> HIDE DEF v, w
<1>6. /\ v >= 0 => w >= 0 /\ w <= v
      /\ v <= 0 => w <= 0 /\ w >= v
  BY <1>3, <1>4, <1>5 DEF Magnitude
<1> QED
  BY <1>1, <1>2, <1>3, <1>6, Zenon DEF Mode!Stop, Owner, v, w

\* Thrust changes by at most the rates, entry into the calibration apart.
LEMMA CycleRamps ==
  ASSUME NEW in, NEW p, NEW dwellMax, CoreCycle(in, p, dwellMax)
  PROVE  ThrustRampedBy(p)
<1> DEFINE v == ramp.value
           w == ramp'.value
<1>1. CASE ~Calibrating(SmOf(in, p))
  BY <1>1, ThrustNext, Zenon DEF ThrustRampedBy
<1>2. CASE Calibrating(SmOf(in, p)) /\ state = "ESC_CALIBRATION"
  <2>1. v = 0 /\ w = 0
    BY <1>2, CycleFrom, ThrustNext DEF RampAtRest
  <2>2. Magnitude(0) = 0 /\ Magnitude(0 - 0) = 0
    BY MagnitudeFacts
  <2>3. p.esc_ramp_down_us_per_cycle \in Nat
    BY CycleFrom, ThrottleParams
  <2>4. ~(Magnitude(w) > Magnitude(v)) /\ Magnitude(w - v) <= p.esc_ramp_down_us_per_cycle
    BY <2>1, <2>2, <2>3
  <2> HIDE DEF v, w
  <2> QED
    BY <2>4, Zenon DEF ThrustRampedBy, v, w
<1>3. CASE Calibrating(SmOf(in, p)) /\ state # "ESC_CALIBRATION"
  <2>1. CalOf(in).exit = "NONE"
    BY <1>3, EntryHasNoExit
  <2>2. state' = "ESC_CALIBRATION"
    BY <1>3, <2>1, StateNext
  <2>3. ~(Magnitude(w) > Magnitude(v))
    <3>1. w = 0
      BY <1>3, ThrustNext DEF RampAtRest
    <3>2. Magnitude(w) = 0 /\ Magnitude(v) \in Nat
      BY <3>1, ThrustIsInt, MagnitudeFacts
    <3> QED
      BY <3>2
  <2> HIDE DEF v, w
  <2> QED
    BY <1>3, <2>2, <2>3, Zenon DEF ThrustRampedBy, v, w
<1> QED
  BY <1>1, <1>2, <1>3

\* Out of ARMED the target is neutral, and the ramp gives up its decel rate.
LEMMA CycleStops ==
  ASSUME NEW in, NEW p, NEW dwellMax, CoreCycle(in, p, dwellMax)
  PROVE  StopsOutOfArmed(p)
<1> DEFINE v == ramp.value
           dwell == ramp.dwell
           frames == ReverseDwellFrames(p)
           down == p.esc_ramp_down_us_per_cycle
           Given == ramp'.value = 0 \/ Magnitude(ramp'.value) + down <= Magnitude(v)
<1>1. SUFFICES ASSUME state' # "ARMED"
               PROVE  Given
  BY Zenon DEF StopsOutOfArmed
<1>2. TargetOf(in, p) = 0
  BY <1>1, StateNext, TargetByOwner
<1>3. CASE Calibrating(SmOf(in, p))
  BY <1>3, ThrustNext DEF RampAtRest
<1>4. CASE ~Calibrating(SmOf(in, p))
  <2>1. ramp' = AdvanceRamp(ramp, 0, frames, p)
    BY <1>2, <1>4, CycleFrom, StepShape, Zenon DEF RampNext, TargetOf
  <2>2. ramp = [value |-> v, dwell |-> dwell] /\ v \in -FullScale..FullScale
    BY CycleFrom
  <2>3. ValidParams(p) /\ (dwell > 0 => v = 0)
    BY CycleFrom
  <2> HIDE DEF v, dwell, frames
  <2>4. LET w == AdvanceRamp([value |-> v, dwell |-> dwell], 0, frames, p).value
        IN  w = 0 \/ Magnitude(w) + p.esc_ramp_down_us_per_cycle <= Magnitude(v)
    BY <2>2, <2>3, StopProgress
  <2>5. ramp' = AdvanceRamp([value |-> v, dwell |-> dwell], 0, frames, p)
    BY <2>1, <2>2, Zenon
  <2> QED
    BY <2>4, <2>5, Zenon
<1> QED
  BY <1>3, <1>4

\* What a session raises stays within its cap, and a paused one raises nothing.
LEMMA CycleCapsSession ==
  ASSUME NEW in, NEW p, NEW dwellMax, CoreCycle(in, p, dwellMax)
  PROVE  SessionCappedBy(p)
<1> DEFINE t == TargetOf(in, p)
           cap == SessionCap(spot_lock'.source, p)
           v == ramp.value
           w == ramp'.value
<1>1. SUFFICES ASSUME spot_lock'.substate # "OFF"
               PROVE  \/ Magnitude(w) <= Magnitude(v)
                      \/ spot_lock'.substate # "PAUSED" /\ Magnitude(w) <= cap
  BY Zenon DEF SessionCappedBy
<1>2. t = SlOf(in, p).drive.throttle
  BY <1>1, TargetByOwner
<1>3. CASE spot_lock'.substate = "PAUSED"
  <2>1. SlOf(in, p).drive = Idle
    BY <1>3, SpotNext
  <2>2. t = 0
    BY <1>2, <2>1 DEF Idle
  <2> QED
    BY <2>2, ThrustNext
<1>4. CASE spot_lock'.substate # "PAUSED"
  <2>1. t \in -cap..cap
    BY <1>2, SpotNext, Zenon DEF DriveBounded
  <2>2. Magnitude(w) <= Magnitude(t) \/ Magnitude(w) <= Magnitude(v)
    BY ThrustNext
  <2>3. cap \in 0..FullScale
    BY CycleFrom, SessionCapInFull
  <2>4. w \in Int
    BY ThrustIsInt
  <2> HIDE DEF t, cap, w
  <2>5. Magnitude(t) <= cap /\ Magnitude(t) \in Int /\ Magnitude(w) \in Int /\ cap \in Int
    BY <2>1, <2>3, <2>4 DEF Magnitude, FullScale
  <2>6. Magnitude(w) <= Magnitude(t) => Magnitude(w) <= cap
    BY <2>5
  <2> QED
    BY <1>4, <2>2, <2>6, Zenon
<1> QED
  BY <1>3, <1>4

\* Arming needs a neutral throttle, so what rises has the target of a session, and neither
\* a paused one nor a hold of this cycle has any.
LEMMA CycleArmsForSession ==
  ASSUME NEW in, NEW p, NEW dwellMax, CoreCycle(in, p, dwellMax)
  PROVE  ArmingThrustIsSessions(p)
<1> DEFINE t == TargetOf(in, p)
           v == ramp.value
           w == ramp'.value
<1>1. SUFFICES ASSUME state # "ARMED", state' = "ARMED", Magnitude(w) > Magnitude(v)
               PROVE  /\ spot_lock'.substate = "ACTIVE"
                      /\ Magnitude(w) <= SessionCap(spot_lock'.source, p)
                      /\ spot_lock'.source = "GOTO" => w > 0
                      /\ spot_lock'.source = "HOLD" => spot_lock.source = "HOLD"
  BY Zenon DEF ArmingThrustIsSessions
<1>2. v \in Int /\ w \in Int /\ ~(Magnitude(w) <= Magnitude(v))
  BY <1>1, ThrustIsInt DEF Magnitude
<1>3. t # 0
  BY <1>2, ThrustNext
<1>4. SmOf(in, p).state = "ARMED" /\ state \in SmStates
  BY <1>1, StateNext, CycleFrom
<1>5. SmInputs(in, p, RcOf(in).valid).throttle_neutral
  BY <1>1, <1>4, SmFacts, NextStateArmed
<1>6. spot_lock'.substate # "OFF"
  BY <1>3, <1>5, SmFacts, TargetByOwner
<1>7. t = SlOf(in, p).drive.throttle
  BY <1>6, TargetByOwner
<1>8. SlOf(in, p).drive # Idle
  BY <1>3, <1>7 DEF Idle
<1>9. spot_lock'.substate # "PAUSED" /\ (spot_lock'.source = "HOLD" => spot_lock.source = "HOLD")
  BY <1>8, SpotNext
<1>10. spot_lock'.substate = "ACTIVE"
  BY <1>6, <1>9, SpotNext DEF SpotLockType, SubStates
<1>11. Magnitude(w) <= SessionCap(spot_lock'.source, p)
  BY <1>2, <1>6, CycleCapsSession, Zenon DEF SessionCappedBy
<1>12. ASSUME spot_lock'.source = "GOTO" PROVE w > 0
  <2>1. t >= 0
    BY <1>7, <1>12, SpotNext, Zenon DEF DriveBounded
  <2>2. /\ w >= 0 \/ w >= v
        /\ v < 0 => w <= 0
    BY <2>1, ThrustNext
  <2> HIDE DEF v, w
  <2> QED
    BY <1>2, <2>2 DEF Magnitude
<1> QED
  BY <1>9, <1>10, <1>11, <1>12

\* The target of a hold is the one of the attempt that took it.
LEMMA CycleKeepsHold ==
  ASSUME NEW in, NEW p, NEW dwellMax, CoreCycle(in, p, dwellMax)
  PROVE  HoldKeepsItsAttempt
<1>1. CASE spot_lock.source = "HOLD" \/ spot_lock'.source # "HOLD"
  BY <1>1, SpotNext DEF HoldKeepsItsAttempt
<1>2. CASE spot_lock.source # "HOLD" /\ spot_lock'.source = "HOLD"
  <2>1. /\ state' = "ARMED" /\ spot_lock'.substate # "OFF" /\ in.ch3_edge
        /\ SticksNeutral(in, p) /\ in.gps_fresh /\ in.gps_fix
    BY <1>2, SpotNext
  <2>2. SmOf(in, p).state = "ARMED" /\ spot_lock' = SlOf(in, p).st
    BY <2>1, StateNext, SpotNext
  <2>3. attempt' = AttemptNext(in, p, SmOf(in, p), SlOf(in, p))
    BY CycleFrom, StepShape
  <2>4. /\ attempt'.ok = (SlOf(in, p).st.source = "HOLD" /\ Drives(SlOf(in, p)))
        /\ attempt'.armed = (SmOf(in, p).state = "ARMED")
        /\ attempt'.sticks_neutral = SticksNeutral(in, p)
        /\ attempt'.gps_fresh = in.gps_fresh /\ attempt'.gps_fix = in.gps_fix
    BY <2>1, <2>3 DEF AttemptNext
  <2> QED
    BY <1>2, <2>1, <2>2, <2>4 DEF Drives, HoldKeepsItsAttempt
<1> QED
  BY <1>1, <1>2

\* No pulse of the calibration is sent before the one that must precede it.
LEMMA CycleCalibratesInOrder ==
  ASSUME NEW in, NEW p, NEW dwellMax, CoreCycle(in, p, dwellMax)
  PROVE  CalibrationInOrder
<1>1. SUFFICES ASSUME state' = "ESC_CALIBRATION"
               PROVE  /\ out'.esc_us = 2000 => /\ state = "ESC_CALIBRATION"
                                               /\ out.esc_us \in {CalibNeutralUs, 2000}
                      /\ out'.esc_us = 1000 => /\ state = "ESC_CALIBRATION"
                                               /\ out.esc_us \in {2000, 1000}
  BY DEF CalibrationInOrder
<1>2. /\ Calibrating(SmOf(in, p)) /\ CalOf(in).exit = "NONE"
      /\ calib_step \in CalibSteps /\ RcOf(in).valid \in BOOLEAN /\ in \in InputType
  BY <1>1, StateNext, CycleFrom
<1>3. /\ out'.esc_us = CalibUsForStep(CalOf(in).step)
      /\ CalOf(in).step \in IF state = "ESC_CALIBRATION"
                              THEN {calib_step, StepAfter(calib_step)} ELSE {"NEUTRAL"}
  BY <1>2, OutNext, CalFacts
<1>4. state = "ESC_CALIBRATION" => calib_step # "DONE" /\ out.esc_us = CalibUsForStep(calib_step)
  BY CycleFrom
<1> QED
  BY <1>2, <1>3, <1>4 DEF CalibSteps, StepAfter, CalibUsForStep, CalibNeutralUs

\* Every cycle keeps the whole contract under its settings.
LEMMA CycleKeepsContract ==
  ASSUME NEW in, NEW p, NEW dwellMax, CoreCycle(in, p, dwellMax)
  PROVE  CoreContract(p)
<1>1. Mode!ModeNext
  BY ArmedCycleDrives, OtherCycleStops DEF Mode!ModeNext
<1> QED
  BY <1>1, CycleRamps, CycleStops, CycleArmsForSession, CycleCapsSession, CycleKeepsHold,
     CycleCalibratesInOrder, Zenon DEF CoreContract
=============================================================================
