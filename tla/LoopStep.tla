------------------------------ MODULE LoopStep ------------------------------
(***************************************************************************)
(* The pure core of one control cycle (components/control_loop/src/        *)
(* loop_step.c): debounce the RC link, step the state machine, let the     *)
(* spot-lock regulator override the targets in ARMED, and drive the ESC    *)
(* and the servo through their chains or through the calibration sequence. *)
(*                                                                         *)
(* The variables are the fields of loop_state, which the control task      *)
(* carries from cycle to cycle, and out, the outputs of the last cycle.    *)
(* The module has the action LoopStep(in, p) of one cycle with inputs in   *)
(* and settings p; ControlCycle closes it with free inputs and ControlLoop *)
(* with the mailboxes, switches and latches of the control task.           *)
(***************************************************************************)
EXTENDS StateMachine, SpotLock, RcDebounce

CONSTANTS
  OverrideHoldFrames,  \* SPOT_LOCK_THROTTLE_OVERRIDE_HOLD_FRAMES
  AttemptSeqMod        \* where the uint32_t attempt counter wraps (2^32)

ASSUME LoopStepAssumption ==
  OverrideHoldFrames \in Nat \ {0} /\ AttemptSeqMod \in Nat \ {0}

VARIABLES
  state,        \* sm_state
  rc_debounce,  \* [bad, valid]
  ramp,         \* throttle_ramp: [value, dwell]
  servo_slew,   \* slewed servo pulse width, before trim and clamp
  calib_step,   \* step of the ESC calibration sequence
  spot_lock,    \* [substate, source, ref, override_frames]
  attempt,      \* telemetry of the last CH3 entry attempt
  out           \* outputs of the last cycle: [esc_us, servo_us, goto_latch_clear]

loopVars == <<state, rc_debounce, ramp, servo_slew, calib_step, spot_lock, attempt, out>>

\* The inputs of a cycle.  frame_valid stands for both channels passing
\* channel_valid; req for the request flags; pos and goto_target for positions.
InputType ==
  [frame_valid : BOOLEAN, ch1_us : Nat, ch2_us : Nat, req : SUBSET Requests,
   calib_event : CalibEvents, calib_timeout : BOOLEAN, ch3_on : BOOLEAN, ch3_edge : BOOLEAN,
   gps_fresh : BOOLEAN, gps_fix : BOOLEAN, pos : Int, imu_ok : BOOLEAN, heading : Headings,
   goto_engage : BOOLEAN, goto_target : Int, comms_fresh : BOOLEAN]

AttemptType ==
  [seq : 0..(AttemptSeqMod - 1), ok : BOOLEAN, armed : BOOLEAN, sticks_neutral : BOOLEAN,
   gps_fresh : BOOLEAN, gps_fix : BOOLEAN]

\* What app_main writes to both outputs before anything else runs.
PwmOutNeutralUs == 1500

RampAtRest == [value |-> 0, dwell |-> 0]

SpotLockBoot == [substate |-> "OFF", source |-> "NONE", ref |-> 0, override_frames |-> 0]

AttemptBoot ==
  [seq |-> 0, ok |-> FALSE, armed |-> FALSE, sticks_neutral |-> FALSE, gps_fresh |-> FALSE,
   gps_fix |-> FALSE]

OutBoot ==
  [esc_us |-> PwmOutNeutralUs, servo_us |-> PwmOutNeutralUs, goto_latch_clear |-> FALSE]

LoopInit(p) ==
  /\ state = "DISARMED"        /\ rc_debounce = RcDebounceInit
  /\ ramp = RampAtRest         /\ servo_slew = ServoCenterUs(p)
  /\ calib_step = "NEUTRAL"    /\ spot_lock = SpotLockBoot
  /\ attempt = AttemptBoot     /\ out = OutBoot

\* The same after a reset: nothing of the core survives one.
LoopReset(p) ==
  /\ state' = "DISARMED"       /\ rc_debounce' = RcDebounceInit
  /\ ramp' = RampAtRest        /\ servo_slew' = ServoCenterUs(p)
  /\ calib_step' = "NEUTRAL"   /\ spot_lock' = SpotLockBoot
  /\ attempt' = AttemptBoot    /\ out' = OutBoot

-----------------------------------------------------------------------------
(* The steps of a cycle.  rc_ok is the debounced link, sm the outcome of   *)
(* the state machine, sl that of the spot-lock regulator.                  *)

SmInputs(in, p, rc_ok) ==
  [rc_valid |-> rc_ok, throttle_neutral |-> ThrottleIsNeutral(in.ch2_us, p),
   calib_in_progress |-> state = "ESC_CALIBRATION", applying |-> FALSE, req |-> in.req]

SticksNeutral(in, p) == ThrottleIsNeutral(in.ch2_us, p) /\ SteerIsNeutral(in.ch1_us, p)

SpotLockInputs(in, p) ==
  [armed |-> TRUE, ch3_on |-> in.ch3_on, ch3_edge |-> in.ch3_edge,
   sticks_neutral |-> SticksNeutral(in, p),
   full_deflect |-> ThrottleIsFullDeflect(in.ch2_us, p),
   gps_fresh |-> in.gps_fresh, gps_fix |-> in.gps_fix, imu_ok |-> in.imu_ok,
   pos |-> in.pos, heading |-> in.heading, goto_engage |-> in.goto_engage,
   goto_target |-> in.goto_target, comms_fresh |-> in.comms_fresh]

\* The regulator runs only in ARMED; elsewhere only the sub-state is cleared.
ResolveSpotLock(in, p, sm) ==
  IF sm.state = "ARMED"
    THEN SpotLockStep(SpotLockInputs(in, p), p, spot_lock, OverrideHoldFrames)
    ELSE [st |-> [spot_lock EXCEPT !.substate = "OFF"], drive |-> Idle,
          manual_override |-> FALSE]

Drives(sl) == sl.st.substate # "OFF"

AttemptNext(in, p, sm, sl) ==
  IF ~in.ch3_edge THEN attempt
  ELSE [seq |-> (attempt.seq + 1) % AttemptSeqMod,
        armed |-> sm.state = "ARMED", sticks_neutral |-> SticksNeutral(in, p),
        gps_fresh |-> in.gps_fresh, gps_fix |-> in.gps_fix,
        ok |-> sl.st.source = "HOLD" /\ Drives(sl)]

\* Faulty: CH3 does not end the goto.
GotoLatchClearNotByCh3(in, sm, sl) ==
  sm.state = "ARMED" /\ in.goto_engage /\ sl.manual_override

\* Faulty: the throttle gesture does not end the goto.
GotoLatchClearNotByGesture(in, sm, sl) ==
  sm.state = "ARMED" /\ in.goto_engage /\ in.ch3_on

\* Only a manual abort or a CH3 preempt ends an engaged goto for good.
GotoLatchClear(in, sm, sl) ==
  sm.state = "ARMED" /\ in.goto_engage /\ (sl.manual_override \/ in.ch3_on)

Calibrating(sm) == sm.state = "ESC_CALIBRATION"

\* The entry frame restarts the sequence and ignores the operator's event.
CalibNext(in, rc_ok) ==
  IF state = "ESC_CALIBRATION"
    THEN CalibStepNext(calib_step, in.calib_event, rc_ok, in.calib_timeout)
    ELSE CalibStepNext("NEUTRAL", "NONE", rc_ok, FALSE)

\* The calibration's abort rules may override the state machine.
ControlStateNext(sm, calib) ==
  IF Calibrating(sm) /\ calib.exit # "NONE"
    THEN IF calib.exit = "TO_FAILSAFE" THEN "FAILSAFE" ELSE "DISARMED"
    ELSE sm.state

\* Faulty: a paused session gives the throttle back to the stick.
ThrottleModeStickOnPause(sm, sl) ==
  IF sl.st.substate = "ACTIVE" THEN "SPOT_LOCK" ELSE sm.throttle_target

ThrottleMode(sm, sl) == IF Drives(sl) THEN "SPOT_LOCK" ELSE sm.throttle_target
ServoMode(sm, sl) == IF Drives(sl) THEN "SPOT_LOCK" ELSE sm.servo_target

\* Calibration parks the ramp.
RampNext(in, p, sm, sl) ==
  IF Calibrating(sm) THEN RampAtRest
  ELSE AdvanceRamp(ramp,
                   ThrottleTarget(in.ch2_us, ThrottleMode(sm, sl), sl.drive.throttle, p),
                   ReverseDwellFrames(p), p)

EscNext(p, sm, calib, rampValue) ==
  IF Calibrating(sm) THEN ClampPwmUs(calib.esc_us, EscWindowMin, EscWindowMax)
  ELSE EscUs(rampValue, p)

ServoSlewNext(in, p, sm, sl) ==
  ServoSlew(servo_slew, in.ch1_us, ServoMode(sm, sl), sl.drive.servo, p)

-----------------------------------------------------------------------------
(* One control cycle.                                                      *)

LoopStep(in, p) ==
  LET rc    == RcDebounceUpdate(rc_debounce, in.frame_valid)
      sm    == SmStep(state, SmInputs(in, p, rc.valid))
      sl    == ResolveSpotLock(in, p, sm)
      calib == CalibNext(in, rc.valid)
  IN  /\ rc_debounce' = rc
      /\ state' = ControlStateNext(sm, calib)
      /\ ramp' = RampNext(in, p, sm, sl)
      /\ servo_slew' = ServoSlewNext(in, p, sm, sl)
      /\ calib_step' = IF Calibrating(sm) THEN calib.step ELSE calib_step
      /\ spot_lock' = sl.st
      /\ attempt' = AttemptNext(in, p, sm, sl)
      /\ out' = [esc_us |-> EscNext(p, sm, calib, ramp'.value),
                 servo_us |-> ServoUs(servo_slew', p),
                 goto_latch_clear |-> GotoLatchClear(in, sm, sl)]

-----------------------------------------------------------------------------
(* The invariant of the core.  ControlCycle states it for fixed settings,  *)
(* ControlLoop for the settings of the control task, which change.         *)

\* Every field stays in its domain: the ramp within the normalized full scale, a dwell
\* within dwellMax cycles, the pulses within their windows.
CoreTypeOK(dwellMax) ==
  /\ state \in SmStates
  /\ rc_debounce \in RcDebounceType
  /\ ramp \in [value : -FullScale..FullScale, dwell : 0..dwellMax]
  /\ servo_slew \in ServoWindowMin..ServoWindowMax
  /\ calib_step \in CalibSteps
  /\ spot_lock \in SpotLockType(OverrideHoldFrames - 1)
  /\ attempt \in AttemptType
  /\ out \in [esc_us : EscWindowMin..EscWindowMax, servo_us : ServoWindowMin..ServoWindowMax,
              goto_latch_clear : BOOLEAN]

\* The unit is in FAILSAFE exactly while the debounced RC link is lost, whatever
\* state it was in (ARMED, calibrating, DEPLOY) and whatever was requested.
FailsafeIffLinkLost == (state = "FAILSAFE") <=> ~rc_debounce.valid

\* The calibration constants reach the ESC only in ESC_CALIBRATION: in every other
\* state the pulse lies inside the map of p, or is the one written at boot.
PulseConfinedTo(p) ==
  \/ state = "ESC_CALIBRATION"
  \/ out.esc_us \in p.esc_reverse_max_us..p.esc_forward_max_us
  \/ out.esc_us = PwmOutNeutralUs

\* A session is engaged, driving or paused, only in ARMED and only with a source.
EngagedOnlyWhenArmed ==
  spot_lock.substate # "OFF" => state = "ARMED" /\ spot_lock.source # "NONE"

RestsDuringDwell == ramp.dwell > 0 => ramp.value = 0

RampParkedInCalibration == state = "ESC_CALIBRATION" => ramp = RampAtRest

PulseOfStep ==
  state = "ESC_CALIBRATION" => calib_step # "DONE" /\ out.esc_us = CalibUsForStep(calib_step)

\* The domains and the links between the fields that a cycle needs to keep them: the ramp
\* waits out its dwell at neutral and rests through a calibration, and a calibrating cycle
\* sends the pulse of its step.
CoreInv(dwellMax) ==
  /\ CoreTypeOK(dwellMax) /\ FailsafeIffLinkLost /\ EngagedOnlyWhenArmed
  /\ RestsDuringDwell /\ RampParkedInCalibration /\ PulseOfStep

-----------------------------------------------------------------------------
(* What a cycle with settings p may do.                                    *)

\* The abstract contract on modes, thrust and its owner.
Mode == INSTANCE ControlMode WITH
  Full <- FullScale, mode <- state, thrust <- ramp.value,
  owner <- IF spot_lock.substate # "OFF" THEN spot_lock.source
           ELSE IF state = "ARMED" THEN "STICK" ELSE "NONE"

\* Thrust rises by at most the accel rate and falls by at most the decel rate, in every
\* mode; only entering the ESC calibration drops it at once.
ThrustRampedBy(p) ==
  LET d == Magnitude(ramp'.value - ramp.value)
  IN  IF Magnitude(ramp'.value) > Magnitude(ramp.value)
        THEN d <= p.esc_ramp_up_us_per_cycle
        ELSE d <= p.esc_ramp_down_us_per_cycle
               \/ (state # "ESC_CALIBRATION" /\ state' = "ESC_CALIBRATION")

\* A cycle that ends out of ARMED brings the thrust down by the whole decel rate, or to rest.
StopsOutOfArmed(p) ==
  state' # "ARMED" =>
    \/ ramp'.value = 0
    \/ Magnitude(ramp'.value) + p.esc_ramp_down_us_per_cycle <= Magnitude(ramp.value)

\* The spot-lock percentage caps a hold, the forward power limit a goto.
SessionCap(source, p) ==
  PercentOfFull(IF source = "HOLD" THEN p.spot_lock_max_throttle_pct
                ELSE p.max_throttle_fwd_pct)

\* The cycle that enters ARMED raises the thrust for an active goto or a leftover hold only:
\* the stick adds nothing, nor does a paused session, nor a hold taken in that cycle, which
\* is on target.  A goto commanded while disarmed, or a hold left by the last disarm, does
\* start the propeller in that very cycle, within its cap and the goto ahead only.
ArmingThrustIsSessions(p) ==
  (state # "ARMED" /\ state' = "ARMED" /\ Magnitude(ramp'.value) > Magnitude(ramp.value)) =>
    /\ spot_lock'.substate = "ACTIVE"
    /\ Magnitude(ramp'.value) <= SessionCap(spot_lock'.source, p)
    /\ spot_lock'.source = "GOTO" => ramp'.value > 0
    /\ spot_lock'.source = "HOLD" => spot_lock.source = "HOLD"

\* A session never pushes thrust beyond its own cap, whatever the stick does, and a paused
\* one (GPS or compass lost) never raises it.
SessionCappedBy(p) ==
  spot_lock'.substate # "OFF" =>
    \/ Magnitude(ramp'.value) <= Magnitude(ramp.value)
    \/ /\ spot_lock'.substate # "PAUSED"
       /\ Magnitude(ramp'.value) <= SessionCap(spot_lock'.source, p)

\* The target of a hold never moves while the hold owns it, through sensor pauses, goto
\* commands or a drifting boat; and a hold takes it over only by an accepted CH3 attempt,
\* made armed, with neutral sticks and a fresh real fix.
HoldKeepsItsAttempt ==
  spot_lock'.source = "HOLD" =>
    IF spot_lock.source = "HOLD" THEN spot_lock'.ref = spot_lock.ref
    ELSE /\ attempt'.ok /\ attempt'.armed /\ attempt'.sticks_neutral
         /\ attempt'.gps_fresh /\ attempt'.gps_fix

\* The full-forward pulse of a calibration follows a calibration cycle at neutral or at
\* forward, the full-reverse pulse one at forward or at reverse.
CalibrationInOrder ==
  state' = "ESC_CALIBRATION" =>
    /\ out'.esc_us = 2000 => state = "ESC_CALIBRATION" /\ out.esc_us \in {CalibNeutralUs, 2000}
    /\ out'.esc_us = 1000 => state = "ESC_CALIBRATION" /\ out.esc_us \in {2000, 1000}

CoreContract(p) ==
  /\ Mode!ModeNext /\ ThrustRampedBy(p) /\ StopsOutOfArmed(p)
  /\ ArmingThrustIsSessions(p) /\ SessionCappedBy(p) /\ HoldKeepsItsAttempt /\ CalibrationInOrder
=============================================================================
