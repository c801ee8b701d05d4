----------------------------- MODULE SignalChain -----------------------------
(***************************************************************************)
(* The throttle and servo chains (components/signal_chain): from a raw RC  *)
(* pulse width to the pulse width written to the ESC and to the servo.     *)
(* Everything is integer arithmetic in the code and here; p is the record  *)
(* of active settings, with the field names of settings_params.            *)
(***************************************************************************)
EXTENDS Integers

FullScale == 1000            \* SIGNAL_NORMALIZED_FULL_SCALE
LoopPeriodMs == 20           \* CONTROL_LOOP_PERIOD_MS
EscWindowMin == 1000         \* ESC_WINDOW_MIN_US
EscWindowMax == 2000         \* ESC_WINDOW_MAX_US
ServoWindowMin == 500        \* SERVO_WINDOW_MIN_US
ServoWindowMax == 2500       \* SERVO_WINDOW_MAX_US
TrimMax == 300               \* SERVO_TRIM_MAX_US

Magnitude(x) == IF x < 0 THEN -x ELSE x
Sign(x) == IF x > 0 THEN 1 ELSE IF x < 0 THEN -1 ELSE 0
Clamp(x, lo, hi) == IF x < lo THEN lo ELSE IF x > hi THEN hi ELSE x

\* The hard clamp of a pulse, which puts an inverted window right first.
ClampPwmUs(us, min, max) == IF min > max THEN Clamp(us, max, min) ELSE Clamp(us, min, max)

\* What settings_validate guarantees of the settings the chains read: the field
\* ranges of settings_ranges.h, group by group, and the cross-field orders.
RcFields(p) ==
  /\ p.rc_min_us \in 800..2200 /\ p.rc_mid_us \in 800..2200 /\ p.rc_max_us \in 800..2200
  /\ p.steer_deadband_us \in 0..300 /\ p.throttle_deadband_us \in 0..300
  /\ p.servo_reverse \in BOOLEAN /\ p.throttle_reverse \in BOOLEAN

ServoFields(p) ==
  /\ p.servo_slew_us_per_cycle \in 1..200
  /\ p.servo_min_us \in 500..2500 /\ p.servo_max_us \in 500..2500
  /\ p.servo_trim_us \in -TrimMax..TrimMax /\ p.deploy_servo_us \in 500..2500

ThrottleFields(p) ==
  /\ p.esc_ramp_up_us_per_cycle \in 1..200 /\ p.esc_ramp_down_us_per_cycle \in 1..200
  /\ p.max_throttle_fwd_pct \in 0..100 /\ p.max_throttle_rev_pct \in 0..100
  /\ p.reverse_neutral_dwell_ms \in 0..2000

EscFields(p) ==
  /\ p.esc_neutral_us \in 1400..1600
  /\ p.esc_forward_max_us \in 1000..2000 /\ p.esc_reverse_max_us \in 1000..2000

SpotLockFields(p) ==
  /\ p.spot_lock_deadband_m \in 0..100 /\ p.spot_lock_max_throttle_pct \in 0..100
  /\ p.spot_lock_throttle_gain \in 0..1000 /\ p.spot_lock_servo_gain \in 0..1000
  /\ p.goto_slowdown_distance_m \in 3..200

Ch4Fields(p) == p.ch4_mode_switch_enabled \in BOOLEAN /\ p.click_window_ms \in 200..1000

FieldsInRange(p) ==
  /\ RcFields(p) /\ ServoFields(p) /\ ThrottleFields(p) /\ EscFields(p)
  /\ SpotLockFields(p) /\ Ch4Fields(p)

FieldsInOrder(p) ==
  /\ p.rc_min_us < p.rc_mid_us /\ p.rc_mid_us < p.rc_max_us
  /\ p.servo_min_us < p.servo_max_us
  /\ p.esc_reverse_max_us < p.esc_neutral_us /\ p.esc_neutral_us < p.esc_forward_max_us

ValidParams(p) == FieldsInRange(p) /\ FieldsInOrder(p)

-----------------------------------------------------------------------------
(* chain_math.c, ramp.c and safety_clamp.c                                 *)

\* Scale delta, out of span input units, onto the full scale, rounding to
\* nearest and half away from zero.
ScaleHalf(delta, span) ==
  Sign(delta) * ((Magnitude(delta) * FullScale + span \div 2) \div span)

NormalizeUs(raw_us, p) ==
  IF raw_us <= p.rc_min_us THEN -FullScale
  ELSE IF raw_us >= p.rc_max_us THEN FullScale
  ELSE IF raw_us < p.rc_mid_us
         THEN ScaleHalf(raw_us - p.rc_mid_us, p.rc_mid_us - p.rc_min_us)
         ELSE ScaleHalf(raw_us - p.rc_mid_us, p.rc_max_us - p.rc_mid_us)

\* The dead zone is deadband_us of input deflection on the value's own side.
ShapeDeadband(value, deadband_us, p) ==
  LET span == IF value < 0 THEN p.rc_mid_us - p.rc_min_us ELSE p.rc_max_us - p.rc_mid_us
      threshold == IF span <= 0 THEN 0 ELSE ScaleHalf(deadband_us, span)
  IN  IF Magnitude(value) <= threshold THEN 0 ELSE value

ShapeCommand(raw_us, deadband_us, reverse, p) ==
  LET shaped == ShapeDeadband(NormalizeUs(raw_us, p), deadband_us, p)
  IN  IF reverse THEN -shaped ELSE shaped

MapNormalizedToUs(value, min_us, center_us, max_us) ==
  LET span == IF value < 0 THEN center_us - min_us ELSE max_us - center_us
  IN  center_us + Sign(value) * ((span * Magnitude(value) + FullScale \div 2) \div FullScale)

\* One bounded step of current towards target; slew_step is this with one rate.
RampStep(current, target, rate) ==
  IF target > current
    THEN IF current + rate > target THEN target ELSE current + rate
    ELSE IF current - rate < target THEN target ELSE current - rate

-----------------------------------------------------------------------------
(* throttle_chain.c                                                        *)

ThrottleIsNeutral(raw_us, p) ==
  ShapeDeadband(NormalizeUs(raw_us, p), p.throttle_deadband_us, p) = 0

ThrottleIsFullDeflect(raw_us, p) == raw_us <= p.rc_min_us \/ raw_us >= p.rc_max_us

PercentOfFull(pct) == (FullScale * pct) \div 100

\* Asymmetric power limit, applied before the ramp.
ApplyPowerLimit(command, p) ==
  Clamp(command, -PercentOfFull(p.max_throttle_rev_pct), PercentOfFull(p.max_throttle_fwd_pct))

ThrottleTarget(raw_us, mode, spot_lock_cmd, p) ==
  CASE mode = "NEUTRAL"   -> 0
    [] mode = "SPOT_LOCK" -> spot_lock_cmd
    [] OTHER -> ApplyPowerLimit(
                  ShapeCommand(raw_us, p.throttle_deadband_us, p.throttle_reverse, p), p)

\* A flip is requested when the target opposes the current, non-zero spin.
IsReversing(target, current) == Sign(target) * Sign(current) = -1

\* Faulty: the rates are swapped.
AccelAwareStepSwapped(value, target, p) ==
  RampStep(value, target, IF Magnitude(target) >= Magnitude(value)
                            THEN p.esc_ramp_down_us_per_cycle
                            ELSE p.esc_ramp_up_us_per_cycle)

\* Away from neutral at the accel rate, towards it at the decel rate.
AccelAwareStep(value, target, p) ==
  RampStep(value, target, IF Magnitude(target) >= Magnitude(value)
                            THEN p.esc_ramp_up_us_per_cycle
                            ELSE p.esc_ramp_down_us_per_cycle)

\* Faulty: no dwell on landing.
AdvanceRampWithoutDwell(ramp, target, dwell_frames, p) ==
  [value |-> IF IsReversing(target, ramp.value)
               THEN RampStep(ramp.value, 0, p.esc_ramp_down_us_per_cycle)
               ELSE AccelAwareStep(ramp.value, target, p),
   dwell |-> 0]

\* The ramp [value, dwell] after one cycle: wait out a dwell, else slow down to
\* a reversal (arming the dwell on landing), else track the target.
AdvanceRamp(ramp, target, dwell_frames, p) ==
  IF ramp.dwell > 0
    THEN [value |-> 0, dwell |-> ramp.dwell - 1]
  ELSE IF IsReversing(target, ramp.value)
    THEN LET v == RampStep(ramp.value, 0, p.esc_ramp_down_us_per_cycle)
         IN  [value |-> v, dwell |-> IF v = 0 THEN dwell_frames ELSE 0]
  ELSE [value |-> AccelAwareStep(ramp.value, target, p), dwell |-> 0]

\* The anti-plugging dwell in whole cycles, rounded up.
ReverseDwellFrames(p) == (p.reverse_neutral_dwell_ms + LoopPeriodMs - 1) \div LoopPeriodMs

EscUs(value, p) ==
  ClampPwmUs(MapNormalizedToUs(value, p.esc_reverse_max_us, p.esc_neutral_us,
                               p.esc_forward_max_us), EscWindowMin, EscWindowMax)

-----------------------------------------------------------------------------
(* servo_chain.c                                                           *)

ServoCenterUs(p) == (p.servo_min_us + p.servo_max_us) \div 2

SteerIsNeutral(raw_us, p) ==
  ShapeDeadband(NormalizeUs(raw_us, p), p.steer_deadband_us, p) = 0

ServoTargetUs(raw_us, mode, spot_lock_cmd, p) ==
  CASE mode = "CENTER" -> ServoCenterUs(p)
    [] mode = "DEPLOY" -> p.deploy_servo_us
    [] OTHER -> MapNormalizedToUs(
                  IF mode = "SPOT_LOCK" THEN spot_lock_cmd
                    ELSE ShapeCommand(raw_us, p.steer_deadband_us, p.servo_reverse, p),
                  p.servo_min_us, ServoCenterUs(p), p.servo_max_us)

ServoSlew(slew, raw_us, mode, spot_lock_cmd, p) ==
  RampStep(slew, ServoTargetUs(raw_us, mode, spot_lock_cmd, p), p.servo_slew_us_per_cycle)

\* Trim is added to the slewed output, floored at 0, then hard-clamped.
ServoUs(slew, p) ==
  ClampPwmUs(IF slew + p.servo_trim_us < 0 THEN 0 ELSE slew + p.servo_trim_us,
             ServoWindowMin, ServoWindowMax)

\* Faulty: the range is not enforced.
ServoTrimUnbounded(current, dir, step) == current + dir * step

ServoTrimStepped(current, dir, step) == Clamp(current + dir * step, -TrimMax, TrimMax)
=============================================================================
