--------------------------- MODULE SettingsProofs ---------------------------
(***************************************************************************)
(* The repairs give settings in force that every rule holds of, whatever   *)
(* was read; the blob codec gives back what it was given; and so the store *)
(* gives back what was saved, after any number of resets.                  *)
(***************************************************************************)
EXTENDS SettingsStore, TLAPS

\* Settings with exactly the fields of settings_params, each in its range.
Typed(p) ==
  /\ p = [f \in Fields |-> p[f]]
  /\ \A f \in Fields : p[f] \in Allowed[f]

RcOrdered(p) == p.rc_min_us < p.rc_mid_us /\ p.rc_mid_us < p.rc_max_us
ServoOrdered(p) == p.servo_min_us < p.servo_max_us
EscOrdered(p) ==
  p.esc_reverse_max_us < p.esc_neutral_us /\ p.esc_neutral_us < p.esc_forward_max_us

Safe(p) == Typed(p) /\ RcOrdered(p) /\ ServoOrdered(p) /\ EscOrdered(p)

-----------------------------------------------------------------------------
(* The repairs.                                                            *)

\* The fields, by name.
LEMMA FieldNames ==
  Fields =
    {"rc_min_us", "rc_mid_us", "rc_max_us", "servo_slew_us_per_cycle", "servo_min_us",
     "servo_max_us", "steer_deadband_us", "servo_reverse", "servo_trim_us",
     "esc_ramp_up_us_per_cycle", "esc_ramp_down_us_per_cycle", "throttle_deadband_us",
     "max_throttle_fwd_pct", "max_throttle_rev_pct", "throttle_reverse",
     "esc_neutral_us", "esc_neutral_band_us", "esc_forward_min_us", "esc_forward_max_us",
     "esc_reverse_min_us", "esc_reverse_max_us", "failsafe_timeout_ms",
     "reverse_neutral_dwell_ms", "ch4_mode_switch_enabled", "ch4_switch_threshold_us",
     "deploy_servo_us", "click_window_ms", "spot_lock_deadband_m",
     "spot_lock_max_throttle_pct", "spot_lock_throttle_gain", "spot_lock_servo_gain",
     "goto_comms_timeout_ms", "goto_slowdown_distance_m"}
  BY DEF Fields, Defaults

\* settings_defaults.c keeps the ranges of settings_ranges.h.
LEMMA DefaultsTyped == Typed(Defaults)
<1>1. Defaults = [f \in Fields |-> Defaults[f]]
  BY DEF Defaults, Fields
<1>2.
      /\ Defaults.rc_min_us \in Allowed.rc_min_us
      /\ Defaults.rc_mid_us \in Allowed.rc_mid_us
      /\ Defaults.rc_max_us \in Allowed.rc_max_us
      /\ Defaults.servo_slew_us_per_cycle \in Allowed.servo_slew_us_per_cycle
      /\ Defaults.servo_min_us \in Allowed.servo_min_us
      /\ Defaults.servo_max_us \in Allowed.servo_max_us
      /\ Defaults.steer_deadband_us \in Allowed.steer_deadband_us
      /\ Defaults.servo_reverse \in Allowed.servo_reverse
      /\ Defaults.servo_trim_us \in Allowed.servo_trim_us
      /\ Defaults.esc_ramp_up_us_per_cycle \in Allowed.esc_ramp_up_us_per_cycle
      /\ Defaults.esc_ramp_down_us_per_cycle \in Allowed.esc_ramp_down_us_per_cycle
      /\ Defaults.throttle_deadband_us \in Allowed.throttle_deadband_us
      /\ Defaults.max_throttle_fwd_pct \in Allowed.max_throttle_fwd_pct
      /\ Defaults.max_throttle_rev_pct \in Allowed.max_throttle_rev_pct
      /\ Defaults.throttle_reverse \in Allowed.throttle_reverse
      /\ Defaults.esc_neutral_us \in Allowed.esc_neutral_us
      /\ Defaults.esc_neutral_band_us \in Allowed.esc_neutral_band_us
      /\ Defaults.esc_forward_min_us \in Allowed.esc_forward_min_us
      /\ Defaults.esc_forward_max_us \in Allowed.esc_forward_max_us
      /\ Defaults.esc_reverse_min_us \in Allowed.esc_reverse_min_us
      /\ Defaults.esc_reverse_max_us \in Allowed.esc_reverse_max_us
      /\ Defaults.failsafe_timeout_ms \in Allowed.failsafe_timeout_ms
      /\ Defaults.reverse_neutral_dwell_ms \in Allowed.reverse_neutral_dwell_ms
      /\ Defaults.ch4_mode_switch_enabled \in Allowed.ch4_mode_switch_enabled
      /\ Defaults.ch4_switch_threshold_us \in Allowed.ch4_switch_threshold_us
      /\ Defaults.deploy_servo_us \in Allowed.deploy_servo_us
      /\ Defaults.click_window_ms \in Allowed.click_window_ms
      /\ Defaults.spot_lock_deadband_m \in Allowed.spot_lock_deadband_m
      /\ Defaults.spot_lock_max_throttle_pct \in Allowed.spot_lock_max_throttle_pct
      /\ Defaults.spot_lock_throttle_gain \in Allowed.spot_lock_throttle_gain
      /\ Defaults.spot_lock_servo_gain \in Allowed.spot_lock_servo_gain
      /\ Defaults.goto_comms_timeout_ms \in Allowed.goto_comms_timeout_ms
      /\ Defaults.goto_slowdown_distance_m \in Allowed.goto_slowdown_distance_m
  BY DEF Defaults, Allowed, Pulse, EscPulse, Percent, Gain
<1>3. \A f \in Fields : Defaults[f] \in Allowed[f]
  BY <1>2, FieldNames
<1> QED BY <1>1, <1>3 DEF Typed

\* The defaults keep every order that the control task relies on.
LEMMA DefaultsOrdered == RcOrdered(Defaults) /\ ServoOrdered(Defaults) /\ EscOrdered(Defaults)
  BY DEF RcOrdered, ServoOrdered, EscOrdered, Defaults

\* Field by field, anything becomes typed settings.
LEMMA InRangeTyped ==
  ASSUME NEW p
  PROVE  Typed(InRange(p))
  BY DefaultsTyped DEF InRange, Typed

\* A group put back at its defaults stays typed, whichever group it is.
LEMMA RestoredTyped ==
  ASSUME NEW p, Typed(p), NEW ordered, NEW group
  PROVE  Typed(Restore(p, ordered, group))
  BY DefaultsTyped DEF Restore, Typed

\* The receiver calibration is put in order.
LEMMA RepairRcFacts ==
  ASSUME NEW p, Typed(p)
  PROVE  Typed(RepairRc(p)) /\ RcOrdered(RepairRc(p))
<1>1. Typed(RepairRc(p))
  BY RestoredTyped DEF RepairRc
<1>2. CASE RcOrdered(p)
  BY <1>1, <1>2 DEF RepairRc, Restore, RcOrdered
<1>3. CASE ~RcOrdered(p)
  <2>1. \A f \in {"rc_min_us", "rc_mid_us", "rc_max_us"} : RepairRc(p)[f] = Defaults[f]
    BY <1>3, FieldNames DEF RepairRc, Restore, RcOrdered
  <2> QED BY <1>1, <2>1, DefaultsOrdered DEF RcOrdered
<1> QED BY <1>2, <1>3

\* The servo end points are put in order, and the calibration stays.
LEMMA RepairServoFacts ==
  ASSUME NEW p, Typed(p), RcOrdered(p)
  PROVE  Typed(RepairServo(p)) /\ RcOrdered(RepairServo(p)) /\ ServoOrdered(RepairServo(p))
<1>1. Typed(RepairServo(p))
  BY RestoredTyped DEF RepairServo
<1>2. \A f \in {"rc_min_us", "rc_mid_us", "rc_max_us"} : RepairServo(p)[f] = p[f]
  BY FieldNames DEF RepairServo, Restore
<1>3. RcOrdered(RepairServo(p))
  BY <1>2 DEF RcOrdered
<1>4. CASE ServoOrdered(p)
  BY <1>1, <1>3, <1>4 DEF RepairServo, Restore, ServoOrdered
<1>5. CASE ~ServoOrdered(p)
  <2>1. \A f \in {"servo_min_us", "servo_max_us"} : RepairServo(p)[f] = Defaults[f]
    BY <1>5, FieldNames DEF RepairServo, Restore, ServoOrdered
  <2> QED BY <1>1, <1>3, <2>1, DefaultsOrdered DEF ServoOrdered
<1> QED BY <1>4, <1>5

\* The repair of the forward band leaves both alone.
LEMMA RepairForwardFacts ==
  ASSUME NEW p, Typed(p), RcOrdered(p), ServoOrdered(p)
  PROVE  Typed(RepairForward(p)) /\ RcOrdered(RepairForward(p)) /\ ServoOrdered(RepairForward(p))
<1>1. Typed(RepairForward(p))
  BY RestoredTyped DEF RepairForward
<1>2. \A f \in {"rc_min_us", "rc_mid_us", "rc_max_us", "servo_min_us", "servo_max_us"} : RepairForward(p)[f] = p[f]
  BY FieldNames DEF RepairForward, Restore
<1>3. RcOrdered(RepairForward(p)) /\ ServoOrdered(RepairForward(p))
  BY <1>2 DEF RcOrdered, ServoOrdered
<1> QED BY <1>1, <1>3

\* So does the repair of the reverse band.
LEMMA RepairReverseFacts ==
  ASSUME NEW p, Typed(p), RcOrdered(p), ServoOrdered(p)
  PROVE  Typed(RepairReverse(p)) /\ RcOrdered(RepairReverse(p)) /\ ServoOrdered(RepairReverse(p))
<1>1. Typed(RepairReverse(p))
  BY RestoredTyped DEF RepairReverse
<1>2. \A f \in {"rc_min_us", "rc_mid_us", "rc_max_us", "servo_min_us", "servo_max_us"} : RepairReverse(p)[f] = p[f]
  BY FieldNames DEF RepairReverse, Restore
<1>3. RcOrdered(RepairReverse(p)) /\ ServoOrdered(RepairReverse(p))
  BY <1>2 DEF RcOrdered, ServoOrdered
<1> QED BY <1>1, <1>3

\* The ESC map is put in order, and both stay.
LEMMA RepairEscMapFacts ==
  ASSUME NEW p, Typed(p), RcOrdered(p), ServoOrdered(p)
  PROVE  Typed(RepairEscMap(p)) /\ RcOrdered(RepairEscMap(p)) /\ ServoOrdered(RepairEscMap(p)) /\ EscOrdered(RepairEscMap(p))
<1>1. Typed(RepairEscMap(p))
  BY RestoredTyped DEF RepairEscMap
<1>2. \A f \in {"rc_min_us", "rc_mid_us", "rc_max_us", "servo_min_us", "servo_max_us"} : RepairEscMap(p)[f] = p[f]
  BY FieldNames DEF RepairEscMap, Restore
<1>3. RcOrdered(RepairEscMap(p)) /\ ServoOrdered(RepairEscMap(p))
  BY <1>2 DEF RcOrdered, ServoOrdered
<1>4. CASE EscOrdered(p)
  BY <1>1, <1>3, <1>4 DEF RepairEscMap, Restore, EscOrdered
<1>5. CASE ~EscOrdered(p)
  <2>1. \A f \in {"esc_reverse_max_us", "esc_neutral_us", "esc_forward_max_us"} : RepairEscMap(p)[f] = Defaults[f]
    BY <1>5, FieldNames DEF RepairEscMap, Restore, EscOrdered
  <2> QED BY <1>1, <1>3, <2>1, DefaultsOrdered DEF EscOrdered
<1> QED BY <1>4, <1>5

\* Whatever was read, the repairs give settings that every rule the control task relies
\* on holds of: no repair breaks what an earlier one has put in order.
LEMMA ValidatedSafe ==
  ASSUME NEW p
  PROVE  Safe(Validated(p))
<1> DEFINE ranged == InRange(p)
           rc == RepairRc(ranged)
           servo == RepairServo(rc)
           forward == RepairForward(servo)
           reverse == RepairReverse(forward)
<1>1. Typed(rc) /\ RcOrdered(rc)
  BY InRangeTyped, RepairRcFacts
<1>2. Typed(servo) /\ RcOrdered(servo) /\ ServoOrdered(servo)
  BY <1>1, RepairServoFacts
<1>3. Typed(forward) /\ RcOrdered(forward) /\ ServoOrdered(forward)
  BY <1>2, RepairForwardFacts
<1>4. Typed(reverse) /\ RcOrdered(reverse) /\ ServoOrdered(reverse)
  BY <1>3, RepairReverseFacts
<1>5. Safe(RepairEscMap(reverse))
  BY <1>4, RepairEscMapFacts DEF Safe
<1> QED BY <1>5 DEF Validated

\* What the repairs leave alone is safe.
LEMMA NeedsNoRepairSafe ==
  ASSUME NEW p, NeedsNoRepair(p)
  PROVE  Safe(p)
  BY ValidatedSafe DEF NeedsNoRepair

\* Safe settings are the valid ones of the control loop.
LEMMA SafeIsValid ==
  ASSUME NEW p, Safe(p)
  PROVE  Chain!ValidParams(p)
<1>1. \A f \in Fields : p[f] \in Allowed[f]
  BY DEF Safe, Typed
<1>2. Chain!FieldsInOrder(p)
  BY DEF Safe, RcOrdered, ServoOrdered, EscOrdered, Chain!FieldsInOrder
<1>3. Chain!RcFields(p)
  <2>1. /\ p.rc_min_us \in Allowed.rc_min_us
        /\ p.rc_mid_us \in Allowed.rc_mid_us
        /\ p.rc_max_us \in Allowed.rc_max_us
        /\ p.steer_deadband_us \in Allowed.steer_deadband_us
        /\ p.throttle_deadband_us \in Allowed.throttle_deadband_us
        /\ p.servo_reverse \in Allowed.servo_reverse
        /\ p.throttle_reverse \in Allowed.throttle_reverse
    BY <1>1, FieldNames
  <2> QED BY <2>1 DEF Allowed, Chain!RcFields
<1>4. Chain!ServoFields(p)
  <2>1. /\ p.servo_slew_us_per_cycle \in Allowed.servo_slew_us_per_cycle
        /\ p.servo_min_us \in Allowed.servo_min_us
        /\ p.servo_max_us \in Allowed.servo_max_us
        /\ p.servo_trim_us \in Allowed.servo_trim_us
        /\ p.deploy_servo_us \in Allowed.deploy_servo_us
    BY <1>1, FieldNames
  <2> QED BY <2>1 DEF Allowed, Chain!ServoFields, Pulse, Chain!TrimMax
<1>5. Chain!ThrottleFields(p)
  <2>1. /\ p.esc_ramp_up_us_per_cycle \in Allowed.esc_ramp_up_us_per_cycle
        /\ p.esc_ramp_down_us_per_cycle \in Allowed.esc_ramp_down_us_per_cycle
        /\ p.max_throttle_fwd_pct \in Allowed.max_throttle_fwd_pct
        /\ p.max_throttle_rev_pct \in Allowed.max_throttle_rev_pct
        /\ p.reverse_neutral_dwell_ms \in Allowed.reverse_neutral_dwell_ms
    BY <1>1, FieldNames
  <2> QED BY <2>1 DEF Allowed, Chain!ThrottleFields, Percent
<1>6. Chain!EscFields(p)
  <2>1. /\ p.esc_neutral_us \in Allowed.esc_neutral_us
        /\ p.esc_forward_max_us \in Allowed.esc_forward_max_us
        /\ p.esc_reverse_max_us \in Allowed.esc_reverse_max_us
    BY <1>1, FieldNames
  <2> QED BY <2>1 DEF Allowed, Chain!EscFields, EscPulse
<1>7. Chain!SpotLockFields(p)
  <2>1. /\ p.spot_lock_deadband_m \in Allowed.spot_lock_deadband_m
        /\ p.spot_lock_max_throttle_pct \in Allowed.spot_lock_max_throttle_pct
        /\ p.spot_lock_throttle_gain \in Allowed.spot_lock_throttle_gain
        /\ p.spot_lock_servo_gain \in Allowed.spot_lock_servo_gain
        /\ p.goto_slowdown_distance_m \in Allowed.goto_slowdown_distance_m
    BY <1>1, FieldNames
  <2> QED BY <2>1 DEF Allowed, Chain!SpotLockFields, Percent, Gain
<1>8. Chain!Ch4Fields(p)
  <2>1. /\ p.ch4_mode_switch_enabled \in Allowed.ch4_mode_switch_enabled
        /\ p.click_window_ms \in Allowed.click_window_ms
    BY <1>1, FieldNames
  <2> QED BY <2>1 DEF Allowed, Chain!Ch4Fields
<1> QED BY <1>2, <1>3, <1>4, <1>5, <1>6, <1>7, <1>8 DEF Chain!ValidParams, Chain!FieldsInRange
-----------------------------------------------------------------------------
(* The codec.                                                              *)

\* The values a word can carry.
Fits(f, v) ==
  /\ f \in BoolFields => v \in BOOLEAN
  /\ f \in SignedFields => v \in -300..300
  /\ f \notin BoolFields \cup SignedFields => v \in Nat /\ v < 65536

\* What a field holds fits its word: a flag, a signed trim, or sixteen bits.
LEMMA FieldKinds ==
  ASSUME NEW f \in Fields, NEW v \in Allowed[f]
  PROVE  Fits(f, v)
<1>1. CASE f \in BoolFields
  <2>1. v \in BOOLEAN
    BY <1>1 DEF BoolFields, Allowed
  <2> QED BY <1>1, <2>1 DEF Fits, BoolFields, SignedFields
<1>2. CASE f \in SignedFields
  <2>1. v \in -300..300
    BY <1>2 DEF SignedFields, Allowed
  <2> QED BY <1>2, <2>1 DEF Fits, BoolFields, SignedFields
<1>3. CASE f \in {"rc_min_us", "rc_mid_us", "rc_max_us", "ch4_switch_threshold_us"}
  <2>1. v \in 800..2200
    BY <1>3 DEF Allowed, Pulse, EscPulse, Percent, Gain
  <2> QED BY <1>3, <2>1 DEF Fits, BoolFields, SignedFields
<1>4. CASE f \in {"servo_slew_us_per_cycle", "esc_ramp_up_us_per_cycle",
                  "esc_ramp_down_us_per_cycle"}
  <2>1. v \in 1..200
    BY <1>4 DEF Allowed, Pulse, EscPulse, Percent, Gain
  <2> QED BY <1>4, <2>1 DEF Fits, BoolFields, SignedFields
<1>5. CASE f \in {"servo_min_us", "servo_max_us", "deploy_servo_us"}
  <2>1. v \in 500..2500
    BY <1>5 DEF Allowed, Pulse, EscPulse, Percent, Gain
  <2> QED BY <1>5, <2>1 DEF Fits, BoolFields, SignedFields
<1>6. CASE f \in {"steer_deadband_us", "throttle_deadband_us"}
  <2>1. v \in 0..300
    BY <1>6 DEF Allowed, Pulse, EscPulse, Percent, Gain
  <2> QED BY <1>6, <2>1 DEF Fits, BoolFields, SignedFields
<1>7. CASE f \in {"max_throttle_fwd_pct", "max_throttle_rev_pct", "spot_lock_deadband_m",
                  "spot_lock_max_throttle_pct"}
  <2>1. v \in 0..100
    BY <1>7 DEF Allowed, Pulse, EscPulse, Percent, Gain
  <2> QED BY <1>7, <2>1 DEF Fits, BoolFields, SignedFields
<1>8. CASE f \in {"esc_forward_min_us", "esc_forward_max_us", "esc_reverse_min_us",
                  "esc_reverse_max_us"}
  <2>1. v \in 1000..2000
    BY <1>8 DEF Allowed, Pulse, EscPulse, Percent, Gain
  <2> QED BY <1>8, <2>1 DEF Fits, BoolFields, SignedFields
<1>9. CASE f \in {"spot_lock_throttle_gain", "spot_lock_servo_gain"}
  <2>1. v \in 0..1000
    BY <1>9 DEF Allowed, Pulse, EscPulse, Percent, Gain
  <2> QED BY <1>9, <2>1 DEF Fits, BoolFields, SignedFields
<1>10. CASE f \in {"esc_neutral_us"}
  <2>1. v \in 1400..1600
    BY <1>10 DEF Allowed, Pulse, EscPulse, Percent, Gain
  <2> QED BY <1>10, <2>1 DEF Fits, BoolFields, SignedFields
<1>11. CASE f \in {"esc_neutral_band_us"}
  <2>1. v \in 0..200
    BY <1>11 DEF Allowed, Pulse, EscPulse, Percent, Gain
  <2> QED BY <1>11, <2>1 DEF Fits, BoolFields, SignedFields
<1>12. CASE f \in {"failsafe_timeout_ms"}
  <2>1. v \in 20..2000
    BY <1>12 DEF Allowed, Pulse, EscPulse, Percent, Gain
  <2> QED BY <1>12, <2>1 DEF Fits, BoolFields, SignedFields
<1>13. CASE f \in {"reverse_neutral_dwell_ms"}
  <2>1. v \in 0..2000
    BY <1>13 DEF Allowed, Pulse, EscPulse, Percent, Gain
  <2> QED BY <1>13, <2>1 DEF Fits, BoolFields, SignedFields
<1>14. CASE f \in {"click_window_ms"}
  <2>1. v \in 200..1000
    BY <1>14 DEF Allowed, Pulse, EscPulse, Percent, Gain
  <2> QED BY <1>14, <2>1 DEF Fits, BoolFields, SignedFields
<1>15. CASE f \in {"goto_comms_timeout_ms"}
  <2>1. v \in 200..5000
    BY <1>15 DEF Allowed, Pulse, EscPulse, Percent, Gain
  <2> QED BY <1>15, <2>1 DEF Fits, BoolFields, SignedFields
<1>16. CASE f \in {"goto_slowdown_distance_m"}
  <2>1. v \in 3..200
    BY <1>16 DEF Allowed, Pulse, EscPulse, Percent, Gain
  <2> QED BY <1>16, <2>1 DEF Fits, BoolFields, SignedFields
<1>17. \/ f \in BoolFields
       \/ f \in SignedFields
       \/ f \in {"rc_min_us", "rc_mid_us", "rc_max_us", "ch4_switch_threshold_us"}
       \/ f \in {"servo_slew_us_per_cycle", "esc_ramp_up_us_per_cycle",
              "esc_ramp_down_us_per_cycle"}
       \/ f \in {"servo_min_us", "servo_max_us", "deploy_servo_us"}
       \/ f \in {"steer_deadband_us", "throttle_deadband_us"}
       \/ f \in {"max_throttle_fwd_pct", "max_throttle_rev_pct",
              "spot_lock_deadband_m", "spot_lock_max_throttle_pct"}
       \/ f \in {"esc_forward_min_us", "esc_forward_max_us", "esc_reverse_min_us",
              "esc_reverse_max_us"}
       \/ f \in {"spot_lock_throttle_gain", "spot_lock_servo_gain"}
       \/ f \in {"esc_neutral_us"}
       \/ f \in {"esc_neutral_band_us"}
       \/ f \in {"failsafe_timeout_ms"}
       \/ f \in {"reverse_neutral_dwell_ms"}
       \/ f \in {"click_window_ms"}
       \/ f \in {"goto_comms_timeout_ms"}
       \/ f \in {"goto_slowdown_distance_m"}
  BY FieldNames DEF BoolFields, SignedFields
<1> QED
  BY <1>1, <1>2, <1>3, <1>4, <1>5, <1>6, <1>7, <1>8, <1>9, <1>10, <1>11, <1>12, <1>13, <1>14, <1>15, <1>16, <1>17

\* A flag is read as set unless its word is zero.
LEMMA FlagOf ==
  ASSUME NEW f \in BoolFields, NEW w
  PROVE  FieldOf(f, w) = (w # 0)
  BY DEF FieldOf

\* A word gives back the value it was made of.
LEMMA WordFieldOf ==
  ASSUME NEW f \in Fields, NEW v \in Allowed[f]
  PROVE  FieldOf(f, Word(f, v)) = v
<1>1. CASE f \in BoolFields
  <2>1. v = TRUE \/ v = FALSE
    BY <1>1, FieldKinds DEF Fits
  <2>2. ASSUME v = TRUE
        PROVE  FieldOf(f, Word(f, v)) = TRUE
    <3>1. Word(f, v) = 1
      BY <1>1, <2>2 DEF Word
    <3>2. (Word(f, v) # 0) = TRUE
      BY <3>1
    <3>3. FieldOf(f, Word(f, v)) = (Word(f, v) # 0)
      BY <1>1, FlagOf
    <3> QED BY <3>2, <3>3, Zenon
  <2>3. ASSUME v = FALSE
        PROVE  FieldOf(f, Word(f, v)) = FALSE
    <3>1. Word(f, v) = 0
      BY <1>1, <2>3 DEF Word
    <3>2. (Word(f, v) # 0) = FALSE
      BY <3>1
    <3>3. FieldOf(f, Word(f, v)) = (Word(f, v) # 0)
      BY <1>1, FlagOf
    <3> QED BY <3>2, <3>3, Zenon
  <2> QED BY <2>1, <2>2, <2>3
<1>2. CASE f \in SignedFields /\ f \notin BoolFields
  <2>1. v \in -300..300
    BY <1>2, FieldKinds DEF Fits
  <2>2. v % 65536 = IF v < 0 THEN v + 65536 ELSE v
    BY <2>1
  <2> QED BY <1>2, <2>1, <2>2 DEF FieldOf, Word
<1>3. CASE f \notin BoolFields \cup SignedFields
  <2>1. v \in Nat /\ v < 65536
    BY <1>3, FieldKinds DEF Fits
  <2>2. v % 65536 = v
    BY <2>1
  <2> QED BY <1>3, <2>2 DEF FieldOf, Word
<1> QED BY <1>1, <1>2, <1>3

\* blob_codec_decode undoes blob_codec_encode for every settings in range.
THEOREM DecodeEncode ==
  ASSUME NEW p, Typed(p)
  PROVE  Decoded(Encode(p)) = p
<1>1. Decoded(Encode(p)) = [f \in Fields |-> FieldOf(f, Word(f, p[f]))]
  BY DEF Decoded, Encode, Blob, FieldWords
<1>2. \A f \in Fields : FieldOf(f, Word(f, p[f])) = p[f]
  BY WordFieldOf DEF Typed
<1>3. p = [f \in Fields |-> p[f]]
  BY DEF Typed
<1> QED BY <1>1, <1>2, <1>3

\* What was encoded is read, found intact, and repaired or not as it was.
LEMMA EncodedIsResolved ==
  ASSUME NEW p, Typed(p), NEW status, flash = Encode(p), status \in ReadStatuses
  PROVE  /\ ResolveProvenance(status, flash).params = Validated(p)
         /\ (ResolveProvenance(status, flash).source = "NVS") = NeedsNoRepair(p)
<1>1. /\ flash.size = BlobSize
      /\ flash.schema = SchemaVersion
      /\ flash.crc = <<flash.schema, flash.words>>
  BY DEF Encode, Blob
<1>2. flash # NoBlob
  BY <1>1 DEF NoBlob, BlobSize
<1>3. status = "ok"
  BY <1>1, <1>2 DEF ReadStatuses, Intact, BlobSize
<1>4. DecodeVerdict(flash) = "OK"
  BY <1>1 DEF DecodeVerdict
<1>5. ResolveProvenance(status, flash) = ResolveDecoded(flash)
  BY <1>3 DEF ResolveProvenance
<1>6. Decoded(flash) = p
  BY DecodeEncode
<1>7. ResolveDecoded(flash) =
        [params |-> Validated(p), nvs_error |-> FALSE,
         source |-> IF NeedsNoRepair(p) THEN "NVS" ELSE "MIXED"]
  BY <1>4, <1>6 DEF ResolveDecoded
<1> QED BY <1>5, <1>7 DEF NeedsNoRepair
-----------------------------------------------------------------------------
(* The store.                                                              *)

\* What SavedSettingsComeBack needs to be inductive: the settings in force and all that
\* were saved are safe, flash holds one of those it may hold, and between the two calls
\* of a save the settings in force are one of them.
StoreInv ==
  /\ store_at \in {"run", "set"} => Safe(active)
  /\ \A saved \in kept : Safe(saved)
  /\ kept # {} => \E saved \in kept : flash = Encode(saved)
  /\ store_at = "set" /\ kept # {} => active \in kept

\* The load gives the defaults or repaired settings.
LEMMA ResolvedSafe ==
  ASSUME NEW status \in ReadStatuses
  PROVE  Safe(ResolveProvenance(status, flash).params)
<1>1. Safe(Defaults)
  BY DefaultsTyped, DefaultsOrdered DEF Safe
<1>2. status \in {"ok", "error", "not_found"}
  BY DEF ReadStatuses
<1>3. CASE status = "ok"
  <2>1. ResolveProvenance(status, flash) = ResolveDecoded(flash)
    BY <1>3 DEF ResolveProvenance
  <2>2. CASE DecodeVerdict(flash) = "OK"
    <3>1. ResolveDecoded(flash).params = Validated(Decoded(flash))
      BY <2>2 DEF ResolveDecoded
    <3> QED BY <2>1, <3>1, ValidatedSafe
  <2>3. CASE DecodeVerdict(flash) # "OK"
    <3>1. ResolveDecoded(flash).params = Defaults
      BY <2>3 DEF ResolveDecoded, DefaultsReport
    <3> QED BY <1>1, <2>1, <3>1
  <2> QED BY <2>2, <2>3
<1>4. CASE status \in {"error", "not_found"}
  BY <1>1, <1>4 DEF ResolveProvenance, DefaultsReport
<1> QED BY <1>2, <1>3, <1>4

\* A trim keeps safe settings safe.
LEMMA TrimmedSafe ==
  ASSUME NEW p, Safe(p), NEW direction \in {-1, 1}
  PROVE  Safe([p EXCEPT !.servo_trim_us =
                 Chain!ServoTrimStepped(@, direction, StoreTrimStep)])
<1> DEFINE trimmed == Chain!ServoTrimStepped(p.servo_trim_us, direction, StoreTrimStep)
           q == [p EXCEPT !.servo_trim_us = trimmed]
<1>1. p.servo_trim_us \in -300..300
  <2>1. p.servo_trim_us \in Allowed.servo_trim_us
    BY FieldNames DEF Safe, Typed
  <2> QED BY <2>1 DEF Allowed
<1>2. trimmed \in -300..300
  <2>1. StoreTrimStep \in Int
    BY StoreAssumption
  <2>2. direction * StoreTrimStep \in Int
    BY <2>1
  <2>3. \A x \in Int : Chain!Clamp(x, -Chain!TrimMax, Chain!TrimMax) \in -300..300
    BY DEF Chain!Clamp, Chain!TrimMax
  <2>4. \A d \in Int : p.servo_trim_us + d \in Int
    BY <1>1
  <2>5. p.servo_trim_us + direction * StoreTrimStep \in Int
    BY <2>2, <2>4
  <2>6. trimmed = Chain!Clamp(p.servo_trim_us + direction * StoreTrimStep,
                              -Chain!TrimMax, Chain!TrimMax)
    BY DEF Chain!ServoTrimStepped
  <2> QED BY <2>3, <2>5, <2>6, Zenon
<1> HIDE DEF trimmed
<1>3. p = [f \in Fields |-> p[f]]
  BY DEF Safe, Typed
<1>4. q = [f \in Fields |-> IF f = "servo_trim_us" THEN trimmed ELSE p[f]]
  BY <1>3
<1>5. "servo_trim_us" \in Fields /\ Allowed["servo_trim_us"] = -300..300
  BY FieldNames DEF Allowed
<1>6. Typed(q)
  BY <1>2, <1>4, <1>5 DEF Safe, Typed
<1>7. \A f \in Fields : f # "servo_trim_us" => q[f] = p[f]
  BY <1>4
<1>8. RcOrdered(q) /\ ServoOrdered(q) /\ EscOrdered(q)
  BY <1>7, FieldNames DEF Safe, RcOrdered, ServoOrdered, EscOrdered
<1> QED BY <1>6, <1>8 DEF Safe, trimmed

\* The store starts with nothing saved.
LEMMA StoreInitInv ==
  StoreInit => StoreInv
  BY DEF StoreInit, StoreInv

\* Every step keeps the invariant: edits and trims keep safe settings safe, a save adds to
\* what flash may hold before it touches flash, and everything else forgets it.
LEMMA StoreStepInv ==
  StoreInv /\ [StoreNext]_storeVars => StoreInv'
<1> SUFFICES ASSUME StoreInv, [StoreNext]_storeVars
             PROVE  StoreInv'
  OBVIOUS
<1>1. CASE InitPartition
  BY <1>1 DEF InitPartition, StoreInv
<1>2. CASE LoadSettings
  <2>1. Safe(active')
    BY <1>2, ResolvedSafe DEF LoadSettings
  <2> QED BY <1>2, <2>1 DEF LoadSettings, StoreInv
<1>3. CASE EditSettings
  <2>1. Safe(active')
    BY <1>3, NeedsNoRepairSafe DEF EditSettings
  <2> QED BY <1>3, <2>1 DEF EditSettings, StoreInv
<1>4. CASE TrimSettings
  <2>1. Safe(active')
    BY <1>4, TrimmedSafe DEF TrimSettings, StoreInv
  <2> QED BY <1>4, <2>1 DEF TrimSettings, StoreInv
<1>5. CASE SetBlob
  <2>1. Safe(active) /\ active' = active
    BY <1>5 DEF SetBlob, StoreInv
  <2>2. CASE kept = {}
    BY <1>5, <2>1, <2>2 DEF SetBlob, StoreInv
  <2>3. CASE kept # {}
    <3>1. kept' = kept \cup {active}
      BY <1>5, <2>3 DEF SetBlob
    <3>2. \E saved \in kept' : flash' = Encode(saved)
      BY <1>5, <2>3, <3>1 DEF SetBlob, StoreInv
    <3> QED BY <2>1, <3>1, <3>2 DEF StoreInv
  <2> QED BY <2>2, <2>3
<1>6. CASE CommitBlob
  <2>1. Safe(active) /\ active' = active /\ store_at' = "run"
    BY <1>6 DEF CommitBlob, StoreInv
  <2>2. CASE flash' = Encode(active) /\ kept' = {active}
    BY <2>1, <2>2 DEF StoreInv
  <2>3. CASE flash' \in {flash, Encode(active)} /\ UNCHANGED kept
    <3>1. kept # {} => active \in kept
      BY <1>6 DEF CommitBlob, StoreInv
    <3>2. kept' # {} => \E saved \in kept' : flash' = Encode(saved)
      BY <2>3, <3>1 DEF StoreInv
    <3> QED BY <2>1, <2>3, <3>2 DEF StoreInv
  <2> QED BY <1>6, <2>2, <2>3 DEF CommitBlob
<1>7. CASE ResetStore
  BY <1>7 DEF ResetStore, StoreInv
<1>8. CASE Rots
  BY <1>8 DEF Rots, StoreInv
<1>9. CASE Reflashed
  BY <1>9 DEF Reflashed, StoreInv
<1>10. CASE PartitionRefused
  BY <1>10 DEF PartitionRefused, StoreInv
<1>11. CASE UNCHANGED storeVars
  BY <1>11 DEF storeVars, StoreInv
<1> QED BY <1>1, <1>2, <1>3, <1>4, <1>5, <1>6, <1>7, <1>8, <1>9, <1>10, <1>11 DEF StoreNext

\* The invariant of the store holds for every edit, foreign blob and rotten word.
THEOREM StoreInvariant == StoreSpec => []StoreInv
  BY StoreInitInv, StoreStepInv, PTL DEF StoreSpec

\* For every edit, every blob another build may leave and everything that may rot, the
\* settings in force satisfy the ranges and orders the control task relies on.
THEOREM RunningSettings == StoreSpec => []RunningSettingsAreSafe
<1>1. StoreInv => RunningSettingsAreSafe
  BY SafeIsValid DEF StoreInv, RunningSettingsAreSafe
<1> QED BY <1>1, StoreInvariant, PTL

\* A load after any resets, in the middle of a save too, finds settings that were saved.
THEOREM SavedSettings == StoreSpec => SavedSettingsComeBack
<1> DEFINE Back ==
  Loads /\ kept # {} =>
    \E saved \in kept : /\ active' = Validated(saved)
                        /\ (report'.source = "NVS") = NeedsNoRepair(saved)
<1>1. StoreInv /\ [StoreNext]_storeVars => Back
  <2> SUFFICES ASSUME StoreInv, [StoreNext]_storeVars, Loads, kept # {}
               PROVE  \E saved \in kept : /\ active' = Validated(saved)
                                          /\ (report'.source = "NVS") = NeedsNoRepair(saved)
    OBVIOUS
  <2>1. LoadSettings
    BY DEF Loads, StoreNext, storeVars, InitPartition, EditSettings, TrimSettings, SetBlob,
           CommitBlob, ResetStore, Rots, Reflashed, PartitionRefused
  <2>2. PICK status \in ReadStatuses :
          /\ active' = ResolveProvenance(status, flash).params
          /\ report' = Report(ResolveProvenance(status, flash))
    BY <2>1 DEF LoadSettings
  <2>3. PICK saved \in kept : flash = Encode(saved)
    BY DEF StoreInv
  <2>4. Typed(saved)
    BY <2>3 DEF StoreInv, Safe
  <2>5. /\ ResolveProvenance(status, flash).params = Validated(saved)
        /\ (ResolveProvenance(status, flash).source = "NVS") = NeedsNoRepair(saved)
    BY <2>3, <2>4, EncodedIsResolved
  <2>6. report'.source = ResolveProvenance(status, flash).source
    BY <2>2 DEF Report
  <2> QED BY <2>2, <2>5, <2>6
<1>2. StoreInv /\ [StoreNext]_storeVars => [Back]_storeVars
  BY <1>1
<1> QED BY <1>2, StoreInvariant, PTL DEF StoreSpec, SavedSettingsComeBack
=============================================================================
