-------------------------- MODULE SignalChainProofs --------------------------
(***************************************************************************)
(* Facts about the throttle and servo chains, for every legal setting.     *)
(***************************************************************************)
EXTENDS SignalChain, TLAPS

-----------------------------------------------------------------------------
(* Settings and arithmetic.                                                *)

\* What the range and cross-field checks guarantee of the receiver's settings.
LEMMA RcParams ==
  ASSUME NEW p, ValidParams(p)
  PROVE  /\ p.rc_min_us \in Int /\ p.rc_mid_us \in Int /\ p.rc_max_us \in Int
         /\ p.rc_min_us < p.rc_mid_us /\ p.rc_mid_us < p.rc_max_us
         /\ p.throttle_reverse \in BOOLEAN /\ p.servo_reverse \in BOOLEAN
<1>1. RcFields(p) /\ FieldsInOrder(p)
  BY Zenon DEF ValidParams, FieldsInRange
<1>2. p.rc_min_us < p.rc_mid_us /\ p.rc_mid_us < p.rc_max_us
  BY <1>1, Zenon DEF FieldsInOrder
<1>3. /\ p.rc_min_us \in 800..2200 /\ p.rc_mid_us \in 800..2200 /\ p.rc_max_us \in 800..2200
      /\ p.throttle_reverse \in BOOLEAN /\ p.servo_reverse \in BOOLEAN
  BY <1>1 DEF RcFields
<1> DEFINE lo == p.rc_min_us
           mid == p.rc_mid_us
           hi == p.rc_max_us
<1>4. lo \in Int /\ mid \in Int /\ hi \in Int
  <2>1. lo \in 800..2200 /\ mid \in 800..2200 /\ hi \in 800..2200
    BY <1>3
  <2> HIDE DEF lo, mid, hi
  <2> QED
    BY <2>1
<1> QED
  BY <1>2, <1>3, <1>4

\* ... of the settings of the throttle chain,
LEMMA ThrottleParams ==
  ASSUME NEW p, ValidParams(p)
  PROVE  /\ p.esc_ramp_up_us_per_cycle \in 1..200 /\ p.esc_ramp_down_us_per_cycle \in 1..200
         /\ p.max_throttle_fwd_pct \in 0..100 /\ p.max_throttle_rev_pct \in 0..100
         /\ p.reverse_neutral_dwell_ms \in 0..2000
<1>1. ThrottleFields(p)
  BY Zenon DEF ValidParams, FieldsInRange
<1> QED
  BY <1>1 DEF ThrottleFields

\* ... of the ESC's pulse map,
LEMMA EscParams ==
  ASSUME NEW p, ValidParams(p)
  PROVE  /\ p.esc_neutral_us \in 1400..1600
         /\ p.esc_forward_max_us \in 1000..2000 /\ p.esc_reverse_max_us \in 1000..2000
         /\ p.esc_reverse_max_us < p.esc_neutral_us /\ p.esc_neutral_us < p.esc_forward_max_us
<1>1. EscFields(p) /\ FieldsInOrder(p)
  BY Zenon DEF ValidParams, FieldsInRange
<1>2. p.esc_reverse_max_us < p.esc_neutral_us /\ p.esc_neutral_us < p.esc_forward_max_us
  BY <1>1, Zenon DEF FieldsInOrder
<1> QED
  BY <1>1, <1>2 DEF EscFields

\* ... of the settings of the servo chain,
LEMMA ServoParams ==
  ASSUME NEW p, ValidParams(p)
  PROVE  /\ p.servo_min_us \in 500..2500 /\ p.servo_max_us \in 500..2500
         /\ p.deploy_servo_us \in 500..2500 /\ p.servo_slew_us_per_cycle \in 1..200
         /\ p.servo_trim_us \in -TrimMax..TrimMax /\ p.servo_min_us < p.servo_max_us
<1>1. ServoFields(p) /\ FieldsInOrder(p)
  BY Zenon DEF ValidParams, FieldsInRange
<1>2. p.servo_min_us < p.servo_max_us
  BY <1>1, Zenon DEF FieldsInOrder
<1> QED
  BY <1>1, <1>2 DEF ServoFields

\* ... and of the spot-lock settings.
LEMMA SpotLockParams ==
  ASSUME NEW p, ValidParams(p)
  PROVE  /\ p.spot_lock_deadband_m \in 0..100 /\ p.spot_lock_max_throttle_pct \in 0..100
         /\ p.spot_lock_throttle_gain \in 0..1000 /\ p.spot_lock_servo_gain \in 0..1000
         /\ p.goto_slowdown_distance_m \in 3..200
<1>1. SpotLockFields(p)
  BY Zenon DEF ValidParams, FieldsInRange
<1> QED
  BY <1>1 DEF SpotLockFields

\* A value between two values of the full scale is in the full scale.
LEMMA BetweenInFull ==
  ASSUME NEW a \in -FullScale..FullScale, NEW b \in -FullScale..FullScale, NEW v \in Int,
         b >= a => v \in a..b, b <= a => v \in b..a
  PROVE  v \in -FullScale..FullScale
<1>1. /\ a \in Int /\ a >= -1000 /\ a <= 1000
      /\ b \in Int /\ b >= -1000 /\ b <= 1000
  BY DEF FullScale
<1>2. CASE b >= a
  BY <1>1, <1>2 DEF FullScale
<1>3. CASE b <= a
  BY <1>1, <1>3 DEF FullScale
<1> QED
  BY <1>1, <1>2, <1>3

\* A magnitude is a natural number, zero only for zero.
LEMMA MagnitudeFacts ==
  ASSUME NEW x \in Int
  PROVE  Magnitude(x) \in Nat /\ (Magnitude(x) = 0 <=> x = 0)
  BY DEF Magnitude

\* A value of the full scale is an integer.
LEMMA FullScaleInt ==
  ASSUME NEW x \in -FullScale..FullScale
  PROVE  x \in Int
  BY DEF FullScale

\* A clamped value lies in its window.
LEMMA ClampInWindow ==
  ASSUME NEW x \in Int, NEW lo \in Int, NEW hi \in Int, lo <= hi
  PROVE  Clamp(x, lo, hi) \in lo..hi
  BY DEF Clamp

\* A percentage of the full scale is between 0 and the full scale.
LEMMA PercentInFull ==
  ASSUME NEW pct \in 0..100
  PROVE  PercentOfFull(pct) \in 0..FullScale
  BY DEF PercentOfFull, FullScale

\* Rounded-down division is bounded by what the divisor times the bound exceeds.
LEMMA DivBounded ==
  ASSUME NEW a \in Nat, NEW s \in Nat, s > 0, NEW k \in Nat, a < (k + 1) * s
  PROVE  a \div s \in 0..k
  BY SMTT(30)

\* A product grows with each factor.
LEMMA TimesMonotone ==
  ASSUME NEW m \in Nat, NEW n \in Nat, m <= n, NEW a \in Nat
  PROVE  m * a <= n * a
  BY SMTT(30)

\* Scaling a part of a span to the full scale never exceeds it.
LEMMA ScaleHalfBounded ==
  ASSUME NEW delta \in Int, NEW span \in Nat, span > 0, Magnitude(delta) <= span
  PROVE  ScaleHalf(delta, span) \in -FullScale..FullScale
<1> DEFINE q == (Magnitude(delta) * FullScale + span \div 2) \div span
<1>1. Magnitude(delta) \in Nat
  BY DEF Magnitude
<1>2. q \in 0..FullScale
  <2> DEFINE h == span \div 2
             a == Magnitude(delta) * 1000
  <2>1. h \in Nat /\ h < span
    BY SMT
  <2>2. a \in Nat /\ a <= span * 1000
    BY <1>1, TimesMonotone
  <2>3. a + h \in Nat /\ a + h < (1000 + 1) * span
    <3> HIDE DEF h, a
    <3> QED
      BY <2>1, <2>2
  <2>4. (a + h) \div span \in 0..1000
    <3> HIDE DEF h, a
    <3> QED
      BY <2>3, DivBounded
  <2> QED
    BY <2>4 DEF FullScale
<1>3. Sign(delta) \in {-1, 0, 1}
  BY DEF Sign
<1>4. ScaleHalf(delta, span) = Sign(delta) * q
  BY DEF ScaleHalf
<1> HIDE DEF q
<1> QED
  BY <1>2, <1>3, <1>4 DEF FullScale

\* The normalized stick is within the full scale.
LEMMA NormalizeBounded ==
  ASSUME NEW p, ValidParams(p), NEW raw_us \in Nat
  PROVE  NormalizeUs(raw_us, p) \in -FullScale..FullScale
<1>1. /\ p.rc_min_us \in Int /\ p.rc_mid_us \in Int /\ p.rc_max_us \in Int
      /\ p.rc_min_us < p.rc_mid_us /\ p.rc_mid_us < p.rc_max_us
  BY RcParams
<1>2. CASE raw_us <= p.rc_min_us \/ raw_us >= p.rc_max_us
  <2>1. NormalizeUs(raw_us, p) = -FullScale \/ NormalizeUs(raw_us, p) = FullScale
    BY <1>2, Zenon DEF NormalizeUs
  <2>2. -FullScale \in -FullScale..FullScale /\ FullScale \in -FullScale..FullScale
    BY DEF FullScale
  <2> QED
    BY <2>1, <2>2, Zenon
<1>3. CASE raw_us > p.rc_min_us /\ raw_us < p.rc_mid_us
  <2>1. Magnitude(raw_us - p.rc_mid_us) <= p.rc_mid_us - p.rc_min_us
    BY <1>1, <1>3 DEF Magnitude
  <2>2. ScaleHalf(raw_us - p.rc_mid_us, p.rc_mid_us - p.rc_min_us) \in -FullScale..FullScale
    BY <1>1, <2>1, ScaleHalfBounded
  <2> QED
    BY <1>1, <1>3, <2>2 DEF NormalizeUs
<1>4. CASE raw_us >= p.rc_mid_us /\ raw_us < p.rc_max_us
  <2>1. Magnitude(raw_us - p.rc_mid_us) <= p.rc_max_us - p.rc_mid_us
    BY <1>1, <1>4 DEF Magnitude
  <2>2. ScaleHalf(raw_us - p.rc_mid_us, p.rc_max_us - p.rc_mid_us) \in -FullScale..FullScale
    BY <1>1, <2>1, ScaleHalfBounded
  <2> QED
    BY <1>1, <1>4, <2>2 DEF NormalizeUs
<1> QED
  BY <1>1, <1>2, <1>3, <1>4

\* The dead zone passes the value or stops it.
LEMMA ShapeDeadbandPasses ==
  ASSUME NEW value, NEW deadband_us, NEW p
  PROVE  ShapeDeadband(value, deadband_us, p) \in {0, value}
  BY Zenon DEF ShapeDeadband

\* So the shaped command is within the full scale, too.
LEMMA ShapeCommandBounded ==
  ASSUME NEW p, ValidParams(p), NEW raw_us \in Nat, NEW deadband_us, NEW reverse \in BOOLEAN
  PROVE  ShapeCommand(raw_us, deadband_us, reverse, p) \in -FullScale..FullScale
<1> DEFINE v == NormalizeUs(raw_us, p)
           s == ShapeDeadband(v, deadband_us, p)
<1>1. v \in -FullScale..FullScale
  BY NormalizeBounded
<1>2. s \in {0, v}
  BY ShapeDeadbandPasses
<1>3. s \in -FullScale..FullScale
  <2> HIDE DEF v, s
  <2> QED
    BY <1>1, <1>2 DEF FullScale
<1>4. ShapeCommand(raw_us, deadband_us, reverse, p) = IF reverse THEN -s ELSE s
  BY Zenon DEF ShapeCommand
<1> HIDE DEF v, s
<1> QED
  BY <1>3, <1>4 DEF FullScale

-----------------------------------------------------------------------------
(* The throttle.                                                           *)

\* The power limit keeps the command between its own two limits.
LEMMA PowerLimited ==
  ASSUME NEW p, ValidParams(p), NEW command \in Int
  PROVE  /\ ApplyPowerLimit(command, p)
              \in -PercentOfFull(p.max_throttle_rev_pct)..PercentOfFull(p.max_throttle_fwd_pct)
         /\ ApplyPowerLimit(command, p) \in -FullScale..FullScale
<1> DEFINE lo == PercentOfFull(p.max_throttle_rev_pct)
           hi == PercentOfFull(p.max_throttle_fwd_pct)
<1>1. p.max_throttle_rev_pct \in 0..100 /\ p.max_throttle_fwd_pct \in 0..100
  BY ThrottleParams
<1>2. lo \in 0..FullScale /\ hi \in 0..FullScale
  BY <1>1, PercentInFull
<1>3. ApplyPowerLimit(command, p) = Clamp(command, -lo, hi)
  BY Zenon DEF ApplyPowerLimit
<1> HIDE DEF lo, hi
<1>3a. -lo \in Int /\ hi \in Int /\ -lo <= hi
  BY <1>2 DEF FullScale
<1>4. Clamp(command, -lo, hi) \in -lo..hi
  BY <1>3a, ClampInWindow
<1>5. Clamp(command, -lo, hi) \in -FullScale..FullScale
  <2>1. lo \in Int /\ hi \in Int /\ lo <= 1000 /\ hi <= 1000
    BY <1>2 DEF FullScale
  <2>2. -lo..hi \subseteq -1000..1000
    BY <2>1
  <2> QED
    BY <1>4, <2>2 DEF FullScale
<1> QED
  BY <1>3, <1>4, <1>5 DEF lo, hi

\* The target of the ramp is within the full scale in every mode.
LEMMA ThrottleTargetBounded ==
  ASSUME NEW p, ValidParams(p), NEW raw_us \in Nat, NEW mode,
         NEW spot_lock_cmd \in -FullScale..FullScale
  PROVE  ThrottleTarget(raw_us, mode, spot_lock_cmd, p) \in -FullScale..FullScale
<1> DEFINE c == ShapeCommand(raw_us, p.throttle_deadband_us, p.throttle_reverse, p)
<1>1. p.throttle_reverse \in BOOLEAN
  BY RcParams
<1>2. c \in -FullScale..FullScale
  BY <1>1, ShapeCommandBounded
<1>3. c \in Int
  <2> HIDE DEF c
  <2> QED
    BY <1>2 DEF FullScale
<1>4. ApplyPowerLimit(c, p) \in -FullScale..FullScale
  BY <1>3, PowerLimited
<1>5. 0 \in -FullScale..FullScale
  BY DEF FullScale
<1>6. ThrottleTarget(raw_us, mode, spot_lock_cmd, p)
        \in {0, spot_lock_cmd, ApplyPowerLimit(c, p)}
  BY Zenon DEF ThrottleTarget
<1> QED
  BY <1>4, <1>5, <1>6

\* A step of the ramp goes towards its target, by at most the rate, not past it.
LEMMA RampStepFacts ==
  ASSUME NEW current \in Int, NEW target \in Int, NEW rate \in Nat
  PROVE  LET v == RampStep(current, target, rate)
         IN  /\ v \in Int
             /\ target >= current => v \in current..target
             /\ target <= current => v \in target..current
             /\ v - current \in -rate..rate
  BY DEF RampStep

\* With a neutral stick the target of the ramp is neutral, in every mode.
LEMMA NeutralStickNeutralTarget ==
  ASSUME NEW p, ValidParams(p), NEW raw_us, ThrottleIsNeutral(raw_us, p), NEW mode,
         mode # "SPOT_LOCK", NEW spot_lock_cmd
  PROVE  ThrottleTarget(raw_us, mode, spot_lock_cmd, p) = 0
<1> DEFINE c == ShapeCommand(raw_us, p.throttle_deadband_us, p.throttle_reverse, p)
           lo == PercentOfFull(p.max_throttle_rev_pct)
           hi == PercentOfFull(p.max_throttle_fwd_pct)
<1>1. c = 0
  <2>1. ShapeDeadband(NormalizeUs(raw_us, p), p.throttle_deadband_us, p) = 0
    BY DEF ThrottleIsNeutral
  <2> DEFINE s == ShapeDeadband(NormalizeUs(raw_us, p), p.throttle_deadband_us, p)
  <2>2. c = IF p.throttle_reverse THEN -s ELSE s
    BY Zenon DEF ShapeCommand
  <2> HIDE DEF c, s
  <2>3. 0 \in Int /\ \A x \in Int : -x = 0 <=> x = 0
    OBVIOUS
  <2> QED
    BY <2>1, <2>2, <2>3, Zenon DEF s
<1>2. ApplyPowerLimit(c, p) = 0
  <2>1. p.max_throttle_rev_pct \in 0..100 /\ p.max_throttle_fwd_pct \in 0..100
    BY ThrottleParams
  <2>2. lo \in 0..FullScale /\ hi \in 0..FullScale
    BY <2>1, PercentInFull
  <2>3. ApplyPowerLimit(c, p) = Clamp(c, -lo, hi)
    BY Zenon DEF ApplyPowerLimit
  <2> HIDE DEF c, lo, hi
  <2>4. ~(0 < -lo) /\ ~(0 > hi)
    BY <2>2 DEF FullScale
  <2> QED
    BY <1>1, <2>3, <2>4, Zenon DEF Clamp
<1> QED
  BY <1>2, Zenon DEF ThrottleTarget

\* A step of the ramp that is no reversal: towards its target, faster away from
\* neutral than the accel rate never, towards neutral than the decel rate never.
LEMMA AccelAwareStepFacts ==
  ASSUME NEW p, ValidParams(p), NEW value \in Int, NEW target \in Int,
         ~IsReversing(target, value)
  PROVE  LET v == AccelAwareStep(value, target, p)
         IN  /\ v \in Int
             /\ target >= value => v \in value..target
             /\ target <= value => v \in target..value
             /\ Magnitude(v) > Magnitude(value)
                  => Magnitude(v - value) <= p.esc_ramp_up_us_per_cycle
             /\ ~(Magnitude(v) > Magnitude(value))
                  => Magnitude(v - value) <= p.esc_ramp_down_us_per_cycle
<1> DEFINE up == p.esc_ramp_up_us_per_cycle
           down == p.esc_ramp_down_us_per_cycle
           v == AccelAwareStep(value, target, p)
<1>1. up \in 1..200 /\ down \in 1..200
  BY ThrottleParams
<1>2. v = RampStep(value, target, IF Magnitude(target) >= Magnitude(value) THEN up ELSE down)
  BY Zenon DEF AccelAwareStep
<1> HIDE DEF up, down, v
<1>3. ~(target > 0 /\ value < 0) /\ ~(target < 0 /\ value > 0)
  BY DEF IsReversing, Sign
<1>4. /\ v \in Int
      /\ target >= value => v \in value..target
      /\ target <= value => v \in target..value
  BY <1>1, <1>2 DEF RampStep
<1>5. Magnitude(v) > Magnitude(value) => Magnitude(v - value) <= up
  <2>1. CASE Magnitude(target) >= Magnitude(value)
    BY <1>1, <1>2, <1>3, <2>1 DEF RampStep, Magnitude
  <2>2. CASE ~(Magnitude(target) >= Magnitude(value))
    BY <1>1, <1>2, <1>3, <2>2 DEF RampStep, Magnitude
  <2> QED
    BY <2>1, <2>2
<1>6. ~(Magnitude(v) > Magnitude(value)) => Magnitude(v - value) <= down
  <2>1. CASE Magnitude(target) >= Magnitude(value)
    BY <1>1, <1>2, <1>3, <2>1 DEF RampStep, Magnitude
  <2>2. CASE ~(Magnitude(target) >= Magnitude(value))
    BY <1>1, <1>2, <1>3, <2>2 DEF RampStep, Magnitude
  <2> QED
    BY <2>1, <2>2
<1> QED
  BY <1>4, <1>5, <1>6 DEF up, down, v

\* One step of the ramp, on its value and on its dwell: what it never does.
LEMMA AdvanceRampFacts ==
  ASSUME NEW p, ValidParams(p), NEW value \in -FullScale..FullScale, NEW n \in Nat,
         NEW frames \in 0..n, NEW dwell \in 0..n, dwell > 0 => value = 0,
         NEW target \in -FullScale..FullScale
  PROVE  LET r == AdvanceRamp([value |-> value, dwell |-> dwell], target, frames, p)
         IN  /\ r \in [value : -FullScale..FullScale, dwell : 0..n]
             /\ r.dwell > 0 => r.value = 0
             /\ Magnitude(r.value) > Magnitude(value)
                  => Magnitude(r.value - value) <= p.esc_ramp_up_us_per_cycle
             /\ ~(Magnitude(r.value) > Magnitude(value))
                  => Magnitude(r.value - value) <= p.esc_ramp_down_us_per_cycle
             /\ value > 0 => r.value >= 0
             /\ value < 0 => r.value <= 0
             /\ target = 0 => Magnitude(r.value) <= Magnitude(value)
             /\ target >= 0 => r.value >= 0 \/ r.value >= value
             /\ Magnitude(r.value) <= Magnitude(target) \/ Magnitude(r.value) <= Magnitude(value)
<1> DEFINE ramp == [value |-> value, dwell |-> dwell]
           r == AdvanceRamp(ramp, target, frames, p)
           up == p.esc_ramp_up_us_per_cycle
           down == p.esc_ramp_down_us_per_cycle
<1>1. up \in 1..200 /\ down \in 1..200
  BY ThrottleParams
<1>2. ramp.value = value /\ ramp.dwell = dwell
  OBVIOUS
<1>3. CASE dwell > 0
  <2>1. r = [value |-> 0, dwell |-> dwell - 1]
    BY <1>2, <1>3, Zenon DEF AdvanceRamp
  <2>2. value = 0
    BY <1>3
  <2>3. r.value = 0 /\ r.dwell = dwell - 1
    <3> HIDE DEF r
    <3> QED
      BY <2>1
  <2>4. dwell - 1 \in 0..n /\ 0 \in -FullScale..FullScale
    BY <1>3 DEF FullScale
  <2>5. r \in [value : -FullScale..FullScale, dwell : 0..n]
    BY <2>1, <2>4
  <2> HIDE DEF r, up, down
  <2>6. /\ Magnitude(0) <= Magnitude(0) /\ ~(Magnitude(0) > Magnitude(0)) /\ 0 >= 0
        /\ Magnitude(0 - 0) <= down
    BY <1>1 DEF Magnitude
  <2> QED
    BY <2>2, <2>3, <2>5, <2>6 DEF r, up, down
<1>4. CASE ~(dwell > 0) /\ IsReversing(target, value)
  <2> DEFINE v == RampStep(value, 0, down)
  <2>1. r = [value |-> v, dwell |-> IF v = 0 THEN frames ELSE 0]
    BY <1>2, <1>4, Zenon DEF AdvanceRamp
  <2>2. r.value = v /\ r.dwell = IF v = 0 THEN frames ELSE 0
    <3> HIDE DEF r, v
    <3> QED
      BY <2>1
  <2> HIDE DEF down
  <2>3. /\ v \in Int
        /\ value >= 0 => v \in 0..value
        /\ value <= 0 => v \in value..0
        /\ Magnitude(v - value) <= down
        /\ Magnitude(v) <= Magnitude(value)
    <3>1. value \in Int /\ down \in Nat /\ 0 \in Int
      BY <1>1 DEF FullScale
    <3>2. /\ v \in Int
          /\ 0 >= value => v \in value..0
          /\ 0 <= value => v \in 0..value
          /\ v - value \in -down..down
      BY <3>1, RampStepFacts
    <3> HIDE DEF v
    <3>3. Magnitude(v - value) <= down
      BY <3>1, <3>2 DEF Magnitude
    <3>4. Magnitude(v) <= Magnitude(value)
      BY <3>1, <3>2 DEF Magnitude
    <3> QED
      BY <3>1, <3>2, <3>3, <3>4
  <2> HIDE DEF v
  <2>4. v \in -FullScale..FullScale
    <3>1. value \in Int /\ -1000 <= value /\ value <= 1000
      BY <1>1 DEF FullScale
    <3>2. CASE value >= 0
      <4>1. v \in Int /\ 0 <= v /\ v <= value
        BY <2>3, <3>2
      <4> QED
        BY <4>1, <3>1 DEF FullScale
    <3>3. CASE value < 0
      <4>1. v \in Int /\ value <= v /\ v <= 0
        BY <2>3, <3>1, <3>3
      <4> QED
        BY <4>1, <3>1 DEF FullScale
    <3> QED
      BY <3>1, <3>2, <3>3
  <2>5. r \in [value : -FullScale..FullScale, dwell : 0..n]
    BY <2>1, <2>4
  <2>6. r.dwell > 0 => v = 0
    BY <2>2
  <2>7. /\ ~(Magnitude(v) > Magnitude(value))
        /\ value > 0 => v >= 0
        /\ value < 0 => v <= 0
        /\ target >= 0 => v >= 0 \/ v >= value
    <3>1. value < 0 => v >= value
      BY <2>3 DEF FullScale
    <3>2. value >= 0 => v >= 0
      BY <2>3 DEF FullScale
    <3> QED
      BY <2>3, <3>1, <3>2 DEF FullScale, Magnitude
  <2> HIDE DEF r
  <2> QED
    BY <2>2, <2>3, <2>5, <2>6, <2>7 DEF r, up, down
<1>5. CASE ~(dwell > 0) /\ ~IsReversing(target, value)
  <2> DEFINE v == AccelAwareStep(value, target, p)
  <2>1. r = [value |-> v, dwell |-> 0]
    BY <1>2, <1>5, Zenon DEF AdvanceRamp
  <2>2. r.value = v /\ r.dwell = 0
    <3> HIDE DEF r, v
    <3> QED
      BY <2>1
  <2>3. value \in Int /\ target \in Int
    BY DEF FullScale
  <2>4. /\ v \in Int
        /\ target >= value => v \in value..target
        /\ target <= value => v \in target..value
        /\ Magnitude(v) > Magnitude(value) => Magnitude(v - value) <= up
        /\ ~(Magnitude(v) > Magnitude(value)) => Magnitude(v - value) <= down
    BY <1>5, <2>3, AccelAwareStepFacts
  <2> HIDE DEF v, up, down
  <2>5. v \in -FullScale..FullScale
    BY <2>4, BetweenInFull, Zenon
  <2>6. r \in [value : -FullScale..FullScale, dwell : 0..n]
    BY <2>1, <2>5
  <2>7. ~(0 > 0)
    OBVIOUS
  <2>8. /\ value > 0 => v >= 0
        /\ value < 0 => v <= 0
        /\ target = 0 => Magnitude(v) <= Magnitude(value)
        /\ target >= 0 => v >= 0 \/ v >= value
        /\ Magnitude(v) <= Magnitude(target) \/ Magnitude(v) <= Magnitude(value)
    <3>1. ~(target > 0 /\ value < 0) /\ ~(target < 0 /\ value > 0)
      BY <1>5, <2>3 DEF IsReversing, Sign
    <3> QED
      BY <2>3, <2>4, <3>1 DEF Magnitude
  <2> HIDE DEF r
  <2> QED
    BY <2>2, <2>4, <2>6, <2>7, <2>8 DEF r, up, down
<1> QED
  BY <1>3, <1>4, <1>5 DEF ramp, r, up, down

\* Towards a stop the ramp gives up the whole decel rate in every step, or gets there.
LEMMA StopProgress ==
  ASSUME NEW p, ValidParams(p), NEW value \in -FullScale..FullScale, NEW frames, NEW dwell,
         dwell > 0 => value = 0
  PROVE  LET v == AdvanceRamp([value |-> value, dwell |-> dwell], 0, frames, p).value
         IN  v = 0 \/ Magnitude(v) + p.esc_ramp_down_us_per_cycle <= Magnitude(value)
<1> DEFINE ramp == [value |-> value, dwell |-> dwell]
           r == AdvanceRamp(ramp, 0, frames, p)
           up == p.esc_ramp_up_us_per_cycle
           down == p.esc_ramp_down_us_per_cycle
           s == RampStep(value, 0, IF Magnitude(0) >= Magnitude(value) THEN up ELSE down)
<1>1. value \in Int /\ up \in 1..200 /\ down \in 1..200
  BY ThrottleParams DEF FullScale
<1>2. ~IsReversing(0, value)
  BY <1>1 DEF IsReversing, Sign
<1>3. r = [value |-> 0, dwell |-> dwell - 1] \/ r = [value |-> s, dwell |-> 0]
  BY <1>2 DEF AdvanceRamp, AccelAwareStep
<1>4. s = 0 \/ Magnitude(s) + down <= Magnitude(value)
  <2> HIDE DEF up, down
  <2> QED BY <1>1 DEF RampStep, Magnitude
<1> HIDE DEF r, s, down
<1>5. r.value = 0 \/ r.value = s
  BY <1>3
<1> QED BY <1>4, <1>5 DEF r, down

-----------------------------------------------------------------------------
(* Pulse widths.                                                           *)

\* A normalized value maps into the span it is given.
LEMMA MapBounded ==
  ASSUME NEW value \in -FullScale..FullScale, NEW min_us \in Int, NEW center_us \in Int,
         NEW max_us \in Int, min_us <= center_us, center_us <= max_us
  PROVE  MapNormalizedToUs(value, min_us, center_us, max_us) \in min_us..max_us
<1> DEFINE span == IF value < 0 THEN center_us - min_us ELSE max_us - center_us
           q == (span * Magnitude(value) + 500) \div 1000
<1>1. value \in Int /\ Magnitude(value) \in Nat /\ Magnitude(value) <= 1000
  BY DEF Magnitude, FullScale
<1>2. span \in Nat
  BY <1>1
<1>3. q \in 0..span
  <2> DEFINE m == Magnitude(value)
  <2>1. m \in Nat /\ m <= 1000
    BY <1>1
  <2> HIDE DEF span, m
  <2>2. m * span <= 1000 * span
    BY <1>2, <2>1, TimesMonotone
  <2>3. span * m = m * span /\ span * m \in Nat
    BY <1>2, <2>1
  <2> DEFINE a == span * m
  <2> HIDE DEF a
  <2>4. a \in Nat /\ a <= 1000 * span
    BY <2>2, <2>3 DEF a
  <2>5. a + 500 \in Nat /\ a + 500 < (span + 1) * 1000
    BY <1>2, <2>4
  <2>6. (a + 500) \div 1000 \in 0..span
    BY <1>2, <2>5, DivBounded
  <2> QED
    BY <2>6 DEF a, m
<1>4. MapNormalizedToUs(value, min_us, center_us, max_us) = center_us + Sign(value) * q
  BY DEF MapNormalizedToUs, FullScale
<1> HIDE DEF q
<1>5. CASE value < 0
  BY <1>1, <1>3, <1>4, <1>5 DEF Sign
<1>6. CASE ~(value < 0)
  BY <1>1, <1>3, <1>4, <1>6 DEF Sign
<1> QED
  BY <1>5, <1>6

\* The ESC pulse of a ramp value lies inside the configured map.
LEMMA EscUsBounded ==
  ASSUME NEW p, ValidParams(p), NEW value \in -FullScale..FullScale
  PROVE  /\ EscUs(value, p) \in EscWindowMin..EscWindowMax
         /\ EscUs(value, p) \in p.esc_reverse_max_us..p.esc_forward_max_us
<1> DEFINE lo == p.esc_reverse_max_us
           mid == p.esc_neutral_us
           hi == p.esc_forward_max_us
           m == MapNormalizedToUs(value, lo, mid, hi)
<1>1. /\ mid \in 1400..1600 /\ lo \in 1000..2000 /\ hi \in 1000..2000
      /\ lo < mid /\ mid < hi
  BY EscParams
<1>2. EscUs(value, p) = ClampPwmUs(m, EscWindowMin, EscWindowMax)
  BY DEF EscUs
<1> HIDE DEF lo, mid, hi
<1>3. /\ lo \in Int /\ mid \in Int /\ hi \in Int
      /\ 1000 <= lo /\ lo <= mid /\ mid <= hi /\ hi <= 2000
  BY <1>1
<1>4. m \in lo..hi
  BY <1>3, MapBounded
<1> HIDE DEF m
<1>5. /\ ClampPwmUs(m, EscWindowMin, EscWindowMax) \in lo..hi
      /\ ClampPwmUs(m, EscWindowMin, EscWindowMax) \in EscWindowMin..EscWindowMax
  BY <1>3, <1>4 DEF ClampPwmUs, Clamp, EscWindowMin, EscWindowMax
<1> QED
  BY <1>2, <1>5, Zenon DEF lo, hi

\* Wherever the servo is sent, it is inside the servo window.
LEMMA ServoTargetBounded ==
  ASSUME NEW p, ValidParams(p), NEW raw_us \in Nat, NEW mode,
         NEW spot_lock_cmd \in -FullScale..FullScale
  PROVE  /\ ServoTargetUs(raw_us, mode, spot_lock_cmd, p) \in ServoWindowMin..ServoWindowMax
         /\ ServoCenterUs(p) \in ServoWindowMin..ServoWindowMax
<1> DEFINE lo == p.servo_min_us
           hi == p.servo_max_us
           mid == ServoCenterUs(p)
           c == IF mode = "SPOT_LOCK" THEN spot_lock_cmd
                ELSE ShapeCommand(raw_us, p.steer_deadband_us, p.servo_reverse, p)
           m == MapNormalizedToUs(c, lo, mid, hi)
<1>1. lo \in 500..2500 /\ hi \in 500..2500 /\ lo < hi
  BY ServoParams
<1>2. mid = (lo + hi) \div 2
  BY DEF ServoCenterUs
<1>3. c \in -FullScale..FullScale
  <2>1. p.servo_reverse \in BOOLEAN
    BY RcParams
  <2>2. ShapeCommand(raw_us, p.steer_deadband_us, p.servo_reverse, p) \in -FullScale..FullScale
    BY <2>1, ShapeCommandBounded
  <2> QED
    BY <2>2, Zenon
<1>4. p.deploy_servo_us \in 500..2500
  BY ServoParams
<1>5. ServoTargetUs(raw_us, mode, spot_lock_cmd, p) \in {mid, p.deploy_servo_us, m}
  BY Zenon DEF ServoTargetUs
<1> HIDE DEF lo, hi, mid, c
<1>6. /\ lo \in Int /\ mid \in Int /\ hi \in Int
      /\ 500 <= lo /\ lo <= mid /\ mid <= hi /\ hi <= 2500
  BY <1>1, <1>2
<1>7. m \in lo..hi
  BY <1>3, <1>6, MapBounded
<1> HIDE DEF m
<1>8. m \in ServoWindowMin..ServoWindowMax /\ mid \in ServoWindowMin..ServoWindowMax
  BY <1>6, <1>7 DEF ServoWindowMin, ServoWindowMax
<1>9. p.deploy_servo_us \in ServoWindowMin..ServoWindowMax
  BY <1>4 DEF ServoWindowMin, ServoWindowMax
<1> QED
  BY <1>5, <1>8, <1>9, Zenon DEF mid

\* So is the slewed pulse width, and what trim and clamp make of it.
LEMMA ServoBounded ==
  ASSUME NEW p, ValidParams(p), NEW raw_us \in Nat, NEW mode,
         NEW spot_lock_cmd \in -FullScale..FullScale, NEW slew \in ServoWindowMin..ServoWindowMax
  PROVE  /\ ServoSlew(slew, raw_us, mode, spot_lock_cmd, p) \in ServoWindowMin..ServoWindowMax
         /\ ServoUs(slew, p) \in ServoWindowMin..ServoWindowMax
<1> DEFINE t == ServoTargetUs(raw_us, mode, spot_lock_cmd, p)
           rate == p.servo_slew_us_per_cycle
           trim == p.servo_trim_us
<1>1. t \in 500..2500
  <2>1. t \in ServoWindowMin..ServoWindowMax
    BY ServoTargetBounded
  <2> HIDE DEF t
  <2> QED
    BY <2>1 DEF ServoWindowMin, ServoWindowMax
<1>2. rate \in 1..200 /\ trim \in Int
  <2>1. rate \in 1..200 /\ trim \in -TrimMax..TrimMax
    BY ServoParams
  <2> HIDE DEF rate, trim
  <2> QED
    BY <2>1 DEF TrimMax
<1>3. /\ ServoSlew(slew, raw_us, mode, spot_lock_cmd, p) = RampStep(slew, t, rate)
      /\ ServoUs(slew, p)
           = ClampPwmUs(IF slew + trim < 0 THEN 0 ELSE slew + trim, ServoWindowMin, ServoWindowMax)
  BY Zenon DEF ServoSlew, ServoUs
<1>4. slew \in 500..2500
  BY DEF ServoWindowMin, ServoWindowMax
<1> HIDE DEF t, rate, trim
<1>5. RampStep(slew, t, rate) \in 500..2500
  BY <1>1, <1>2, <1>4 DEF RampStep
<1>6. ClampPwmUs(IF slew + trim < 0 THEN 0 ELSE slew + trim, 500, 2500) \in 500..2500
  BY <1>2, <1>4 DEF ClampPwmUs, Clamp
<1> QED
  BY <1>3, <1>5, <1>6 DEF ServoWindowMin, ServoWindowMax
=============================================================================
