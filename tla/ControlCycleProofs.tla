-------------------------- MODULE ControlCycleProofs --------------------------
(***************************************************************************)
(* The control cycle keeps its invariant and its action properties, for    *)
(* every legal setting and every set of inputs, and a reversal rests its   *)
(* dwell.  What one cycle does is proved in LoopStepProofs; here it is put *)
(* together over the histories of the cycle.                               *)
(***************************************************************************)
EXTENDS CycleMonitor, LoopStepProofs

\* The dwell of the settings is a number of cycles.
LEMMA DwellIsNat == ReverseDwellFrames(Params) \in Nat
<1> DEFINE longest == ReverseDwellFrames([reverse_neutral_dwell_ms |-> 2000])
<1>1. ReverseDwellFrames(Params) \in 0..longest
  BY CycleAssumption, DwellFramesIsNat
<1> HIDE DEF longest
<1> QED BY <1>1

\* A cycle of this system, from a state of the invariant, is one of the core.
LEMMA IsCoreCycle ==
  ASSUME CycleInv, NEW in \in Inputs, LoopStep(in, Params)
  PROVE  CoreCycle(in, Params, ReverseDwellFrames(Params))
<1> DEFINE frames == ReverseDwellFrames(Params)
<1>1. frames \in Nat /\ ValidParams(Params) /\ in \in InputType
  BY CycleAssumption, DwellIsNat
<1>2. CoreInv(frames)
  BY Zenon DEF CycleInv
<1> HIDE DEF frames
<1>3. frames \in 0..frames
  BY <1>1
<1> QED BY <1>1, <1>2, <1>3, Zenon DEF CoreCycle, frames

\* The state at boot satisfies the invariant.
LEMMA InitInv == CycleInit => CycleInv
<1>1. CycleInit => CoreInv(ReverseDwellFrames(Params))
  BY CycleAssumption, DwellIsNat, CoreInit DEF CycleInit
<1>2. CycleInit => CalibrationPulsesConfined
  BY DEF CycleInit, LoopInit, OutBoot, CalibrationPulsesConfined, PulseConfinedTo
<1> QED BY <1>1, <1>2 DEF CycleInv

\* Every step keeps it.
LEMMA StepKeepsInv == CycleInv /\ [Cycle]_loopVars => CycleInv'
<1> SUFFICES ASSUME CycleInv, [Cycle]_loopVars
             PROVE  CycleInv'
  OBVIOUS
<1>1. ASSUME NEW in \in Inputs, LoopStep(in, Params)
      PROVE  CycleInv'
  <2>1. CoreCycle(in, Params, ReverseDwellFrames(Params))
    BY <1>1, IsCoreCycle
  <2>2. CoreInv(ReverseDwellFrames(Params))'
    BY <2>1, CycleKeepsCore
  <2>3. CalibrationPulsesConfined'
    BY <2>1, PulseNext DEF CalibrationPulsesConfined, PulseConfinedTo
  <2> QED BY <2>2, <2>3 DEF CycleInv
<1>2. ASSUME UNCHANGED loopVars
      PROVE  CycleInv'
  <2>1. CoreInv(ReverseDwellFrames(Params))'
    BY <1>2, CoreStutter DEF CycleInv
  <2>2. CalibrationPulsesConfined'
    BY <1>2 DEF CycleInv, CalibrationPulsesConfined, PulseConfinedTo, loopVars
  <2> QED BY <2>1, <2>2 DEF CycleInv
<1> QED BY <1>1, <1>2 DEF Cycle

\* The inductive invariant holds in every state the core can reach, for every legal
\* setting and whatever the link, the sticks, the sensors and the panel do.
THEOREM CycleInvariant == CycleSafety => []CycleInv
BY InitInv, StepKeepsInv, PTL DEF CycleSafety

\* The unit is in FAILSAFE exactly while the debounced link is lost.
THEOREM FailsafeTracksLink == CycleSafety => []FailsafeIffLinkLost
<1>1. CycleInv => FailsafeIffLinkLost
  BY DEF CycleInv, CoreInv
<1> QED BY <1>1, CycleInvariant, PTL

\* No pulse outside the configured ESC map is sent outside ESC_CALIBRATION, but the
\* one of the boot.
THEOREM PulsesConfined == CycleSafety => []CalibrationPulsesConfined
<1>1. CycleInv => CalibrationPulsesConfined
  BY DEF CycleInv
<1> QED BY <1>1, CycleInvariant, PTL

\* Spot-lock and goto are engaged only in ARMED, and never without a source.
THEOREM SessionsNeedArmed == CycleSafety => []EngagedOnlyWhenArmed
<1>1. CycleInv => EngagedOnlyWhenArmed
  BY DEF CycleInv, CoreInv
<1> QED BY <1>1, CycleInvariant, PTL

-----------------------------------------------------------------------------
(* Action properties: each is a part of the contract of the core.          *)

\* Every cycle keeps the contract.
LEMMA ContractStep == CycleInv /\ [Cycle]_loopVars => [CoreContract(Params)]_loopVars
<1>1. ASSUME CycleInv, NEW in \in Inputs, LoopStep(in, Params)
      PROVE  CoreContract(Params)
  BY <1>1, IsCoreCycle, CycleKeepsContract
<1> QED BY <1>1 DEF Cycle

\* A hold takes its target over only by an accepted attempt, made in ARMED with neutral
\* sticks and a fresh real fix, and keeps it while it owns it.
THEOREM HoldNeedsAttempt == CycleSafety => HoldTargetIsItsAttempts
<1>1. CycleInv /\ [Cycle]_loopVars => [HoldKeepsItsAttempt]_loopVars
  BY ContractStep DEF CoreContract
<1> QED BY <1>1, CycleInvariant, PTL DEF CycleSafety, HoldTargetIsItsAttempts

\* Thrust changes by at most the configured rates, entry into calibration apart.
THEOREM ThrustRamped == CycleSafety => ThrustIsRamped
<1>1. CycleInv /\ [Cycle]_loopVars => [ThrustRampedBy(Params)]_loopVars
  BY ContractStep DEF CoreContract
<1> QED BY <1>1, CycleInvariant, PTL DEF CycleSafety, ThrustIsRamped

\* Every cycle out of ARMED gives up the whole decel rate, until the propeller rests.
THEOREM StopRamped == CycleSafety => StopIsRamped
<1>1. CycleInv /\ [Cycle]_loopVars => [StopsOutOfArmed(Params)]_loopVars
  BY ContractStep DEF CoreContract
<1> QED BY <1>1, CycleInvariant, PTL DEF CycleSafety, StopIsRamped

\* What the cycle that enters ARMED adds to the thrust is a session's: an active goto's,
\* ahead, or an active hold's, within the cap of the one that drives.
THEOREM ArmingThrust == CycleSafety => ArmingSpinsUpOnlyForSession
<1>1. CycleInv /\ [Cycle]_loopVars => [ArmingThrustIsSessions(Params)]_loopVars
  BY ContractStep DEF CoreContract
<1> QED BY <1>1, CycleInvariant, PTL DEF CycleSafety, ArmingSpinsUpOnlyForSession

\* A session never pushes thrust beyond its cap, nor at all while paused: what is above
\* came from the stick and only decays.
THEOREM SessionCapped == CycleSafety => SessionThrustCapped
<1>1. CycleInv /\ [Cycle]_loopVars => [SessionCappedBy(Params)]_loopVars
  BY ContractStep DEF CoreContract
<1> QED BY <1>1, CycleInvariant, PTL DEF CycleSafety, SessionThrustCapped

\* A calibrating ESC sees neutral, then full forward, then full reverse: no pulse of
\* the sequence is sent before the one that must precede it.
THEOREM PulsesInOrder == CycleSafety => CalibrationPulsesInOrder
<1>1. CycleInv /\ [Cycle]_loopVars => [CalibrationInOrder]_loopVars
  BY ContractStep DEF CoreContract
<1> QED BY <1>1, CycleInvariant, PTL DEF CycleSafety, CalibrationPulsesInOrder

\* The control cycle implements the contract on modes, thrust and its owner: a lost
\* link or a recovered one never arms, only ARMED drives, nothing reverses in one cycle.
THEOREM CycleImplementsMode == CycleSafety => ImplementsControlMode
<1>1. CycleInit => Mode!ModeInit
  BY DEF CycleInit, LoopInit, RampAtRest, SpotLockBoot, Mode!ModeInit
<1>2. CycleInv /\ [Cycle]_loopVars => [Mode!ModeNext]_(Mode!modeVars)
  <2>1. CycleInv /\ [Cycle]_loopVars => Mode!ModeNext \/ UNCHANGED loopVars
    BY ContractStep DEF CoreContract
  <2>2. UNCHANGED loopVars => UNCHANGED Mode!modeVars
    BY DEF loopVars, Mode!modeVars
  <2> QED BY <2>1, <2>2
<1> QED BY <1>1, <1>2, CycleInvariant, PTL DEF CycleSafety, ImplementsControlMode, Mode!ModeSpec

-----------------------------------------------------------------------------
(* The dwell between the two directions of the propeller.                  *)

\* A propeller that a command stopped stands, and has rested the dwell but for what is left
\* of it in the ramp; the calibration ends every such history.
MonitorInv ==
  /\ prop.rest \in 0..DwellFrames
  /\ prop \in [dir : Int, rest : Nat, flipped : BOOLEAN]
  /\ prop.flipped => ramp.value = 0 /\ prop.rest + ramp.dwell >= DwellFrames
  /\ state = "ESC_CALIBRATION" => ~prop.flipped

\* What the history calls a flip is what the ramp takes for one.
LEMMA FlipIsReversal ==
  ASSUME NEW target \in Int, NEW value \in Int, value # 0, Sign(target) = -Sign(value)
  PROVE  IsReversing(target, value)
<1>1. Sign(value) \in {1, -1}
  BY DEF Sign
<1>2. CASE Sign(value) = 1
  BY <1>2 DEF IsReversing
<1>3. CASE Sign(value) = -1
  BY <1>3 DEF IsReversing
<1> QED BY <1>1, <1>2, <1>3

\* Landing out of a reversal starts the whole dwell, and a dwell counts down at rest.
LEMMA DwellNext ==
  ASSUME CycleInv, NEW in \in Inputs, LoopStep(in, Params), ~Calibrating(SmOf(in, Params))
  PROVE  /\ ramp.value # 0 /\ ramp'.value = 0 /\ Commanded(in) = -Sign(ramp.value)
              => ramp'.dwell = DwellFrames
         /\ ramp.dwell > 0 => ramp'.value = 0 /\ ramp'.dwell = ramp.dwell - 1
         /\ ramp.dwell \in Nat /\ ramp'.dwell \in Nat
<1> DEFINE t == TargetOf(in, Params)
<1>0. CoreCycle(in, Params, ReverseDwellFrames(Params))
  BY IsCoreCycle
<1>1. ramp' = AdvanceRamp(ramp, t, DwellFrames, Params)
  BY StepShape, Zenon DEF RampNext, TargetOf, DwellFrames
<1>2. /\ ramp.value \in Int /\ t \in Int
      /\ ramp.dwell > 0 => ramp.value = 0
  BY <1>0, ThrustIsInt, ThrustNext, FullScaleInt, CycleFrom
<1>3. ramp.dwell \in Nat /\ ramp'.dwell \in Nat
  <2> DEFINE frames == ReverseDwellFrames(Params)
  <2>1. ramp \in [value : -FullScale..FullScale, dwell : 0..frames]
    BY <1>0, CycleFrom
  <2>2. ramp' \in [value : -FullScale..FullScale, dwell : 0..frames]
    BY <1>0, ThrustNext
  <2>3. 0..frames \subseteq Nat
    OBVIOUS
  <2> HIDE DEF frames
  <2> QED BY <2>1, <2>2, <2>3
<1>4. Commanded(in) = Sign(t)
  BY Zenon DEF Commanded, TargetOf, RcOf, SmOf, SlOf
<1> HIDE DEF t
<1>5. ramp.dwell > 0 => ramp'.value = 0 /\ ramp'.dwell = ramp.dwell - 1
  BY <1>1 DEF AdvanceRamp
<1>6. ASSUME ramp.value # 0, ramp'.value = 0, Commanded(in) = -Sign(ramp.value)
      PROVE  ramp'.dwell = DwellFrames
  <2>1. IsReversing(t, ramp.value) /\ ~(ramp.dwell > 0)
    BY <1>2, <1>4, <1>6, FlipIsReversal
  <2> DEFINE v == RampStep(ramp.value, 0, Params.esc_ramp_down_us_per_cycle)
  <2>2. ramp' = [value |-> v, dwell |-> IF v = 0 THEN DwellFrames ELSE 0]
    BY <1>1, <2>1, Zenon DEF AdvanceRamp
  <2> HIDE DEF v
  <2> QED BY <1>6, <2>2
<1> QED BY <1>3, <1>5, <1>6

\* A cycle, watched.
LEMMA MonitorStep ==
  ASSUME CycleInv, MonitorInv, NEW in \in Inputs, LoopStep(in, Params), prop' = PropNext(in)
  PROVE  /\ MonitorInv'
         /\ SpinsUpBackwards /\ prop.flipped => prop.rest >= DwellFrames
<1>0. CoreCycle(in, Params, ReverseDwellFrames(Params))
  BY IsCoreCycle
<1>1. DwellFrames \in Nat
  BY DwellIsNat DEF DwellFrames
<1>2. /\ ramp.value \in Int /\ ramp'.value \in Int
      /\ Sign(ramp.value) \in Int /\ Sign(ramp'.value) \in Int
  BY <1>0, ThrustIsInt DEF Sign
<1>3. /\ prop.rest \in 0..DwellFrames /\ prop.dir \in Int /\ prop.flipped \in BOOLEAN
      /\ prop \in [dir : Int, rest : Nat, flipped : BOOLEAN]
  BY DEF MonitorInv
<1>4. Calibrating(SmOf(in, Params)) => ramp' = RampAtRest
  BY <1>0, ThrustNext
<1>5. CASE state' = "ESC_CALIBRATION"
  <2>1. prop' = NoSpin
    BY <1>5 DEF PropNext
  <2>2. MonitorInv'
    <3>1. (DwellFrames)' = DwellFrames
      BY DEF DwellFrames
    <3>2. prop'.rest = 0 /\ prop'.flipped = FALSE
          /\ prop' \in [dir : Int, rest : Nat, flipped : BOOLEAN]
      BY <2>1 DEF NoSpin
    <3> QED BY <1>1, <3>1, <3>2 DEF MonitorInv
  <2>3. ~SpinsUpBackwards
    <3>1. Calibrating(SmOf(in, Params))
      BY <1>0, <1>5, StateNext
    <3> QED BY <1>4, <3>1 DEF RampAtRest, SpinsUpBackwards
  <2> QED BY <2>2, <2>3
<1>6. CASE state' # "ESC_CALIBRATION" /\ ramp'.value # 0
  <2>1. prop' = [dir |-> Sign(ramp'.value), rest |-> 0, flipped |-> FALSE]
    BY <1>6, Zenon DEF PropNext
  <2>2. MonitorInv'
    BY <1>1, <1>2, <1>6, <2>1 DEF MonitorInv, DwellFrames
  <2>3. SpinsUpBackwards /\ prop.flipped => prop.rest >= DwellFrames
    <3>1. ~Calibrating(SmOf(in, Params))
      BY <1>4, <1>6 DEF RampAtRest
    <3>2. ramp.dwell \in Nat /\ ~(ramp.dwell > 0)
      BY <1>6, <3>1, DwellNext
    <3>3. ramp.dwell = 0
      BY <3>2
    <3> QED BY <1>1, <1>3, <3>3 DEF MonitorInv
  <2> QED BY <2>2, <2>3
<1>7. CASE state' # "ESC_CALIBRATION" /\ ramp'.value = 0 /\ ramp.value # 0
  <2>1. ~Calibrating(SmOf(in, Params))
    <3>1. ASSUME Calibrating(SmOf(in, Params)) PROVE FALSE
      <4>1. state # "ESC_CALIBRATION"
        BY <1>0, <1>7, CycleFrom DEF RampAtRest
      <4>2. CalOf(in).exit = "NONE"
        BY <1>0, <3>1, <4>1, EntryHasNoExit
      <4> QED BY <1>0, <1>7, <3>1, <4>2, StateNext
    <3> QED BY <3>1
  <2>2. prop' = [dir |-> Sign(ramp.value), rest |-> 0,
                 flipped |-> Commanded(in) = -Sign(ramp.value)]
    BY <1>7, Zenon DEF PropNext
  <2>3. /\ prop'.rest = 0 /\ prop' \in [dir : Int, rest : Nat, flipped : BOOLEAN]
        /\ prop'.flipped => Commanded(in) = -Sign(ramp.value)
    <3> DEFINE b == Commanded(in) = -Sign(ramp.value)
    <3>1. b \in BOOLEAN
      OBVIOUS
    <3>2. prop' = [dir |-> Sign(ramp.value), rest |-> 0, flipped |-> b]
      BY <2>2
    <3> HIDE DEF b
    <3>3. prop'.rest = 0 /\ prop'.flipped = b /\ prop' \in [dir : Int, rest : Nat, flipped : BOOLEAN]
      BY <1>2, <3>1, <3>2
    <3> QED BY <3>3 DEF b
  <2>4. prop'.flipped => ramp'.dwell = DwellFrames
    BY <1>7, <2>1, <2>3, DwellNext
  <2> QED BY <1>1, <1>7, <2>3, <2>4 DEF MonitorInv, DwellFrames, SpinsUpBackwards
<1>8. CASE state' # "ESC_CALIBRATION" /\ ramp'.value = 0 /\ ramp.value = 0
  <2> DEFINE rest == IF prop.rest < DwellFrames THEN prop.rest + 1 ELSE prop.rest
  <2>1. prop' = [prop EXCEPT !.rest = rest]
    BY <1>8, Zenon DEF PropNext
  <2>2. rest \in 0..DwellFrames /\ rest \in Nat
    BY <1>1, <1>3
  <2>3. /\ prop'.rest = rest /\ prop'.flipped = prop.flipped
        /\ prop' \in [dir : Int, rest : Nat, flipped : BOOLEAN]
    <3> HIDE DEF rest
    <3> QED BY <1>3, <2>1, <2>2
  <2>4. ASSUME prop.flipped
        PROVE  rest + ramp'.dwell >= DwellFrames
    <3>1. ~Calibrating(SmOf(in, Params))
      <4>1. ASSUME Calibrating(SmOf(in, Params)) PROVE FALSE
        <5>1. state # "ESC_CALIBRATION"
          BY <2>4 DEF MonitorInv
        <5>2. CalOf(in).exit = "NONE"
          BY <1>0, <4>1, <5>1, EntryHasNoExit
        <5> QED BY <1>0, <1>8, <4>1, <5>2, StateNext
      <4> QED BY <4>1
    <3>2. /\ ramp.dwell \in Nat /\ ramp'.dwell \in Nat
          /\ ramp.dwell > 0 => ramp'.dwell = ramp.dwell - 1
      BY <3>1, DwellNext
    <3>3. prop.rest + ramp.dwell >= DwellFrames
      BY <2>4 DEF MonitorInv
    <3> QED BY <1>1, <1>3, <3>2, <3>3
  <2> HIDE DEF rest
  <2> QED BY <1>8, <2>2, <2>3, <2>4 DEF MonitorInv, DwellFrames, SpinsUpBackwards
<1> QED BY <1>5, <1>6, <1>7, <1>8

\* Every history of cycles keeps both invariants.
LEMMA MonitorInvariant == MonitorSpec => [](CycleInv /\ MonitorInv)
<1>1. MonitorInit => CycleInv /\ MonitorInv
  <2>1. MonitorInit => CycleInit /\ prop = NoSpin
    BY DEF MonitorInit
  <2>2. ASSUME prop = NoSpin PROVE MonitorInv
    <3>1. /\ prop.rest = 0 /\ prop.flipped = FALSE
          /\ prop \in [dir : Int, rest : Nat, flipped : BOOLEAN]
      BY <2>2 DEF NoSpin
    <3> QED BY <3>1, DwellIsNat DEF MonitorInv, DwellFrames
  <2> QED BY <2>1, <2>2, InitInv
<1>2. CycleInv /\ MonitorInv /\ [MonitoredCycle]_monitorVars => (CycleInv /\ MonitorInv)'
  <2> SUFFICES ASSUME CycleInv, MonitorInv, [MonitoredCycle]_monitorVars
               PROVE  (CycleInv /\ MonitorInv)'
    OBVIOUS
  <2>1. CASE MonitoredCycle
    BY <2>1, StepKeepsInv, MonitorStep DEF MonitoredCycle, Cycle
  <2>2. CASE UNCHANGED monitorVars
    <3>1. UNCHANGED loopVars /\ UNCHANGED <<prop, ramp, state>>
      BY <2>2 DEF monitorVars, loopVars
    <3> QED BY <3>1, StepKeepsInv DEF MonitorInv, DwellFrames
  <2> QED BY <2>1, <2>2
<1> QED BY <1>1, <1>2, PTL DEF MonitorSpec

\* A propeller that a command stopped rests the whole dwell before it turns the other way,
\* through disarming, link losses and sessions that take the throttle (throttle_chain.c).
THEOREM FlipRests == MonitorSpec => FlipRestsFullDwell
<1>1. CycleInv /\ MonitorInv /\ [MonitoredCycle]_monitorVars
        => [(SpinsUpBackwards /\ prop.flipped) => prop.rest >= DwellFrames]_monitorVars
  BY MonitorStep DEF MonitoredCycle
<1> QED BY <1>1, MonitorInvariant, PTL DEF MonitorSpec, FlipRestsFullDwell
=============================================================================
