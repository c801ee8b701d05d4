---------------------------- MODULE ControlCycle ----------------------------
(***************************************************************************)
(* The control cycle under fixed settings and arbitrary inputs: every      *)
(* cycle of the control task samples any inputs of the set Inputs.  This   *)
(* is the open system in which the safety of the core is stated; the       *)
(* inputs the rest of the firmware can produce are a special case of it.   *)
(***************************************************************************)
EXTENDS LoopStep

CONSTANTS
  Params,   \* the active settings
  Inputs    \* the inputs a cycle may sample

ASSUME CycleAssumption == ValidParams(Params) /\ Inputs \subseteq InputType

CycleInit == LoopInit(Params)

Cycle == \E in \in Inputs : LoopStep(in, Params)

CycleSafety == CycleInit /\ [][Cycle]_loopVars

\* The control task is the highest-priority task, released every 20 ms and
\* guarded by the task watchdog: its cycles keep coming.
CycleSpec == CycleSafety /\ WF_loopVars(Cycle)

-----------------------------------------------------------------------------
(* The invariant.                                                          *)

\* The pulse is one of the map in force, but for the calibration and the boot.
CalibrationPulsesConfined == PulseConfinedTo(Params)

\* The inductive invariant: that of the core, with the dwell within the configured one,
\* and the pulse.
CycleInv == CoreInv(ReverseDwellFrames(Params)) /\ CalibrationPulsesConfined

-----------------------------------------------------------------------------
(* Modes and thrust.                                                       *)

\* An ESC that is being calibrated has seen neutral first, whatever NEXT and CANCEL
\* events arrive with entry.
CalibrationPulsesInOrder == [][CalibrationInOrder]_loopVars

\* Thrust changes by at most the configured rates per cycle, in every mode; only entering
\* the ESC calibration drops it at once.
ThrustIsRamped == [][ThrustRampedBy(Params)]_loopVars

\* Every cycle out of ARMED brings the thrust down by the whole decel rate, or to rest: a
\* stop takes at most FullScale over that rate cycles.
StopIsRamped == [][StopsOutOfArmed(Params)]_loopVars

\* The cycle implements the abstract contract on modes, thrust and its owner.
ImplementsControlMode == Mode!ModeSpec

\* Once the unit is out of ARMED the propeller stops, unless it is armed again.
SoftStopCompletes == (state # "ARMED") ~> (ramp.value = 0 \/ state = "ARMED")

-----------------------------------------------------------------------------
(* Spot-lock and goto.                                                     *)

\* A hold holds where it was engaged: its target is the one of an accepted attempt, and
\* stays that. (A hold resumed after the unit left ARMED never let go of the target.)
HoldTargetIsItsAttempts == [][HoldKeepsItsAttempt]_loopVars

\* A session never pushes thrust beyond its own cap, and not at all while paused.
SessionThrustCapped == [][SessionCappedBy(Params)]_loopVars

\* Arming spins the propeller up only for a goto or a hold, never for the stick, and no
\* further than the session's cap.
ArmingSpinsUpOnlyForSession == [][ArmingThrustIsSessions(Params)]_loopVars

-----------------------------------------------------------------------------
(* What comments in the code say of it, and the code does not do.          *)

\* state_machine.h: DEPLOY is left only on a stow request, to DISARMED.
DeployLeftOnlyToDisarmed == [][state = "DEPLOY" => state' \in {"DEPLOY", "DISARMED"}]_loopVars

\* spot_lock.h: a hold is entered on a CH3 edge with neutral sticks and a fresh
\* real fix (every edge is a new attempt, so its sequence number changes).
HoldEngagesOnEdge ==
  [][(spot_lock.substate = "OFF" /\ spot_lock'.substate # "OFF" /\ spot_lock'.source = "HOLD")
       => attempt'.seq # attempt.seq]_loopVars
=============================================================================
