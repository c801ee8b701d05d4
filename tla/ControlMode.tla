----------------------------- MODULE ControlMode -----------------------------
(***************************************************************************)
(* What the control cycle promises about propulsion, without sticks,       *)
(* settings, sensors or ramps: which mode may follow which, who may own    *)
(* the thrust, and that thrust is only ever raised, or sent the other way, *)
(* while ARMED.  ControlCycle implements it, and ControlLoop with resets.  *)
(***************************************************************************)
EXTENDS Integers

CONSTANT Full            \* the largest thrust, either direction

VARIABLES
  mode,     \* the control state
  thrust,   \* signed thrust: positive ahead, negative astern
  owner     \* who commands it: "STICK", "HOLD", "GOTO", or "NONE"

modeVars == <<mode, thrust, owner>>

\* The modes a cycle may leave for: FAILSAFE and DEPLOY go back to DISARMED,
\* never straight to ARMED.
Follows(m) ==
  CASE m = "DISARMED" -> {"DISARMED", "ARMED", "FAILSAFE", "ESC_CALIBRATION", "DEPLOY"}
    [] m = "FAILSAFE" -> {"FAILSAFE", "DISARMED"}
    [] OTHER          -> {m, "FAILSAFE", "DISARMED"}

ModeInit == mode = "DISARMED" /\ thrust = 0 /\ owner = "NONE"

\* A cycle that ends ARMED: the owner moves the thrust, but not across neutral,
\* and a goto never increases thrust astern.
Drive ==
  /\ "ARMED" \in Follows(mode) /\ mode' = "ARMED"
  /\ owner' \in {"STICK", "HOLD", "GOTO"}
  /\ thrust' \in -Full..Full
  /\ thrust > 0 => thrust' >= 0
  /\ thrust < 0 => thrust' <= 0
  /\ owner' = "GOTO" => thrust' >= 0 \/ thrust' >= thrust

\* A cycle that ends anywhere else: nobody owns the thrust and it only decays.
Stop ==
  /\ mode' \in Follows(mode) \ {"ARMED"}
  /\ owner' = "NONE"
  /\ thrust' \in -Full..Full
  /\ thrust >= 0 => thrust' >= 0 /\ thrust' <= thrust
  /\ thrust <= 0 => thrust' <= 0 /\ thrust' >= thrust

ModeNext == Drive \/ Stop

\* A reset: the motor is unpowered.
ModeReset == mode' = "DISARMED" /\ thrust' = 0 /\ owner' = "NONE"

ModeSpec == ModeInit /\ [][ModeNext]_modeVars

\* The same over resets at any moment.
ModeResetSpec == ModeInit /\ [][ModeNext \/ ModeReset]_modeVars
=============================================================================
