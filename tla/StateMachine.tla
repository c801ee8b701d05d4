---------------------------- MODULE StateMachine ----------------------------
(***************************************************************************)
(* The pure control state machine (components/state_machine): what one     *)
(* control cycle does to the control state, and the operator-driven ESC    *)
(* calibration sequence.  Both are pure functions in the code; here they   *)
(* are operators, composed into a cycle by module LoopStep.                *)
(*                                                                         *)
(* Here and in the other modules a definition whose comment starts with    *)
(* "Faulty:" is not used: it is a variant of the next one with a mistake,  *)
(* kept to show that the properties would notice it.                       *)
(*                                                                         *)
(* The inputs si of a step are a record                                    *)
(*   rc_valid, throttle_neutral, calib_in_progress, applying : BOOLEAN     *)
(*   req : the set of explicit requests made this cycle.                   *)
(***************************************************************************)

SmStates == {"DISARMED", "ARMED", "FAILSAFE", "ESC_CALIBRATION", "DEPLOY"}

\* The request flags of sm_inputs: a request is in the set iff its flag is true.
Requests == {"arm", "disarm", "calib", "confirm", "deploy", "stow"}

ThrottleModes == {"NEUTRAL", "TRACK", "SPOT_LOCK"}
ServoModes    == {"TRACK", "CENTER", "DEPLOY", "SPOT_LOCK"}

-----------------------------------------------------------------------------
(* The transition function.                                                *)

\* Why arming would be refused, in priority order.
ArmBlockReason(si) ==
  CASE ~si.rc_valid                                -> "NO_RC"
    [] si.rc_valid /\ ~si.throttle_neutral         -> "THROTTLE_NOT_NEUTRAL"
    [] si.rc_valid /\ si.throttle_neutral /\ si.calib_in_progress
                                                   -> "CALIBRATING"
    [] si.rc_valid /\ si.throttle_neutral /\ ~si.calib_in_progress /\ si.applying
                                                   -> "SETTINGS_APPLYING"
    [] OTHER                                       -> "READY"

\* Faulty: the throttle is not checked.
CanArmAtAnyThrottle(si) == "arm" \in si.req /\ si.rc_valid

CanArm(si) == "arm" \in si.req /\ ArmBlockReason(si) = "READY"

CanEnterCalibration(si) ==
  si.rc_valid /\ si.throttle_neutral /\ {"calib", "confirm"} \subseteq si.req /\ ~si.applying

NextFromDisarmed(si) ==
  IF ~si.rc_valid THEN "FAILSAFE"
  ELSE IF CanEnterCalibration(si) THEN "ESC_CALIBRATION"
  ELSE IF "deploy" \in si.req THEN "DEPLOY"
  ELSE IF CanArm(si) THEN "ARMED"
  ELSE "DISARMED"

\* Faulty: a lost link does not leave DEPLOY.
NextFromDeployStays(si) == IF "stow" \in si.req THEN "DISARMED" ELSE "DEPLOY"

NextFromDeploy(si) ==
  IF ~si.rc_valid THEN "FAILSAFE" ELSE IF "stow" \in si.req THEN "DISARMED" ELSE "DEPLOY"

\* Faulty: an arm request beats a disarm request.
NextFromArmedArmWins(si) ==
  IF ~si.rc_valid THEN "FAILSAFE"
  ELSE IF "disarm" \in si.req /\ "arm" \notin si.req THEN "DISARMED" ELSE "ARMED"

NextFromArmed(si) ==
  IF ~si.rc_valid THEN "FAILSAFE" ELSE IF "disarm" \in si.req THEN "DISARMED" ELSE "ARMED"

\* Faulty: a recovered link may arm at once.
NextFromFailsafeArms(si) ==
  IF ~si.rc_valid THEN "FAILSAFE" ELSE IF CanArm(si) THEN "ARMED" ELSE "DISARMED"

NextFromFailsafe(si) == IF si.rc_valid THEN "DISARMED" ELSE "FAILSAFE"

NextFromCalibration(si) == IF si.rc_valid THEN "ESC_CALIBRATION" ELSE "FAILSAFE"

NextState(current, si) ==
  CASE current = "DISARMED"        -> NextFromDisarmed(si)
    [] current = "ARMED"           -> NextFromArmed(si)
    [] current = "FAILSAFE"        -> NextFromFailsafe(si)
    [] current = "ESC_CALIBRATION" -> NextFromCalibration(si)
    [] current = "DEPLOY"          -> NextFromDeploy(si)
    [] OTHER                       -> "FAILSAFE"

\* Faulty: the last throttle is kept when the link is lost.
ThrottleTargetKept(state) == IF state \in {"ARMED", "FAILSAFE"} THEN "TRACK" ELSE "NEUTRAL"

\* Throttle tracks the stick only in ARMED, neutral everywhere else.
ThrottleTargetFor(state) == IF state = "ARMED" THEN "TRACK" ELSE "NEUTRAL"

\* The servo rule, on the already resolved next state.
ServoTargetFor(state, rc_valid) ==
  IF state = "DEPLOY" THEN "DEPLOY" ELSE IF rc_valid THEN "TRACK" ELSE "CENTER"

SmStep(current, si) ==
  LET s == NextState(current, si)
  IN  [state |-> s, throttle_target |-> ThrottleTargetFor(s),
       servo_target |-> ServoTargetFor(s, si.rc_valid)]

-----------------------------------------------------------------------------
(* The ESC calibration sequence: constants the WP880 learns its range from. *)

CalibSteps  == {"NEUTRAL", "FORWARD", "REVERSE", "DONE"}
CalibEvents == {"NONE", "NEXT", "CANCEL"}
CalibExits  == {"NONE", "TO_DISARMED", "TO_FAILSAFE"}

CalibNeutralUs == 1500

CalibUsForStep(step) ==
  CASE step = "FORWARD" -> 2000 [] step = "REVERSE" -> 1000 [] OTHER -> CalibNeutralUs

StepAfter(step) ==
  CASE step = "NEUTRAL" -> "FORWARD" [] step = "FORWARD" -> "REVERSE" [] OTHER -> "DONE"

CalibExit(exit) == [step |-> "DONE", esc_us |-> CalibNeutralUs, exit |-> exit]

\* Faulty: the last step's pulse is held on the way out.
CalibAdvanceHoldsPulse(step, event) ==
  LET next == IF event = "NEXT" THEN StepAfter(step) ELSE step
  IN  [step |-> next, esc_us |-> CalibUsForStep(IF next = "DONE" THEN step ELSE next),
       exit |-> IF next = "DONE" THEN "TO_DISARMED" ELSE "NONE"]

CalibAdvance(step, event) ==
  LET next == IF event = "NEXT" THEN StepAfter(step) ELSE step
  IN  IF next = "DONE" THEN CalibExit("TO_DISARMED")
      ELSE [step |-> next, esc_us |-> CalibUsForStep(next), exit |-> "NONE"]

CalibStepNext(step, event, rc_valid, timeout) ==
  IF ~rc_valid THEN CalibExit("TO_FAILSAFE")
  ELSE IF timeout \/ event = "CANCEL" THEN CalibExit("TO_DISARMED")
  ELSE CalibAdvance(step, event)
=============================================================================
