---------------------------- MODULE CycleMonitor ----------------------------
(***************************************************************************)
(* The control cycle with a history of the propeller: the direction it     *)
(* last spun, how long it has rested at neutral since, and whether it came *)
(* to rest because the command opposed the spin.                           *)
(***************************************************************************)
EXTENDS ControlCycle

VARIABLE prop   \* [dir, rest, flipped]

monitorVars == <<loopVars, prop>>

DwellFrames == ReverseDwellFrames(Params)

\* The direction the stick, or the session that has the throttle, commands in a cycle.
Commanded(in) ==
  LET rc == RcDebounceUpdate(rc_debounce, in.frame_valid)
      sm == SmStep(state, SmInputs(in, Params, rc.valid))
      sl == ResolveSpotLock(in, Params, sm)
  IN  Sign(ThrottleTarget(in.ch2_us, ThrottleMode(sm, sl), sl.drive.throttle, Params))

NoSpin == [dir |-> 0, rest |-> 0, flipped |-> FALSE]

\* rest counts the cycles held at neutral after the one that landed there, as far
\* as the dwell; the calibration drives the ESC itself and starts a new history.
PropNext(in) ==
  IF state' = "ESC_CALIBRATION" THEN NoSpin
  ELSE IF ramp'.value # 0 THEN [dir |-> Sign(ramp'.value), rest |-> 0, flipped |-> FALSE]
  ELSE IF ramp.value # 0
    THEN [dir |-> Sign(ramp.value), rest |-> 0,
          flipped |-> Commanded(in) = -Sign(ramp.value)]
  ELSE [prop EXCEPT !.rest = IF @ < DwellFrames THEN @ + 1 ELSE @]

MonitorInit == CycleInit /\ prop = NoSpin

MonitoredCycle == \E in \in Inputs : LoopStep(in, Params) /\ prop' = PropNext(in)

MonitorSpec == MonitorInit /\ [][MonitoredCycle]_monitorVars /\ WF_monitorVars(MonitoredCycle)

SpinsUpBackwards == ramp.value = 0 /\ ramp'.value # 0 /\ Sign(ramp'.value) = -prop.dir

\* A propeller stopped by a command against its spin rests the full configured
\* dwell at neutral before it turns the other way, also when it was disarmed, lost
\* the link and was armed again in between.
FlipRestsFullDwell ==
  [][(SpinsUpBackwards /\ prop.flipped) => prop.rest >= DwellFrames]_monitorVars

\* signal_chain.h: the output never crosses to the other side of neutral until the
\* full dwell has elapsed.
DwellBeforeReverse == [][SpinsUpBackwards => prop.rest >= DwellFrames]_monitorVars
=============================================================================
