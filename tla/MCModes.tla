------------------------------- MODULE MCModes -------------------------------
(***************************************************************************)
(* Modes and thrust: no spot-lock requests; every pair of panel requests,  *)
(* calibration events, link frames and throttle positions.  The settings   *)
(* are legal ones, with coarse ramps so that the ramp takes a few cycles.  *)
(***************************************************************************)
EXTENDS ControlCycle

ModeParams ==
  [rc_min_us |-> 1000, rc_mid_us |-> 1500, rc_max_us |-> 2000,
   servo_slew_us_per_cycle |-> 200, servo_min_us |-> 1350, servo_max_us |-> 1650,
   steer_deadband_us |-> 20, servo_reverse |-> FALSE, servo_trim_us |-> 7,
   esc_ramp_up_us_per_cycle |-> 150, esc_ramp_down_us_per_cycle |-> 200,
   throttle_deadband_us |-> 80, max_throttle_fwd_pct |-> 90, max_throttle_rev_pct |-> 50,
   throttle_reverse |-> FALSE, esc_neutral_us |-> 1500, esc_forward_max_us |-> 1900,
   esc_reverse_max_us |-> 1100, reverse_neutral_dwell_ms |-> 60, deploy_servo_us |-> 1750,
   spot_lock_deadband_m |-> 3, spot_lock_max_throttle_pct |-> 35,
   spot_lock_throttle_gain |-> 30, spot_lock_servo_gain |-> 20,
   goto_slowdown_distance_m |-> 15, ch4_mode_switch_enabled |-> TRUE,
   click_window_ms |-> 200]

\* Inputs with CH3 off, no goto and healthy sensors.
QuietInput ==
  [frame_valid |-> TRUE, ch1_us |-> 1500, ch2_us |-> 1500, req |-> {}, calib_event |-> "NONE",
   calib_timeout |-> FALSE, ch3_on |-> FALSE, ch3_edge |-> FALSE, gps_fresh |-> TRUE,
   gps_fix |-> TRUE, pos |-> 0, imu_ok |-> TRUE, heading |-> 0, goto_engage |-> FALSE,
   goto_target |-> 0, comms_fresh |-> FALSE]

\* The panel posts one command; CH4 can add one of its own in the same cycle.
ModeRequests ==
  {{}, {"arm"}, {"disarm"}, {"calib", "confirm"}, {"deploy"}, {"stow"},
   {"arm", "disarm"}, {"arm", "deploy"}, {"calib", "confirm", "arm"},
   {"calib", "confirm", "deploy"}, {"disarm", "stow"}}

\* Neutral, just outside the deadband, half ahead, full ahead, full astern.
ModeThrottles == {1500, 1581, 1750, 2000, 1000}

ModeInputs ==
  {[QuietInput EXCEPT !.frame_valid = f, !.ch2_us = t, !.req = r, !.calib_event = e]
     : f \in BOOLEAN, t \in ModeThrottles, r \in ModeRequests, e \in CalibEvents}
=============================================================================
