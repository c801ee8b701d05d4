------------------------------ MODULE MCMonitor ------------------------------
(***************************************************************************)
(* Direction changes and stops: throttle by stick, with the requests and   *)
(* link losses that interrupt a flip.  Dwell of three cycles.              *)
(***************************************************************************)
EXTENDS CycleMonitor

MonitorParams ==
  [rc_min_us |-> 1000, rc_mid_us |-> 1500, rc_max_us |-> 2000,
   servo_slew_us_per_cycle |-> 200, servo_min_us |-> 1400, servo_max_us |-> 1600,
   steer_deadband_us |-> 20, servo_reverse |-> FALSE, servo_trim_us |-> 0,
   esc_ramp_up_us_per_cycle |-> 120, esc_ramp_down_us_per_cycle |-> 200,
   throttle_deadband_us |-> 80, max_throttle_fwd_pct |-> 60, max_throttle_rev_pct |-> 50,
   throttle_reverse |-> FALSE, esc_neutral_us |-> 1500, esc_forward_max_us |-> 1900,
   esc_reverse_max_us |-> 1100, reverse_neutral_dwell_ms |-> 50, deploy_servo_us |-> 1600,
   spot_lock_deadband_m |-> 3, spot_lock_max_throttle_pct |-> 40,
   spot_lock_throttle_gain |-> 100, spot_lock_servo_gain |-> 20,
   goto_slowdown_distance_m |-> 15, ch4_mode_switch_enabled |-> TRUE,
   click_window_ms |-> 200]

Resting ==
  [frame_valid |-> TRUE, ch1_us |-> 1500, ch2_us |-> 1500, req |-> {}, calib_event |-> "NONE",
   calib_timeout |-> FALSE, ch3_on |-> FALSE, ch3_edge |-> FALSE, gps_fresh |-> TRUE,
   gps_fix |-> TRUE, pos |-> 0, imu_ok |-> TRUE, heading |-> 0, goto_engage |-> FALSE,
   goto_target |-> 0, comms_fresh |-> FALSE]

MonitorInputs ==
  {[Resting EXCEPT !.ch2_us = t] : t \in {1500, 2000, 1000}}
    \cup {[Resting EXCEPT !.req = r] : r \in {{"arm"}, {"disarm"}, {"calib", "confirm"},
                                              {"deploy"}, {"stow"}}}
    \cup {[Resting EXCEPT !.calib_event = "CANCEL"],
          [Resting EXCEPT !.ch2_us = 2000, !.frame_valid = FALSE]}

\* For the hold: CH3 and the requests, sticks at rest, a drifting boat.
HoldInputs ==
  {[Resting EXCEPT !.ch3_on = c, !.ch3_edge = c /\ e, !.pos = x, !.req = r]
     : c \in BOOLEAN, e \in BOOLEAN, x \in {0, 30}, r \in {{}, {"arm"}, {"disarm"}}}
=============================================================================
