----------------------------- MODULE MCSpotLock -----------------------------
(***************************************************************************)
(* Spot-lock and goto: CH3 levels and edges, goto commands and targets,    *)
(* drifting positions and headings, failing sensors and sticks, with the   *)
(* arm and disarm requests and the link losses that end a session.         *)
(***************************************************************************)
EXTENDS ControlCycle

\* Legal settings whose ramp moves in the 200s, so that a hold (cap 40%), a goto
\* (cap 80%) and the stick reach different thrusts in a few cycles.
SpotParams ==
  [rc_min_us |-> 1000, rc_mid_us |-> 1500, rc_max_us |-> 2000,
   servo_slew_us_per_cycle |-> 200, servo_min_us |-> 1400, servo_max_us |-> 1600,
   steer_deadband_us |-> 20, servo_reverse |-> FALSE, servo_trim_us |-> 0,
   esc_ramp_up_us_per_cycle |-> 200, esc_ramp_down_us_per_cycle |-> 200,
   throttle_deadband_us |-> 80, max_throttle_fwd_pct |-> 80, max_throttle_rev_pct |-> 60,
   throttle_reverse |-> FALSE, esc_neutral_us |-> 1500, esc_forward_max_us |-> 1900,
   esc_reverse_max_us |-> 1100, reverse_neutral_dwell_ms |-> 20, deploy_servo_us |-> 1600,
   spot_lock_deadband_m |-> 3, spot_lock_max_throttle_pct |-> 40,
   spot_lock_throttle_gain |-> 100, spot_lock_servo_gain |-> 20,
   goto_slowdown_distance_m |-> 15, ch4_mode_switch_enabled |-> TRUE,
   click_window_ms |-> 200]

Healthy ==
  [frame_valid |-> TRUE, ch1_us |-> 1500, ch2_us |-> 1500, req |-> {}, calib_event |-> "NONE",
   calib_timeout |-> FALSE, ch3_on |-> FALSE, ch3_edge |-> FALSE, gps_fresh |-> TRUE,
   gps_fix |-> TRUE, pos |-> 0, imu_ok |-> TRUE, heading |-> 0, goto_engage |-> FALSE,
   goto_target |-> 0, comms_fresh |-> FALSE]

\* CH3 off, held on, and rising.
Ch3(in) ==
  {in, [in EXCEPT !.ch3_on = TRUE], [in EXCEPT !.ch3_on = TRUE, !.ch3_edge = TRUE]}

\* No goto, or one to either target over a fresh or a stale link.
Goto(in) ==
  {in, [in EXCEPT !.goto_engage = TRUE, !.comms_fresh = TRUE]}
    \cup {[in EXCEPT !.goto_engage = TRUE, !.goto_target = 30, !.comms_fresh = f] : f \in BOOLEAN}

GotoOn(in) == {in, [in EXCEPT !.goto_engage = TRUE, !.goto_target = 30]}

Requested(in) == {[in EXCEPT !.req = r] : r \in {{}, {"arm"}, {"disarm"}}}

\* On target, off to the side of it, and facing away from it.
Drifted(in) ==
  {in, [in EXCEPT !.pos = 30, !.heading = 900], [in EXCEPT !.pos = 30]}

\* Sticks at rest, steering, throttle at full ahead and full astern.
Sticks(in) ==
  {in, [in EXCEPT !.ch1_us = 2000], [in EXCEPT !.ch2_us = 2000], [in EXCEPT !.ch2_us = 1000]}

Degraded(in) ==
  {[in EXCEPT !.gps_fresh = FALSE], [in EXCEPT !.gps_fix = FALSE], [in EXCEPT !.imu_ok = FALSE]}

\* The arm request off target, at rest, with throttle or without a compass, and with a
\* goto, a hold or neither wanted.
Arming ==
  LET drifted == [Healthy EXCEPT !.pos = 30, !.heading = 1800, !.req = {"arm"}]
  IN  UNION {{i, [i EXCEPT !.ch3_on = TRUE], [i EXCEPT !.goto_engage = TRUE]}
               : i \in {drifted, [drifted EXCEPT !.ch2_us = 2000],
                        [drifted EXCEPT !.imu_ok = FALSE]}}

SpotInputs ==
  UNION {Ch3(i) : i \in UNION {Goto(j) : j \in Drifted(Healthy)}}
    \cup UNION {Ch3(i) : i \in Sticks(Healthy)}
    \cup UNION {GotoOn(i) : i \in Sticks(Healthy) \cup Requested(Healthy)}
    \cup Arming
    \cup UNION {GotoOn(i) : i \in Degraded(Healthy)}
    \cup UNION {Ch3(i) : i \in Degraded(Healthy)}
    \cup {[i EXCEPT !.ch2_us = 2000, !.ch3_on = TRUE] : i \in Degraded(Healthy)}
    \cup {[i EXCEPT !.frame_valid = FALSE] : i \in Ch3(Healthy)}
=============================================================================
