------------------------------- MODULE MCPanel -------------------------------
(***************************************************************************)
(* The control task with a client that edits settings by copy, overlay and *)
(* post, trim commands, arming and disarming, link losses, failing flash   *)
(* writes and resets.  The two edits are legal each on its own over the    *)
(* settings at boot and illegal together; the copy may tear between them.  *)
(***************************************************************************)
EXTENDS ControlLoop

PanelBoot ==
  [rc_min_us |-> 1000, rc_mid_us |-> 1500, rc_max_us |-> 2000,
   servo_slew_us_per_cycle |-> 200, servo_min_us |-> 1400, servo_max_us |-> 1600,
   steer_deadband_us |-> 20, servo_reverse |-> FALSE, servo_trim_us |-> 0,
   esc_ramp_up_us_per_cycle |-> 200, esc_ramp_down_us_per_cycle |-> 200,
   throttle_deadband_us |-> 80, max_throttle_fwd_pct |-> 20, max_throttle_rev_pct |-> 20,
   throttle_reverse |-> FALSE, esc_neutral_us |-> 1500, esc_forward_max_us |-> 1900,
   esc_reverse_max_us |-> 1100, reverse_neutral_dwell_ms |-> 20, deploy_servo_us |-> 1600,
   spot_lock_deadband_m |-> 3, spot_lock_max_throttle_pct |-> 20,
   spot_lock_throttle_gain |-> 100, spot_lock_servo_gain |-> 20,
   goto_slowdown_distance_m |-> 15, ch4_mode_switch_enabled |-> FALSE,
   click_window_ms |-> 200]

PanelFrame ==
  [frame_valid |-> TRUE, ch1_us |-> 1500, ch2_us |-> 1500, ch3 |-> "none", ch4 |-> "none",
   gps_fresh |-> FALSE, gps_fix |-> FALSE, pos |-> 0, imu_ok |-> TRUE, heading |-> 0]

PanelFrames == {PanelFrame, [PanelFrame EXCEPT !.frame_valid = FALSE]}

PanelKeywords == {"arm", "disarm", "trim_left", "trim_save"}

PanelEdits == [c \in Clients |->
   IF c = "panel" THEN {[esc_neutral_us |-> 1600], [esc_forward_max_us |-> 1550]}
   ELSE {[spot_lock_max_throttle_pct |-> 40]}]

PanelSplits == {{"servo_trim_us", "esc_neutral_us"}, DOMAIN PanelBoot}
=============================================================================
