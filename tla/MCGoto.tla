-------------------------------- MODULE MCGoto --------------------------------
(***************************************************************************)
(* The control task three times, told apart by the settings in flash: with *)
(* goto and hold commands, CH3, sticks, a drifting boat and failing        *)
(* sensors; with CH4 enabled and commands that change the mode; or with a  *)
(* client that enables and disables CH4 between the clicks of a burst.     *)
(* Commands overwrite each other in the mailbox, and a reset may come at   *)
(* any moment.                                                             *)
(***************************************************************************)
EXTENDS ControlLoop

GotoBoot ==
  [rc_min_us |-> 1000, rc_mid_us |-> 1500, rc_max_us |-> 2000,
   servo_slew_us_per_cycle |-> 200, servo_min_us |-> 1400, servo_max_us |-> 1600,
   steer_deadband_us |-> 20, servo_reverse |-> FALSE, servo_trim_us |-> 0,
   esc_ramp_up_us_per_cycle |-> 200, esc_ramp_down_us_per_cycle |-> 200,
   throttle_deadband_us |-> 80, max_throttle_fwd_pct |-> 20, max_throttle_rev_pct |-> 0,
   throttle_reverse |-> FALSE, esc_neutral_us |-> 1500, esc_forward_max_us |-> 1900,
   esc_reverse_max_us |-> 1100, reverse_neutral_dwell_ms |-> 0, deploy_servo_us |-> 1600,
   spot_lock_deadband_m |-> 3, spot_lock_max_throttle_pct |-> 20,
   spot_lock_throttle_gain |-> 100, spot_lock_servo_gain |-> 0,
   goto_slowdown_distance_m |-> 4, ch4_mode_switch_enabled |-> FALSE,
   click_window_ms |-> 200]

ButtonBoot == [GotoBoot EXCEPT !.ch4_mode_switch_enabled = TRUE]

Calm ==
  [frame_valid |-> TRUE, ch1_us |-> 1500, ch2_us |-> 1500, ch3 |-> "low", ch4 |-> "none",
   gps_fresh |-> TRUE, gps_fix |-> TRUE, pos |-> 0, imu_ok |-> TRUE, heading |-> 0]

\* CH3 in either position, throttle at rest or at full ahead; then one thing at a time:
\* a drifted boat, a lost fix, a lost compass under the hold, a lost link.
GotoFrames ==
  {[Calm EXCEPT !.ch3 = l, !.ch2_us = t] : l \in {"low", "high"}, t \in {1500, 2000}}
    \cup {[Calm EXCEPT !.pos = 30], [Calm EXCEPT !.gps_fix = FALSE],
          [Calm EXCEPT !.ch3 = "high", !.imu_ok = FALSE],
          [Calm EXCEPT !.ch3 = "none", !.frame_valid = FALSE]}

GotoKeywords == {"arm", "disarm", "goto", "goto_cancel", "hold"}

\* CH4 pressed and released while the throttle is at rest or not, with the link.
ButtonFrames ==
  {[Calm EXCEPT !.ch4 = l] : l \in Levels}
    \cup {[Calm EXCEPT !.ch4 = l, !.ch2_us = 2000] : l \in {"low", "high"}}
    \cup {[Calm EXCEPT !.frame_valid = FALSE]}

ButtonKeywords ==
  {"arm", "disarm", "deploy", "stow", "calib_start"}

ToggleBoot == [ButtonBoot EXCEPT !.goto_slowdown_distance_m = 5]

\* CH4 pressed and released, with the link, throttle at rest.
ToggleFrames == {[Calm EXCEPT !.ch4 = l] : l \in {"low", "high"}}

ToggleKeywords == {"arm", "disarm"}

ToggleEdits ==
  [c \in Clients |-> {[ch4_mode_switch_enabled |-> FALSE], [ch4_mode_switch_enabled |-> TRUE]}]

\* The client copies the settings whole.
ToggleSplits == {DOMAIN GotoBoot}

GotoInit == InitOf(GotoBoot) \/ InitOf(ButtonBoot) \/ InitOf(ToggleBoot)

Toggled    == params.goto_slowdown_distance_m = 5
Ch4Enabled == params.ch4_mode_switch_enabled

FramesNow ==
  IF Toggled THEN ToggleFrames ELSE IF Ch4Enabled THEN ButtonFrames ELSE GotoFrames

KeywordsNow ==
  IF Toggled THEN ToggleKeywords ELSE IF Ch4Enabled THEN ButtonKeywords ELSE GotoKeywords

\* The client edits while DISARMED, and again once its last edit is in flash.
MayEdit == Toggled /\ state = "DISARMED" /\ pending = Empty /\ ~commit.dirty

GotoNext ==
  \/ \E f \in FramesNow : RunOneCycle(f)
  \/ \E keyword \in KeywordsNow, target \in Targets : Post(keyword, target)
  \/ \E c \in Clients : (MayEdit /\ BeginCopy(c)) \/ Decide(c) \/ PostPending(c)
  \/ Reset

GotoSpec == GotoInit /\ [][GotoNext]_vars
=============================================================================
