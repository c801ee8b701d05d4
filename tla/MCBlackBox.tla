----------------------------- MODULE MCBlackBox -----------------------------
(***************************************************************************)
(* A region of three sectors of two records.  The recorder sees a hold, a  *)
(* paused hold and a goto, and behind them the drop by a stick, the same   *)
(* with the stick centred again, a cancelled goto and a disarm.            *)
(***************************************************************************)
EXTENDS BlackBox

Armed == [substate |-> "OFF", source |-> "NONE", state |-> "ARMED", sticks_neutral |-> TRUE,
          ch3_high |-> FALSE]

BlackBoxSnapshots ==
  {[Armed EXCEPT !.substate = "ACTIVE", !.source = "HOLD", !.ch3_high = TRUE],
   [Armed EXCEPT !.substate = "PAUSED", !.source = "GOTO"],
   Armed,
   [Armed EXCEPT !.sticks_neutral = FALSE],
   [Armed EXCEPT !.state = "DISARMED"]}
=============================================================================
