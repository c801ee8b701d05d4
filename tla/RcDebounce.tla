----------------------------- MODULE RcDebounce -----------------------------
(***************************************************************************)
(* The latching debounce of RC validity (components/rc_validity): a single *)
(* good frame makes the link valid, RcThreshold consecutive bad frames     *)
(* make it invalid.  The state is [bad, valid].                            *)
(***************************************************************************)
EXTENDS Integers

CONSTANTS
  RcThreshold,   \* invalid_threshold (RC_DEBOUNCE_DEFAULT_THRESHOLD)
  BadFrameMax    \* where the uint16_t bad_frame_count saturates (UINT16_MAX)

ASSUME RcDebounceAssumption ==
  /\ RcThreshold \in Nat \ {0}
  /\ BadFrameMax \in Nat
  /\ RcThreshold <= BadFrameMax

RcDebounceType == [bad : 0..BadFrameMax, valid : BOOLEAN]

RcDebounceInit == [bad |-> 0, valid |-> TRUE]

RcDebounceUpdate(db, frame_valid) ==
  IF frame_valid THEN [bad |-> 0, valid |-> TRUE]
  ELSE LET bad == IF db.bad < BadFrameMax THEN db.bad + 1 ELSE db.bad
       IN  [bad |-> bad, valid |-> db.valid /\ bad < RcThreshold]
=============================================================================
