------------------------------ MODULE MCInputs ------------------------------
(***************************************************************************)
(* What the control task reads, one source at a time: the RC link, the GPS *)
(* reader, the fields it parses and the settings in flash.  They share no  *)
(* state, and the others rest.                                             *)
(***************************************************************************)
EXTENDS RcLink, GpsReader, NmeaField, SettingsStore

VARIABLE source

inputsVars == <<source, rcVars, gpsVars, fieldVars, storeVars>>

Init ==
  /\ source \in {"rc", "gps", "field", "store"}
  /\ RcInit /\ GpsInit /\ FieldInit /\ StoreInit
  /\ source # "rc" => phase = 0 /\ sending = {}
  /\ source # "field" => field = [degrees |-> 0, minutes |-> 0, hemi |-> "N"]
  /\ source # "store" => flash = NoBlob

Rc == source = "rc" /\ RcNext /\ UNCHANGED <<gpsVars, fieldVars, storeVars>>
Gps == source = "gps" /\ GpsNext /\ UNCHANGED <<rcVars, fieldVars, storeVars>>
Field == source = "field" /\ FieldNext /\ UNCHANGED <<rcVars, gpsVars, storeVars>>
Store == source = "store" /\ StoreNext /\ UNCHANGED <<rcVars, gpsVars, fieldVars>>

Next == (Rc \/ Gps \/ Field \/ Store) /\ UNCHANGED source

Spec == Init /\ [][Next]_inputsVars

MCChannels == <<"ch1", "ch2">>
MCLineSets == {{"ch1"}, {"ch1", "ch2"}}

\* Each edit is legal over the defaults, and the two are not together.
MCEdits == {[esc_neutral_us |-> 1600, servo_reverse |-> TRUE], [esc_forward_max_us |-> 1600]}

\* In range field by field, but not in order; and out of range.
Disordered ==
  [Defaults EXCEPT !.esc_neutral_us = 1600, !.esc_reverse_min_us = 1999,
     !.esc_reverse_max_us = 1700, !.esc_forward_min_us = 1950, !.esc_forward_max_us = 1960]
Wider == [Defaults EXCEPT !.servo_min_us = 2167, !.rc_mid_us = 2100, !.click_window_ms = 5000]

\* Blobs of the version before (two bytes shorter), of a later one that is longer, of a
\* later one of the same length, and of this one under other ranges.
MCForeign ==
  {Blob(7, 67, FieldWords(Defaults)), Blob(9, 71, FieldWords(Defaults)), Blob(9, 69, FieldWords(Defaults)),
   Encode(Disordered), Encode(Wider)}
=============================================================================
