------------------------------ MODULE Settings ------------------------------
(***************************************************************************)
(* The settings as data (components/settings): the range and the default   *)
(* of every field, the blob with its version, its length and its CRC, the  *)
(* repairs of what was read, and the report of where it came from.         *)
(*                                                                         *)
(* A word is two bytes of the blob, and a CRC the words it was computed    *)
(* over.                                                                   *)
(***************************************************************************)
EXTENDS Integers

Chain == INSTANCE SignalChain

SchemaVersion == 8      \* SETTINGS_SCHEMA_VERSION
BlobSize == 69          \* BLOB_CODEC_SIZE

Pulse == 500..2500      \* the full servo band
EscPulse == 1000..2000
Percent == 0..100
Gain == 0..1000

\* settings_ranges.h: what each field may hold, and what it falls back to.
Allowed ==
  [rc_min_us |-> 800..2200, rc_mid_us |-> 800..2200, rc_max_us |-> 800..2200,
   servo_slew_us_per_cycle |-> 1..200, servo_min_us |-> Pulse, servo_max_us |-> Pulse,
   steer_deadband_us |-> 0..300, servo_reverse |-> BOOLEAN, servo_trim_us |-> -300..300,
   esc_ramp_up_us_per_cycle |-> 1..200, esc_ramp_down_us_per_cycle |-> 1..200,
   throttle_deadband_us |-> 0..300, max_throttle_fwd_pct |-> Percent,
   max_throttle_rev_pct |-> Percent, throttle_reverse |-> BOOLEAN,
   esc_neutral_us |-> 1400..1600, esc_neutral_band_us |-> 0..200,
   esc_forward_min_us |-> EscPulse, esc_forward_max_us |-> EscPulse,
   esc_reverse_min_us |-> EscPulse, esc_reverse_max_us |-> EscPulse,
   failsafe_timeout_ms |-> 20..2000, reverse_neutral_dwell_ms |-> 0..2000,
   ch4_mode_switch_enabled |-> BOOLEAN, ch4_switch_threshold_us |-> 800..2200,
   deploy_servo_us |-> Pulse, click_window_ms |-> 200..1000,
   spot_lock_deadband_m |-> 0..100, spot_lock_max_throttle_pct |-> Percent,
   spot_lock_throttle_gain |-> Gain, spot_lock_servo_gain |-> Gain,
   goto_comms_timeout_ms |-> 200..5000, goto_slowdown_distance_m |-> 3..200]

Defaults ==
  [rc_min_us |-> 1000, rc_mid_us |-> 1500, rc_max_us |-> 2000,
   servo_slew_us_per_cycle |-> 10, servo_min_us |-> 833, servo_max_us |-> 2167,
   steer_deadband_us |-> 0, servo_reverse |-> FALSE, servo_trim_us |-> 0,
   esc_ramp_up_us_per_cycle |-> 5, esc_ramp_down_us_per_cycle |-> 10,
   throttle_deadband_us |-> 80, max_throttle_fwd_pct |-> 90,
   max_throttle_rev_pct |-> 50, throttle_reverse |-> FALSE,
   esc_neutral_us |-> 1500, esc_neutral_band_us |-> 40,
   esc_forward_min_us |-> 1550, esc_forward_max_us |-> 1900,
   esc_reverse_min_us |-> 1450, esc_reverse_max_us |-> 1100,
   failsafe_timeout_ms |-> 200, reverse_neutral_dwell_ms |-> 400,
   ch4_mode_switch_enabled |-> TRUE, ch4_switch_threshold_us |-> 1500,
   deploy_servo_us |-> 2167, click_window_ms |-> 500,
   spot_lock_deadband_m |-> 3, spot_lock_max_throttle_pct |-> 35,
   spot_lock_throttle_gain |-> 30, spot_lock_servo_gain |-> 20,
   goto_comms_timeout_ms |-> 1500, goto_slowdown_distance_m |-> 15]

Fields == DOMAIN Defaults
BoolFields == {"servo_reverse", "throttle_reverse", "ch4_mode_switch_enabled"}
SignedFields == {"servo_trim_us"}

-----------------------------------------------------------------------------
(* blob_codec.c *)

Word(f, v) == IF f \in BoolFields THEN (IF v THEN 1 ELSE 0) ELSE v % 65536

\* Faulty: the sign is lost on the way back.
FieldOfUnsigned(f, w) == IF f \in BoolFields THEN w # 0 ELSE w

FieldOf(f, w) ==
  IF f \in BoolFields THEN w # 0
  ELSE IF f \in SignedFields /\ w >= 32768 THEN w - 65536
  ELSE w

FieldWords(p) == [f \in Fields |-> Word(f, p[f])]

\* The blob a build of the given version leaves.
Blob(schema, size, words) ==
  [schema |-> schema, size |-> size, words |-> words, crc |-> <<schema, words>>]

Encode(p) == Blob(SchemaVersion, BlobSize, FieldWords(p))
Decoded(blob) == [f \in Fields |-> FieldOf(f, blob.words[f])]

DecodeVerdict(blob) ==
  CASE blob.size # BlobSize                  -> "LENGTH"
    [] blob.crc # <<blob.schema, blob.words>> -> "CRC"
    [] blob.schema # SchemaVersion           -> "SCHEMA"
    [] OTHER                                 -> "OK"

-----------------------------------------------------------------------------
(* settings_validate.c: repairs, field by field and then group by group.   *)

InRange(p) == [f \in Fields |-> IF p[f] \in Allowed[f] THEN p[f] ELSE Defaults[f]]

\* The group back at its defaults, unless the settings keep its order.
Restore(p, ordered, group) ==
  IF ordered THEN p ELSE [f \in Fields |-> IF f \in group THEN Defaults[f] ELSE p[f]]

RepairRc(p) ==
  Restore(p, p.rc_min_us < p.rc_mid_us /\ p.rc_mid_us < p.rc_max_us,
          {"rc_min_us", "rc_mid_us", "rc_max_us"})
RepairServo(p) ==
  Restore(p, p.servo_min_us < p.servo_max_us, {"servo_min_us", "servo_max_us"})
RepairForward(p) ==
  Restore(p, p.esc_forward_min_us <= p.esc_forward_max_us,
          {"esc_forward_min_us", "esc_forward_max_us"})
RepairReverse(p) ==
  Restore(p, p.esc_reverse_min_us >= p.esc_reverse_max_us,
          {"esc_reverse_min_us", "esc_reverse_max_us"})

\* Faulty: the end points are compared with each other, not with neutral.
RepairEscMapEndsOnly(p) ==
  Restore(p, p.esc_reverse_max_us < p.esc_forward_max_us,
          {"esc_reverse_max_us", "esc_neutral_us", "esc_forward_max_us"})

RepairEscMap(p) ==
  Restore(p, p.esc_reverse_max_us < p.esc_neutral_us /\ p.esc_neutral_us < p.esc_forward_max_us,
          {"esc_reverse_max_us", "esc_neutral_us", "esc_forward_max_us"})

Validated(p) == RepairEscMap(RepairReverse(RepairForward(RepairServo(RepairRc(InRange(p))))))

\* settings_valid and calibrated of the report.
NeedsNoRepair(p) == Validated(p) = p

-----------------------------------------------------------------------------
(* nvs_provenance.c: what was read, into settings and a report.            *)

DefaultsReport(error) == [params |-> Defaults, source |-> "DEFAULTS", nvs_error |-> error]

ResolveDecoded(blob) ==
  CASE DecodeVerdict(blob) = "OK" ->
         [params |-> Validated(Decoded(blob)), nvs_error |-> FALSE,
          source |-> IF NeedsNoRepair(Decoded(blob)) THEN "NVS" ELSE "MIXED"]
    [] OTHER -> DefaultsReport(DecodeVerdict(blob) \in {"CRC", "LENGTH"})

ResolveProvenance(read, blob) ==
  CASE read = "ok"        -> ResolveDecoded(blob)
    [] read = "error"     -> DefaultsReport(TRUE)
    [] read = "not_found" -> DefaultsReport(FALSE)
=============================================================================
