--------------------------- MODULE SettingsStore ---------------------------
(***************************************************************************)
(* The settings in flash (nvs_store.c, as app_main and the control task    *)
(* call it): the load at boot, edits and trims, the save, and resets.      *)
(*                                                                         *)
(* NVS is external: a write that is cut or fails leaves the old blob or    *)
(* the new one, words rot, the partition may be one it refuses, and        *)
(* another build of the firmware may have written the blob.                *)
(***************************************************************************)
EXTENDS Settings, FiniteSets

CONSTANTS
  SettingsEdits,  \* bound: the edits clients ask for, each a record of some fields
  ForeignBlobs,   \* bound: the blobs other builds leave
  RottenWords,    \* bound: what rots: "schema", "crc" or a field
  StoreTrimStep,  \* SERVO_TRIM_STEP_US
  MaxInDoubt      \* bound: settings of which flash may hold any one

ASSUME StoreAssumption ==
  /\ StoreTrimStep \in Nat /\ MaxInDoubt \in Nat \ {0}
  /\ \A edit \in SettingsEdits : DOMAIN edit \subseteq Fields
  /\ RottenWords \subseteq Fields \cup {"schema", "crc"}

VARIABLES
  store_at,   \* where the boot, or the save, is
  partition,  \* how NVS finds the partition
  flash,      \* the blob, or NoBlob
  active,     \* the settings in force
  report,     \* settings_validation_result of the load
  kept        \* for the properties: what flash may hold of what was saved here;
              \* nothing once it was touched from outside

storeVars == <<store_at, partition, flash, active, report, kept>>

NoBlob == [size |-> 0]
NoReport == [source |-> "DEFAULTS", nvs_error |-> FALSE]
Report(loaded) == [source |-> loaded.source, nvs_error |-> loaded.nvs_error]
Intact(blob) == blob # NoBlob /\ blob.crc = <<blob.schema, blob.words>>

StoreInit ==
  /\ store_at = "boot"
  /\ partition = "ok"
  /\ flash \in {NoBlob} \cup ForeignBlobs
  /\ active = Defaults
  /\ report = NoReport
  /\ kept = {}

(* The load. *)

\* A partition of another format, or without a free page, is erased; app_main takes
\* any other error for fatal.
InitPartition ==
  /\ store_at = "boot"
  /\ \/ partition = "ok" /\ store_at' = "mounted" /\ UNCHANGED <<partition, flash, kept>>
     \/ /\ partition \in {"new_version", "no_free_pages"}
        /\ store_at' = "mounted" /\ partition' = "ok" /\ flash' = NoBlob /\ kept' = {}
     \/ partition # "ok" /\ store_at' = "aborted" /\ UNCHANGED <<partition, flash, kept>>
  /\ UNCHANGED <<active, report>>

\* A longer blob does not fit the buffer; what NVS gives of a rotten one depends on
\* where it rotted.
ReadStatuses ==
  CASE flash = NoBlob        -> {"not_found"}
    [] flash.size > BlobSize -> {"error"}
    [] Intact(flash)         -> {"ok"}
    [] OTHER                 -> {"ok", "error", "not_found"}

LoadSettings ==
  /\ store_at = "mounted"
  /\ \E status \in ReadStatuses :
       LET loaded == ResolveProvenance(status, flash)
       IN  /\ active' = loaded.params
           /\ report' = Report(loaded)
  /\ store_at' = "run"
  /\ UNCHANGED <<partition, flash, kept>>

(* Changes and the save, in the control task. *)

\* An edit is taken if the settings it gives need no repair.
EditSettings ==
  /\ store_at = "run"
  /\ \E edit \in SettingsEdits :
       LET candidate == [f \in Fields |-> IF f \in DOMAIN edit THEN edit[f] ELSE active[f]]
       IN  /\ NeedsNoRepair(candidate)
           /\ active' = candidate
  /\ UNCHANGED <<store_at, partition, flash, report, kept>>

TrimSettings ==
  /\ store_at = "run"
  /\ \E direction \in {-1, 1} :
       active' = [active EXCEPT !.servo_trim_us =
                    Chain!ServoTrimStepped(@, direction, StoreTrimStep)]
  /\ UNCHANGED <<store_at, partition, flash, report, kept>>

\* Opening or setting the blob may fail, with or without the blob in flash.
SetBlob ==
  /\ store_at = "run"
  /\ Cardinality(kept \cup {active}) <= MaxInDoubt
  /\ flash' \in {flash, Encode(active)}
  /\ store_at' \in {"run", "set"}
  /\ kept' = IF kept = {} THEN {} ELSE kept \cup {active}
  /\ UNCHANGED <<partition, active, report>>

CommitBlob ==
  /\ store_at = "set"
  /\ store_at' = "run"
  /\ \/ flash' = Encode(active) /\ kept' = {active}
     \/ flash' \in {flash, Encode(active)} /\ UNCHANGED kept
  /\ UNCHANGED <<partition, active, report>>

(* Resets, and what happens to flash while the unit is off or on. *)

ResetStore ==
  /\ store_at # "boot"
  /\ store_at' = "boot"
  /\ active' = Defaults
  /\ report' = NoReport
  /\ UNCHANGED <<partition, flash, kept>>

Rots ==
  /\ flash # NoBlob
  /\ Intact(flash)
  /\ \E w \in RottenWords :
       flash' = CASE w = "schema" -> [flash EXCEPT !.schema = @ + 1]
                  [] w = "crc"    -> [flash EXCEPT !.crc = << >>]
                  [] OTHER        -> [flash EXCEPT !.words[w] = (@ + 1) % 65536]
  /\ kept' = {}
  /\ UNCHANGED <<store_at, partition, active, report>>

\* Another build runs in between, or the partition is damaged.
Reflashed ==
  /\ store_at = "boot"
  /\ flash' \in ForeignBlobs
  /\ kept' = {}
  /\ UNCHANGED <<store_at, partition, active, report>>

PartitionRefused ==
  /\ store_at = "boot"
  /\ partition' \in {"new_version", "no_free_pages", "broken"}
  /\ UNCHANGED <<store_at, flash, active, report, kept>>

StoreNext ==
  \/ InitPartition \/ LoadSettings
  \/ EditSettings \/ TrimSettings \/ SetBlob \/ CommitBlob
  \/ ResetStore \/ Rots \/ Reflashed \/ PartitionRefused

StoreSpec == StoreInit /\ [][StoreNext]_storeVars
-----------------------------------------------------------------------------
Loads == store_at = "mounted" /\ store_at' = "run"

\* What was saved comes back: after any number of resets, in the middle of a save too,
\* the load finds settings this firmware saved, sign and all, and calls them calibrated
\* if they need no repair, as long as nothing else has touched the flash.
SavedSettingsComeBack ==
  [][Loads /\ kept # {} =>
       \E saved \in kept : /\ active' = Validated(saved)
                           /\ (report'.source = "NVS") = NeedsNoRepair(saved)]_storeVars

\* Whatever another build or rot left in flash, the settings the control task runs on
\* are those its own rules assume: every field in its range, calibration, servo end
\* points and ESC map in order.
RunningSettingsAreSafe == store_at \in {"run", "set"} => Chain!ValidParams(active)

\* What nvs_provenance.c says of a blob of another version ("an alert, not corruption,
\* so it falls back to defaults WITHOUT nvs_error").
OtherVersionIsNoError ==
  [][Loads /\ Intact(flash) /\ flash.schema # SchemaVersion => ~report'.nvs_error]_storeVars

\* What settings_validate.c says of its repairs ("so the group stays internally
\* consistent"): repaired settings keep every order it checks.
RepairsAreConsistent == [][Loads => NeedsNoRepair(active')]_storeVars
=============================================================================
