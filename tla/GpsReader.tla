----------------------------- MODULE GpsReader -----------------------------
(***************************************************************************)
(* The GPS reader task (components/gps): UART pieces, the line             *)
(* accumulator, the NMEA parser and the freshness of the published state,  *)
(* over a millisecond clock that wraps.                                    *)
(*                                                                         *)
(* A sentence arrives in two pieces and a terminator; the UART loses any   *)
(* of them.  A line passes the checksum when it starts with both pieces of *)
(* one sentence: what follows the checksum is not looked at.  A position   *)
(* is abstracted to its age.                                               *)
(***************************************************************************)
EXTENDS Integers

CONSTANTS
  MsMod,         \* now_ms wraps there (2^32)
  StaleAfterMs,  \* GPS_STALE_AFTER_MS
  ReadTimeoutMs, \* GPS_READ_TIMEOUT_MS, the longest a read may block
  LineMax        \* pieces that fit in s_line (GPS_LINE_MAX)

ASSUME GpsAssumption ==
  /\ {MsMod, StaleAfterMs, ReadTimeoutMs, LineMax} \subseteq Nat \ {0}
  /\ StaleAfterMs + ReadTimeoutMs < MsMod
  /\ LineMax >= 2

\* What a sentence says: GGA with a fix, without one, or with a fix and a coordinate that
\* does not parse; RMC active or void; VTG; RMC or VTG whose speed does not parse.
Sentences == {"gga", "gga_no_fix", "gga_bad_coord", "rmc", "rmc_void", "vtg", "bad_speed"}

Fixless == {"gga_no_fix", "rmc_void"}

Pieces == [part : {"head", "tail"}, of : Sentences]
\* What the line starts with: part of a sentence, all of it, or nothing of use.
Starts == [part : {"head", "whole"}, of : Sentences] \cup [part : {"none"}, of : {"none"}]
Nothing == [part |-> "none", of |-> "none"]
EmptyLine == [len |-> 0, start |-> Nothing]

VARIABLES
  gps_ms,       \* now_ms, the reader's clock
  gps,          \* s_state: fix, fresh, and whether a position was ever parsed
  last_fix_ms,  \* s_last_fix_ms
  line,         \* s_line: its length in pieces and the sentence it starts with
  blocked,      \* ms since the freshness was last published
  \* what no variable of the code holds, for the properties; both count up to MsMod
  unheld,       \* ms since a sentence was accepted while a fix was held, or since boot
  usable_age    \* ms since a sentence that does not deny the fix was accepted

gpsVars == <<gps_ms, gps, last_fix_ms, line, blocked, unheld, usable_age>>

GpsBoot == [fix |-> FALSE, fresh |-> FALSE, located |-> FALSE]

\* Faulty: the age is a signed difference.
SensorIsFreshSigned(now, last, threshold) == now - last < threshold

SensorIsFresh(now, last, threshold) == (now - last) % MsMod < threshold

SensorFreshnessStamp(prev, now, reading_valid) == IF reading_valid THEN now ELSE prev

\* Faulty: parse_gga stores the fix before it has parsed the coordinates.
NmeaParseCommitsFixEarly(sentence, st) ==
  CASE sentence = "gga"           -> [ok |-> TRUE, st |-> [st EXCEPT !.fix = TRUE, !.located = TRUE]]
    [] sentence = "gga_no_fix"    -> [ok |-> TRUE, st |-> [st EXCEPT !.fix = FALSE]]
    [] sentence = "gga_bad_coord" -> [ok |-> TRUE, st |-> [st EXCEPT !.fix = TRUE]]
    [] sentence = "bad_speed"     -> [ok |-> FALSE, st |-> st]
    [] OTHER                      -> [ok |-> TRUE, st |-> st]

\* What nmea_parse_line makes of a whole sentence: whether it accepts it, and the state.
NmeaParse(sentence, st) ==
  CASE sentence = "gga"        -> [ok |-> TRUE, st |-> [st EXCEPT !.fix = TRUE, !.located = TRUE]]
    [] sentence = "gga_no_fix" -> [ok |-> TRUE, st |-> [st EXCEPT !.fix = FALSE]]
    [] sentence \in {"gga_bad_coord", "bad_speed"} -> [ok |-> FALSE, st |-> st]
    [] OTHER                   -> [ok |-> TRUE, st |-> st]

\* gps_get_state: a copy, or zeroes when the reader holds the mutex.
GpsViews == {gps, GpsBoot}

GpsOlder(age) == IF age < MsMod THEN age + 1 ELSE age

GpsInit ==
  /\ gps_ms = 0
  /\ gps = GpsBoot
  /\ last_fix_ms = 0
  /\ line = EmptyLine
  /\ blocked = 0
  /\ unheld = 0
  /\ usable_age = MsMod

GpsTick ==
  /\ blocked < ReadTimeoutMs
  /\ gps_ms' = (gps_ms + 1) % MsMod
  /\ blocked' = blocked + 1
  /\ unheld' = GpsOlder(unheld)
  /\ usable_age' = GpsOlder(usable_age)
  /\ UNCHANGED <<gps, last_fix_ms, line>>

\* A piece of a sentence is appended; a line that grows too long is dropped with it.
Extended(l, piece) ==
  IF l.len = LineMax THEN EmptyLine
  ELSE [len |-> l.len + 1,
        start |-> CASE l.len = 0 /\ piece.part = "head" -> piece
                    [] l.start = [part |-> "head", of |-> piece.of] /\ piece.part = "tail"
                         -> [part |-> "whole", of |-> piece.of]
                    [] l.start.part = "whole" -> l.start
                    [] OTHER -> Nothing]

FeedPiece(piece) ==
  /\ line' = Extended(line, piece)
  /\ UNCHANGED <<gps_ms, gps, last_fix_ms, blocked, unheld, usable_age>>

\* A terminator: the line is parsed and merged under the mutex.
FeedTerminator ==
  /\ line.len > 0
  /\ line' = EmptyLine
  /\ IF line.start.part # "whole"
     THEN UNCHANGED <<gps, last_fix_ms, unheld, usable_age>>
     ELSE LET parsed == NmeaParse(line.start.of, gps)
          IN  /\ gps' = parsed.st
              /\ last_fix_ms' = IF parsed.ok
                                THEN SensorFreshnessStamp(last_fix_ms, gps_ms, parsed.st.fix)
                                ELSE last_fix_ms
              /\ unheld' = IF parsed.ok /\ parsed.st.fix THEN 0 ELSE unheld
              /\ usable_age' = IF parsed.ok /\ line.start.of \notin Fixless THEN 0 ELSE usable_age
  /\ UNCHANGED <<gps_ms, blocked>>

\* The read returns, with bytes or by its timeout: update_freshness.
UpdateFreshness ==
  /\ gps' = [gps EXCEPT !.fresh = SensorIsFresh(gps_ms, last_fix_ms, StaleAfterMs)]
  /\ blocked' = 0
  /\ UNCHANGED <<gps_ms, last_fix_ms, line, unheld, usable_age>>

GpsNext ==
  \/ GpsTick
  \/ \E piece \in Pieces : FeedPiece(piece)
  \/ FeedTerminator
  \/ UpdateFreshness

GpsSpec == GpsInit /\ [][GpsNext]_gpsVars
-----------------------------------------------------------------------------
GpsExpired(age) == age >= StaleAfterMs + ReadTimeoutMs /\ age < MsMod

\* A state that is handed out with a fix has a position that a GGA has set: no order of
\* lost, fixless and half-parsed sentences publishes the zero position of boot.
FixHasPosition == \A view \in GpsViews : view.fix => view.located

\* Without an accepted sentence under a fix for the staleness window and one read, the
\* state is not fresh, in every phase of the wrapping clock, until the clock has come
\* round to the stamp again.
FreshnessExpires == GpsExpired(unheld) => ~gps.fresh

\* What gps_reader.c says of the stamp ("the last parsed line that produced a usable fix",
\* "a fixless sentence must not keep GPS fresh"): a fresh fix rests on a recent sentence
\* that does not deny it.
FixlessSentencesExpire == gps.fresh /\ gps.fix => ~GpsExpired(usable_age)
=============================================================================
