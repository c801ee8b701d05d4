----------------------------- MODULE NmeaField -----------------------------
(***************************************************************************)
(* A coordinate of an NMEA sentence (components/gps/src/nmea_parse.c):      *)
(* ddmm.mmmm or dddmm.mmmm with its hemisphere, read digit by digit in     *)
(* integer arithmetic.                                                     *)
(*                                                                         *)
(* The field is written one decimal after the other, so that every         *)
(* precision a receiver may be set to is a state, and the digit loop of    *)
(* parse_coord runs along: each state is a field that ends there, with     *)
(* what the loop has made of it.                                           *)
(***************************************************************************)
EXTENDS Integers, Sequences

CONSTANTS
  Degrees, Minutes, Digits,  \* the values tried for each part of a field
  MaxDecimals                \* bound: the decimals the receiver writes

ASSUME FieldAssumption ==
  /\ Degrees \subseteq 0..180 /\ Minutes \subseteq 0..59 /\ Digits \subseteq 0..9
  /\ MaxDecimals \in 0..6

Hemispheres == {"N", "S", "E", "W"}

VARIABLES
  field,     \* degrees, whole minutes and hemisphere
  decimals,  \* the digits after the point
  frac       \* what the loop of parse_coord has read of them: frac and frac_scale

fieldVars == <<field, decimals, frac>>

FieldInit ==
  /\ field \in [degrees : Degrees, minutes : Minutes, hemi : Hemispheres]
  /\ decimals = << >>
  /\ frac = [value |-> 0, scale |-> 1]

\* One digit of the fraction; the loop of parse_coord ends when the scale is above 100000.
\* Faulty: it ends two digits early.
FractionDigitShort(acc, d) ==
  IF acc.scale <= 1000 THEN [value |-> acc.value * 10 + d, scale |-> acc.scale * 10] ELSE acc

FractionDigit(acc, d) ==
  IF acc.scale <= 100000 THEN [value |-> acc.value * 10 + d, scale |-> acc.scale * 10] ELSE acc

WriteDecimal(d) ==
  /\ Len(decimals) < MaxDecimals
  /\ decimals' = Append(decimals, d)
  /\ frac' = FractionDigit(frac, d)
  /\ UNCHANGED field

FieldNext == \E d \in Digits : WriteDecimal(d)

FieldSpec == FieldInit /\ [][FieldNext]_fieldVars

MinutesE5(minutes, fraction) == minutes * 100000 + fraction.value * (100000 \div fraction.scale)

Rejected == [accepted |-> FALSE, e7 |-> 0]

ParseCoord(degrees, minutes, fraction, hemi) ==
  LET result == degrees * 10000000 + (MinutesE5(minutes, fraction) * 100) \div 60
  IN  IF result > 1800000000 THEN Rejected
      ELSE [accepted |-> TRUE, e7 |-> IF hemi \in {"S", "W"} THEN -result ELSE result]
-----------------------------------------------------------------------------
\* What the decimals are worth in units of 1e-5, cut off there.
WorthE5(digits) ==
  LET digit(i) == IF i <= Len(digits) THEN digits[i] ELSE 0
  IN  digit(1) * 10000 + digit(2) * 1000 + digit(3) * 100 + digit(4) * 10 + digit(5)

\* The comment of parse_coord says "minutes_e5 = (min_whole + frac/frac_scale) * 1e5":
\* an accepted coordinate is the degrees and minutes of its field to five decimals of a
\* minute, however many decimals the receiver is set to write, and only a coordinate
\* beyond 180 degrees is rejected.
CoordIsExact ==
  LET coord == ParseCoord(field.degrees, field.minutes, frac, field.hemi)
      exact == field.degrees * 10000000
                 + ((field.minutes * 100000 + WorthE5(decimals)) * 100) \div 60
  IN  IF coord.accepted
      THEN coord.e7 = (IF field.hemi \in {"S", "W"} THEN -exact ELSE exact)
      ELSE exact > 1800000000
=============================================================================
