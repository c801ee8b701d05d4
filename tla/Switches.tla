------------------------------- MODULE Switches -------------------------------
(***************************************************************************)
(* The auxiliary RC channels read as switches (components/rc_validity):    *)
(* the position debounce of CH3 and CH4 and the click gestures of CH4.     *)
(* Both work per control cycle and own no clock.                           *)
(***************************************************************************)
EXTENDS Naturals

CONSTANT DebounceFrames   \* SWITCH_DEBOUNCE_FRAMES

ASSUME SwitchesAssumption == DebounceFrames \in Nat \ {0}

\* What the pulse of an auxiliary channel reads as: no usable pulse, or a width
\* below, or at and above, the threshold.
Levels == {"none", "low", "high"}

SwitchType ==
  [is_high : BOOLEAN, candidate : BOOLEAN, stable_frames : 0..DebounceFrames,
   initialised : BOOLEAN]

SwitchInit ==
  [is_high |-> FALSE, candidate |-> FALSE, stable_frames |-> 0, initialised |-> FALSE]

\* Consecutive cycles, this one included, that the level has matched.
StableFrames(sw, high) ==
  IF high # sw.candidate THEN 1
  ELSE IF sw.stable_frames < DebounceFrames THEN sw.stable_frames + 1
  ELSE sw.stable_frames

\* An unusable pulse restarts the count and keeps the accepted level; a level is
\* accepted once stable.
SwitchUpdate(sw, level) ==
  IF level = "none" THEN [sw EXCEPT !.candidate = sw.is_high, !.stable_frames = 0]
  ELSE LET high   == level = "high"
           frames == StableFrames(sw, high)
           stable == frames >= DebounceFrames
       IN  [is_high |-> IF stable THEN high ELSE sw.is_high, candidate |-> high,
            stable_frames |-> frames, initialised |-> sw.initialised \/ stable]

\* Faulty: the first accepted level is an edge.
SwitchEdgeAtBoot(before, after) == before.is_high # after.is_high

\* An edge is an accepted change of level; the first accepted level is none.
SwitchEdge(before, after) == before.initialised /\ before.is_high # after.is_high
SwitchRises(before, after) == SwitchEdge(before, after) /\ after.is_high

-----------------------------------------------------------------------------
(* Click bursts: the clicks so far and the silent cycles since the last.   *)

ClickTripleCount == 3

ClicksReset == [count |-> 0, frames_since_last |-> 0]

\* Faulty: two clicks count as one.
ClosedGestureLenient(count) == IF count >= 1 THEN "SINGLE" ELSE "NONE"

\* What a burst closed by silence means.
ClosedGesture(count) == IF count = 1 THEN "SINGLE" ELSE "NONE"

\* The burst after a cycle with or without a click, and the gesture it completes:
\* a third click at once, one or two clicks after window cycles of silence.
ClickUpdate(burst, click, window) ==
  IF click
    THEN IF burst.count + 1 >= ClickTripleCount
           THEN [burst |-> ClicksReset, gesture |-> "TRIPLE"]
           ELSE [burst |-> [count |-> burst.count + 1, frames_since_last |-> 0],
                 gesture |-> "NONE"]
  ELSE IF burst.count = 0 \/ burst.frames_since_last + 1 < window
    THEN [burst |-> IF burst.count = 0 THEN burst
                    ELSE [burst EXCEPT !.frames_since_last = @ + 1],
          gesture |-> "NONE"]
  ELSE [burst |-> ClicksReset, gesture |-> ClosedGesture(burst.count)]
=============================================================================
