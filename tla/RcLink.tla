------------------------------- MODULE RcLink -------------------------------
(***************************************************************************)
(* The RC link from the receiver's edges to the debounced verdict: the     *)
(* capture interrupt (components/rc_capture), the control task's copy of   *)
(* the samples, word by word while the interrupt may fire, channel_valid   *)
(* over a tick counter that wraps, and the debounce (rc_validity).         *)
(*                                                                         *)
(* Time is counted in ticks of the recency clock; the hardware capture     *)
(* counter runs at the same rate from another epoch.  The receiver emits   *)
(* one pulse per frame on every line it drives; a line may go quiet, high  *)
(* or low, and come back at any time.                                      *)
(***************************************************************************)
EXTENDS RcDebounce, Sequences

CONSTANTS
  Channels,       \* the control channels, in the order they are read: CH1, CH2
  TickMod,        \* both counters wrap there (2^32)
  TicksPerUs,     \* RC_CAP_TICKS_PER_US
  CapEpoch,       \* the capture counter when the recency clock reads zero
  WidthMinUs, WidthMaxUs, PeriodMinUs, PeriodMaxUs,  \* the accepted bands
  EdgeTimeoutUs,  \* failsafe_timeout_ms
  FrameTicks,     \* the receiver's frame
  PulseTicks,     \* and the pulse at its start
  CycleTicks,     \* CONTROL_LOOP_PERIOD_MS
  LineSets,       \* the sets of channels that may carry pulses together
  MaxChanges      \* bound: how often the receiver's lines go quiet or come back

ChannelSet == {Channels[i] : i \in 1..Len(Channels)}

TicksOfUs(us) == us * TicksPerUs + TicksPerUs \div 2

ASSUME RcLinkAssumption ==
  /\ Channels \in Seq(STRING) /\ Channels # << >>
  /\ {TickMod, TicksPerUs, FrameTicks, PulseTicks, CycleTicks} \subseteq Nat \ {0}
  /\ {CapEpoch, EdgeTimeoutUs, MaxChanges} \subseteq Nat
  /\ PulseTicks < FrameTicks
  /\ LineSets \subseteq SUBSET ChannelSet
  /\ FrameTicks < TickMod
  /\ TicksOfUs(EdgeTimeoutUs) + RcThreshold * CycleTicks + 1 < TickMod

Words == <<"width_us", "period_us", "last_edge_ticks", "edge_seen">>

VARIABLES
  ticks,      \* rc_capture_now_ticks
  phase,      \* ticks into the receiver's frame
  sending,    \* the channels whose line carries pulses
  high,       \* the channels whose line is high
  changes,    \* how often sending has changed, up to MaxChanges
  due,        \* the channels whose edge of this tick the interrupt has yet to take
  cap,        \* s_state: the capture state of every channel
  word,       \* words of the samples copied in this cycle; Asleep after the verdict
  sample,     \* the control task's copies
  since,      \* ticks since the cycle began
  db,         \* the debounce
  \* what no variable of the code holds, for the properties
  quiet,      \* ticks since a channel's last rising edge, up to TickMod
  width_age,  \* ticks since its width was measured, up to TickMod
  steady,     \* ticks since which every line has carried pulses, up to Settle
  torn,       \* an interrupt fired between the words of this cycle's copies
  verdict     \* the last frame's verdict, whether its copies were torn, or rest
              \* on an outdated width

capVars == <<cap, due, quiet, width_age>>
lineVars == <<phase, sending, high, changes, steady>>
cycleVars == <<word, sample, db, torn, verdict>>
rcVars == <<ticks, since, capVars, lineVars, cycleVars>>

WordSet == {Words[i] : i \in 1..Len(Words)}
WordsOfCycle == Len(Words) * Len(Channels)

\* The place of a channel's word in the order in which a cycle reads them.
WordIndex(c, w) ==
  LET ci == CHOOSE i \in 1..Len(Channels) : Channels[i] = c
      wi == CHOOSE i \in 1..Len(Words) : Words[i] = w
  IN  (ci - 1) * Len(Words) + wi

Bounded(n) == IF n < TickMod THEN n + 1 ELSE n

\* A line left high yields one wrong width, then two edges a period; one cycle reads them.
Settle == 3 * FrameTicks + CycleTicks + 1

\* Older than an edge within the timeout and the period before it allow, but not so
\* old that the counters have come round to it again.
Outdated(age) ==
  TicksOfUs(EdgeTimeoutUs + PeriodMaxUs) < age /\ age < TickMod - TicksOfUs(PeriodMaxUs)

CapTicksElapsed(now, prev) == (now - prev) % TickMod
CapTicksToUs(t) == (t + TicksPerUs \div 2) \div TicksPerUs
CapPeriodUs(now, prev) == CapTicksToUs(CapTicksElapsed(now, prev))

CapBoot ==
  [width_us |-> 0, period_us |-> 0, last_edge_ticks |-> 0, edge_seen |-> FALSE,
   rising_edge_ticks |-> 0, prev_rising_edge_ticks |-> 0,
   rising_pending |-> FALSE, prev_rising_valid |-> FALSE]

CapValue == (ticks + CapEpoch) % TickMod

\* Faulty: the edge is stamped with the capture counter, not with the recency clock.
OnRiseStampsCapValue(state) ==
  [state EXCEPT
     !.period_us = IF state.prev_rising_valid
                   THEN CapPeriodUs(CapValue, state.prev_rising_edge_ticks) ELSE @,
     !.prev_rising_edge_ticks = CapValue, !.prev_rising_valid = TRUE,
     !.rising_edge_ticks = CapValue, !.rising_pending = TRUE,
     !.last_edge_ticks = CapValue]

OnRise(state) ==
  [state EXCEPT
     !.period_us = IF state.prev_rising_valid
                   THEN CapPeriodUs(CapValue, state.prev_rising_edge_ticks) ELSE @,
     !.prev_rising_edge_ticks = CapValue, !.prev_rising_valid = TRUE,
     !.rising_edge_ticks = CapValue, !.rising_pending = TRUE,
     !.last_edge_ticks = ticks]

OnFall(state) ==
  IF ~state.rising_pending THEN state
  ELSE [state EXCEPT
          !.width_us = CapTicksToUs(CapTicksElapsed(CapValue, state.rising_edge_ticks)),
          !.edge_seen = TRUE, !.rising_pending = FALSE]

InBand(us, min, max) == min <= us /\ us <= max

\* Faulty: an edge once seen counts for ever.
EdgeRecentOnceSeen(s, now) == s.edge_seen

EdgeRecent(s, now) ==
  CapTicksToUs(CapTicksElapsed(now, s.last_edge_ticks)) <= EdgeTimeoutUs

\* Faulty: the period is not checked.
ChannelValidAnyPeriod(s, now) ==
  /\ s.edge_seen
  /\ EdgeRecent(s, now)
  /\ InBand(s.width_us, WidthMinUs, WidthMaxUs)

ChannelValid(s, now) ==
  /\ s.edge_seen
  /\ EdgeRecent(s, now)
  /\ InBand(s.width_us, WidthMinUs, WidthMaxUs)
  /\ InBand(s.period_us, PeriodMinUs, PeriodMaxUs)

\* The bands of the control loop: a pulse is shorter than a frame may be (RC_WIDTH_MAX_US,
\* RC_PERIOD_MAX_US).
ASSUME BandAssumption ==
  /\ {WidthMinUs, WidthMaxUs, PeriodMinUs, PeriodMaxUs} \subseteq Nat \ {0}
  /\ WidthMaxUs <= PeriodMaxUs

RcValid(samples, now) == \A c \in ChannelSet : ChannelValid(samples[c], now)

SampleBoot == [w \in WordSet |-> CapBoot[w]]

RcInit ==
  /\ ticks = 0
  /\ phase \in 0..FrameTicks - 1
  /\ sending \in {{}, ChannelSet}
  /\ high = {}
  /\ changes = 0
  /\ due = {}
  /\ cap = [c \in ChannelSet |-> CapBoot]
  /\ word = WordsOfCycle + 1
  /\ sample = [c \in ChannelSet |-> SampleBoot]
  /\ since = CycleTicks
  /\ db = RcDebounceInit
  /\ quiet = [c \in ChannelSet |-> 0]
  /\ width_age = [c \in ChannelSet |-> TickMod]
  /\ steady = 0
  /\ torn = FALSE
  /\ verdict = [valid |-> FALSE, torn |-> FALSE, outdated |-> FALSE]

Asleep == word > WordsOfCycle

(* The receiver: time passes, and a line goes quiet where it is or comes back. *)

Tick ==
  /\ due = {}
  /\ Asleep
  /\ since < CycleTicks
  /\ ticks' = (ticks + 1) % TickMod
  /\ since' = since + 1
  /\ phase' = (phase + 1) % FrameTicks
  /\ due' = IF phase' = 0 THEN sending \ high
            ELSE IF phase' = PulseTicks THEN sending \cap high ELSE {}
  /\ quiet' = [c \in ChannelSet |-> Bounded(quiet[c])]
  /\ width_age' = [c \in ChannelSet |-> Bounded(width_age[c])]
  /\ steady' = IF sending = ChannelSet /\ steady < Settle THEN steady + 1 ELSE steady
  /\ UNCHANGED <<sending, high, changes, cap, cycleVars>>

LinesChange(driven) ==
  /\ due = {}
  /\ driven # sending
  /\ changes < MaxChanges
  /\ changes' = changes + 1
  /\ sending' = driven
  /\ steady' = 0
  /\ UNCHANGED <<ticks, since, phase, high, capVars, cycleVars>>

(* The interrupt: on_cap. *)

RisingEdge(c) ==
  /\ c \in due \ high
  /\ high' = high \cup {c}
  /\ due' = due \ {c}
  /\ cap' = [cap EXCEPT ![c] = OnRise(@)]
  /\ quiet' = [quiet EXCEPT ![c] = 0]
  /\ torn' = (torn \/ word \in 1..WordsOfCycle - 1)
  /\ UNCHANGED <<ticks, since, phase, sending, changes, steady, width_age,
                 word, sample, db, verdict>>

FallingEdge(c) ==
  /\ c \in due \cap high
  /\ high' = high \ {c}
  /\ due' = due \ {c}
  /\ cap' = [cap EXCEPT ![c] = OnFall(@)]
  /\ width_age' = [width_age EXCEPT ![c] = IF cap[c].rising_pending THEN 0 ELSE @]
  /\ torn' = (torn \/ word \in 1..WordsOfCycle - 1)
  /\ UNCHANGED <<ticks, since, phase, sending, changes, steady, quiet,
                 word, sample, db, verdict>>

(* The control task: the copies, then the clock, then the verdict.  They take no *)
(* time next to a frame, but an edge of the same tick may fall anywhere between. *)

CycleBegins ==
  /\ Asleep
  /\ since >= CycleTicks
  /\ word' = 0
  /\ since' = 0
  /\ UNCHANGED <<ticks, capVars, lineVars, sample, db, torn, verdict>>

\* rc_capture_read copies the struct without a lock; any word may be the newer one.
\* With no edge due nothing can come between the words, and the rest is read at once.
ReadWords ==
  /\ word < WordsOfCycle
  /\ word' = IF due = {} THEN WordsOfCycle ELSE word + 1
  /\ sample' = [c \in ChannelSet |-> [w \in WordSet |->
                  IF WordIndex(c, w) \in word + 1..word' THEN cap[c][w] ELSE sample[c][w]]]
  /\ UNCHANGED <<ticks, since, capVars, lineVars, db, torn, verdict>>

\* The clock is read after the copies, so that no stamp is later than now.  The
\* copies live for this cycle.
JudgeFrame ==
  /\ word = WordsOfCycle
  /\ LET valid == RcValid(sample, ticks)
     IN  /\ db' = RcDebounceUpdate(db, valid)
         /\ verdict' = [valid |-> valid, torn |-> torn,
                        outdated |-> \E c \in ChannelSet : Outdated(width_age[c])]
  /\ word' = word + 1
  /\ sample' = [c \in ChannelSet |-> SampleBoot]
  /\ torn' = FALSE
  /\ UNCHANGED <<ticks, since, capVars, lineVars>>

RcNext ==
  \/ Tick
  \/ \E driven \in LineSets : LinesChange(driven)
  \/ \E c \in ChannelSet : RisingEdge(c) \/ FallingEdge(c)
  \/ CycleBegins
  \/ ReadWords
  \/ JudgeFrame

RcSpec == RcInit /\ [][RcNext]_rcVars
-----------------------------------------------------------------------------
\* A channel without a rising edge for the time-out and the cycles of the debounce drops
\* the link, whatever the phase of the wrapping clocks and however the copies are torn;
\* until the clock has come round to the last edge, when rc_capture.h's "single wrap"
\* no longer holds.
FailsafeWithinTimeout ==
  (\E c \in ChannelSet :
      /\ quiet[c] >= TicksOfUs(EdgeTimeoutUs) + RcThreshold * CycleTicks + 1
      /\ quiet[c] < TickMod)
  => ~db.valid

\* A healthy receiver: its pulse and its frame are inside the bands, and a frame is over
\* before the time-out.  (The settings allow a time-out of 20 ms, which some receivers'
\* frames exceed: their edges are too old in a part of the cycles, and the link may drop.)
HealthyReceiver ==
  /\ InBand(CapTicksToUs(PulseTicks), WidthMinUs, WidthMaxUs)
  /\ InBand(CapTicksToUs(FrameTicks), PeriodMinUs, PeriodMaxUs)
  /\ CapTicksToUs(FrameTicks) <= EdgeTimeoutUs

\* Once every line has carried pulses long enough for two edges and a cycle, every frame
\* of a healthy receiver is valid and so is the link: no phase between receiver, interrupt
\* and cycle, and no torn copy of good pulses, fails it.
HealthyFramesAreValid == HealthyReceiver /\ steady >= Settle => verdict.valid /\ db.valid

\* A frame is judged valid on an outdated pulse width only from a copy the interrupt tore.
AcceptedWidthIsRecent == verdict.valid /\ verdict.outdated => verdict.torn
=============================================================================
