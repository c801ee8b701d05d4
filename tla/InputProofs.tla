----------------------------- MODULE InputProofs -----------------------------
(***************************************************************************)
(* Proofs about what the control task reads.                               *)
(*                                                                         *)
(* RcLink: the failsafe is timely, a healthy receiver is never failed, and *)
(* only a torn copy passes an outdated width, in every phase of receiver,  *)
(* interrupt and cycle and of the two wrapping clocks.                     *)
(*                                                                         *)
(* GpsReader: what it hands out with a fix has a position, and freshness   *)
(* expires in every phase of the wrapping clock.                           *)
(*                                                                         *)
(* NmeaField: up to five decimals of a minute, a coordinate is exact.      *)
(***************************************************************************)
EXTENDS RcLink, GpsReader, NmeaField, TLAPS

(* The RC link. *)

CapStates ==
  [width_us : Nat, period_us : Nat, last_edge_ticks : 0..(TickMod - 1), edge_seen : BOOLEAN,
   rising_edge_ticks : 0..(TickMod - 1), prev_rising_edge_ticks : 0..(TickMod - 1),
   rising_pending : BOOLEAN, prev_rising_valid : BOOLEAN]

Samples ==
  [width_us : Nat, period_us : Nat, last_edge_ticks : 0..(TickMod - 1), edge_seen : BOOLEAN]

RcTypes ==
  /\ ticks \in 0..(TickMod - 1)
  /\ phase \in 0..(FrameTicks - 1)
  /\ sending \subseteq ChannelSet /\ high \subseteq ChannelSet /\ due \subseteq ChannelSet
  /\ word \in 0..(WordsOfCycle + 1)
  /\ since \in 0..CycleTicks
  /\ ~Asleep => since = 0
  /\ steady \in 0..Settle
  /\ quiet \in [ChannelSet -> 0..TickMod] /\ width_age \in [ChannelSet -> 0..TickMod]
  /\ cap \in [ChannelSet -> CapStates]
  /\ sample \in [ChannelSet -> Samples]
  /\ db \in RcDebounceType
  /\ torn \in BOOLEAN
  /\ verdict \in [valid : BOOLEAN, torn : BOOLEAN, outdated : BOOLEAN]

\* Ticks since the last verdict: while a cycle copies, those of the whole cycle before it.
SinceVerdict == IF Asleep THEN since ELSE CycleTicks

\* Ticks since the last rising edge of a channel, as the stamps tell it.
StampAge(c) == CapTicksElapsed(ticks, cap[c].last_edge_ticks)

\* The stamp of the last rising edge tells its age until the clock has come round to it, a
\* copy of it is the last one unless that edge fell in this very tick, and every verdict on
\* an edge older than the time-out was counted.
StampTells ==
  \A c \in ChannelSet : quiet[c] < TickMod => StampAge(c) = quiet[c]

CopyIsLast ==
  \A c \in ChannelSet :
    ~Asleep /\ quiet[c] > 0 /\ WordIndex(c, "last_edge_ticks") <= word
      => sample[c].last_edge_ticks = cap[c].last_edge_ticks

LateVerdictsCounted ==
  \A c \in ChannelSet, k \in 1..RcThreshold :
    /\ quiet[c] < TickMod
    /\ quiet[c] - SinceVerdict > TicksOfUs(EdgeTimeoutUs) + (k - 1) * CycleTicks
    => db.bad >= k

EdgeInv ==
  /\ StampTells
  /\ CopyIsLast
  /\ LateVerdictsCounted
  /\ db.valid => db.bad < RcThreshold

\* The interrupt's stamps of a channel in both clocks.  The pulse it measured last ended
\* width_age ticks ago: counted back from the last rising edge, or over one more period.
PulseInv(c) ==
  LET s == cap[c]
  IN  /\ s.rising_pending <=> c \in high
      /\ s.prev_rising_edge_ticks = s.rising_edge_ticks
      /\ s.prev_rising_valid => s.rising_edge_ticks = (s.last_edge_ticks + CapEpoch) % TickMod
      /\ s.edge_seen \/ c \in high => s.prev_rising_valid
      /\ s.edge_seen /\ width_age[c] < TickMod =>
           \E width, period \in 0..(TickMod - 1) :
             /\ s.width_us = CapTicksToUs(width)
             /\ IF c \in high THEN s.period_us = CapTicksToUs(period) ELSE period = 0
             /\ width_age[c] + width - StampAge(c) - period \in {-TickMod, 0, TickMod}

\* While no interrupt came between the words, those copied are the interrupt's; once they
\* are all there, a valid copy rests on a recent width.
CopyInv ==
  /\ Asleep \/ word = 0 => ~torn
  /\ word \in 1..(WordsOfCycle - 1) /\ ~torn =>
       \A c \in ChannelSet, w \in WordSet : WordIndex(c, w) <= word => sample[c][w] = cap[c][w]
  /\ word = WordsOfCycle /\ ~torn =>
       \A c \in ChannelSet : ChannelValid(sample[c], ticks) => ~Outdated(width_age[c])

WidthInv ==
  /\ \A c \in ChannelSet : PulseInv(c)
  /\ CopyInv
  /\ AcceptedWidthIsRecent

\* Ticks since a pulse was last to end, and to begin; those of a frame when the edge of
\* this tick is still due.
SincePulse == IF phase >= PulseTicks THEN phase - PulseTicks ELSE phase + FrameTicks - PulseTicks
SinceFall(c) == IF c \in due /\ phase = PulseTicks THEN FrameTicks ELSE SincePulse
SinceRise(c) == IF c \in due /\ phase = 0 THEN FrameTicks ELSE phase

\* What a copy of a word is once the receiver has been healthy for three frames.
HealthyWord(s, w) ==
  CASE w = "width_us" -> s.width_us = CapTicksToUs(PulseTicks)
    [] w = "period_us" -> s.period_us = CapTicksToUs(FrameTicks)
    [] w = "last_edge_ticks" -> CapTicksElapsed(ticks, s.last_edge_ticks) <= FrameTicks
    [] w = "edge_seen" -> s.edge_seen

\* The settling of a line, in the order in which it happens: an edge is due only at its
\* place in the frame; once a pulse has been to end the line is high where a pulse is; the
\* next rising edge is stamped in its place; the next falling edge measures the pulse; and
\* the rising edge behind it the frame.
DueInPlace(c) ==
  c \in due => c \in sending /\ phase = (IF c \in high THEN PulseTicks ELSE 0)
Regular(c) ==
  steady > SincePulse => (c \in high <=> (c \in due <=> phase >= PulseTicks))
RiseSettled(c) ==
  steady - SinceRise(c) > FrameTicks - PulseTicks =>
    StampAge(c) = SinceRise(c) /\ cap[c].prev_rising_valid
FallSettled(c) ==
  steady - SinceFall(c) > FrameTicks =>
    cap[c].edge_seen /\ cap[c].width_us = CapTicksToUs(PulseTicks)
PeriodSettled(c) ==
  steady - SinceRise(c) > 2 * FrameTicks - PulseTicks =>
    cap[c].period_us = CapTicksToUs(FrameTicks)

LineInv(c) ==
  DueInPlace(c) /\ Regular(c) /\ RiseSettled(c) /\ FallSettled(c) /\ PeriodSettled(c)

CopiesHealthy ==
  ~Asleep /\ steady >= 3 * FrameTicks =>
    \A c \in ChannelSet, w \in WordSet : WordIndex(c, w) <= word => HealthyWord(sample[c], w)

VerdictHealthy ==
  HealthyReceiver /\ steady - SinceVerdict >= 3 * FrameTicks => verdict.valid /\ db.valid

SteadyInv ==
  /\ steady > 0 => sending = ChannelSet
  /\ \A c \in ChannelSet : LineInv(c)
  /\ CopiesHealthy
  /\ VerdictHealthy

RcInv == RcTypes /\ EdgeInv /\ WidthInv /\ SteadyInv

-----------------------------------------------------------------------------
\* The difference of two readings of a clock that wraps.
LEMMA WrappedDifference ==
  ASSUME NEW m \in Nat \ {0}, NEW a \in 0..(m - 1), NEW b \in 0..(m - 1)
  PROVE  (a - b) % m = IF a >= b THEN a - b ELSE a - b + m
OBVIOUS

\* The next reading of a clock that wraps.
LEMMA WrappedSuccessor ==
  ASSUME NEW m \in Nat \ {0}, NEW a \in 0..(m - 1)
  PROVE  (a + 1) % m = IF a = m - 1 THEN 0 ELSE a + 1
OBVIOUS

\* A reading of one clock as a reading of another that is ahead of it.
LEMMA WrappedOffset ==
  ASSUME NEW m \in Nat \ {0}, NEW a \in 0..(m - 1), NEW k \in Nat
  PROVE  /\ (a + k) % m \in 0..(m - 1)
         /\ (a + k) % m = IF a + (k % m) < m THEN a + (k % m) ELSE a + (k % m) - m
<1> DEFINE q == k \div m
           r == k % m
           y == (a + k) % m
           z == (a + k) \div m
<1>1. q \in Int /\ r \in 0..(m - 1) /\ k = m * q + r
  OBVIOUS
<1>2. z \in Int /\ y \in 0..(m - 1) /\ a + k = m * z + y
  OBVIOUS
<1> HIDE DEF q, r, y, z
<1>3. m * (z - q) = a + r - y
  BY <1>1, <1>2
<1>4. -m < a + r - y /\ a + r - y < 2 * m /\ z - q \in Int
  BY <1>1, <1>2
<1>5. z - q <= -1 => m * (z - q) <= -m
  BY <1>4
<1>6. z - q >= 2 => m * (z - q) >= 2 * m
  BY <1>4
<1>7. z - q \in {0, 1}
  BY <1>3, <1>4, <1>5, <1>6
<1>8. a + r - y = 0 \/ a + r - y = m
  BY <1>3, <1>7
<1>9. y = IF a + r < m THEN a + r ELSE a + r - m
  BY <1>1, <1>2, <1>8
<1> QED BY <1>2, <1>9 DEF y, r

\* The capture counter and the recency clock tell the same time between two edges.
LEMMA SameElapsed ==
  ASSUME NEW m \in Nat \ {0}, NEW a \in 0..(m - 1), NEW b \in 0..(m - 1), NEW k \in Nat
  PROVE  (((a + k) % m) - ((b + k) % m)) % m = (a - b) % m
<1> DEFINE r == k % m
           x == (a + k) % m
           y == (b + k) % m
<1>1. r \in 0..(m - 1)
  OBVIOUS
<1>2. x \in 0..(m - 1) /\ x = (IF a + r < m THEN a + r ELSE a + r - m)
  BY WrappedOffset
<1>3. y \in 0..(m - 1) /\ y = (IF b + r < m THEN b + r ELSE b + r - m)
  BY WrappedOffset
<1> HIDE DEF r, x, y
<1>4. (x - y) % m = IF x >= y THEN x - y ELSE x - y + m
  BY <1>2, <1>3, WrappedDifference
<1>5. (a - b) % m = IF a >= b THEN a - b ELSE a - b + m
  BY WrappedDifference
<1>6. (x - y) % m = (a - b) % m
  BY <1>1, <1>2, <1>3, <1>4, <1>5
<1> QED BY <1>6 DEF x, y

\* Rounded to microseconds, a time is at most u, or at least u, when it is so in ticks.
LEMMA UsBounds ==
  ASSUME NEW t \in Nat, NEW u \in Nat
  PROVE  /\ CapTicksToUs(t) \in Nat
         /\ CapTicksToUs(t) <= u <=> t + TicksPerUs \div 2 < (u + 1) * TicksPerUs
         /\ CapTicksToUs(t) >= u <=> t + TicksPerUs \div 2 >= u * TicksPerUs
<1> DEFINE n == TicksPerUs
           x == t + n \div 2
           q == x \div n
           r == x % n
<1>1. n \in Nat \ {0}
  BY RcLinkAssumption
<1>2. x \in Nat
  BY <1>1
<1>3. q \in Nat /\ r \in 0..(n - 1) /\ x = n * q + r
  <2> HIDE DEF x, n
  <2> QED BY <1>1, <1>2
<1> HIDE DEF n, x, q, r
<1>4. q <= u => n * q <= n * u
  BY <1>1, <1>3
<1>5. q >= u + 1 => n * q >= n * (u + 1)
  BY <1>1, <1>3
<1>6. q >= u => n * q >= n * u
  BY <1>1, <1>3
<1>7. q <= u - 1 => n * q <= n * (u - 1)
  BY <1>1, <1>3
<1>8. n * (u + 1) = n * u + n /\ n * (u - 1) = n * u - n
      /\ (u + 1) * n = n * u + n /\ u * n = n * u
  BY <1>1
<1>9. /\ q \in Nat
      /\ q <= u <=> x < (u + 1) * n
      /\ q >= u <=> x >= u * n
  <2> DEFINE a == n * q
             b == n * u
  <2>1. a \in Int /\ b \in Int
    BY <1>1, <1>3
  <2> HIDE DEF a, b
  <2>2. x = a + r /\ (u + 1) * n = b + n /\ u * n = b
    BY <1>3, <1>8 DEF a, b
  <2>3. (q <= u => a <= b) /\ (q >= u + 1 => a >= b + n) /\ (q >= u => a >= b) /\ (q <= u - 1 => a <= b - n)
    BY <1>4, <1>5, <1>6, <1>7, <1>8 DEF a, b
  <2> QED BY <1>1, <1>3, <2>1, <2>2, <2>3
<1> QED BY <1>9 DEF CapTicksToUs, n, x, q

\* Half a microsecond of ticks.
LEMMA HalfUs ==
  /\ TicksPerUs \in Nat \ {0} /\ TicksPerUs \div 2 \in Nat
  /\ 2 * (TicksPerUs \div 2) <= TicksPerUs /\ TicksPerUs <= 2 * (TicksPerUs \div 2) + 1
BY RcLinkAssumption

-----------------------------------------------------------------------------
\* The constants, one by one.
LEMMA Constants ==
  /\ TickMod \in Nat \ {0} /\ FrameTicks \in Nat \ {0} /\ PulseTicks \in Nat \ {0}
  /\ CycleTicks \in Nat \ {0} /\ TicksPerUs \in Nat \ {0}
  /\ CapEpoch \in Nat /\ EdgeTimeoutUs \in Nat
  /\ WidthMinUs \in Nat \ {0} /\ WidthMaxUs \in Nat \ {0}
  /\ PeriodMinUs \in Nat \ {0} /\ PeriodMaxUs \in Nat \ {0}
  /\ RcThreshold \in Nat \ {0} /\ BadFrameMax \in Nat /\ RcThreshold <= BadFrameMax
  /\ PulseTicks < FrameTicks
  /\ Len(Channels) \in Nat \ {0}
<1>1. {TickMod, TicksPerUs, FrameTicks, PulseTicks, CycleTicks} \subseteq Nat \ {0}
  BY RcLinkAssumption
<1>2. {CapEpoch, EdgeTimeoutUs, MaxChanges} \subseteq Nat
  BY RcLinkAssumption
<1>3. {WidthMinUs, WidthMaxUs, PeriodMinUs, PeriodMaxUs} \subseteq Nat \ {0}
  BY BandAssumption
<1>4. Channels \in Seq(STRING) /\ Channels # << >>
  BY RcLinkAssumption
<1>5. Len(Channels) \in Nat \ {0}
  BY <1>4
<1> QED BY <1>1, <1>2, <1>3, <1>5, RcDebounceAssumption, RcLinkAssumption

\* A frame, and the time-out with the debounce, are over before the clock has come round.
LEMMA TimeoutFacts ==
  LET timeout == TicksOfUs(EdgeTimeoutUs)
  IN  /\ timeout \in Nat
      /\ FrameTicks < TickMod
      /\ RcThreshold * CycleTicks \in Nat
      /\ timeout + RcThreshold * CycleTicks + 1 < TickMod
<1>1. EdgeTimeoutUs * TicksPerUs \in Nat /\ RcThreshold * CycleTicks \in Nat
  BY Constants
<1> QED BY <1>1, HalfUs, Constants, RcLinkAssumption DEF TicksOfUs

\* Every word of every channel has its place in the order of a cycle.
LEMMA WordPlaces ==
  /\ WordsOfCycle \in Nat \ {0}
  /\ WordSet = {"width_us", "period_us", "last_edge_ticks", "edge_seen"}
  /\ \A c \in ChannelSet, w \in WordSet : WordIndex(c, w) \in 1..WordsOfCycle
<1>1. Len(Words) = 4 /\ WordSet = {"width_us", "period_us", "last_edge_ticks", "edge_seen"}
  <2>1. Len(Words) = 4
    BY DEF Words
  <2>2. WordSet = {Words[1], Words[2], Words[3], Words[4]}
    BY <2>1 DEF WordSet
  <2> QED BY <2>1, <2>2 DEF Words
<1>2. WordsOfCycle \in Nat \ {0} /\ WordsOfCycle = 4 * Len(Channels)
  BY <1>1, Constants DEF WordsOfCycle
<1>3. ASSUME NEW c \in ChannelSet, NEW w \in WordSet
      PROVE  WordIndex(c, w) \in 1..WordsOfCycle
  <2> DEFINE ci == CHOOSE i \in 1..Len(Channels) : Channels[i] = c
             wi == CHOOSE i \in 1..Len(Words) : Words[i] = w
  <2>1. ci \in 1..Len(Channels)
    BY DEF ChannelSet
  <2>2. wi \in 1..4
    BY <1>1 DEF WordSet
  <2>3. WordIndex(c, w) = (ci - 1) * 4 + wi
    BY <1>1 DEF WordIndex
  <2> HIDE DEF ci, wi
  <2> QED BY <1>2, <2>1, <2>2, <2>3, Constants
<1> QED BY <1>1, <1>2, <1>3

\* Before the first edge every word is zero.
LEMMA BootWords == CapBoot \in CapStates /\ SampleBoot \in Samples
<1>1. CapBoot \in CapStates
  BY Constants DEF CapBoot, CapStates
<1>2. SampleBoot \in Samples
  BY <1>1, WordPlaces DEF SampleBoot, Samples, CapStates
<1> QED BY <1>1, <1>2

\* What the interrupt makes of an edge is a capture state.
LEMMA EdgeTyped ==
  ASSUME NEW s \in CapStates, ticks \in 0..(TickMod - 1)
  PROVE  OnRise(s) \in CapStates /\ OnFall(s) \in CapStates
<1>1. CapValue \in 0..(TickMod - 1)
  BY Constants, WrappedOffset DEF CapValue
<1>2. ASSUME NEW x \in 0..(TickMod - 1), NEW y \in 0..(TickMod - 1)
      PROVE  CapTicksToUs(CapTicksElapsed(x, y)) \in Nat
  <2>1. CapTicksElapsed(x, y) \in Nat
    BY Constants, WrappedDifference DEF CapTicksElapsed
  <2> QED BY <2>1, UsBounds
<1>3. OnRise(s) \in CapStates
  BY <1>1, <1>2 DEF OnRise, CapPeriodUs, CapStates
<1>4. OnFall(s) \in CapStates
  BY <1>1, <1>2 DEF OnFall, CapStates
<1> QED BY <1>3, <1>4

\* The initial state is in its type.
LEMMA InitTypes == RcInit => RcTypes
<1> SUFFICES ASSUME RcInit PROVE RcTypes
  OBVIOUS
<1>1. CapBoot \in CapStates /\ SampleBoot \in Samples
  BY BootWords
<1>2. Settle \in Nat
  BY Constants DEF Settle
<1>3. RcDebounceInit \in RcDebounceType
  BY Constants DEF RcDebounceInit, RcDebounceType
<1>4. cap \in [ChannelSet -> CapStates] /\ sample \in [ChannelSet -> Samples]
  BY <1>1 DEF RcInit
<1>5. Asleep /\ word \in 0..(WordsOfCycle + 1)
  BY WordPlaces DEF RcInit, Asleep
<1>6. /\ quiet \in [ChannelSet -> 0..TickMod] /\ width_age \in [ChannelSet -> 0..TickMod]
      /\ since \in 0..CycleTicks /\ steady \in 0..Settle /\ ticks \in 0..(TickMod - 1)
  BY <1>2, Constants DEF RcInit
<1>7. /\ phase \in 0..(FrameTicks - 1) /\ torn \in BOOLEAN /\ db \in RcDebounceType
      /\ verdict \in [valid : BOOLEAN, torn : BOOLEAN, outdated : BOOLEAN]
      /\ sending \subseteq ChannelSet /\ high \subseteq ChannelSet /\ due \subseteq ChannelSet
  BY <1>3 DEF RcInit
<1> QED BY <1>4, <1>5, <1>6, <1>7 DEF RcTypes

\* Every step keeps the types.
LEMMA TypesStep == RcTypes /\ [RcNext]_rcVars => RcTypes'
<1> SUFFICES ASSUME RcTypes, [RcNext]_rcVars PROVE RcTypes'
  OBVIOUS
<1> USE Constants, WordPlaces
<1>1. Settle \in Nat
  BY DEF Settle
<1>2. CASE Tick
  <2>1. ticks' \in 0..(TickMod - 1) /\ phase' \in 0..(FrameTicks - 1)
    BY <1>2, WrappedSuccessor DEF Tick, RcTypes
  <2>2. quiet' \in [ChannelSet -> 0..TickMod] /\ width_age' \in [ChannelSet -> 0..TickMod]
    <3>1. /\ quiet' = [c \in ChannelSet |-> Bounded(quiet[c])]
          /\ width_age' = [c \in ChannelSet |-> Bounded(width_age[c])]
      BY <1>2, Zenon DEF Tick
    <3>2. quiet \in [ChannelSet -> 0..TickMod] /\ width_age \in [ChannelSet -> 0..TickMod]
      BY Zenon DEF RcTypes
    <3>3. \A n \in 0..TickMod : Bounded(n) \in 0..TickMod
      BY DEF Bounded
    <3> QED BY <3>1, <3>2, <3>3
  <2> QED BY <1>1, <1>2, <2>1, <2>2 DEF Tick, RcTypes, Asleep, cycleVars
<1>3. ASSUME NEW driven \in LineSets, LinesChange(driven)
      PROVE  RcTypes'
  <2>1. driven \subseteq ChannelSet
    BY RcLinkAssumption
  <2> QED BY <1>1, <1>3, <2>1 DEF LinesChange, RcTypes, Asleep, cycleVars, capVars
<1>4. ASSUME NEW c \in ChannelSet, RisingEdge(c)
      PROVE  RcTypes'
  BY <1>4, EdgeTyped DEF RisingEdge, RcTypes, Asleep
<1>5. ASSUME NEW c \in ChannelSet, FallingEdge(c)
      PROVE  RcTypes'
  BY <1>5, EdgeTyped DEF FallingEdge, RcTypes, Asleep
<1>6. CASE CycleBegins
  BY <1>6 DEF CycleBegins, RcTypes, Asleep, capVars, lineVars
<1>7. CASE ReadWords
  <2>1. word' \in 1..WordsOfCycle
    BY <1>7 DEF ReadWords, RcTypes
  <2>2. sample' \in [ChannelSet -> Samples]
    BY <1>7 DEF ReadWords, RcTypes, CapStates, Samples
  <2>3. ~Asleep /\ UNCHANGED <<ticks, since, capVars, lineVars, db, torn, verdict>>
    BY <1>7 DEF ReadWords, RcTypes, Asleep
  <2> QED BY <2>1, <2>2, <2>3 DEF RcTypes, Asleep, capVars, lineVars
<1>8. CASE JudgeFrame
  <2>1. SampleBoot \in Samples
    BY BootWords
  <2>2. RcValid(sample, ticks) \in BOOLEAN
    BY DEF RcValid
  <2>3. db' \in RcDebounceType
    BY <1>8, <2>2 DEF JudgeFrame, RcTypes, RcDebounceUpdate, RcDebounceType
  <2>4. verdict' \in [valid : BOOLEAN, torn : BOOLEAN, outdated : BOOLEAN]
    BY <1>8, <2>2 DEF JudgeFrame, RcTypes
  <2>5. /\ word' = WordsOfCycle + 1 /\ torn' = FALSE /\ ~Asleep
        /\ sample' = [c \in ChannelSet |-> SampleBoot]
        /\ UNCHANGED <<ticks, since, capVars, lineVars>>
    BY <1>8 DEF JudgeFrame, Asleep
  <2>6. sample' \in [ChannelSet -> Samples]
    BY <2>1, <2>5
  <2>7. Asleep' /\ word' \in 0..(WordsOfCycle + 1)
    BY <2>5 DEF Asleep
  <2> QED BY <2>3, <2>4, <2>5, <2>6, <2>7 DEF RcTypes, capVars, lineVars
<1>9. CASE UNCHANGED rcVars
  BY <1>9 DEF rcVars, RcTypes, Asleep, cycleVars, capVars, lineVars
<1> QED BY <1>2, <1>3, <1>4, <1>5, <1>6, <1>7, <1>8, <1>9 DEF RcNext

-----------------------------------------------------------------------------
\* A stamp ages with every tick, until the clock has come round to it.
LEMMA Ageing ==
  ASSUME NEW a \in 0..(TickMod - 1), NEW b \in 0..(TickMod - 1)
  PROVE  LET age  == CapTicksElapsed(a, b)
             next == CapTicksElapsed((a + 1) % TickMod, b)
         IN  /\ age \in 0..(TickMod - 1)
             /\ next = IF age = TickMod - 1 THEN 0 ELSE age + 1
             /\ CapTicksElapsed(a, a) = 0
<1> DEFINE a1 == (a + 1) % TickMod
<1>1. a1 \in 0..(TickMod - 1) /\ a1 = IF a = TickMod - 1 THEN 0 ELSE a + 1
  BY Constants, WrappedSuccessor
<1> HIDE DEF a1
<1>2. (a - b) % TickMod = IF a >= b THEN a - b ELSE a - b + TickMod
  BY Constants, WrappedDifference
<1>3. (a1 - b) % TickMod = IF a1 >= b THEN a1 - b ELSE a1 - b + TickMod
  BY <1>1, Constants, WrappedDifference
<1>4. (a - a) % TickMod = 0
  BY Constants, WrappedDifference
<1> QED BY <1>1, <1>2, <1>3, <1>4, Constants DEF CapTicksElapsed, a1

\* The age of every stamp, and what a step does to it.
LEMMA StampAges ==
  ASSUME RcTypes, NEW c \in ChannelSet
  PROVE  StampAge(c) \in 0..(TickMod - 1)
BY Ageing DEF RcTypes, CapStates, StampAge

\* With every tick a stamp ages by one, until the clock has come round to it.
LEMMA StampAgeTicks ==
  ASSUME RcTypes, Tick, NEW c \in ChannelSet
  PROVE  StampAge(c)' = IF StampAge(c) = TickMod - 1 THEN 0 ELSE StampAge(c) + 1
<1>1. ticks' = (ticks + 1) % TickMod /\ cap' = cap
  BY DEF Tick
<1>2. ticks \in 0..(TickMod - 1) /\ cap[c].last_edge_ticks \in 0..(TickMod - 1)
  BY DEF RcTypes, CapStates
<1> QED BY <1>1, <1>2, Ageing DEF StampAge

\* A rising edge stamps the channel in both clocks and measures the period; a falling edge
\* of a pulse measures its width.
LEMMA EdgeFields ==
  ASSUME NEW s \in CapStates
  PROVE  LET r == OnRise(s)
             f == OnFall(s)
         IN  /\ r.last_edge_ticks = ticks
             /\ r.rising_edge_ticks = CapValue /\ r.prev_rising_edge_ticks = CapValue
             /\ r.rising_pending /\ r.prev_rising_valid
             /\ r.width_us = s.width_us /\ r.edge_seen = s.edge_seen
             /\ s.prev_rising_valid => r.period_us = CapPeriodUs(CapValue, s.prev_rising_edge_ticks)
             /\ ~s.rising_pending => f = s
             /\ f.last_edge_ticks = s.last_edge_ticks /\ f.period_us = s.period_us
             /\ f.rising_edge_ticks = s.rising_edge_ticks
             /\ f.prev_rising_edge_ticks = s.prev_rising_edge_ticks
             /\ f.prev_rising_valid = s.prev_rising_valid /\ ~f.rising_pending
             /\ s.rising_pending =>
                  /\ f.width_us = CapTicksToUs(CapTicksElapsed(CapValue, s.rising_edge_ticks))
                  /\ f.edge_seen
BY DEF OnRise, OnFall, CapStates

\* A channel whose last edge is past the time-out fails the frame.
LEMMA LateEdgeFails ==
  ASSUME RcTypes, NEW c \in ChannelSet, NEW s \in Samples,
         CapTicksElapsed(ticks, s.last_edge_ticks) > TicksOfUs(EdgeTimeoutUs)
  PROVE  ~ChannelValid(s, ticks)
<1> DEFINE t == CapTicksElapsed(ticks, s.last_edge_ticks)
<1>1. t \in Nat
  BY Ageing DEF RcTypes, Samples
<1> HIDE DEF t
<1>2. EdgeTimeoutUs * TicksPerUs \in Nat
      /\ (EdgeTimeoutUs + 1) * TicksPerUs = EdgeTimeoutUs * TicksPerUs + TicksPerUs
  BY Constants
<1>3. t > EdgeTimeoutUs * TicksPerUs + TicksPerUs \div 2
  BY DEF TicksOfUs, t
<1>4. ~(t + TicksPerUs \div 2 < (EdgeTimeoutUs + 1) * TicksPerUs)
  BY <1>1, <1>2, <1>3, HalfUs
<1>5. ~(CapTicksToUs(t) <= EdgeTimeoutUs)
  BY <1>1, <1>4, UsBounds, Constants
<1> QED BY <1>5 DEF ChannelValid, EdgeRecent, t

\* The next verdict counts one more bad frame when a channel is late.
LEMMA LateFrameCounts ==
  ASSUME RcTypes, EdgeInv, JudgeFrame, NEW c \in ChannelSet, NEW k \in 1..RcThreshold,
         quiet[c] < TickMod,
         quiet[c] > TicksOfUs(EdgeTimeoutUs) + (k - 1) * CycleTicks
  PROVE  db'.bad >= k
<1> DEFINE T == TicksOfUs(EdgeTimeoutUs)
<1>1. T \in Nat /\ (k - 1) * CycleTicks \in Nat /\ quiet[c] \in 0..TickMod
  BY TimeoutFacts, Constants DEF RcTypes
<1>2. quiet[c] > T
  BY <1>1
<1>3. ~Asleep /\ word = WordsOfCycle
  BY WordPlaces DEF JudgeFrame, Asleep
<1>4. sample[c].last_edge_ticks = cap[c].last_edge_ticks
  <2>1. "last_edge_ticks" \in WordSet
    BY WordPlaces
  <2>2. WordIndex(c, "last_edge_ticks") <= word
    BY <1>3, <2>1, WordPlaces
  <2> QED BY <1>1, <1>2, <1>3, <2>2 DEF EdgeInv, CopyIsLast
<1>5. ~ChannelValid(sample[c], ticks)
  <2>1. CapTicksElapsed(ticks, sample[c].last_edge_ticks) = quiet[c]
    BY <1>4 DEF EdgeInv, StampTells, StampAge
  <2> QED BY <1>2, <2>1, LateEdgeFails DEF RcTypes
<1>6. db' = RcDebounceUpdate(db, FALSE)
  BY <1>5 DEF JudgeFrame, RcValid
<1>7. db.bad \in 0..BadFrameMax /\ db'.bad = IF db.bad < BadFrameMax THEN db.bad + 1 ELSE db.bad
  BY <1>6 DEF RcTypes, RcDebounceType, RcDebounceUpdate
<1>8. CASE k = 1
  BY <1>7, <1>8, Constants
<1>9. CASE k > 1
  <2>1. k - 1 \in 1..RcThreshold /\ (k - 1) * CycleTicks = ((k - 1) - 1) * CycleTicks + CycleTicks
    BY <1>9, Constants
  <2>2. ((k - 1) - 1) * CycleTicks \in Int
    BY Constants
  <2>3. quiet[c] - SinceVerdict > T + ((k - 1) - 1) * CycleTicks
    BY <1>1, <1>3, <2>1, <2>2, Constants DEF SinceVerdict
  <2>4. db.bad >= k - 1
    BY <2>1, <2>3 DEF EdgeInv, LateVerdictsCounted
  <2> QED BY <1>7, <2>4, Constants
<1> QED BY <1>8, <1>9

\* The initial state has no edge behind it.
LEMMA InitEdges == RcInit => EdgeInv
<1> SUFFICES ASSUME RcInit PROVE EdgeInv
  OBVIOUS
<1>1. Asleep
  BY WordPlaces DEF RcInit, Asleep
<1>2. StampTells
  <2>1. CapTicksElapsed(0, 0) = 0
    BY Constants, Ageing
  <2> QED BY <2>1 DEF RcInit, CapBoot, StampTells, StampAge
<1>3. LateVerdictsCounted
  <2> SUFFICES ASSUME NEW c \in ChannelSet, NEW k \in 1..RcThreshold,
                      quiet[c] - SinceVerdict > TicksOfUs(EdgeTimeoutUs) + (k - 1) * CycleTicks
               PROVE  FALSE
    BY DEF LateVerdictsCounted
  <2>1. quiet[c] - SinceVerdict \in Int /\ quiet[c] - SinceVerdict <= 0
    BY <1>1, Constants DEF RcInit, SinceVerdict
  <2>2. (k - 1) * CycleTicks \in Nat
    BY Constants
  <2> QED BY <2>1, <2>2, TimeoutFacts
<1> QED BY <1>1, <1>2, <1>3, Constants DEF EdgeInv, CopyIsLast, RcInit, RcDebounceInit

\* Every step keeps the stamps, their copies and the count of late verdicts.
LEMMA EdgesStep == RcTypes /\ EdgeInv /\ [RcNext]_rcVars => EdgeInv'
<1> SUFFICES ASSUME RcTypes, EdgeInv, [RcNext]_rcVars PROVE EdgeInv'
  OBVIOUS
<1>0. RcTypes'
  BY TypesStep
<1>1. "last_edge_ticks" \in WordSet
  BY WordPlaces
<1>2. CASE Tick
  <2>1. Asleep /\ Asleep' /\ since' = since + 1 /\ UNCHANGED <<cap, sample, db, word>>
    BY <1>2 DEF Tick, Asleep, cycleVars
  <2>2. \A c \in ChannelSet : quiet'[c] = Bounded(quiet[c])
    BY <1>2 DEF Tick
  <2>3. StampTells'
    <3> SUFFICES ASSUME NEW c \in ChannelSet, quiet'[c] < TickMod
                 PROVE  StampAge(c)' = quiet'[c]
      BY DEF StampTells
    <3>1. quiet[c] \in 0..TickMod
      BY DEF RcTypes
    <3>2. quiet[c] < TickMod - 1 /\ quiet'[c] = quiet[c] + 1
      BY <2>2, <3>1, Constants DEF Bounded
    <3>3. StampAge(c) = quiet[c]
      BY <3>1, <3>2, Constants DEF EdgeInv, StampTells
    <3> QED BY <1>2, <3>1, <3>2, <3>3, StampAgeTicks
  <2>4. LateVerdictsCounted'
    <3> SUFFICES ASSUME NEW c \in ChannelSet, NEW k \in 1..RcThreshold, quiet'[c] < TickMod,
                        quiet'[c] - SinceVerdict' > TicksOfUs(EdgeTimeoutUs) + (k - 1) * CycleTicks
                 PROVE  db'.bad >= k
      BY DEF LateVerdictsCounted
    <3>1. quiet[c] \in 0..TickMod /\ since \in Nat
      BY Constants DEF RcTypes
    <3>2. quiet[c] < TickMod /\ quiet'[c] - SinceVerdict' = quiet[c] - SinceVerdict
      <4>1. SinceVerdict = since /\ SinceVerdict' = since + 1
        BY <2>1, Zenon DEF SinceVerdict
      <4>2. quiet[c] < TickMod /\ quiet'[c] = quiet[c] + 1
        BY <2>2, <3>1, Constants DEF Bounded
      <4> QED BY <3>1, <4>1, <4>2
    <3> QED BY <2>1, <3>2 DEF EdgeInv, LateVerdictsCounted
  <2> QED BY <2>1, <2>3, <2>4 DEF EdgeInv, CopyIsLast
<1>3. ASSUME NEW c \in ChannelSet, RisingEdge(c)
      PROVE  EdgeInv'
  <2>1. /\ UNCHANGED <<ticks, since, word, sample, db>>
        /\ cap' = [cap EXCEPT ![c] = OnRise(@)] /\ quiet' = [quiet EXCEPT ![c] = 0]
    BY <1>3 DEF RisingEdge
  <2>2. cap'[c].last_edge_ticks = ticks /\ quiet'[c] = 0
    BY <2>1, EdgeFields DEF RcTypes
  <2>3. \A other \in ChannelSet \ {c} : cap'[other] = cap[other] /\ quiet'[other] = quiet[other]
    BY <2>1 DEF RcTypes
  <2>4. CapTicksElapsed(ticks, ticks) = 0
    BY Ageing DEF RcTypes
  <2>5. StampTells'
    BY <2>1, <2>2, <2>3, <2>4 DEF EdgeInv, StampTells, StampAge
  <2>6. CopyIsLast'
    BY <2>1, <2>2, <2>3 DEF EdgeInv, CopyIsLast, Asleep
  <2>7. LateVerdictsCounted'
    <3> SUFFICES ASSUME NEW other \in ChannelSet, NEW k \in 1..RcThreshold, quiet'[other] < TickMod,
                        quiet'[other] - SinceVerdict'
                          > TicksOfUs(EdgeTimeoutUs) + (k - 1) * CycleTicks
                 PROVE  db'.bad >= k
      BY DEF LateVerdictsCounted
    <3>1. SinceVerdict' = SinceVerdict /\ SinceVerdict \in Nat
      BY <2>1, Constants DEF SinceVerdict, Asleep, RcTypes
    <3>2. (k - 1) * CycleTicks \in Nat
      BY Constants
    <3>3. other # c
      BY <2>2, <3>1, <3>2, TimeoutFacts
    <3> QED BY <2>1, <2>3, <3>1, <3>3 DEF EdgeInv, LateVerdictsCounted
  <2> QED BY <2>1, <2>5, <2>6, <2>7 DEF EdgeInv
<1>4. ASSUME NEW c \in ChannelSet, FallingEdge(c)
      PROVE  EdgeInv'
  <2>1. /\ UNCHANGED <<ticks, since, word, sample, db, quiet>>
        /\ cap' = [cap EXCEPT ![c] = OnFall(@)]
    BY <1>4 DEF FallingEdge
  <2>2. \A other \in ChannelSet : cap'[other].last_edge_ticks = cap[other].last_edge_ticks
    BY <2>1, EdgeFields DEF RcTypes
  <2>3. StampTells' /\ CopyIsLast'
    BY <2>1, <2>2 DEF EdgeInv, StampTells, StampAge, CopyIsLast, Asleep
  <2>4. LateVerdictsCounted'
    BY <2>1 DEF EdgeInv, LateVerdictsCounted, SinceVerdict, Asleep
  <2> QED BY <2>1, <2>3, <2>4 DEF EdgeInv
<1>5. CASE CycleBegins
  <2>1. /\ Asleep /\ ~Asleep' /\ word' = 0 /\ since = CycleTicks
        /\ UNCHANGED <<ticks, cap, quiet, sample, db>>
    BY <1>5, WordPlaces, Constants DEF CycleBegins, Asleep, capVars, RcTypes
  <2>2. CopyIsLast'
    BY <1>1, <2>1, WordPlaces DEF CopyIsLast
  <2>3. LateVerdictsCounted'
    BY <2>1 DEF EdgeInv, LateVerdictsCounted, SinceVerdict
  <2> QED BY <2>1, <2>2, <2>3 DEF EdgeInv, StampTells, StampAge
<1>6. CASE ReadWords
  <2>1. ~Asleep /\ ~Asleep' /\ UNCHANGED <<ticks, since, cap, quiet, db>>
    BY <1>6, WordPlaces DEF ReadWords, Asleep, capVars, RcTypes
  <2>2. ASSUME NEW c \in ChannelSet, quiet[c] > 0, WordIndex(c, "last_edge_ticks") <= word'
        PROVE  sample'[c].last_edge_ticks = cap[c].last_edge_ticks
    <3>1. sample'[c]["last_edge_ticks"]
            = IF WordIndex(c, "last_edge_ticks") \in word + 1..word' THEN cap[c]["last_edge_ticks"]
              ELSE sample[c]["last_edge_ticks"]
      BY <1>1, <1>6 DEF ReadWords
    <3>2. WordIndex(c, "last_edge_ticks") \in Nat /\ word \in Nat /\ word' \in Nat
      BY <1>0, <1>1, WordPlaces DEF RcTypes
    <3>3. CASE WordIndex(c, "last_edge_ticks") <= word
      BY <2>1, <2>2, <3>1, <3>2, <3>3 DEF EdgeInv, CopyIsLast
    <3>4. CASE WordIndex(c, "last_edge_ticks") > word
      BY <2>2, <3>1, <3>2, <3>4
    <3> QED BY <3>2, <3>3, <3>4
  <2>3. CopyIsLast'
    BY <2>1, <2>2 DEF CopyIsLast
  <2>4. LateVerdictsCounted'
    BY <2>1 DEF EdgeInv, LateVerdictsCounted, SinceVerdict
  <2> QED BY <2>1, <2>3, <2>4 DEF EdgeInv, StampTells, StampAge
<1>7. CASE JudgeFrame
  <2>1. /\ ~Asleep /\ Asleep' /\ since' = 0 /\ UNCHANGED <<ticks, cap, quiet>>
        /\ \E valid \in BOOLEAN : db' = RcDebounceUpdate(db, valid)
    <3>1. RcValid(sample, ticks) \in BOOLEAN
      BY DEF RcValid
    <3> QED BY <1>7, <3>1, WordPlaces DEF JudgeFrame, Asleep, capVars, RcTypes
  <2>2. LateVerdictsCounted'
    <3> SUFFICES ASSUME NEW c \in ChannelSet, NEW k \in 1..RcThreshold, quiet[c] < TickMod,
                        quiet[c] - 0 > TicksOfUs(EdgeTimeoutUs) + (k - 1) * CycleTicks
                 PROVE  db'.bad >= k
      BY <2>1 DEF LateVerdictsCounted, SinceVerdict
    <3>1. quiet[c] - 0 = quiet[c]
      BY DEF RcTypes
    <3> QED BY <1>7, <3>1, LateFrameCounts
  <2>3. db'.valid => db'.bad < RcThreshold
    BY <2>1, Constants DEF EdgeInv, RcDebounceUpdate
  <2> QED BY <2>1, <2>2, <2>3 DEF EdgeInv, StampTells, StampAge, CopyIsLast
<1>8. ASSUME UNCHANGED <<ticks, cap, quiet, since, word, sample, db>>
      PROVE  EdgeInv'
  BY <1>8 DEF EdgeInv, StampTells, StampAge, CopyIsLast, LateVerdictsCounted, SinceVerdict, Asleep
<1>9. ASSUME NEW driven \in LineSets, LinesChange(driven)
      PROVE  EdgeInv'
  BY <1>8, <1>9 DEF LinesChange, capVars, cycleVars
<1>10. CASE UNCHANGED rcVars
  BY <1>8, <1>10 DEF rcVars, capVars, cycleVars
<1> QED BY <1>2, <1>3, <1>4, <1>5, <1>6, <1>7, <1>9, <1>10 DEF RcNext

\* A channel late by the time-out and the cycles of the debounce has dropped the link.
LEMMA LateMeansInvalid == RcTypes /\ EdgeInv => FailsafeWithinTimeout
<1> SUFFICES ASSUME RcTypes, EdgeInv, NEW c \in ChannelSet, quiet[c] < TickMod,
                    quiet[c] >= TicksOfUs(EdgeTimeoutUs) + RcThreshold * CycleTicks + 1
             PROVE  ~db.valid
  BY DEF FailsafeWithinTimeout
<1>1. SinceVerdict \in 0..CycleTicks /\ quiet[c] \in Nat
  BY Constants DEF SinceVerdict, RcTypes
<1>2. (RcThreshold - 1) * CycleTicks = RcThreshold * CycleTicks - CycleTicks
  BY Constants
<1>3. quiet[c] - SinceVerdict > TicksOfUs(EdgeTimeoutUs) + (RcThreshold - 1) * CycleTicks
  BY <1>1, <1>2, TimeoutFacts, Constants
<1>4. db.bad >= RcThreshold
  BY <1>3, Constants DEF EdgeInv, LateVerdictsCounted
<1> QED BY <1>4, Constants DEF EdgeInv, RcTypes, RcDebounceType

-----------------------------------------------------------------------------
\* The capture counter tells the age of the last rising edge as the recency clock does.
LEMMA CounterAge ==
  ASSUME RcTypes, NEW c \in ChannelSet, PulseInv(c), cap[c].prev_rising_valid
  PROVE  CapTicksElapsed(CapValue, cap[c].rising_edge_ticks) = StampAge(c)
<1>1. ticks \in 0..(TickMod - 1) /\ cap[c].last_edge_ticks \in 0..(TickMod - 1)
  BY DEF RcTypes, CapStates
<1>2. cap[c].rising_edge_ticks = (cap[c].last_edge_ticks + CapEpoch) % TickMod
  BY DEF PulseInv
<1>3. (((ticks + CapEpoch) % TickMod) - ((cap[c].last_edge_ticks + CapEpoch) % TickMod)) % TickMod
        = (ticks - cap[c].last_edge_ticks) % TickMod
  <2> DEFINE b == cap[c].last_edge_ticks
  <2>1. TickMod \in Nat \ {0} /\ CapEpoch \in Nat /\ b \in 0..(TickMod - 1)
    BY <1>1, Constants
  <2> HIDE DEF b
  <2>2. (((ticks + CapEpoch) % TickMod) - ((b + CapEpoch) % TickMod)) % TickMod = (ticks - b) % TickMod
    BY <1>1, <2>1, SameElapsed
  <2> QED BY <2>2 DEF b
<1> QED BY <1>2, <1>3 DEF CapTicksElapsed, CapValue, StampAge

\* A frame that is valid on the words of one moment rests on a recent pulse: its width, its
\* period and the age of its edge are in their bands, and so is their sum.
LEMMA ValidWidthIsRecent ==
  ASSUME RcTypes, NEW c \in ChannelSet, PulseInv(c), NEW s,
         \A w \in WordSet : s[w] = cap[c][w], ChannelValid(s, ticks)
  PROVE  ~Outdated(width_age[c])
<1> DEFINE e == StampAge(c)
           n == TicksPerUs
           h == n \div 2
<1>1. /\ s.width_us = cap[c].width_us /\ s.period_us = cap[c].period_us
      /\ s.last_edge_ticks = cap[c].last_edge_ticks /\ s.edge_seen = cap[c].edge_seen
  BY WordPlaces
<1>2. e \in 0..(TickMod - 1)
  BY StampAges
<1>3. width_age[c] \in 0..TickMod
  BY DEF RcTypes
<1>4. SUFFICES ASSUME width_age[c] < TickMod
               PROVE  ~Outdated(width_age[c])
  <2>1. TicksOfUs(PeriodMaxUs) \in Nat
    <3>1. PeriodMaxUs * TicksPerUs \in Nat
      BY Constants
    <3> QED BY <3>1, HalfUs DEF TicksOfUs
  <2> QED BY <1>3, <2>1, Constants DEF Outdated
<1>5. PICK width \in 0..(TickMod - 1), period \in 0..(TickMod - 1) :
        /\ s.width_us = CapTicksToUs(width)
        /\ IF c \in high THEN s.period_us = CapTicksToUs(period) ELSE period = 0
        /\ width_age[c] + width - e - period \in {-TickMod, 0, TickMod}
  BY <1>1, <1>4 DEF PulseInv, ChannelValid
<1>6. e + h < (EdgeTimeoutUs + 1) * n
  <2>1. CapTicksToUs(e) <= EdgeTimeoutUs
    BY <1>1 DEF ChannelValid, EdgeRecent, StampAge
  <2> QED BY <1>2, <2>1, UsBounds, Constants
<1>7. width + h < (PeriodMaxUs + 1) * n /\ width + h >= n
  <2>1. CapTicksToUs(width) <= PeriodMaxUs /\ CapTicksToUs(width) >= 1
    <3>1. CapTicksToUs(width) \in Nat /\ WidthMinUs <= CapTicksToUs(width) /\ CapTicksToUs(width) <= WidthMaxUs
      BY <1>5, UsBounds DEF ChannelValid, InBand
    <3> QED BY <3>1, Constants, BandAssumption
  <2>2. width + h >= 1 * n
    BY <2>1, UsBounds
  <2> QED BY <2>1, <2>2, UsBounds, Constants
<1>8. period + h < (PeriodMaxUs + 1) * n
  <2>1. CASE c \in high
    <3>1. CapTicksToUs(period) <= PeriodMaxUs
      BY <1>5, <2>1 DEF ChannelValid, InBand
    <3> QED BY <3>1, UsBounds, Constants
  <2>2. CASE c \notin high
    <3>1. (PeriodMaxUs + 1) * n >= n
      BY Constants
    <3>2. period = 0
      BY <1>5, <2>2
    <3> QED BY <3>1, <3>2, HalfUs, Constants
  <2> QED BY <2>1, <2>2
<1>9. /\ EdgeTimeoutUs * n \in Nat /\ PeriodMaxUs * n \in Nat
      /\ (EdgeTimeoutUs + 1) * n = EdgeTimeoutUs * n + n
      /\ (PeriodMaxUs + 1) * n = PeriodMaxUs * n + n
      /\ (EdgeTimeoutUs + PeriodMaxUs) * n = EdgeTimeoutUs * n + PeriodMaxUs * n
  BY Constants
<1> DEFINE en == EdgeTimeoutUs * n
           pn == PeriodMaxUs * n
<1>10. /\ TicksOfUs(EdgeTimeoutUs + PeriodMaxUs) = en + pn + h
       /\ TicksOfUs(PeriodMaxUs) = pn + h
  BY <1>9 DEF TicksOfUs
<1> HIDE DEF en, pn
<1>11. en \in Nat /\ pn \in Nat /\ e + h < en + n /\ width + h < pn + n /\ period + h < pn + n
  BY <1>6, <1>7, <1>8, <1>9 DEF en, pn
<1>12. n \in Nat \ {0} /\ h \in Nat /\ 2 * h <= n /\ n <= 2 * h + 1
  BY HalfUs
<1> HIDE DEF e, n, h
<1>13. width <= pn + h
  BY <1>11, <1>12
<1>14. e + period - width <= en + pn + h
  BY <1>2, <1>7, <1>11, <1>12
<1>15. \/ width_age[c] <= e + period - width
       \/ width_age[c] = e + period - width + TickMod
  <2> DEFINE age == width_age[c]
  <2>1. age \in Nat /\ e \in Nat
    BY <1>2, <1>3
  <2>2. \/ age + width - e - period = -TickMod
        \/ age + width - e - period = 0
        \/ age + width - e - period = TickMod
    BY <1>5
  <2> HIDE DEF age
  <2>3. age <= e + period - width \/ age = e + period - width + TickMod
    BY <2>1, <2>2, Constants
  <2> QED BY <2>3 DEF age
<1>16. e + period - width + TickMod >= TickMod - (pn + h)
  BY <1>2, <1>13, <1>11, <1>12, Constants
<1> QED BY <1>2, <1>3, <1>10, <1>11, <1>12, <1>14, <1>15, <1>16, Constants DEF Outdated

\* A channel whose capture state, line and clocks stay keeps its stamps as they are.
LEMMA PulseStays ==
  ASSUME NEW c \in ChannelSet, PulseInv(c), UNCHANGED ticks, cap'[c] = cap[c],
         width_age'[c] = width_age[c], c \in high' <=> c \in high
  PROVE  PulseInv(c)'
BY DEF PulseInv, StampAge

\* An edge keeps the stamps of its channel.
LEMMA RiseKeepsPulse ==
  ASSUME RcTypes, NEW c \in ChannelSet, PulseInv(c), RisingEdge(c)
  PROVE  PulseInv(c)'
<1> DEFINE s == cap[c]
           r == OnRise(s)
<1>1. s \in CapStates
  BY DEF RcTypes
<1>2. /\ c \notin high /\ c \in high' /\ UNCHANGED <<ticks, width_age>>
      /\ cap' = [cap EXCEPT ![c] = OnRise(@)]
  BY DEF RisingEdge
<1>3. cap'[c] = r
  BY <1>2 DEF RcTypes
<1>4. /\ r.last_edge_ticks = ticks
      /\ r.rising_edge_ticks = CapValue /\ r.prev_rising_edge_ticks = CapValue
      /\ r.rising_pending /\ r.prev_rising_valid
      /\ r.width_us = s.width_us /\ r.edge_seen = s.edge_seen
      /\ s.prev_rising_valid => r.period_us = CapPeriodUs(CapValue, s.prev_rising_edge_ticks)
  BY <1>1, EdgeFields
<1>5. StampAge(c)' = 0
  BY <1>2, <1>3, <1>4, Ageing DEF StampAge, RcTypes
<1>6. ASSUME s.edge_seen, width_age[c] < TickMod
      PROVE  \E width, period \in 0..(TickMod - 1) :
               /\ r.width_us = CapTicksToUs(width)
               /\ r.period_us = CapTicksToUs(period)
               /\ width_age[c] + width - 0 - period \in {-TickMod, 0, TickMod}
  <2>1. PICK width \in 0..(TickMod - 1) :
          /\ s.width_us = CapTicksToUs(width)
          /\ width_age[c] + width - StampAge(c) - 0 \in {-TickMod, 0, TickMod}
    BY <1>2, <1>6 DEF PulseInv
  <2>2. r.period_us = CapTicksToUs(StampAge(c))
    BY <1>4, <1>6, CounterAge DEF PulseInv, CapPeriodUs
  <2>3. StampAge(c) \in 0..(TickMod - 1) /\ width_age[c] \in 0..TickMod
    BY StampAges DEF RcTypes
  <2>4. width_age[c] + width - 0 - StampAge(c) = width_age[c] + width - StampAge(c) - 0
    BY <2>3
  <2> QED BY <1>4, <2>1, <2>2, <2>3, <2>4
<1> HIDE DEF r
<1>7. r.edge_seen /\ width_age'[c] < TickMod =>
        \E width, period \in 0..(TickMod - 1) :
          /\ r.width_us = CapTicksToUs(width)
          /\ r.period_us = CapTicksToUs(period)
          /\ width_age'[c] + width - StampAge(c)' - period \in {-TickMod, 0, TickMod}
  BY <1>2, <1>4, <1>5, <1>6
<1> QED BY <1>2, <1>3, <1>4, <1>7 DEF PulseInv, CapValue

\* The interrupt on a falling edge keeps what its state tells of the last pulse.
LEMMA FallKeepsPulse ==
  ASSUME RcTypes, NEW c \in ChannelSet, PulseInv(c), FallingEdge(c)
  PROVE  PulseInv(c)'
<1> DEFINE s == cap[c]
           f == OnFall(s)
<1>1. s \in CapStates
  BY DEF RcTypes
<1>2. c \in high /\ c \notin high' /\ UNCHANGED ticks /\ cap' = [cap EXCEPT ![c] = OnFall(@)]
  BY DEF FallingEdge
<1>3. cap'[c] = f /\ s.rising_pending /\ s.prev_rising_valid
  BY <1>2 DEF RcTypes, PulseInv
<1>4. width_age'[c] = 0
  BY <1>3 DEF FallingEdge, RcTypes
<1>5. /\ f.last_edge_ticks = s.last_edge_ticks
      /\ f.rising_edge_ticks = s.rising_edge_ticks
      /\ f.prev_rising_edge_ticks = s.prev_rising_edge_ticks
      /\ f.prev_rising_valid = s.prev_rising_valid /\ ~f.rising_pending
      /\ f.width_us = CapTicksToUs(CapTicksElapsed(CapValue, s.rising_edge_ticks))
  BY <1>1, <1>3, EdgeFields
<1>6. StampAge(c)' = StampAge(c) /\ StampAge(c) \in 0..(TickMod - 1)
  BY <1>2, <1>3, <1>5, StampAges DEF StampAge
<1>7. f.width_us = CapTicksToUs(StampAge(c))
  BY <1>3, <1>5, CounterAge
<1>8. \E width, period \in 0..(TickMod - 1) :
        /\ f.width_us = CapTicksToUs(width)
        /\ period = 0
        /\ width_age'[c] + width - StampAge(c)' - period \in {-TickMod, 0, TickMod}
  <2>1. 0 + StampAge(c) - StampAge(c) - 0 = 0 /\ 0 \in 0..(TickMod - 1)
    BY <1>6, Constants
  <2> HIDE DEF f
  <2> QED BY <1>4, <1>6, <1>7, <2>1
<1> HIDE DEF f
<1> QED BY <1>2, <1>3, <1>4, <1>5, <1>6, <1>7, <1>8 DEF PulseInv

\* A tick keeps the stamps of every channel: the pulse and the edge age alike.
LEMMA TickKeepsPulse ==
  ASSUME RcTypes, Tick, NEW c \in ChannelSet, PulseInv(c)
  PROVE  PulseInv(c)'
<1>1. UNCHANGED <<cap, high>> /\ width_age'[c] = Bounded(width_age[c])
  BY DEF Tick
<1>2. ASSUME cap[c].edge_seen, width_age'[c] < TickMod
      PROVE  \E width, period \in 0..(TickMod - 1) :
               /\ cap[c].width_us = CapTicksToUs(width)
               /\ IF c \in high THEN cap[c].period_us = CapTicksToUs(period) ELSE period = 0
               /\ width_age'[c] + width - StampAge(c)' - period \in {-TickMod, 0, TickMod}
  <2> DEFINE age == width_age[c]
             e == StampAge(c)
             e1 == StampAge(c)'
  <2>1. age \in 0..TickMod /\ e \in 0..(TickMod - 1) /\ e1 = IF e = TickMod - 1 THEN 0 ELSE e + 1
    BY StampAges, StampAgeTicks DEF RcTypes
  <2>2. age < TickMod - 1 /\ width_age'[c] = age + 1
    BY <1>1, <1>2, <2>1, Constants DEF Bounded
  <2>3. PICK width \in 0..(TickMod - 1), period \in 0..(TickMod - 1) :
          /\ cap[c].width_us = CapTicksToUs(width)
          /\ IF c \in high THEN cap[c].period_us = CapTicksToUs(period) ELSE period = 0
          /\ age + width - e - period \in {-TickMod, 0, TickMod}
    <3>1. width_age[c] < TickMod
      BY <2>1, <2>2, Constants
    <3> QED BY <1>2, <3>1 DEF PulseInv
  <2> HIDE DEF age, e, e1
  <2>4. age + 1 + width - e1 - period \in {-TickMod, 0, TickMod}
    <3>1. \/ age + width - e - period = -TickMod
          \/ age + width - e - period = 0
          \/ age + width - e - period = TickMod
      BY <2>3
    <3>2. CASE e = TickMod - 1
      BY <2>1, <2>2, <3>1, <3>2, Constants
    <3>3. CASE e # TickMod - 1
      BY <2>1, <2>2, <3>1, <3>3, Constants
    <3> QED BY <3>2, <3>3
  <2> QED BY <2>2, <2>3, <2>4 DEF e1
<1> QED BY <1>1, <1>2 DEF PulseInv

\* No time passes between a copy and its verdict, so nothing that has aged is outdated now.
LEMMA FreshIsNotOutdated == ~Outdated(0)
<1>1. (EdgeTimeoutUs + PeriodMaxUs) * TicksPerUs \in Nat
  BY Constants
<1> QED BY <1>1, HalfUs DEF Outdated, TicksOfUs

\* The initial state has no pulse behind it.
LEMMA InitWidths == RcInit => WidthInv
<1> SUFFICES ASSUME RcInit PROVE WidthInv
  OBVIOUS
<1>1. \A c \in ChannelSet : PulseInv(c)
  BY DEF RcInit, CapBoot, PulseInv
<1>2. CopyInv
  BY WordPlaces DEF RcInit, CopyInv
<1> QED BY <1>1, <1>2 DEF RcInit, WidthInv, AcceptedWidthIsRecent

\* An edge between the words tears the copies; one behind them leaves them as they are.
LEMMA EdgeKeepsCopies ==
  ASSUME RcTypes, CopyInv, NEW c \in ChannelSet, UNCHANGED <<ticks, word, sample>>,
         torn' = (torn \/ word \in 1..WordsOfCycle - 1),
         \A other \in ChannelSet : width_age'[other] \in {0, width_age[other]}
  PROVE  CopyInv'
<1>1. Asleep' = Asleep /\ (Asleep \/ word = 0 => ~(word \in 1..WordsOfCycle - 1))
  BY WordPlaces DEF Asleep
<1>2. CASE word \in 1..(WordsOfCycle - 1)
  BY <1>1, <1>2, WordPlaces DEF CopyInv
<1>3. CASE ~(word \in 1..(WordsOfCycle - 1))
  BY <1>1, <1>3, FreshIsNotOutdated DEF CopyInv
<1> QED BY <1>2, <1>3

\* Every step keeps the stamps, the copies and the verdict.
LEMMA WidthsStep == RcTypes /\ WidthInv /\ [RcNext]_rcVars => WidthInv'
<1> SUFFICES ASSUME RcTypes, WidthInv, [RcNext]_rcVars PROVE WidthInv'
  OBVIOUS
<1>0. RcTypes'
  BY TypesStep
<1>1. ASSUME UNCHANGED <<ticks, cap, high, width_age, word, sample, torn, verdict>>
      PROVE  WidthInv'
  BY <1>1 DEF WidthInv, PulseInv, StampAge, CopyInv, Asleep, AcceptedWidthIsRecent
<1>2. CASE Tick
  <2>1. Asleep /\ UNCHANGED <<word, torn, verdict>>
    BY <1>2 DEF Tick, cycleVars
  <2>2. CopyInv'
    BY <2>1, WordPlaces DEF WidthInv, CopyInv, Asleep, RcTypes
  <2> QED BY <1>2, <2>1, <2>2, TickKeepsPulse DEF WidthInv, AcceptedWidthIsRecent
<1>3. ASSUME NEW c \in ChannelSet, RisingEdge(c)
      PROVE  WidthInv'
  <2>1. /\ UNCHANGED <<ticks, word, sample, verdict, width_age>>
        /\ torn' = (torn \/ word \in 1..WordsOfCycle - 1)
        /\ high' = high \cup {c} /\ cap' = [cap EXCEPT ![c] = OnRise(@)]
    BY <1>3 DEF RisingEdge
  <2>2. \A other \in ChannelSet \ {c} : PulseInv(other)'
    BY <2>1, PulseStays DEF WidthInv, RcTypes
  <2>3. PulseInv(c)'
    BY <1>3, RiseKeepsPulse DEF WidthInv
  <2>4. CopyInv'
    BY <2>1, EdgeKeepsCopies DEF WidthInv
  <2> QED BY <2>1, <2>2, <2>3, <2>4 DEF WidthInv, AcceptedWidthIsRecent
<1>4. ASSUME NEW c \in ChannelSet, FallingEdge(c)
      PROVE  WidthInv'
  <2>1. /\ UNCHANGED <<ticks, word, sample, verdict>>
        /\ torn' = (torn \/ word \in 1..WordsOfCycle - 1)
        /\ high' = high \ {c} /\ cap' = [cap EXCEPT ![c] = OnFall(@)]
        /\ width_age' = [width_age EXCEPT ![c] = IF cap[c].rising_pending THEN 0 ELSE @]
    BY <1>4 DEF FallingEdge
  <2>2. \A other \in ChannelSet \ {c} : PulseInv(other)'
    BY <2>1, PulseStays DEF WidthInv, RcTypes
  <2>3. PulseInv(c)'
    BY <1>4, FallKeepsPulse DEF WidthInv
  <2>4. \A other \in ChannelSet : width_age'[other] \in {0, width_age[other]}
    BY <2>1 DEF RcTypes
  <2>5. CopyInv'
    BY <2>1, <2>4, EdgeKeepsCopies DEF WidthInv
  <2> QED BY <2>1, <2>2, <2>3, <2>5 DEF WidthInv, AcceptedWidthIsRecent
<1>5. CASE CycleBegins
  <2>1. /\ Asleep /\ word' = 0
        /\ UNCHANGED <<ticks, cap, high, width_age, sample, torn, verdict>>
    BY <1>5 DEF CycleBegins, capVars, lineVars
  <2>2. CopyInv'
    BY <2>1, WordPlaces DEF WidthInv, CopyInv
  <2> QED BY <2>1, <2>2 DEF WidthInv, PulseInv, StampAge, AcceptedWidthIsRecent
<1>6. CASE ReadWords
  <2>1. /\ word < WordsOfCycle /\ UNCHANGED <<ticks, cap, high, width_age, torn, verdict>>
        /\ word \in Nat /\ word' \in 1..WordsOfCycle
    <3>1. word' \in 1..WordsOfCycle
      BY <1>6, WordPlaces DEF ReadWords, RcTypes
    <3> QED BY <1>6, <3>1 DEF ReadWords, capVars, lineVars, RcTypes
  <2>2. ASSUME ~torn, NEW c \in ChannelSet, NEW w \in WordSet, WordIndex(c, w) <= word'
        PROVE  sample'[c][w] = cap[c][w]
    <3>1. sample'[c][w] = IF WordIndex(c, w) \in word + 1..word' THEN cap[c][w] ELSE sample[c][w]
      BY <1>6 DEF ReadWords
    <3>2. WordIndex(c, w) \in 1..WordsOfCycle
      BY WordPlaces
    <3>3. CASE WordIndex(c, w) <= word
      BY <2>1, <2>2, <3>1, <3>2, <3>3, WordPlaces DEF WidthInv, CopyInv
    <3>4. CASE WordIndex(c, w) > word
      BY <2>1, <2>2, <3>1, <3>2, <3>4
    <3> QED BY <2>1, <3>2, <3>3, <3>4
  <2>3. ASSUME word' = WordsOfCycle, ~torn, NEW c \in ChannelSet, ChannelValid(sample'[c], ticks)
        PROVE  ~Outdated(width_age[c])
    <3>1. \A w \in WordSet : sample'[c][w] = cap[c][w]
      BY <2>2, <2>3, WordPlaces
    <3> QED BY <2>3, <3>1, ValidWidthIsRecent DEF WidthInv
  <2>4. CopyInv'
    BY <2>1, <2>2, <2>3, WordPlaces DEF CopyInv, Asleep
  <2> QED BY <2>1, <2>4 DEF WidthInv, PulseInv, StampAge, AcceptedWidthIsRecent
<1>7. CASE JudgeFrame
  <2>1. /\ word = WordsOfCycle /\ word' = WordsOfCycle + 1 /\ torn' = FALSE
        /\ verdict' = [valid |-> RcValid(sample, ticks), torn |-> torn,
                       outdated |-> \E c \in ChannelSet : Outdated(width_age[c])]
        /\ UNCHANGED <<ticks, cap, high, width_age>>
    BY <1>7 DEF JudgeFrame, capVars, lineVars
  <2>2. CopyInv'
    BY <2>1, WordPlaces DEF CopyInv
  <2>3. AcceptedWidthIsRecent'
    <3>1. RcValid(sample, ticks) /\ ~torn => ~\E c \in ChannelSet : Outdated(width_age[c])
      BY <2>1 DEF WidthInv, CopyInv, RcValid
    <3> QED BY <2>1, <3>1 DEF AcceptedWidthIsRecent
  <2> QED BY <2>1, <2>2, <2>3 DEF WidthInv, PulseInv, StampAge
<1>8. ASSUME NEW driven \in LineSets, LinesChange(driven)
      PROVE  WidthInv'
  BY <1>1, <1>8 DEF LinesChange, capVars, cycleVars
<1>9. CASE UNCHANGED rcVars
  BY <1>1, <1>9 DEF rcVars, capVars, lineVars, cycleVars
<1> QED BY <1>2, <1>3, <1>4, <1>5, <1>6, <1>7, <1>8, <1>9 DEF RcNext

-----------------------------------------------------------------------------
\* The places in the frame, and the bound of the settling.
LEMMA Places ==
  ASSUME RcTypes
  PROVE  /\ SincePulse \in 0..(FrameTicks - 1)
         /\ \A c \in ChannelSet : SinceRise(c) \in 0..FrameTicks /\ SinceFall(c) \in 0..FrameTicks
         /\ SinceVerdict \in 0..CycleTicks
         /\ steady \in Nat /\ Settle \in Nat /\ steady <= Settle
         /\ Settle = 3 * FrameTicks + CycleTicks + 1
BY Constants DEF RcTypes, SincePulse, SinceRise, SinceFall, SinceVerdict, Settle

\* What a tick does to the places in the frame; steady goes on unless it is at its bound.
LEMMA TickPlaces ==
  ASSUME RcTypes, SteadyInv, Tick
  PROVE  /\ due = {} /\ due' = (IF phase' = 0 THEN sending \ high
                                 ELSE IF phase' = PulseTicks THEN sending \cap high ELSE {})
         /\ UNCHANGED <<sending, high, cap>>
         /\ phase \in 0..(FrameTicks - 1)
         /\ phase' = IF phase = FrameTicks - 1 THEN 0 ELSE phase + 1
         /\ SincePulse' = IF phase' = PulseTicks THEN 0 ELSE SincePulse + 1
         /\ steady' \in Nat
         /\ steady' > 0 => sending = ChannelSet
         /\ steady' <= steady + 1
         /\ steady' = steady + 1 \/ steady' = 0 \/ (steady = Settle /\ steady' = Settle)
<1>1. phase \in 0..(FrameTicks - 1) /\ steady \in 0..Settle /\ Settle \in Nat
  BY Places DEF RcTypes
<1>2. phase' = IF phase = FrameTicks - 1 THEN 0 ELSE phase + 1
  BY <1>1, Constants, WrappedSuccessor DEF Tick
<1>3. SincePulse' = IF phase' = PulseTicks THEN 0 ELSE SincePulse + 1
  BY <1>1, <1>2, Constants DEF SincePulse
<1>4. steady' = IF sending = ChannelSet /\ steady < Settle THEN steady + 1 ELSE steady
  BY DEF Tick
<1>5. sending # ChannelSet => steady = 0
  BY <1>1 DEF SteadyInv
<1> QED BY <1>1, <1>2, <1>3, <1>4, <1>5 DEF Tick

\* The arithmetic of a tick: the next place in a frame of f ticks whose pulse is p, and what
\* n ticks of healthy lines before it say of those m after it.
LEMMA NextPlace ==
  ASSUME NEW f \in Nat, NEW p \in Nat, 0 < p, p < f,
         NEW bound \in Nat, bound > 3 * f,
         NEW x \in 0..(f - 1), NEW y \in 0..(f - 1), y = (IF x = f - 1 THEN 0 ELSE x + 1),
         NEW sx \in Nat, sx = (IF x >= p THEN x - p ELSE x + f - p),
         NEW n \in 0..bound, NEW m \in Nat,
         m = n + 1 \/ m = 0 \/ (n = bound /\ m = bound)
  PROVE  /\ y = 0 => x = f - 1 /\ sx = f - 1 - p
         /\ y = p => x = p - 1 /\ sx = f - 1
         /\ y # p => y = 0 \/ (x < p <=> y < p)
         /\ y # p /\ m > sx + 1 => n > sx
         /\ m - f > f - p => n > f - 1 - p
         /\ \A k \in Nat : m - (x + 1) > k => n - x > k \/ n - x > 2 * f
         /\ \A k \in Nat : m - (sx + 1) > k => n - sx > k \/ n - sx > 2 * f
         /\ m > f => n > f - 1
OBVIOUS

\* A tick brings every line on by one place, or settles it by one more edge.
LEMMA TickKeepsLine ==
  ASSUME RcTypes, SteadyInv, Tick, NEW c \in ChannelSet
  PROVE  LineInv(c)'
<1> DEFINE f == FrameTicks
           p == PulseTicks
           x == phase
           y == phase'
           sx == SincePulse
           sy == SincePulse'
           n == steady
           m == steady'
           rise == SinceRise(c)'
           fall == SinceFall(c)'
<1>0. LineInv(c) /\ f \in Nat /\ p \in Nat /\ 0 < p /\ p < f /\ Settle \in Nat /\ Settle > 3 * f
  BY Places, Constants DEF SteadyInv
<1>1. /\ c \notin due
      /\ c \in due' <=> \/ phase' = 0 /\ c \in sending \ high
                        \/ phase' # 0 /\ phase' = PulseTicks /\ c \in sending \cap high
      /\ UNCHANGED <<sending, high, cap>>
      /\ m > 0 => c \in sending
  BY TickPlaces
<1>2. DueInPlace(c)'
  BY <1>1 DEF DueInPlace
<1>3. /\ x \in 0..(f - 1) /\ y = (IF x = f - 1 THEN 0 ELSE x + 1)
      /\ sx \in Nat /\ sx = (IF x >= p THEN x - p ELSE x + f - p)
      /\ sy = (IF y = p THEN 0 ELSE sx + 1)
      /\ n \in 0..Settle /\ m \in Nat /\ (m = n + 1 \/ m = 0 \/ (n = Settle /\ m = Settle))
  BY TickPlaces, Places, Constants DEF SincePulse
<1>4. /\ SinceRise(c) = x /\ SinceFall(c) = sx
      /\ rise = (IF c \in due' /\ y = 0 THEN f ELSE y)
      /\ fall = (IF c \in due' /\ y = p THEN f ELSE sy)
  BY <1>1 DEF SinceRise, SinceFall
<1>5. /\ n > sx => (c \in high <=> x < p)
      /\ n - x > f - p => StampAge(c) = x /\ cap[c].prev_rising_valid
      /\ n - sx > f => cap[c].edge_seen /\ cap[c].width_us = CapTicksToUs(p)
      /\ n - x > 2 * f - p => cap[c].period_us = CapTicksToUs(f)
  BY <1>0, <1>1, <1>3, <1>4 DEF LineInv, Regular, RiseSettled, FallSettled, PeriodSettled
<1>6. c \in due' <=> \/ y = 0 /\ c \in sending \ high
                     \/ y # 0 /\ y = p /\ c \in sending \cap high
  BY <1>1
<1> HIDE DEF f, p, x, y, sx, sy, n, m, rise, fall
<1>7. y \in 0..(f - 1)
  BY <1>0, <1>3
<1>8. /\ y = 0 => x = f - 1 /\ sx = f - 1 - p
      /\ y = p => x = p - 1 /\ sx = f - 1
      /\ y # p => y = 0 \/ (x < p <=> y < p)
      /\ y # p /\ m > sx + 1 => n > sx
      /\ m - f > f - p => n > f - 1 - p
      /\ m - (x + 1) > f - p => n - x > f - p
      /\ m - (x + 1) > 2 * f - p => n - x > 2 * f - p
      /\ m - (sx + 1) > f => n - sx > f
      /\ m > f => n > f - 1
  <2>1. f - p \in Nat /\ 2 * f - p \in Nat
    BY <1>0
  <2> QED BY <1>0, <1>3, <1>7, <2>1, NextPlace
<1>9. Regular(c)'
  <2>1. m > sy => (c \in high <=> (c \in due' <=> y >= p))
    <3>1. CASE y = p
      BY <1>0, <1>1, <1>3, <1>6, <3>1
    <3>2. CASE y # p
      BY <1>0, <1>1, <1>3, <1>5, <1>6, <1>7, <1>8, <3>2
    <3> QED BY <3>1, <3>2
  <2> QED BY <1>1, <2>1 DEF Regular, m, sy, y, p
\* The line is high at the end of a frame, once it is settled, until its next rising edge.
<1>10. m - rise > f - p => rise = x + 1
  <2> SUFFICES ASSUME m - rise > f - p PROVE rise = x + 1
    OBVIOUS
  <2>1. CASE y = 0 /\ c \notin due'
    <3>1. rise = 0 /\ c \in high
      BY <1>0, <1>1, <1>3, <1>4, <1>6, <2>1
    <3>2. n > sx
      BY <1>0, <1>3, <1>8, <2>1, <3>1
    <3> QED BY <1>0, <1>3, <1>5, <1>8, <2>1, <3>1, <3>2
  <2>2. CASE y = 0 /\ c \in due'
    BY <1>0, <1>4, <1>8, <2>2
  <2>3. CASE y # 0
    BY <1>3, <1>4, <2>3
  <2> QED BY <2>1, <2>2, <2>3
<1>11. rise \in Nat /\ fall \in Nat
  BY <1>0, <1>3, <1>4, <1>7
<1>12. RiseSettled(c)'
  <2>1. m - rise > f - p => StampAge(c) = x /\ cap[c].prev_rising_valid
    BY <1>5, <1>8, <1>10
  <2>2. StampAge(c) = x => StampAge(c)' = x + 1
    BY <1>0, <1>3, StampAgeTicks, TimeoutFacts, Constants DEF f
  <2> QED BY <1>1, <1>10, <2>1, <2>2 DEF RiseSettled, m, rise, f, p
<1>13. FallSettled(c)'
  <2>1. m - fall > f => n - sx > f
    <3>1. CASE y = p
      <4> SUFFICES ASSUME m - fall > f PROVE n - sx > f
        OBVIOUS
      <4>1. m > f /\ n > sx /\ x < p
        BY <1>0, <1>3, <1>8, <1>11, <3>1
      <4>2. c \in high /\ c \in sending
        BY <1>0, <1>1, <1>3, <1>5, <4>1
      <4>3. fall = sx + 1
        BY <1>0, <1>3, <1>4, <1>6, <1>8, <3>1, <4>2
      <4> QED BY <1>8, <4>3
    <3>2. CASE y # p
      BY <1>3, <1>4, <1>8, <3>2
    <3> QED BY <3>1, <3>2
  <2> QED BY <1>1, <1>5, <2>1 DEF FallSettled, m, fall, f, p
<1>14. PeriodSettled(c)'
  <2>1. m - rise > 2 * f - p => m - rise > f - p
    BY <1>0, <1>3, <1>11
  <2>2. m - rise > 2 * f - p => cap[c].period_us = CapTicksToUs(f)
    BY <1>5, <1>8, <1>10, <2>1
  <2> QED BY <1>1, <2>2 DEF PeriodSettled, m, rise, f, p
<1> QED BY <1>2, <1>9, <1>12, <1>13, <1>14 DEF LineInv

\* A rising edge settles its own line.
LEMMA RiseKeepsLine ==
  ASSUME RcTypes, NEW c \in ChannelSet, PulseInv(c), LineInv(c), RisingEdge(c)
  PROVE  LineInv(c)'
<1> USE Constants
<1>1. /\ c \in due /\ c \notin high /\ c \in high' /\ c \notin due'
      /\ UNCHANGED <<ticks, phase, sending, steady>>
      /\ cap'[c] = OnRise(cap[c])
  BY DEF RisingEdge, RcTypes
<1>2. phase = 0 /\ steady \in Nat /\ SincePulse = FrameTicks - PulseTicks
  <2>1. phase = 0
    BY <1>1 DEF LineInv, DueInPlace
  <2> QED BY <2>1 DEF SincePulse, RcTypes
<1>3. /\ cap'[c].last_edge_ticks = ticks /\ cap'[c].prev_rising_valid
      /\ cap'[c].width_us = cap[c].width_us /\ cap'[c].edge_seen = cap[c].edge_seen
      /\ cap[c].prev_rising_valid =>
           cap'[c].period_us = CapPeriodUs(CapValue, cap[c].prev_rising_edge_ticks)
  BY <1>1, EdgeFields DEF RcTypes
<1>4. SinceRise(c) = FrameTicks /\ SinceRise(c)' = 0 /\ SinceFall(c) = SincePulse
      /\ SinceFall(c)' = SincePulse /\ SincePulse' = SincePulse
  BY <1>1, <1>2 DEF SinceRise, SinceFall, SincePulse
<1>5. DueInPlace(c)' /\ Regular(c)'
  BY <1>1, <1>2, <1>4 DEF DueInPlace, Regular
<1>6. RiseSettled(c)'
  BY <1>1, <1>3, <1>4, Ageing DEF RiseSettled, StampAge, RcTypes
<1>7. FallSettled(c)'
  BY <1>1, <1>3, <1>4 DEF FallSettled, LineInv
<1>8. PeriodSettled(c)'
  <2> SUFFICES ASSUME steady > 2 * FrameTicks - PulseTicks
               PROVE  cap'[c].period_us = CapTicksToUs(FrameTicks)
    BY <1>1, <1>2, <1>4 DEF PeriodSettled
  <2>1. StampAge(c) = FrameTicks /\ cap[c].prev_rising_valid
    BY <1>2, <1>4 DEF LineInv, RiseSettled
  <2> QED BY <1>3, <2>1, CounterAge DEF PulseInv, CapPeriodUs
<1> QED BY <1>5, <1>6, <1>7, <1>8 DEF LineInv

\* The interrupt on a falling edge keeps the line settled: it measures the pulse of a
\* receiver that has been healthy for a frame.
LEMMA FallKeepsLine ==
  ASSUME RcTypes, NEW c \in ChannelSet, PulseInv(c), LineInv(c), FallingEdge(c)
  PROVE  LineInv(c)'
<1> USE Constants
<1>1. /\ c \in due /\ c \in high /\ c \notin high' /\ c \notin due'
      /\ UNCHANGED <<ticks, phase, sending, steady>>
      /\ cap'[c] = OnFall(cap[c])
  BY DEF FallingEdge, RcTypes
<1>2. phase = PulseTicks /\ steady \in Nat /\ SincePulse = 0
  <2>1. phase = PulseTicks
    BY <1>1 DEF LineInv, DueInPlace
  <2> QED BY <2>1 DEF SincePulse, RcTypes
<1>3. cap[c].rising_pending /\ cap[c].prev_rising_valid
  BY <1>1 DEF PulseInv
<1>4. /\ cap'[c].last_edge_ticks = cap[c].last_edge_ticks /\ cap'[c].prev_rising_valid
      /\ cap'[c].period_us = cap[c].period_us
      /\ cap'[c].width_us = CapTicksToUs(CapTicksElapsed(CapValue, cap[c].rising_edge_ticks))
      /\ cap'[c].edge_seen
  BY <1>1, <1>3, EdgeFields DEF RcTypes
<1>5. SinceRise(c) = PulseTicks /\ SinceRise(c)' = PulseTicks /\ SinceFall(c)' = 0
      /\ SincePulse' = SincePulse
  BY <1>1, <1>2 DEF SinceRise, SinceFall, SincePulse
<1>6. DueInPlace(c)' /\ Regular(c)'
  BY <1>1, <1>2, <1>5 DEF DueInPlace, Regular
<1>7. RiseSettled(c)'
  BY <1>1, <1>4, <1>5 DEF RiseSettled, StampAge, LineInv
<1>8. FallSettled(c)'
  <2> SUFFICES ASSUME steady > FrameTicks
               PROVE  cap'[c].width_us = CapTicksToUs(PulseTicks)
    BY <1>1, <1>2, <1>4, <1>5 DEF FallSettled
  <2>1. StampAge(c) = PulseTicks
    BY <1>2, <1>5 DEF LineInv, RiseSettled
  <2> QED BY <1>3, <1>4, <2>1, CounterAge
<1>9. PeriodSettled(c)'
  BY <1>1, <1>4, <1>5 DEF PeriodSettled, LineInv
<1> QED BY <1>6, <1>7, <1>8, <1>9 DEF LineInv

\* A step that leaves a channel and the frame alone leaves its line as it is.
LEMMA LineStays ==
  ASSUME NEW c \in ChannelSet, LineInv(c), UNCHANGED <<ticks, phase, sending, steady>>,
         cap'[c] = cap[c], c \in high' <=> c \in high, c \in due' <=> c \in due
  PROVE  LineInv(c)'
BY DEF LineInv, DueInPlace, Regular, RiseSettled, FallSettled, PeriodSettled, SincePulse, SinceRise,
       SinceFall, StampAge

-----------------------------------------------------------------------------
\* Once the lines have been healthy for three frames, so is every word of the capture state.
LEMMA HealthyCap ==
  ASSUME RcTypes, SteadyInv, steady >= 3 * FrameTicks, NEW c \in ChannelSet, NEW w \in WordSet
  PROVE  HealthyWord(cap[c], w)
<1>1. /\ SinceRise(c) \in 0..FrameTicks /\ SinceFall(c) \in 0..FrameTicks /\ steady \in Nat
      /\ LineInv(c)
  BY Places DEF SteadyInv
<1>2. /\ steady - SinceRise(c) > FrameTicks - PulseTicks
      /\ steady - SinceRise(c) > 2 * FrameTicks - PulseTicks
      /\ steady - SinceFall(c) > FrameTicks
  BY <1>1, Constants
<1>3. /\ StampAge(c) <= FrameTicks /\ cap[c].period_us = CapTicksToUs(FrameTicks)
      /\ cap[c].edge_seen /\ cap[c].width_us = CapTicksToUs(PulseTicks)
  BY <1>1, <1>2 DEF LineInv, RiseSettled, FallSettled, PeriodSettled
<1> QED BY <1>3, WordPlaces DEF HealthyWord, StampAge

\* Four healthy words of a healthy receiver make a valid channel, of whatever moments they are.
LEMMA HealthyWordsAreValid ==
  ASSUME RcTypes, HealthyReceiver, NEW s \in Samples, \A w \in WordSet : HealthyWord(s, w)
  PROVE  ChannelValid(s, ticks)
<1> DEFINE e == CapTicksElapsed(ticks, s.last_edge_ticks)
<1>1. /\ s.width_us = CapTicksToUs(PulseTicks) /\ s.period_us = CapTicksToUs(FrameTicks)
      /\ e <= FrameTicks /\ s.edge_seen
  BY WordPlaces DEF HealthyWord
<1>2. e \in Nat
  BY Ageing DEF RcTypes, Samples
<1> HIDE DEF e
<1>3. CapTicksToUs(e) <= EdgeTimeoutUs
  <2>1. FrameTicks + TicksPerUs \div 2 < (EdgeTimeoutUs + 1) * TicksPerUs
    BY Constants, UsBounds DEF HealthyReceiver
  <2>2. (EdgeTimeoutUs + 1) * TicksPerUs \in Nat
    BY Constants
  <2>3. e + TicksPerUs \div 2 < (EdgeTimeoutUs + 1) * TicksPerUs
    <3> DEFINE k == (EdgeTimeoutUs + 1) * TicksPerUs
               h == TicksPerUs \div 2
    <3>1. k \in Nat /\ h \in Nat /\ FrameTicks + h < k
      BY <2>1, <2>2, HalfUs
    <3> HIDE DEF k, h
    <3>2. e + h < k
      BY <1>1, <1>2, <3>1, Constants
    <3> QED BY <3>2 DEF k, h
  <2> QED BY <1>2, <2>3, UsBounds, Constants
<1> QED BY <1>1, <1>3 DEF HealthyReceiver, ChannelValid, EdgeRecent, e

\* In the initial state no line is steady yet.
LEMMA InitSteady == RcInit => SteadyInv
<1> SUFFICES ASSUME RcInit PROVE SteadyInv
  OBVIOUS
<1>1. steady = 0 /\ due = {} /\ Asleep
  BY WordPlaces DEF RcInit, Asleep
<1>2. /\ SincePulse \in Nat /\ SinceVerdict \in Nat
      /\ \A c \in ChannelSet : SinceRise(c) \in Nat /\ SinceFall(c) \in Nat
  BY InitTypes, Places
<1>3. \A c \in ChannelSet : LineInv(c)
  BY <1>1, <1>2, Constants
     DEF LineInv, DueInPlace, Regular, RiseSettled, FallSettled, PeriodSettled
<1>4. CopiesHealthy /\ VerdictHealthy
  BY <1>1, <1>2, Constants DEF CopiesHealthy, VerdictHealthy
<1> QED BY <1>1, <1>3, <1>4 DEF SteadyInv

\* A step that leaves the frame, the copies and the verdict alone, and every other channel.
LEMMA EdgeKeepsSteady ==
  ASSUME SteadyInv, NEW c \in ChannelSet, LineInv(c)',
         UNCHANGED <<ticks, since, phase, sending, steady, word, sample, db, verdict>>,
         \A other \in ChannelSet \ {c} :
           /\ cap'[other] = cap[other]
           /\ (other \in high' <=> other \in high) /\ (other \in due' <=> other \in due)
  PROVE  SteadyInv'
<1>1. \A other \in ChannelSet : LineInv(other)'
  BY LineStays DEF SteadyInv
<1>2. Asleep' = Asleep /\ SinceVerdict' = SinceVerdict
  BY DEF Asleep, SinceVerdict
<1>3. CopiesHealthy'
  BY <1>2 DEF SteadyInv, CopiesHealthy, HealthyWord
<1>4. VerdictHealthy'
  BY <1>2 DEF SteadyInv, VerdictHealthy
<1> QED BY <1>1, <1>3, <1>4 DEF SteadyInv

\* Every step keeps the settling lines, the healthy copies and the healthy verdict.
LEMMA SteadyStep == RcTypes /\ WidthInv /\ SteadyInv /\ [RcNext]_rcVars => SteadyInv'
<1> SUFFICES ASSUME RcTypes, WidthInv, SteadyInv, [RcNext]_rcVars PROVE SteadyInv'
  OBVIOUS
<1>0. /\ RcTypes' /\ steady \in Nat /\ SinceVerdict \in 0..CycleTicks
      /\ 3 * FrameTicks \in Nat \ {0}
  BY TypesStep, Places, Constants
<1>1. ASSUME UNCHANGED <<ticks, phase, sending, steady, high, due, cap>>
      PROVE  \A c \in ChannelSet : LineInv(c)'
  BY <1>1, LineStays DEF SteadyInv
<1>2. CASE Tick
  <2>1. \A c \in ChannelSet : LineInv(c)'
    BY <1>2, TickKeepsLine
  <2>2. Asleep /\ Asleep' /\ since' = since + 1 /\ UNCHANGED <<db, verdict>>
    BY <1>2 DEF Tick, Asleep, cycleVars
  <2>3. CopiesHealthy'
    BY <2>2 DEF CopiesHealthy
  <2>4. VerdictHealthy'
    <3> DEFINE m == steady'
    <3>1. since \in Nat /\ m \in Nat /\ m <= steady + 1
      BY <1>2, TickPlaces, Constants DEF RcTypes
    <3>2. SinceVerdict = since /\ SinceVerdict' = since + 1
      BY <2>2 DEF SinceVerdict
    <3> HIDE DEF m
    <3>3. m - (since + 1) >= 3 * FrameTicks => steady - since >= 3 * FrameTicks
      BY <1>0, <3>1
    <3> QED BY <2>2, <3>2, <3>3 DEF SteadyInv, VerdictHealthy, m
  <2> QED BY <1>2, <2>1, <2>3, <2>4, TickPlaces DEF SteadyInv
<1>3. ASSUME NEW c \in ChannelSet, RisingEdge(c)
      PROVE  SteadyInv'
  <2>1. LineInv(c)'
    BY <1>3, RiseKeepsLine DEF WidthInv, SteadyInv
  <2>2. /\ UNCHANGED <<ticks, since, phase, sending, steady, word, sample, db, verdict>>
        /\ high' = high \cup {c} /\ due' = due \ {c} /\ cap' = [cap EXCEPT ![c] = OnRise(@)]
    BY <1>3 DEF RisingEdge
  <2>3. \A other \in ChannelSet \ {c} :
          /\ cap'[other] = cap[other]
          /\ (other \in high' <=> other \in high) /\ (other \in due' <=> other \in due)
    BY <2>2 DEF RcTypes
  <2> QED BY <2>1, <2>2, <2>3, EdgeKeepsSteady
<1>4. ASSUME NEW c \in ChannelSet, FallingEdge(c)
      PROVE  SteadyInv'
  <2>1. LineInv(c)'
    BY <1>4, FallKeepsLine DEF WidthInv, SteadyInv
  <2>2. /\ UNCHANGED <<ticks, since, phase, sending, steady, word, sample, db, verdict>>
        /\ high' = high \ {c} /\ due' = due \ {c} /\ cap' = [cap EXCEPT ![c] = OnFall(@)]
    BY <1>4 DEF FallingEdge
  <2>3. \A other \in ChannelSet \ {c} :
          /\ cap'[other] = cap[other]
          /\ (other \in high' <=> other \in high) /\ (other \in due' <=> other \in due)
    BY <2>2 DEF RcTypes
  <2> QED BY <2>1, <2>2, <2>3, EdgeKeepsSteady
<1>5. CASE CycleBegins
  <2>1. /\ Asleep /\ ~Asleep' /\ word' = 0 /\ since = CycleTicks
        /\ UNCHANGED <<ticks, phase, sending, steady, high, due, cap, db, verdict>>
    BY <1>5, WordPlaces, Constants DEF CycleBegins, Asleep, capVars, lineVars, RcTypes
  <2>2. CopiesHealthy'
    <3>1. \A c \in ChannelSet, w \in WordSet : ~(WordIndex(c, w) <= 0)
      BY WordPlaces
    <3> QED BY <2>1, <3>1 DEF CopiesHealthy
  <2>3. VerdictHealthy'
    BY <2>1 DEF SteadyInv, VerdictHealthy, SinceVerdict
  <2> QED BY <1>1, <2>1, <2>2, <2>3 DEF SteadyInv
<1>6. CASE ReadWords
  <2>1. /\ ~Asleep /\ ~Asleep' /\ word \in Nat /\ word' \in Nat
        /\ UNCHANGED <<ticks, since, phase, sending, steady, high, due, cap, db, verdict>>
    BY <1>0, <1>6, WordPlaces DEF ReadWords, Asleep, capVars, lineVars, RcTypes
  <2>2. ASSUME steady >= 3 * FrameTicks, NEW c \in ChannelSet, NEW w \in WordSet,
               WordIndex(c, w) <= word'
        PROVE  HealthyWord(sample'[c], w)
    <3>1. sample'[c][w] = IF WordIndex(c, w) \in word + 1..word' THEN cap[c][w] ELSE sample[c][w]
      BY <1>6 DEF ReadWords
    <3>2. WordIndex(c, w) \in Nat
      BY WordPlaces
    <3>3. CASE WordIndex(c, w) <= word
      <4>1. HealthyWord(sample[c], w)
        BY <2>1, <2>2, <3>3 DEF SteadyInv, CopiesHealthy
      <4>2. sample'[c][w] = sample[c][w]
        BY <2>1, <3>1, <3>2, <3>3
      <4> QED BY <4>1, <4>2, WordPlaces DEF HealthyWord
    <3>4. CASE WordIndex(c, w) > word
      <4>1. HealthyWord(cap[c], w)
        BY <2>2, HealthyCap
      <4>2. sample'[c][w] = cap[c][w]
        BY <2>1, <2>2, <3>1, <3>2, <3>4
      <4> QED BY <4>1, <4>2, WordPlaces DEF HealthyWord
    <3> QED BY <2>1, <3>2, <3>3, <3>4
  <2>3. CopiesHealthy'
    BY <2>1, <2>2 DEF CopiesHealthy, HealthyWord
  <2>4. VerdictHealthy'
    BY <2>1 DEF SteadyInv, VerdictHealthy, SinceVerdict
  <2> QED BY <1>1, <2>1, <2>3, <2>4 DEF SteadyInv
<1>7. CASE JudgeFrame
  <2>1. /\ ~Asleep /\ Asleep' /\ since' = 0 /\ word = WordsOfCycle
        /\ db' = RcDebounceUpdate(db, RcValid(sample, ticks))
        /\ verdict'.valid = RcValid(sample, ticks)
        /\ UNCHANGED <<ticks, phase, sending, steady, high, due, cap>>
    BY <1>7, WordPlaces DEF JudgeFrame, Asleep, capVars, lineVars, RcTypes
  <2>2. ASSUME HealthyReceiver, steady >= 3 * FrameTicks
        PROVE  RcValid(sample, ticks)
    <3>1. \A c \in ChannelSet, w \in WordSet : HealthyWord(sample[c], w)
      BY <2>1, <2>2, WordPlaces DEF SteadyInv, CopiesHealthy
    <3> QED BY <2>2, <3>1, HealthyWordsAreValid DEF RcValid, RcTypes
  <2>3. SinceVerdict' = 0
    BY <2>1 DEF SinceVerdict
  <2>4. VerdictHealthy'
    <3> SUFFICES ASSUME HealthyReceiver, steady' - SinceVerdict' >= 3 * FrameTicks
                 PROVE  verdict'.valid /\ db'.valid
      BY DEF VerdictHealthy
    <3>1. steady >= 3 * FrameTicks
      BY <1>0, <2>1, <2>3
    <3> QED BY <2>1, <2>2, <3>1 DEF RcDebounceUpdate
  <2> QED BY <1>1, <2>1, <2>4 DEF SteadyInv, CopiesHealthy
<1>8. ASSUME NEW driven \in LineSets, LinesChange(driven)
      PROVE  SteadyInv'
  <2>1. due = {} /\ due' = {} /\ steady' = 0 /\ UNCHANGED <<phase, since, word>>
    BY <1>8 DEF LinesChange, capVars, cycleVars
  <2>2. /\ SincePulse' = SincePulse /\ SinceVerdict' = SinceVerdict
        /\ \A c \in ChannelSet : SinceRise(c)' = phase /\ SinceFall(c)' = SincePulse
        /\ SincePulse \in Nat /\ SinceVerdict \in Nat /\ phase \in Nat
    <3>1. SincePulse \in Nat /\ SinceVerdict \in Nat /\ phase \in Nat
      BY Places, Constants DEF RcTypes
    <3> QED BY <2>1, <3>1 DEF SincePulse, SinceRise, SinceFall, SinceVerdict, Asleep
  <2>3. \A c \in ChannelSet : LineInv(c)'
    BY <2>1, <2>2, Constants
       DEF LineInv, DueInPlace, Regular, RiseSettled, FallSettled, PeriodSettled
  <2>4. CopiesHealthy' /\ VerdictHealthy'
    BY <1>0, <2>1, <2>2 DEF CopiesHealthy, VerdictHealthy
  <2> QED BY <2>1, <2>3, <2>4 DEF SteadyInv
<1>9. CASE UNCHANGED rcVars
  <2>1. UNCHANGED <<ticks, since, phase, sending, steady, high, due, cap, word, sample, db, verdict>>
    BY <1>9 DEF rcVars, capVars, lineVars, cycleVars
  <2> QED BY <1>1, <2>1 DEF SteadyInv, CopiesHealthy, HealthyWord, VerdictHealthy, SinceVerdict, Asleep
<1> QED BY <1>2, <1>3, <1>4, <1>5, <1>6, <1>7, <1>8, <1>9 DEF RcNext

-----------------------------------------------------------------------------
\* The inductive invariant of the link: stamps, copies, counted verdicts, measured pulses
\* and the settling of the lines, through every interleaving of interrupt and cycle.
THEOREM RcInvariant == RcSpec => []RcInv
<1>1. RcInit => RcInv
  BY InitTypes, InitEdges, InitWidths, InitSteady DEF RcInv
<1>2. RcInv /\ [RcNext]_rcVars => RcInv'
  BY TypesStep, EdgesStep, WidthsStep, SteadyStep DEF RcInv
<1> QED BY <1>1, <1>2, PTL DEF RcSpec

\* The failsafe is timely: a channel without a rising edge for the time-out and the cycles
\* of the debounce has dropped the link (rc_validity.h), for every length of frame and
\* cycle, every wrap of the clocks and every tearing of the copies.
THEOREM FailsafeIsTimely == RcSpec => []FailsafeWithinTimeout
<1>1. RcInv => FailsafeWithinTimeout
  BY LateMeansInvalid DEF RcInv
<1> QED BY <1>1, RcInvariant, PTL

\* A healthy receiver, whose frame is over before the time-out, is never failed: after Settle ticks of pulses on every line each frame
\* is valid and so is the link, though rc_capture_read copies without a lock.
THEOREM HealthyStaysValid == RcSpec => []HealthyFramesAreValid
<1>1. RcInv => HealthyFramesAreValid
  <2> SUFFICES ASSUME RcInv, HealthyReceiver, steady >= Settle PROVE verdict.valid /\ db.valid
    BY DEF HealthyFramesAreValid
  <2>1. steady - SinceVerdict >= 3 * FrameTicks
    BY Places, Constants DEF RcInv
  <2> QED BY <2>1 DEF RcInv, SteadyInv, VerdictHealthy
<1> QED BY <1>1, RcInvariant, PTL

\* A frame accepted on an outdated pulse width was copied around an interrupt: nothing but a
\* torn copy passes channel_valid on a stale width.
THEOREM WidthIsRecent == RcSpec => []AcceptedWidthIsRecent
<1>1. RcInv => AcceptedWidthIsRecent
  BY DEF RcInv, WidthInv
<1> QED BY <1>1, RcInvariant, PTL

-----------------------------------------------------------------------------
(* The GPS reader. *)

\* The age of the stamp, modulo the clock, is the time since a sentence was accepted under
\* a fix; what was published fresh has since aged by the time the read may block.
GpsInv ==
  /\ gps \in [fix : BOOLEAN, fresh : BOOLEAN, located : BOOLEAN]
  /\ {gps_ms, last_fix_ms} \subseteq 0..(MsMod - 1)
  /\ blocked \in 0..ReadTimeoutMs
  /\ unheld \in 0..MsMod
  /\ gps.fix => gps.located
  /\ unheld < MsMod => (gps_ms - last_fix_ms) % MsMod = unheld
  /\ unheld < MsMod /\ gps.fresh => unheld < StaleAfterMs + blocked

\* What the parser makes of a sentence keeps the state in its type and what was published
\* fresh, and never pairs a fix with a position that was not parsed.
LEMMA ParsedState ==
  ASSUME NEW sentence,
         NEW st \in [fix : BOOLEAN, fresh : BOOLEAN, located : BOOLEAN], st.fix => st.located
  PROVE  LET parsed == NmeaParse(sentence, st)
         IN  /\ parsed.st \in [fix : BOOLEAN, fresh : BOOLEAN, located : BOOLEAN]
             /\ parsed.st.fix => parsed.st.located
             /\ parsed.st.fresh = st.fresh
BY DEF NmeaParse

\* Every step of the reader keeps the invariant.
LEMMA GpsStep == GpsInv /\ [GpsNext]_gpsVars => GpsInv'
<1> SUFFICES ASSUME GpsInv, [GpsNext]_gpsVars
             PROVE  GpsInv'
  OBVIOUS
<1> USE GpsAssumption
<1>1. CASE GpsTick
  <2>1. gps_ms' = IF gps_ms = MsMod - 1 THEN 0 ELSE gps_ms + 1
    BY <1>1, WrappedSuccessor DEF GpsTick, GpsInv
  <2>2. gps_ms' \in 0..(MsMod - 1)
    BY <2>1 DEF GpsInv
  <2>3. unheld' < MsMod => (gps_ms' - last_fix_ms) % MsMod = unheld'
    <3>1. (gps_ms - last_fix_ms) % MsMod
            = IF gps_ms >= last_fix_ms THEN gps_ms - last_fix_ms ELSE gps_ms - last_fix_ms + MsMod
      BY WrappedDifference DEF GpsInv
    <3>2. (gps_ms' - last_fix_ms) % MsMod
            = IF gps_ms' >= last_fix_ms THEN gps_ms' - last_fix_ms
              ELSE gps_ms' - last_fix_ms + MsMod
      BY <2>2, WrappedDifference DEF GpsInv
    <3>3. unheld < MsMod /\ unheld' < MsMod => unheld' = unheld + 1
      BY <1>1 DEF GpsTick, GpsOlder
    <3>4. unheld' < MsMod => unheld < MsMod
      BY <1>1 DEF GpsTick, GpsOlder, GpsInv
    <3> DEFINE d == (gps_ms - last_fix_ms) % MsMod
               e == (gps_ms' - last_fix_ms) % MsMod
    <3>5. d = IF gps_ms >= last_fix_ms THEN gps_ms - last_fix_ms
              ELSE gps_ms - last_fix_ms + MsMod
      BY <3>1
    <3>6. e = IF gps_ms' >= last_fix_ms THEN gps_ms' - last_fix_ms
              ELSE gps_ms' - last_fix_ms + MsMod
      BY <3>2
    <3>7. unheld < MsMod => d = unheld
      BY DEF GpsInv
    <3> HIDE DEF d, e
    <3>8. unheld' < MsMod => e = unheld'
      BY <2>1, <3>3, <3>4, <3>5, <3>6, <3>7 DEF GpsInv
    <3> QED BY <3>8 DEF e
  <2> QED BY <1>1, <2>2, <2>3 DEF GpsTick, GpsOlder, GpsInv
<1>2. CASE \E piece \in Pieces : FeedPiece(piece)
  BY <1>2 DEF FeedPiece, GpsInv
<1>3. CASE FeedTerminator
  <2>1. CASE line.start.part # "whole"
    BY <1>3, <2>1 DEF FeedTerminator, GpsInv
  <2>2. CASE line.start.part = "whole"
    <3> DEFINE parsed == NmeaParse(line.start.of, gps)
    <3>1. /\ gps' = parsed.st
          /\ last_fix_ms' = IF parsed.ok
                            THEN SensorFreshnessStamp(last_fix_ms, gps_ms, parsed.st.fix)
                            ELSE last_fix_ms
          /\ unheld' = IF parsed.ok /\ parsed.st.fix THEN 0 ELSE unheld
          /\ gps_ms' = gps_ms /\ blocked' = blocked
      BY <1>3, <2>2 DEF FeedTerminator
    <3>2. /\ parsed.st \in [fix : BOOLEAN, fresh : BOOLEAN, located : BOOLEAN]
          /\ parsed.st.fix => parsed.st.located
          /\ parsed.st.fresh = gps.fresh
      BY ParsedState DEF GpsInv
    <3> HIDE DEF parsed
    <3>3. CASE parsed.ok /\ parsed.st.fix
      <4>1. last_fix_ms' = gps_ms /\ unheld' = 0
        BY <3>1, <3>3 DEF SensorFreshnessStamp
      <4>2. (gps_ms - gps_ms) % MsMod = 0
        BY WrappedDifference DEF GpsInv
      <4> QED BY <3>1, <3>2, <4>1, <4>2 DEF GpsInv
    <3>4. CASE ~(parsed.ok /\ parsed.st.fix)
      <4>1. last_fix_ms' = last_fix_ms /\ unheld' = unheld
        BY <3>1, <3>4 DEF SensorFreshnessStamp
      <4> QED BY <3>1, <3>2, <4>1 DEF GpsInv
    <3> QED BY <3>3, <3>4
  <2> QED BY <2>1, <2>2
<1>4. CASE UpdateFreshness
  <2>1. unheld < MsMod => gps'.fresh = (unheld < StaleAfterMs)
    BY <1>4 DEF UpdateFreshness, SensorIsFresh, GpsInv
  <2>2. gps' \in [fix : BOOLEAN, fresh : BOOLEAN, located : BOOLEAN]
    <3> DEFINE recent == SensorIsFresh(gps_ms, last_fix_ms, StaleAfterMs)
    <3>1. recent \in BOOLEAN
      BY DEF SensorIsFresh
    <3> HIDE DEF recent
    <3>2. gps' = [gps EXCEPT !.fresh = recent]
      BY <1>4 DEF UpdateFreshness, recent
    <3> QED BY <3>1, <3>2 DEF GpsInv
  <2>3. gps'.fix = gps.fix /\ gps'.located = gps.located
    BY <1>4 DEF UpdateFreshness, GpsInv
  <2> QED BY <1>4, <2>1, <2>2, <2>3 DEF UpdateFreshness, GpsInv
<1>5. CASE UNCHANGED gpsVars
  BY <1>5 DEF gpsVars, GpsInv
<1> QED BY <1>1, <1>2, <1>3, <1>4, <1>5 DEF GpsNext

\* The invariant of the reader holds.
THEOREM GpsInvariant == GpsSpec => []GpsInv
<1>1. GpsInit => GpsInv
  <2>1. (0 - 0) % MsMod = 0
    BY GpsAssumption, WrappedDifference
  <2> QED BY <2>1, GpsAssumption DEF GpsInit, GpsInv, GpsBoot
<1> QED BY <1>1, GpsStep, PTL DEF GpsSpec

\* No order of lost, fixless and half-parsed sentences hands out a fix at the zero position
\* of boot.
THEOREM FixIsLocated == GpsSpec => []FixHasPosition
<1>1. GpsInv => FixHasPosition
  BY DEF GpsInv, FixHasPosition, GpsViews, GpsBoot
<1> QED BY <1>1, GpsInvariant, PTL

\* A fix that is not renewed expires within the staleness window and one read, wherever
\* the clock wraps, until it has come round to the stamp.
THEOREM FreshnessRunsOut == GpsSpec => []FreshnessExpires
<1>1. GpsInv => FreshnessExpires
  BY GpsAssumption DEF GpsInv, FreshnessExpires, GpsExpired
<1> QED BY <1>1, GpsInvariant, PTL

(* The coordinate of a sentence. *)

\* What one decimal more is worth: parse_coord's scale after n decimals, and the weight of
\* the decimal that follows.
ScaleAfter(n) ==
  IF n = 0 THEN 1 ELSE IF n = 1 THEN 10 ELSE IF n = 2 THEN 100
  ELSE IF n = 3 THEN 1000 ELSE IF n = 4 THEN 10000 ELSE 100000

WeightOf(n) ==
  IF n = 1 THEN 10000 ELSE IF n = 2 THEN 1000 ELSE IF n = 3 THEN 100
  ELSE IF n = 4 THEN 10 ELSE 1

FieldInv ==
  /\ field \in [degrees : Degrees, minutes : Minutes, hemi : Hemispheres]
  /\ decimals \in Seq(0..9) /\ Len(decimals) <= 5
  /\ frac = [value |-> frac.value, scale |-> ScaleAfter(Len(decimals))]
  /\ frac.value \in Nat
  /\ frac.value * (100000 \div frac.scale) = WorthE5(decimals)

\* Every scale the loop reaches in five decimals divides 100000, ten times the one before.
LEMMA Scales ==
  ASSUME NEW n \in 0..4
  PROVE  /\ ScaleAfter(n) \in Nat /\ ScaleAfter(n) <= 100000
         /\ ScaleAfter(n + 1) = ScaleAfter(n) * 10
         /\ 100000 \div ScaleAfter(n + 1) = WeightOf(n + 1)
         /\ 100000 \div ScaleAfter(n) = 10 * WeightOf(n + 1)
<1>1. CASE n = 0
  BY <1>1 DEF ScaleAfter, WeightOf
<1>2. CASE n = 1
  BY <1>2 DEF ScaleAfter, WeightOf
<1>3. CASE n = 2
  BY <1>3 DEF ScaleAfter, WeightOf
<1>4. CASE n = 3
  BY <1>4 DEF ScaleAfter, WeightOf
<1>5. CASE n = 4
  BY <1>5 DEF ScaleAfter, WeightOf
<1> QED BY <1>1, <1>2, <1>3, <1>4, <1>5

\* One decimal more adds its digit at its weight: a field t that goes on after s by one digit.
LEMMA WorthOfOneMore ==
  ASSUME NEW s, NEW t, NEW n \in 0..4, Len(s) = n, Len(t) = n + 1,
         \A i \in 1..n : t[i] = s[i] /\ s[i] \in 0..9,
         t[n + 1] \in 0..9
  PROVE  WorthE5(t) = WorthE5(s) + t[n + 1] * WeightOf(n + 1)
<1>1. CASE n = 0
  BY <1>1 DEF WorthE5, WeightOf
<1>2. CASE n = 1
  BY <1>2 DEF WorthE5, WeightOf
<1>3. CASE n = 2
  BY <1>3 DEF WorthE5, WeightOf
<1>4. CASE n = 3
  BY <1>4 DEF WorthE5, WeightOf
<1>5. CASE n = 4
  BY <1>5 DEF WorthE5, WeightOf
<1> QED BY <1>1, <1>2, <1>3, <1>4, <1>5

\* Appending keeps the digits before it and puts the new one last.
LEMMA DigitAppended ==
  ASSUME NEW s \in Seq(0..9), NEW d \in 0..9
  PROVE  /\ Append(s, d) \in Seq(0..9) /\ Len(s) \in Nat /\ Len(Append(s, d)) = Len(s) + 1
         /\ \A i \in 1..Len(s) : Append(s, d)[i] = s[i] /\ s[i] \in 0..9
         /\ Append(s, d)[Len(s) + 1] = d
<1>1. Append(s, d) \in Seq(0..9)
  OBVIOUS
<1>2. Len(s) \in Nat /\ Len(Append(s, d)) = Len(s) + 1
  OBVIOUS
<1>3. \A i \in 1..Len(s) : Append(s, d)[i] = s[i] /\ s[i] \in 0..9
  OBVIOUS
<1>4. Append(s, d)[Len(s) + 1] = d
  OBVIOUS
<1> QED BY <1>1, <1>2, <1>3, <1>4

\* A decimal appended to a field of the receiver adds its digit at its weight.
LEMMA WorthOfAppend ==
  ASSUME NEW s \in Seq(0..9), NEW d \in 0..9, Len(s) <= 4
  PROVE  WorthE5(Append(s, d)) = WorthE5(s) + d * WeightOf(Len(s) + 1)
<1> DEFINE t == Append(s, d)
<1>1. /\ Len(t) = Len(s) + 1 /\ t[Len(s) + 1] = d /\ Len(s) \in Nat
      /\ \A i \in 1..Len(s) : t[i] = s[i] /\ s[i] \in 0..9
  BY DigitAppended, Zenon
<1> HIDE DEF t
<1>2. Len(s) \in 0..4
  <2> DEFINE n == Len(s)
  <2>1. n \in Nat /\ n <= 4
    BY <1>1, Zenon
  <2> HIDE DEF n
  <2>2. n \in 0..4
    BY <2>1
  <2> QED BY <2>2 DEF n
<1>3. WorthE5(t) = WorthE5(s) + t[Len(s) + 1] * WeightOf(Len(s) + 1)
  BY <1>1, <1>2, WorthOfOneMore
<1> QED BY <1>1, <1>3 DEF t

\* With at most five decimals, what the loop has read is the digits written, in the scale
\* their number calls for.
LEMMA FieldInvariant == ASSUME MaxDecimals <= 5 PROVE FieldSpec => []FieldInv
<1>1. FieldInit => FieldInv
  <2> SUFFICES ASSUME FieldInit PROVE FieldInv
    OBVIOUS
  <2>1. WorthE5(<< >>) = 0
    BY DEF WorthE5
  <2>2. ScaleAfter(0) = 1
    BY DEF ScaleAfter
  <2> QED BY <2>1, <2>2 DEF FieldInit, FieldInv
<1>2. FieldInv /\ [FieldNext]_fieldVars => FieldInv'
  <2> SUFFICES ASSUME FieldInv, [FieldNext]_fieldVars PROVE FieldInv'
    OBVIOUS
  <2>1. CASE UNCHANGED fieldVars
    BY <2>1 DEF fieldVars, FieldInv
  <2>2. ASSUME NEW d \in Digits, WriteDecimal(d) PROVE FieldInv'
    <3> DEFINE n == Len(decimals)
    <3>1. /\ n < MaxDecimals /\ decimals' = Append(decimals, d)
          /\ frac' = FractionDigit(frac, d) /\ field' = field
      BY <2>2, Zenon DEF WriteDecimal
    <3>2. decimals \in Seq(0..9) /\ n <= 5 /\ d \in 0..9
      BY FieldAssumption DEF FieldInv
    <3>3. n \in 0..4
      <4>1. n \in Nat
        BY <3>2, DigitAppended, Zenon
      <4> HIDE DEF n
      <4> QED BY <3>1, <4>1, FieldAssumption
    <3>4. /\ decimals' \in Seq(0..9) /\ Len(decimals') = n + 1
          /\ WorthE5(decimals') = WorthE5(decimals) + d * WeightOf(n + 1)
      <4>1. n <= 4
        <5> HIDE DEF n
        <5> QED BY <3>3
      <4> QED BY <3>1, <3>2, <4>1, DigitAppended, WorthOfAppend, Zenon
    <3>5. /\ frac.scale = ScaleAfter(n) /\ frac.value \in Nat
          /\ frac.value * (100000 \div ScaleAfter(n)) = WorthE5(decimals)
      BY DEF FieldInv
    <3> HIDE DEF n
    <3>6. frac' = [value |-> frac.value * 10 + d, scale |-> ScaleAfter(n + 1)]
      <4>1. ScaleAfter(n) <= 100000 /\ ScaleAfter(n + 1) = ScaleAfter(n) * 10
        BY <3>3, Scales
      <4>2. FractionDigit(frac, d) = [value |-> frac.value * 10 + d, scale |-> ScaleAfter(n + 1)]
        BY <3>5, <4>1 DEF FractionDigit
      <4> QED BY <3>1, <4>2, Zenon
    <3>7. frac'.value * (100000 \div ScaleAfter(n + 1)) = WorthE5(decimals')
      <4>1. /\ 100000 \div ScaleAfter(n + 1) = WeightOf(n + 1)
            /\ 100000 \div ScaleAfter(n) = 10 * WeightOf(n + 1)
        BY <3>3, Scales
      <4>2. WeightOf(n + 1) \in Nat
        BY <3>3 DEF WeightOf
      <4>3. (frac.value * 10 + d) * WeightOf(n + 1) = frac.value * (10 * WeightOf(n + 1)) + d * WeightOf(n + 1)
        BY <3>2, <3>5, <4>2
      <4>4. (frac.value * 10 + d) * WeightOf(n + 1) = WorthE5(decimals')
        BY <3>4, <3>5, <4>1, <4>3
      <4> QED BY <3>6, <4>1, <4>4
    <3>8. frac'.value \in Nat /\ frac' = [value |-> frac'.value, scale |-> ScaleAfter(n + 1)]
      BY <3>2, <3>5, <3>6
    <3>9. field' \in [degrees : Degrees, minutes : Minutes, hemi : Hemispheres]
      BY <3>1 DEF FieldInv
    <3>10. n + 1 <= 5
      BY <3>3
    <3> QED BY <3>4, <3>7, <3>8, <3>9, <3>10 DEF FieldInv
  <2> QED BY <2>1, <2>2 DEF FieldNext
<1> QED BY <1>1, <1>2, PTL DEF FieldSpec

\* Up to five decimals of a minute, the precision parse_coord is written for, a coordinate
\* loses nothing and is rejected only beyond 180 degrees, for every degree, minute and digit.
THEOREM CoordinateIsExact == ASSUME MaxDecimals <= 5 PROVE FieldSpec => []CoordIsExact
<1>1. FieldInv => CoordIsExact
  <2> SUFFICES ASSUME FieldInv PROVE CoordIsExact
    OBVIOUS
  <2>1. MinutesE5(field.minutes, frac) = field.minutes * 100000 + WorthE5(decimals)
    BY DEF FieldInv, MinutesE5
  <2> QED BY <2>1 DEF CoordIsExact, ParseCoord, Rejected
<1> QED BY <1>1, FieldInvariant, PTL
=============================================================================
