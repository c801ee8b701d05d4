------------------------------ MODULE BlackBox ------------------------------
(***************************************************************************)
(* The spot-lock blackbox (components/blackbox): a low-priority task that  *)
(* samples the published state of the control loop every 100 ms and        *)
(* appends records to a ring of flash sectors.  The write cursor and the   *)
(* session counter live in RAM; boot recovers both by scanning the region. *)
(*                                                                         *)
(* A sector is erased when its first slot is written, and programming a    *)
(* slot that is not erased leaves bytes whose CRC fails.  An append may    *)
(* fail, and the power may go, at any point of an erase or a write.        *)
(*                                                                         *)
(* n, the order of the append, and of, the n of the header that a sample   *)
(* was taken under, are history: on flash only a header carries its        *)
(* session id.  The adaptive rate is kept as whether the error moved by    *)
(* the delta.  Bounds: MaxRecords appends, MaxFaults failed or cut ones.   *)
(***************************************************************************)
EXTENDS Integers, Sequences, FiniteSetsExt

CONSTANTS
  Sectors, RecordsPerSector,   \* geometry of the region
  Snapshots,                   \* published states the recorder may see
  HeartbeatTicks, OffTailSamples, SinceCap,
  MaxRecords, MaxFaults

ASSUME GeometryAssumption == Sectors \in Nat \ {0, 1} /\ RecordsPerSector \in Nat \ {0}
ASSUME RateAssumption ==
  /\ HeartbeatTicks \in Nat \ {0} /\ OffTailSamples \in Nat \ {0}
  /\ SinceCap \in Nat /\ SinceCap >= HeartbeatTicks
ASSUME BoundAssumption == MaxRecords \in Nat /\ MaxFaults \in Nat

VARIABLES
  flash,      \* slot -> record
  seq,        \* s_seq, the write cursor
  recorder,   \* the statics of the recorder task
  written,    \* appends tried so far
  faults      \* appends that failed or were cut so far
vars == <<flash, seq, recorder, written, faults>>

-----------------------------------------------------------------------------
(* The ring of records.                                                    *)

Capacity == Sectors * RecordsPerSector
Slots == 0..(Capacity - 1)

EndReasons == {"FAILSAFE", "DISARM", "STICK", "CH3", "GOTO_CANCEL", "OTHER"}
ValidTypes == {"header", "sample", "attempt"}

Record(type, n, session, of, reason) ==
  [type |-> type, n |-> n, session |-> session, of |-> of, reason |-> reason]
Erased  == Record("erased", 0, 0, 0, "NONE")
Corrupt == Record("corrupt", 0, 0, 0, "NONE")

RingSlot(s) == s % Capacity
SectorOf(slot) == slot \div RecordsPerSector

\* Faulty: the sector is erased with its last slot.
NeedsEraseAtLast(s) == RingSlot(s) % RecordsPerSector = RecordsPerSector - 1

NeedsErase(s) == RingSlot(s) % RecordsPerSector = 0

WithSector(f, s, contents) ==
  [slot \in Slots |-> IF SectorOf(slot) = SectorOf(RingSlot(s)) THEN contents ELSE f[slot]]

Prepared(f, s) == IF NeedsErase(s) THEN WithSector(f, s, Erased) ELSE f

Programmed(f, s, record) ==
  [f EXCEPT ![RingSlot(s)] = IF @ = Erased THEN record ELSE Corrupt]

Appended(f, s, record) == Programmed(Prepared(f, s), s, record)

\* What a failed or cut append may leave behind.
Interrupted(f, s, record) ==
  {f, Prepared(f, s), Programmed(Prepared(f, s), s, Corrupt), Appended(f, s, record)}
    \cup (IF NeedsErase(s) THEN {WithSector(f, s, Corrupt)} ELSE {})

Log == [flash |-> flash, seq |-> seq, failed |-> FALSE]

\* The append: on success the cursor advances, on failure it stays.
AppendOutcomes(log, record) ==
  {[log EXCEPT !.flash = Appended(log.flash, log.seq, record), !.seq = @ + 1]}
    \cup (IF faults = MaxFaults THEN {}
          ELSE {[log EXCEPT !.flash = f, !.failed = TRUE]
                  : f \in Interrupted(log.flash, log.seq, record)})

\* The region after the first i records of a tick, at most two: each is tried, whatever
\* became of the one before.
LogsAfter(records, i) ==
  CASE i = 0 -> {Log}
    [] i = 1 -> AppendOutcomes(Log, records[1])
    [] i = 2 -> UNION {AppendOutcomes(log, records[2]) : log \in AppendOutcomes(Log, records[1])}

-----------------------------------------------------------------------------
(* The sampler: what the recorder does with the state it sees.             *)

IsOff(substate) == substate = "OFF"

Event(snap) == snap.source # recorder.source \/ snap.state # recorder.state

SampleDue(snap, moved) == Event(snap) \/ moved \/ recorder.since >= HeartbeatTicks

SamplerAction(snap, moved, attempted) ==
  CASE ~IsOff(recorder.substate) /\ ~IsOff(snap.substate) ->
         IF snap.substate # recorder.substate \/ SampleDue(snap, moved) THEN "SAMPLE" ELSE "IDLE"
    [] IsOff(recorder.substate) /\ ~IsOff(snap.substate) -> "START_SESSION"
    [] ~IsOff(recorder.substate) /\ IsOff(snap.substate) -> "SAMPLE_TAIL"
    [] OTHER -> IF recorder.tail > 0 THEN "SAMPLE_TAIL"
                ELSE IF attempted THEN "LOG_ATTEMPT" ELSE "IDLE"

\* Tail samples owed after this tick, which spends one on the drop.
OffTailLeft(snap) ==
  CASE ~IsOff(snap.substate) -> IF IsOff(recorder.substate) THEN 0 ELSE recorder.tail
    [] ~IsOff(recorder.substate) -> OffTailSamples - 1
    [] OTHER -> IF recorder.tail > 0 THEN recorder.tail - 1 ELSE 0

\* Why a session of that source ended, judged from the state seen after it.
EndReason(snap, source) ==
  CASE snap.state = "FAILSAFE" -> "FAILSAFE"
    [] snap.state \notin {"ARMED", "FAILSAFE"} -> "DISARM"
    [] snap.state = "ARMED" /\ ~snap.sticks_neutral -> "STICK"
    [] snap.state = "ARMED" /\ snap.sticks_neutral /\ snap.ch3_high -> "CH3"
    [] OTHER -> IF source = "GOTO" THEN "GOTO_CANCEL" ELSE "OTHER"

\* Faulty: every tail sample judges anew.
TailReasonAnew(snap) == EndReason(snap, recorder.source)

\* Judged once, on the tick that sees the drop, and kept for the tail.
TailReason(snap) ==
  IF IsOff(recorder.substate) THEN recorder.reason ELSE EndReason(snap, recorder.source)

\* The records of the tick; the session counter advances with the header.
TickRecords(snap, action) ==
  LET next == recorder.session + 1
  IN  CASE action = "START_SESSION" -> <<Record("header", written + 1, next, 0, "NONE"),
                                         Record("sample", written + 2, 0, written + 1, "NONE")>>
        [] action = "SAMPLE"      -> <<Record("sample", written + 1, 0, recorder.header, "NONE")>>
        [] action = "SAMPLE_TAIL" ->
             <<Record("sample", written + 1, 0, recorder.header, TailReason(snap))>>
        [] action = "LOG_ATTEMPT" -> <<Record("attempt", written + 1, 0, 0, "NONE")>>
        [] OTHER -> <<>>

RecorderNext(snap, action) ==
  [substate |-> snap.substate, source |-> snap.source, state |-> snap.state,
   session |-> recorder.session + (IF action = "START_SESSION" THEN 1 ELSE 0),
   header  |-> IF action = "START_SESSION" THEN written + 1 ELSE recorder.header,
   since   |-> IF action # "IDLE" THEN 0
               ELSE IF recorder.since < SinceCap THEN recorder.since + 1 ELSE recorder.since,
   tail    |-> OffTailLeft(snap),
   reason  |-> CASE action = "START_SESSION" -> "NONE"
                 [] action = "SAMPLE_TAIL" -> TailReason(snap)
                 [] OTHER -> recorder.reason]

\* attempted: the control loop counted a CH3 entry attempt since the last tick.
RecorderTick ==
  \E snap \in Snapshots, moved, attempted \in BOOLEAN :
    LET action  == SamplerAction(snap, moved, attempted)
        records == TickRecords(snap, action)
    IN  /\ written + Len(records) <= MaxRecords
        /\ \E log \in LogsAfter(records, Len(records)) :
             /\ flash' = log.flash
             /\ seq' = log.seq
             /\ faults' = faults + (IF log.failed THEN 1 ELSE 0)
        /\ written' = written + Len(records)
        /\ recorder' = RecorderNext(snap, action)

-----------------------------------------------------------------------------
(* Boot: the cursor and the session counter come from a scan of the region. *)

ValidSlots(f) == {slot \in Slots : f[slot].type \in ValidTypes}
HeaderSlots(f) == {slot \in Slots : f[slot].type = "header"}

\* Faulty: the number of records, which a gap makes too small.
ResumeCursorByCount(f) == Cardinality(ValidSlots(f))

\* The slot after the highest one that holds a record.
ResumeCursor(f) == IF ValidSlots(f) = {} THEN 0 ELSE Max(ValidSlots(f)) + 1

\* Faulty: the header of the highest slot, which a wrapped ring left old.
ResumeSessionOfLast(f) == IF HeaderSlots(f) = {} THEN 0 ELSE f[Max(HeaderSlots(f))].session

\* The highest session id found on a header.
ResumeSession(f) == Max({0} \cup {f[slot].session : slot \in HeaderSlots(f)})

RecorderBoot(f) ==
  [substate |-> "OFF", source |-> "NONE", state |-> "DISARMED", session |-> ResumeSession(f),
   header |-> 0, since |-> 0, tail |-> 0, reason |-> "NONE"]

Resume(f) ==
  /\ flash' = f
  /\ seq' = ResumeCursor(f)
  /\ recorder' = RecorderBoot(f)

Init ==
  /\ flash = [slot \in Slots |-> Erased]
  /\ seq = 0
  /\ recorder = RecorderBoot(flash)
  /\ written = 0 /\ faults = 0

\* A reboot between two ticks; one between the two records of a tick counts as a fault, by
\* a PowerCut that leaves the second one unwritten.
Reboot == Resume(flash) /\ UNCHANGED <<written, faults>>

\* The power goes in the middle of an append of a tick.
PowerCut ==
  /\ faults < MaxFaults
  /\ \E snap \in Snapshots, moved, attempted \in BOOLEAN :
       LET records == TickRecords(snap, SamplerAction(snap, moved, attempted))
       IN  /\ written + Len(records) <= MaxRecords
           /\ \E i \in DOMAIN records : \E log \in LogsAfter(records, i - 1) :
                \E f \in Interrupted(log.flash, log.seq, records[i]) : Resume(f)
           /\ written' = written + Len(records)
  /\ faults' = faults + 1

Next == RecorderTick \/ Reboot \/ PowerCut

Spec == Init /\ [][Next]_vars

-----------------------------------------------------------------------------
(* The dump: rows in slot order, under the last header passed on the way.  *)

HeadersBefore(slot) == {h \in HeaderSlots(flash) : h < slot}

DumpedSamples == {slot \in Slots : flash[slot].type = "sample" /\ HeadersBefore(slot) # {}}

\* Faulty: the first header is kept for the whole dump.
DumpedSessionOfFirst(slot) == flash[Min(HeadersBefore(slot))].n

DumpedSession(slot) == flash[Max(HeadersBefore(slot))].n

-----------------------------------------------------------------------------
(* Properties.                                                             *)

\* Sessions on flash never share an id, across wraps, failed appends and reboots,
\* and the next session takes an id above all of them.
SessionIdsUnique ==
  /\ \A h \in HeaderSlots(flash) : flash[h].session <= recorder.session
  /\ \A g, h \in HeaderSlots(flash) : flash[g].session = flash[h].session => g = h

\* The sectors with a record that cannot be read.
Spoiled(f) == {SectorOf(slot) : slot \in {t \in Slots : f[t].type = "corrupt"}}

\* A tick whose appends fail or are cut spoils one sector at most: the appends behind it,
\* which may land on slots it left half written, and the reboots, wherever in the ring they
\* resume, spoil no other.  Without a fault no record is unreadable.
FaultSpoilsOneSector == Cardinality(Spoiled(flash)) <= faults

\* How far ahead of the cursor a slot lies.
Ahead(slot) == (slot - RingSlot(seq)) % Capacity

\* From the cursor on, round the ring, the records get newer.
InOrder ==
  \A a, b \in ValidSlots(flash) : Ahead(a) < Ahead(b) => flash[a].n < flash[b].n

Lost == {flash[slot].n : slot \in ValidSlots(flash)} \ {flash'[slot].n : slot \in ValidSlots(flash')}
Kept == {flash[slot].n : slot \in ValidSlots(flash)} \cap {flash'[slot].n : slot \in ValidSlots(flash')}

OldestLost == \A l \in Lost, k \in Kept : l < k

\* While the ring is in order, what an append takes from it is its oldest records, also when
\* the append fails or is cut; and a tick that writes what it has leaves the ring in order.
OldestGoesFirst ==
  [][InOrder => OldestLost /\ (written' > written /\ faults' = faults => InOrder')]_vars

Ended == {slot \in Slots : flash[slot].type = "sample" /\ flash[slot].reason # "NONE"}

\* All samples of the tail of one drop carry the reason judged at the drop: a stick
\* centred in the tail does not relabel it, and no failed append or reboot lets a tail go
\* on under another reason.
TailKeepsReason ==
  \A s, t \in Ended : flash[s].of = flash[t].of => flash[s].reason = flash[t].reason

\* As long as the ring has not wrapped, a row of the dump carries the session its sample
\* was taken in, with any reboots in between; it stands under another one only if a fault
\* took the header of its own.
DumpedRowsCarryTheirSession ==
  written <= Capacity =>
    \A slot \in DumpedSamples :
      DumpedSession(slot) # flash[slot].of =>
        faults > 0 /\ \A h \in HeaderSlots(flash) : flash[h].n # flash[slot].of

\* blackbox.h: past the capacity the newest record overwrites the oldest, and a
\* reboot keeps recording without overwriting the previous outing.
NewestOverwritesOldest == [][faults' = 0 => OldestLost]_vars

\* blackbox.h: a reboot does not reuse a session id.
SessionIdsNotReused == [][faults' = 0 => recorder'.session >= recorder.session]_vars
=============================================================================
