--------------------------- MODULE BlackBoxProofs ---------------------------
(***************************************************************************)
(* Proofs about BlackBox, for every geometry of the region, every set of   *)
(* published states and any number of faults: session ids on flash are     *)
(* unique, a fault spoils one sector at most, the reason of a drop is kept *)
(* for its tail, the ring loses its oldest sector first until a reboot     *)
(* finds it wrapped, and the dump of a log that has not wrapped puts each  *)
(* sample under the session it was written in.                             *)
(***************************************************************************)
EXTENDS BlackBox, FiniteSetTheorems, WellFoundedInduction, TLAPS

Records ==
  [type : ValidTypes \cup {"erased", "corrupt"},
   n : Nat, session : Nat, of : Nat, reason : {"NONE"} \cup EndReasons]

\* A region whose headers have distinct ids up to that of the recorder.
Distinct(f, session) ==
  /\ f \in [Slots -> Records]
  /\ \A slot \in Slots : f[slot].type = "erased" => f[slot] = Erased
  /\ \A h \in HeaderSlots(f) : f[h].session <= session
  /\ \A g, h \in HeaderSlots(f) : f[g].session = f[h].session => g = h

HasReason(record) == record.type = "sample" /\ record.reason # "NONE"

\* A region of records numbered up to w, whose samples with a reason agree on it, header by
\* header; those under the header in use have the reason cur, none of them if it is "NONE".
Agreed(f, header, cur, w) ==
  /\ \A s \in ValidSlots(f) : f[s].n <= w
  /\ \A s \in Slots : HasReason(f[s]) => f[s].of \in 1..w
  /\ \A s \in Slots : HasReason(f[s]) /\ f[s].of = header => f[s].reason = cur
  /\ \A s, t \in Slots : HasReason(f[s]) /\ HasReason(f[t]) /\ f[s].of = f[t].of
                           => f[s].reason = f[t].reason

\* The reason of the drop whose tail may still be written; none while a session goes on.
Current(r) == IF IsOff(r.substate) THEN r.reason ELSE "NONE"

\* The region is erased from the cursor to the end of its sector, unless the cursor is
\* about to erase that sector.
AheadErased(f, s) ==
  ~NeedsErase(s) =>
    \A slot \in Slots :
      slot >= RingSlot(s) /\ SectorOf(slot) = SectorOf(RingSlot(s)) => f[slot] = Erased

\* The sectors that are spoiled, and the one that the appends to come will spoil.
Damaged(f, s) == Spoiled(f) \cup (IF AheadErased(f, s) THEN {} ELSE {SectorOf(RingSlot(s))})

AtMost(S, k) == IsFiniteSet(S) /\ Cardinality(S) <= k

\* What a recorder state has, with w appends tried.
RecorderOK(r, w) ==
  /\ r.session \in Nat /\ r.header \in 0..w /\ r.tail \in Nat
  /\ r.reason \in {"NONE"} \cup EndReasons
  /\ ~IsOff(r.substate) \/ r.tail > 0 => r.header > 0

BlackBoxInv ==
  /\ {seq, written, faults} \subseteq Nat
  /\ RecorderOK(recorder, written)
  /\ Distinct(flash, recorder.session)
  /\ Agreed(flash, recorder.header, Current(recorder), written)
  /\ AtMost(Damaged(flash, seq), faults)

-----------------------------------------------------------------------------
(* Arithmetic of the ring.                                                 *)

\* A bounded set of naturals that is not empty has a greatest element, and Max is it.
LEMMA MaxOfBounded ==
  ASSUME NEW S \in SUBSET Nat, S # {}, NEW b \in Nat, \A x \in S : x <= b
  PROVE  Max(S) \in S /\ \A x \in S : x <= Max(S)
<1> DEFINE Bounds == {n \in Nat : \A x \in S : x <= n}
<1>1. PICK m \in Bounds : \A n \in Bounds : <<n, m>> \notin OpToRel(<, Nat)
  <2>1. Bounds # {} /\ Bounds \subseteq Nat
    OBVIOUS
  <2> HIDE DEF Bounds
  <2> QED BY <2>1, WFMin, NatLessThanWellFounded
<1>2. \A n \in Bounds : ~(n < m)
  BY <1>1, Zenon DEF OpToRel
<1>3. m \in S
  <2>1. SUFFICES ASSUME m \notin S PROVE FALSE
    OBVIOUS
  <2>2. PICK x \in S : TRUE
    OBVIOUS
  <2>3. m - 1 \in Bounds
    BY <2>1, <2>2
  <2> HIDE DEF Bounds
  <2>4. m \in Nat
    BY DEF Bounds
  <2> QED BY <1>2, <2>3, <2>4
<1>4. m \in S /\ \A x \in S : m >= x
  BY <1>3
<1> QED BY <1>4 DEF Max

\* Quotient and remainder are unique.
LEMMA RemainderUnique ==
  ASSUME NEW c \in Nat \ {0}, NEW q \in Nat, NEW x \in 0..(c - 1)
  PROVE  (c * q + x) % c = x
<1> DEFINE a == c * q + x
           k == a \div c
           y == a % c
<1>1. a \in Nat /\ k \in Int /\ y \in 0..(c - 1) /\ a = c * k + y
  OBVIOUS
<1>2. c * (q - k) = y - x
  BY <1>1
<1> HIDE DEF k, y
<1>3. q - k \in Int /\ -c < y - x /\ y - x < c
  BY <1>1
<1>4. q - k >= 1 => c * (q - k) >= c
  BY <1>3
<1>5. q - k <= -1 => c * (q - k) <= -c
  BY <1>3
<1>6. q - k = 0
  BY <1>2, <1>3, <1>4, <1>5
<1>7. y = x
  BY <1>1, <1>2, <1>6
<1> QED BY <1>7 DEF y

\* The next position of the ring is the next slot, or slot 0 behind the last.
LEMMA NextSlot ==
  ASSUME NEW c \in Nat \ {0}, NEW s \in Nat
  PROVE  /\ s % c \in 0..(c - 1)
         /\ (s + 1) % c = IF s % c = c - 1 THEN 0 ELSE (s % c) + 1
<1> DEFINE q == s \div c
           r == s % c
<1>1. q \in Nat /\ r \in 0..(c - 1) /\ s = c * q + r
  OBVIOUS
<1> HIDE DEF q, r
<1>2. CASE r = c - 1
  <2>1. s + 1 = c * (q + 1) + 0
    BY <1>1, <1>2
  <2>2. (c * (q + 1) + 0) % c = 0
    BY <1>1, RemainderUnique
  <2> QED BY <1>1, <1>2, <2>1, <2>2 DEF r
<1>3. CASE r # c - 1
  <2>1. s + 1 = c * q + (r + 1)
    BY <1>1
  <2>2. (c * q + (r + 1)) % c = r + 1
    BY <1>1, <1>3, RemainderUnique
  <2> QED BY <1>1, <1>3, <2>1, <2>2 DEF r
<1> QED BY <1>2, <1>3

\* A slot that does not begin a sector lies in the sector of the slot before it.
LEMMA SameSector ==
  ASSUME NEW r \in Nat \ {0}, NEW p \in Nat, (p + 1) % r # 0
  PROVE  (p + 1) \div r = p \div r
OBVIOUS

\* Capacity is positive, and the position of the cursor is a slot.
LEMMA RingGeometry ==
  /\ Capacity \in Nat \ {0} /\ RecordsPerSector \in Nat \ {0}
  /\ \A s \in Nat : RingSlot(s) \in Slots
<1>1. Capacity \in Nat \ {0}
  BY GeometryAssumption DEF Capacity
<1>2. \A s \in Nat : s % Capacity \in 0..(Capacity - 1)
  BY <1>1, NextSlot
<1> QED BY <1>1, <1>2, GeometryAssumption DEF RingSlot, Slots

-----------------------------------------------------------------------------
(* One append.                                                             *)

\* What an append, done, failed or cut, makes of a region.
Touched(f, g, s, record) ==
  /\ g \in [Slots -> Records]
  /\ \A slot \in Slots :
       g[slot] \in {f[slot], Erased, Corrupt} \/ (slot = RingSlot(s) /\ g[slot] = record)

\* The regions an append passes through.
LEMMA AppendTouches ==
  ASSUME NEW f \in [Slots -> Records], NEW s \in Nat, NEW record \in Records
  PROVE  /\ Touched(f, Appended(f, s, record), s, record)
         /\ \A g \in Interrupted(f, s, record) : Touched(f, g, s, record)
<1>1. Erased \in Records /\ Corrupt \in Records
  BY DEF Records, Erased, Corrupt, Record, ValidTypes
<1>2. \A contents \in {Erased, Corrupt} : Touched(f, WithSector(f, s, contents), s, record)
  BY <1>1 DEF Touched, WithSector
<1>3. Touched(f, f, s, record)
  BY DEF Touched
<1>4. Touched(f, Prepared(f, s), s, record)
  BY <1>2, <1>3 DEF Prepared
<1>5. ASSUME NEW contents \in {record, Corrupt}
      PROVE  Touched(f, Programmed(Prepared(f, s), s, contents), s, record)
  <2> DEFINE p == Prepared(f, s)
             new == IF p[RingSlot(s)] = Erased THEN contents ELSE Corrupt
  <2>1. p \in [Slots -> Records] /\ new \in {record, Corrupt} /\ new \in Records
    BY <1>1, <1>4 DEF Touched
  <2>2. Programmed(p, s, contents) = [p EXCEPT ![RingSlot(s)] = new]
    BY <2>1, RingGeometry DEF Programmed
  <2>3. \A slot \in Slots :
          p[slot] \in {f[slot], Erased, Corrupt} \/ (slot = RingSlot(s) /\ p[slot] = record)
    BY <1>4 DEF Touched
  <2> HIDE DEF p, new
  <2>4. Touched(f, [p EXCEPT ![RingSlot(s)] = new], s, record)
    BY <2>1, <2>3 DEF Touched
  <2> QED BY <2>2, <2>4 DEF p
<1>6. Touched(f, Appended(f, s, record), s, record)
  BY <1>5 DEF Appended
<1>7. ASSUME NEW g \in Interrupted(f, s, record)
      PROVE  Touched(f, g, s, record)
  <2>1. CASE g = f
    BY <1>3, <2>1
  <2>2. CASE g = Prepared(f, s)
    BY <1>4, <2>2
  <2>3. CASE g = Programmed(Prepared(f, s), s, Corrupt)
    BY <1>5, <2>3
  <2>4. CASE g = Appended(f, s, record)
    BY <1>6, <2>4
  <2>5. CASE g = WithSector(f, s, Corrupt)
    BY <1>2, <2>5
  <2> QED BY <2>1, <2>2, <2>3, <2>4, <2>5 DEF Interrupted
<1> QED BY <1>6, <1>7

\* An append keeps ids distinct: a header brings an id above all of them.
LEMMA TouchedDistinct ==
  ASSUME NEW old \in Nat, NEW new \in Nat, old <= new,
         NEW f, Distinct(f, old), NEW s, NEW record \in Records, record.type \in ValidTypes,
         record.type = "header" => record.session = new /\ old < new,
         NEW g, Touched(f, g, s, record)
  PROVE  Distinct(g, new)
<1>1. Erased.type = "erased" /\ Corrupt.type = "corrupt"
  BY DEF Erased, Corrupt, Record
<1>2. \A slot \in Slots :
        g[slot] \in {f[slot], Erased, Corrupt} \/ (slot = RingSlot(s) /\ g[slot] = record)
  BY DEF Touched
<1>3. \A h \in HeaderSlots(g) :
        \/ h \in HeaderSlots(f) /\ g[h] = f[h]
        \/ h = RingSlot(s) /\ g[h].session = new /\ old < new
  BY <1>1, <1>2 DEF HeaderSlots
<1>4. \A h \in HeaderSlots(f) : f[h].session <= old /\ f[h].session \in Nat
  BY DEF Distinct, HeaderSlots, Records
<1>5. \A h \in HeaderSlots(g) : g[h].session <= new
  BY <1>3, <1>4
<1>6. \A a, b \in HeaderSlots(g) : g[a].session = g[b].session => a = b
  BY <1>3, <1>4 DEF Distinct
<1>7. \A slot \in Slots : g[slot].type = "erased" => g[slot] = Erased
  BY <1>1, <1>2 DEF Distinct, ValidTypes
<1> QED BY <1>5, <1>6, <1>7 DEF Distinct, Touched

\* An append keeps reasons agreed if its record has the one of the header in use.
LEMMA TouchedAgreed ==
  ASSUME NEW header, NEW cur, NEW w, NEW f, Agreed(f, header, cur, w),
         NEW s, NEW record, NEW g, Touched(f, g, s, record), record.n <= w,
         HasReason(record) => /\ record.of = header /\ record.of \in 1..w
                              /\ record.reason = cur
  PROVE  Agreed(g, header, cur, w)
<1>1. ~HasReason(Erased) /\ ~HasReason(Corrupt)
  BY DEF HasReason, Erased, Corrupt, Record
<1>2. \A slot \in Slots : HasReason(g[slot]) => g[slot] = f[slot] \/ g[slot] = record
  BY <1>1 DEF Touched
<1>3. \A slot \in Slots : HasReason(g[slot]) =>
        /\ g[slot].of \in 1..w
        /\ g[slot].of = header => g[slot].reason = cur
        /\ (HasReason(f[slot]) /\ g[slot] = f[slot]) \/ g[slot].of = header
  BY <1>2 DEF Agreed
<1>4. \A slot \in ValidSlots(g) : g[slot].n <= w
  <2>1. Erased.type \notin ValidTypes /\ Corrupt.type \notin ValidTypes
    BY DEF Erased, Corrupt, Record, ValidTypes
  <2>2. \A slot \in ValidSlots(g) : g[slot] = record \/ (slot \in ValidSlots(f) /\ g[slot] = f[slot])
    BY <2>1 DEF Touched, ValidSlots
  <2> QED BY <2>2 DEF Agreed
<1> QED BY <1>3, <1>4 DEF Agreed

\* An append that succeeds damages no sector: it may spoil the one the cursor is in, if a
\* slot it comes to was left half written, and then that one was damaged before.
LEMMA AppendedDamage ==
  ASSUME NEW f \in [Slots -> Records], NEW s \in Nat,
         NEW record \in Records, record.type \in ValidTypes
  PROVE  Damaged(Appended(f, s, record), s + 1) \subseteq Damaged(f, s)
<1> DEFINE p == RingSlot(s)
           q == RingSlot(s + 1)
           prepared == Prepared(f, s)
           g == Appended(f, s, record)
<1>1. /\ p \in Slots /\ q \in Slots
      /\ q = IF p = Capacity - 1 THEN 0 ELSE p + 1
  <2>1. s + 1 \in Nat /\ Capacity \in Nat \ {0}
    BY RingGeometry
  <2>2. p \in Slots /\ q \in Slots
    BY <2>1, RingGeometry
  <2>3. (s + 1) % Capacity = IF s % Capacity = Capacity - 1 THEN 0 ELSE (s % Capacity) + 1
    BY <2>1, NextSlot
  <2> QED BY <2>2, <2>3 DEF RingSlot
<1>2. Erased.type = "erased" /\ Corrupt.type = "corrupt" /\ record.type # "corrupt"
  BY DEF Erased, Corrupt, Record, ValidTypes
<1>3. ~NeedsErase(s + 1) => q = p + 1 /\ SectorOf(q) = SectorOf(p)
  <2>1. SUFFICES ASSUME ~NeedsErase(s + 1) PROVE q = p + 1 /\ SectorOf(q) = SectorOf(p)
    OBVIOUS
  <2>2. q % RecordsPerSector # 0
    BY <2>1 DEF NeedsErase
  <2>3. q = p + 1
    <3>1. 0 % RecordsPerSector = 0
      BY RingGeometry
    <3> QED BY <1>1, <2>2, <3>1
  <2>4. p \in Nat
    BY <1>1, RingGeometry DEF Slots
  <2> QED BY <2>2, <2>3, <2>4, SameSector, RingGeometry DEF SectorOf
<1>4. CASE NeedsErase(s) \/ AheadErased(f, s)
  <2>1. /\ prepared \in [Slots -> Records]
        /\ \A slot \in Slots : prepared[slot] \in {f[slot], Erased}
        /\ \A slot \in Slots :
             slot >= p /\ SectorOf(slot) = SectorOf(p) => prepared[slot] = Erased
    <3>1. prepared \in [Slots -> Records]
      BY AppendTouches DEF Interrupted, Touched
    <3>2. CASE NeedsErase(s)
      BY <3>1, <3>2 DEF Prepared, WithSector
    <3>3. CASE ~NeedsErase(s)
      BY <1>4, <3>1, <3>3 DEF Prepared, AheadErased
    <3> QED BY <3>2, <3>3
  <2>2. g = [prepared EXCEPT ![p] = record]
    <3>1. p >= p
      BY <1>1 DEF Slots
    <3>2. prepared[p] = Erased
      BY <1>1, <2>1, <3>1
    <3> QED BY <3>2 DEF Appended, Programmed
  <2>3. \A slot \in Slots : g[slot].type = "corrupt" => f[slot].type = "corrupt"
    BY <1>1, <1>2, <2>1, <2>2
  <2>4. ASSUME ~NeedsErase(s + 1), NEW slot \in Slots, slot >= q, SectorOf(slot) = SectorOf(q)
        PROVE  g[slot] = Erased
    <3>1. p \in Nat /\ slot \in Nat
      BY <1>1, RingGeometry DEF Slots
    <3>2. slot >= p /\ slot # p /\ SectorOf(slot) = SectorOf(p)
      BY <1>3, <2>4, <3>1
    <3> QED BY <2>1, <2>2, <3>2
  <2> QED BY <2>3, <2>4 DEF Damaged, Spoiled, AheadErased
<1>5. CASE ~NeedsErase(s) /\ ~AheadErased(f, s)
  <2>1. SectorOf(p) \in Damaged(f, s)
    BY <1>5 DEF Damaged
  <2>2. \A slot \in Slots : slot # p => g[slot] = f[slot]
    BY <1>5 DEF Appended, Programmed, Prepared
  <2>3. Spoiled(g) \subseteq Spoiled(f) \cup {SectorOf(p)}
    BY <2>2 DEF Spoiled
  <2>4. ~AheadErased(g, s + 1) => SectorOf(q) = SectorOf(p)
    BY <1>3 DEF AheadErased
  <2> QED BY <2>1, <2>3, <2>4 DEF Damaged
<1> QED BY <1>4, <1>5

\* One that fails or is cut damages the sector of the cursor only.
LEMMA InterruptedDamage ==
  ASSUME NEW f \in [Slots -> Records], NEW s \in Nat, NEW record \in Records,
         NEW g \in Interrupted(f, s, record)
  PROVE  Damaged(g, s) \subseteq Spoiled(f) \cup {SectorOf(RingSlot(s))}
<1>1. \A slot \in Slots : SectorOf(slot) # SectorOf(RingSlot(s)) => g[slot] = f[slot]
  <2> DEFINE Elsewhere(h) ==
        h \in [Slots -> Records]
          /\ \A slot \in Slots : SectorOf(slot) # SectorOf(RingSlot(s)) => h[slot] = f[slot]
  <2>1. Erased \in Records /\ Corrupt \in Records
    BY DEF Records, Erased, Corrupt, Record, ValidTypes
  <2>2. \A contents \in {Erased, Corrupt} : Elsewhere(WithSector(f, s, contents))
    BY <2>1 DEF WithSector
  <2>3. Elsewhere(Prepared(f, s))
    BY <2>2 DEF Prepared
  <2>4. ASSUME NEW h, Elsewhere(h), NEW contents \in {record, Corrupt}
        PROVE  Elsewhere(Programmed(h, s, contents))
    BY <2>1, <2>4, RingGeometry DEF Programmed
  <2>5. Elsewhere(f)
    OBVIOUS
  <2>6. Elsewhere(g)
    <3> HIDE DEF Elsewhere
    <3> QED BY <2>2, <2>3, <2>4, <2>5 DEF Interrupted, Appended
  <2> QED BY <2>6
<1>2. Spoiled(g) \subseteq Spoiled(f) \cup {SectorOf(RingSlot(s))}
  BY <1>1 DEF Spoiled
<1> QED BY <1>2 DEF Damaged

\* A reboot damages nothing: the slots behind the highest record are erased or spoiled.
LEMMA ResumedDamage ==
  ASSUME NEW f, NEW session, Distinct(f, session)
  PROVE  Damaged(f, ResumeCursor(f)) \subseteq Spoiled(f)
<1> DEFINE cursor == ResumeCursor(f)
           q == RingSlot(cursor)
<1>1. SUFFICES ASSUME ~NeedsErase(cursor), NEW slot \in Slots, slot >= q,
                      SectorOf(slot) = SectorOf(q), f[slot] # Erased
               PROVE  f[slot].type = "corrupt"
  BY DEF Damaged, AheadErased, Spoiled
<1>2. slot \notin ValidSlots(f) => f[slot].type = "corrupt"
  BY <1>1 DEF Distinct, ValidSlots, Records
<1>3. 0 % RecordsPerSector = 0 /\ 0 % Capacity = 0
  BY RingGeometry
<1>4. CASE ValidSlots(f) = {}
  BY <1>2, <1>4
<1>5. CASE ValidSlots(f) # {}
  <2> DEFINE m == Max(ValidSlots(f))
  <2>1. m \in Slots /\ \A x \in ValidSlots(f) : x <= m
    <3>1. ValidSlots(f) \in SUBSET Nat /\ Capacity \in Nat
          /\ \A x \in ValidSlots(f) : x <= Capacity
      BY RingGeometry DEF ValidSlots, Slots
    <3> QED BY <1>5, <3>1, MaxOfBounded DEF ValidSlots
  <2>2. cursor = m + 1
    BY <1>5 DEF ResumeCursor
  <2> HIDE DEF m
  <2>3. m \in Nat /\ m < Capacity
    BY <2>1, RingGeometry DEF Slots
  <2>4. m % Capacity = m
    BY <2>3, RingGeometry
  <2>5. q = IF m = Capacity - 1 THEN 0 ELSE m + 1
    BY <2>2, <2>3, <2>4, RingGeometry, NextSlot DEF RingSlot
  <2>6. q = m + 1
    BY <1>1, <1>3, <2>5 DEF NeedsErase
  <2>7. slot \in Nat
    BY DEF Slots
  <2>8. slot \notin ValidSlots(f)
    BY <1>1, <2>1, <2>3, <2>6, <2>7
  <2> QED BY <1>2, <2>8
<1> QED BY <1>4, <1>5

\* The scan finds an id that is not below any header's, and a cursor.
LEMMA Resumed ==
  ASSUME NEW f, NEW session \in Nat, Distinct(f, session)
  PROVE  /\ ResumeSession(f) \in Nat /\ ResumeCursor(f) \in Nat
         /\ Distinct(f, ResumeSession(f))
<1> DEFINE ids == {0} \cup {f[slot].session : slot \in HeaderSlots(f)}
<1>1. ids \in SUBSET Nat /\ \A x \in ids : x <= session
  BY DEF Distinct, HeaderSlots, Records
<1>2. Max(ids) \in Nat /\ \A x \in ids : x <= Max(ids)
  <2>1. ids # {}
    OBVIOUS
  <2> HIDE DEF ids
  <2> QED BY <1>1, <2>1, MaxOfBounded
<1>3. \A h \in HeaderSlots(f) : f[h].session <= ResumeSession(f)
  BY <1>2 DEF ResumeSession
<1>4. ResumeCursor(f) \in Nat
  <2>1. CASE ValidSlots(f) = {}
    BY <2>1 DEF ResumeCursor
  <2>2. CASE ValidSlots(f) # {}
    <3>1. ValidSlots(f) \in SUBSET Nat /\ Capacity \in Nat
          /\ \A slot \in ValidSlots(f) : slot <= Capacity
      BY RingGeometry DEF ValidSlots, Slots
    <3>2. Max(ValidSlots(f)) \in Nat
      BY <2>2, <3>1, MaxOfBounded
    <3> QED BY <2>2, <3>2 DEF ResumeCursor
  <2> QED BY <2>1, <2>2
<1> QED BY <1>2, <1>3, <1>4 DEF Distinct, ResumeSession

-----------------------------------------------------------------------------
(* One tick.                                                               *)

\* The records of a tick: none, one that is no header, or a header and a sample.
Shaped(snap, action, records) ==
  \/ action = "IDLE" /\ records = << >>
  \/ /\ action = "START_SESSION"
     /\ records = <<Record("header", written + 1, recorder.session + 1, 0, "NONE"),
                    Record("sample", written + 2, 0, written + 1, "NONE")>>
  \/ /\ action = "SAMPLE"
     /\ records = <<Record("sample", written + 1, 0, recorder.header, "NONE")>>
  \/ /\ action = "SAMPLE_TAIL"
     /\ records = <<Record("sample", written + 1, 0, recorder.header, TailReason(snap))>>
  \/ /\ action = "LOG_ATTEMPT"
     /\ records = <<Record("attempt", written + 1, 0, 0, "NONE")>>

\* The sampler knows no other action.
LEMMA TickShape ==
  ASSUME NEW snap, NEW moved \in BOOLEAN, NEW attempted \in BOOLEAN
  PROVE  LET action == SamplerAction(snap, moved, attempted)
         IN  Shaped(snap, action, TickRecords(snap, action))
<1> DEFINE action == SamplerAction(snap, moved, attempted)
<1> SUFFICES Shaped(snap, action, TickRecords(snap, action))
  OBVIOUS
<1> USE DEF Shaped
<1>1. action \in {"IDLE", "START_SESSION", "SAMPLE", "SAMPLE_TAIL", "LOG_ATTEMPT"}
  BY DEF SamplerAction
<1> HIDE DEF action
<1>2. CASE action = "IDLE"
  BY <1>2 DEF TickRecords
<1>3. CASE action = "START_SESSION"
  BY <1>3 DEF TickRecords
<1>4. CASE action = "SAMPLE"
  BY <1>4 DEF TickRecords
<1>5. CASE action = "SAMPLE_TAIL"
  BY <1>5 DEF TickRecords
<1>6. CASE action = "LOG_ATTEMPT"
  BY <1>6 DEF TickRecords
<1> QED BY <1>1, <1>2, <1>3, <1>4, <1>5, <1>6

\* When the sampler does what, and the reason it labels a tail with.
Judged(snap, action) ==
  /\ action = "SAMPLE" => ~IsOff(recorder.substate) /\ ~IsOff(snap.substate)
  /\ action = "START_SESSION" => IsOff(recorder.substate) /\ ~IsOff(snap.substate)
  /\ action = "SAMPLE_TAIL" => /\ IsOff(snap.substate)
                               /\ IsOff(recorder.substate) => recorder.tail > 0
  /\ action = "LOG_ATTEMPT" => IsOff(recorder.substate) /\ IsOff(snap.substate)
  /\ action = "IDLE" => (IsOff(recorder.substate) <=> IsOff(snap.substate))
  /\ TailReason(snap) \in {"NONE"} \cup EndReasons
  /\ IsOff(recorder.substate) => TailReason(snap) = recorder.reason

\* A tail is written after a drop only, and with the reason judged at it.
LEMMA ActionFacts ==
  ASSUME BlackBoxInv, NEW snap, NEW moved \in BOOLEAN, NEW attempted \in BOOLEAN
  PROVE  Judged(snap, SamplerAction(snap, moved, attempted))
<1> USE DEF Judged
<1>1. \A source : EndReason(snap, source) \in EndReasons
  BY DEF EndReason, EndReasons
<1>2. /\ TailReason(snap) \in {"NONE"} \cup EndReasons
      /\ IsOff(recorder.substate) => TailReason(snap) = recorder.reason
  BY <1>1 DEF TailReason, BlackBoxInv, RecorderOK
<1>3. CASE ~IsOff(recorder.substate) /\ ~IsOff(snap.substate)
  BY <1>2, <1>3 DEF SamplerAction
<1>4. CASE IsOff(recorder.substate) /\ ~IsOff(snap.substate)
  BY <1>2, <1>4 DEF SamplerAction
<1>5. CASE ~IsOff(recorder.substate) /\ IsOff(snap.substate)
  BY <1>2, <1>5 DEF SamplerAction
<1>6. CASE IsOff(recorder.substate) /\ IsOff(snap.substate)
  BY <1>2, <1>6 DEF SamplerAction
<1> QED BY <1>3, <1>4, <1>5, <1>6

\* What each record of a tick needs for its append, and the recorder after it.
TickOK(records, next, w) ==
  /\ Len(records) \in 0..2 /\ w \in Nat
  /\ \A i \in 1..Len(records) :
       /\ records[i] \in Records /\ records[i].type \in ValidTypes
       /\ records[i].n = written + i /\ records[i].n <= w
       /\ records[i].type = "header" =>
            i = 1 /\ records[i].session = next.session /\ recorder.session < next.session
       /\ HasReason(records[i]) => /\ records[i].of = next.header
                                   /\ records[i].of \in 1..w
                                   /\ records[i].reason = Current(next)
  /\ RecorderOK(next, w) /\ recorder.session <= next.session
  /\ Agreed(flash, next.header, Current(next), w)

\* The records of a tick fit the recorder after it.
LEMMA TickFacts ==
  ASSUME BlackBoxInv, NEW snap, NEW moved \in BOOLEAN, NEW attempted \in BOOLEAN
  PROVE  LET action  == SamplerAction(snap, moved, attempted)
             records == TickRecords(snap, action)
             next    == RecorderNext(snap, action)
             w       == written + Len(records)
         IN  TickOK(records, next, w)
<1> DEFINE action  == SamplerAction(snap, moved, attempted)
           records == TickRecords(snap, action)
           next    == RecorderNext(snap, action)
           w       == written + Len(records)
<1> SUFFICES TickOK(records, next, w)
  OBVIOUS
<1> USE DEF TickOK
<1> USE DEF RecorderOK
<1>1. /\ written \in Nat /\ recorder.session \in Nat /\ recorder.header \in 0..written
      /\ recorder.tail \in Nat /\ recorder.reason \in {"NONE"} \cup EndReasons
      /\ ~IsOff(recorder.substate) \/ recorder.tail > 0 => recorder.header > 0
      /\ Agreed(flash, recorder.header, Current(recorder), written)
      /\ \A s \in ValidSlots(flash) : flash[s].n \in Nat
  <2>1. flash \in [Slots -> Records]
    BY DEF BlackBoxInv, Distinct
  <2>2. \A s \in ValidSlots(flash) : flash[s].n \in Nat
    BY <2>1 DEF ValidSlots, Records
  <2> QED BY <2>2 DEF BlackBoxInv
<1>2. /\ next.substate = snap.substate
      /\ next.session = recorder.session + (IF action = "START_SESSION" THEN 1 ELSE 0)
      /\ next.header = IF action = "START_SESSION" THEN written + 1 ELSE recorder.header
      /\ next.tail = OffTailLeft(snap)
      /\ action = "START_SESSION" => next.reason = "NONE"
      /\ action = "SAMPLE_TAIL" => next.reason = TailReason(snap)
      /\ action \notin {"START_SESSION", "SAMPLE_TAIL"} => next.reason = recorder.reason
  BY DEF RecorderNext
<1>3. /\ next.tail \in Nat
      /\ next.tail > 0 => ~IsOff(recorder.substate) \/ recorder.tail > 0
  BY <1>1, <1>2, RateAssumption DEF OffTailLeft
<1> Shaped(snap, action, records) /\ Judged(snap, action)
  BY TickShape, ActionFacts
<1> w = written + Len(records)
  OBVIOUS
<1> HIDE DEF action, records, next, w
<1> USE DEF Shaped, Judged
<1>4. CASE action = "IDLE"
  <2>1. records = << >> /\ Len(records) = 0 /\ w = written
    BY <1>1, <1>4
  <2>2. next.session = recorder.session /\ next.header = recorder.header
        /\ next.reason = recorder.reason /\ Current(next) = Current(recorder)
    BY <1>1, <1>2, <1>4 DEF Current
  <2> QED BY <1>1, <1>2, <1>3, <1>4, <2>1, <2>2
<1>5. CASE action = "START_SESSION"
  <2>1. /\ records = <<Record("header", written + 1, recorder.session + 1, 0, "NONE"),
                       Record("sample", written + 2, 0, written + 1, "NONE")>>
        /\ Len(records) = 2 /\ w = written + 2
    BY <1>1, <1>5
  <2>2. /\ next.session = recorder.session + 1 /\ next.header = written + 1
        /\ next.reason = "NONE" /\ Current(next) = "NONE"
    BY <1>2, <1>5 DEF Current
  <2>3. \A i \in 1..2 :
          /\ records[i] \in Records /\ records[i].type \in ValidTypes
          /\ records[i].n = written + i /\ records[i].n <= w
          /\ records[i].type = "header" =>
               i = 1 /\ records[i].session = next.session /\ recorder.session < next.session
          /\ ~HasReason(records[i])
    BY <1>1, <2>1, <2>2 DEF Record, Records, ValidTypes, HasReason
  <2>4. Agreed(flash, next.header, Current(next), w)
    BY <1>1, <2>1, <2>2 DEF Agreed
  <2> QED BY <1>1, <1>2, <1>3, <2>1, <2>2, <2>3, <2>4
<1>6. CASE action = "SAMPLE"
  <2>1. /\ records = <<Record("sample", written + 1, 0, recorder.header, "NONE")>>
        /\ Len(records) = 1 /\ w = written + 1
    BY <1>1, <1>6
  <2>2. /\ next.session = recorder.session /\ next.header = recorder.header
        /\ next.reason = recorder.reason /\ Current(next) = Current(recorder)
    BY <1>1, <1>2, <1>6 DEF Current
  <2>3. records[1] \in Records /\ records[1].type = "sample" /\ ~HasReason(records[1])
        /\ records[1].n = written + 1
    BY <1>1, <2>1 DEF Record, Records, ValidTypes, HasReason
  <2>4. Agreed(flash, next.header, Current(next), w)
    BY <1>1, <2>1, <2>2 DEF Agreed
  <2> QED BY <1>1, <1>2, <1>3, <1>6, <2>1, <2>2, <2>3, <2>4 DEF ValidTypes
<1>7. CASE action = "SAMPLE_TAIL"
  <2>1. /\ records = <<Record("sample", written + 1, 0, recorder.header, TailReason(snap))>>
        /\ Len(records) = 1 /\ w = written + 1
    BY <1>1, <1>7
  <2>2. /\ next.session = recorder.session /\ next.header = recorder.header
        /\ next.header > 0
        /\ next.reason = TailReason(snap) /\ Current(next) = TailReason(snap)
    BY <1>1, <1>2, <1>7 DEF Current
  <2>3. TailReason(snap) \in {"NONE"} \cup EndReasons
    OBVIOUS
  <2>4. /\ records[1] \in Records /\ records[1].type = "sample"
        /\ records[1].of = next.header /\ records[1].reason = Current(next)
        /\ records[1].n = written + 1
    BY <1>1, <2>1, <2>2, <2>3 DEF Record, Records, ValidTypes
  <2>5. Current(recorder) \in {"NONE", Current(next)}
    BY <2>2 DEF Current
  <2>6. Agreed(flash, next.header, Current(next), w)
    BY <1>1, <2>1, <2>2, <2>5 DEF Agreed, HasReason
  <2> QED BY <1>1, <1>2, <1>3, <1>7, <2>1, <2>2, <2>3, <2>4, <2>6 DEF ValidTypes
<1>8. CASE action = "LOG_ATTEMPT"
  <2>1. /\ records = <<Record("attempt", written + 1, 0, 0, "NONE")>>
        /\ Len(records) = 1 /\ w = written + 1
    BY <1>1, <1>8
  <2>2. /\ next.session = recorder.session /\ next.header = recorder.header
        /\ next.reason = recorder.reason /\ Current(next) = Current(recorder)
    BY <1>1, <1>2, <1>8 DEF Current
  <2>3. records[1] \in Records /\ records[1].type = "attempt" /\ ~HasReason(records[1])
        /\ records[1].n = written + 1
    BY <1>1, <2>1 DEF Record, Records, ValidTypes, HasReason
  <2>4. Agreed(flash, next.header, Current(next), w)
    BY <1>1, <2>1, <2>2 DEF Agreed
  <2> QED BY <1>1, <1>2, <1>3, <1>8, <2>1, <2>2, <2>3, <2>4 DEF ValidTypes
<1> QED
  <2>1. action \in {"IDLE", "START_SESSION", "SAMPLE", "SAMPLE_TAIL", "LOG_ATTEMPT"}
    OBVIOUS
  <2> QED BY <2>1, <1>4, <1>5, <1>6, <1>7, <1>8

\* A region on its way through a tick.
LogOK(log, session, header, cur, w) ==
  /\ log \in [flash : [Slots -> Records], seq : Nat, failed : BOOLEAN]
  /\ Distinct(log.flash, session)
  /\ Agreed(log.flash, header, cur, w)

\* The logs that an append passes on.
LEMMA OutcomesTouch ==
  ASSUME NEW log \in [flash : [Slots -> Records], seq : Nat, failed : BOOLEAN],
         NEW record \in Records, NEW next \in AppendOutcomes(log, record)
  PROVE  /\ next \in [flash : [Slots -> Records], seq : Nat, failed : BOOLEAN]
         /\ Touched(log.flash, next.flash, log.seq, record)
         /\ next.seq \in {log.seq, log.seq + 1}
<1>1. log.flash \in [Slots -> Records] /\ log.seq \in Nat /\ log.seq + 1 \in Nat
  OBVIOUS
<1>2. \A g : Touched(log.flash, g, log.seq, record) => g \in [Slots -> Records]
  BY DEF Touched
<1>3. CASE next = [log EXCEPT !.flash = Appended(log.flash, log.seq, record), !.seq = @ + 1]
  <2> DEFINE g == Appended(log.flash, log.seq, record)
  <2>1. Touched(log.flash, g, log.seq, record)
    BY <1>1, AppendTouches
  <2> HIDE DEF g
  <2>2. next = [log EXCEPT !.flash = g, !.seq = log.seq + 1]
    BY <1>3 DEF g
  <2>3. g \in [Slots -> Records]
    BY <1>2, <2>1
  <2> QED BY <1>1, <2>1, <2>2, <2>3, Zenon
<1>4. CASE \E g \in Interrupted(log.flash, log.seq, record) :
             next = [log EXCEPT !.flash = g, !.failed = TRUE]
  <2>1. PICK g \in Interrupted(log.flash, log.seq, record) :
          next = [log EXCEPT !.flash = g, !.failed = TRUE]
    BY <1>4
  <2>2. Touched(log.flash, g, log.seq, record)
    BY <1>1, AppendTouches
  <2>3. g \in [Slots -> Records]
    BY <1>2, <2>2
  <2> QED BY <1>1, <2>1, <2>2, <2>3, Zenon
<1> QED BY <1>3, <1>4 DEF AppendOutcomes

\* One append of a tick, done, failed or cut.
LEMMA AppendKeeps ==
  ASSUME NEW old \in Nat, NEW new \in Nat, old <= new, NEW header, NEW cur, NEW w,
         NEW log, LogOK(log, old, header, cur, w),
         NEW record \in Records, record.type \in ValidTypes,
         record.type = "header" => record.session = new /\ old < new, record.n <= w,
         HasReason(record) => /\ record.of = header /\ record.of \in 1..w
                              /\ record.reason = cur
  PROVE  /\ \A next \in AppendOutcomes(log, record) : LogOK(next, new, header, cur, w)
         /\ \A f \in Interrupted(log.flash, log.seq, record) :
              Distinct(f, new) /\ Agreed(f, header, cur, w)
<1>1. /\ log \in [flash : [Slots -> Records], seq : Nat, failed : BOOLEAN]
      /\ log.flash \in [Slots -> Records] /\ log.seq \in Nat /\ log.failed \in BOOLEAN
  BY DEF LogOK
<1>2. ASSUME NEW f, Touched(log.flash, f, log.seq, record)
      PROVE  Distinct(f, new) /\ Agreed(f, header, cur, w) /\ f \in [Slots -> Records]
  <2>1. Distinct(log.flash, old) /\ Agreed(log.flash, header, cur, w)
    BY DEF LogOK
  <2>2. Distinct(f, new)
    BY <1>2, <2>1, TouchedDistinct
  <2>3. Agreed(f, header, cur, w)
    BY <1>2, <2>1, TouchedAgreed
  <2> QED BY <1>2, <2>2, <2>3 DEF Touched
<1>3. \A f \in Interrupted(log.flash, log.seq, record) :
        Distinct(f, new) /\ Agreed(f, header, cur, w) /\ f \in [Slots -> Records]
  BY <1>1, <1>2, AppendTouches
<1>4. ASSUME NEW next \in AppendOutcomes(log, record)
      PROVE  LogOK(next, new, header, cur, w)
  <2>1. /\ next \in [flash : [Slots -> Records], seq : Nat, failed : BOOLEAN]
        /\ Touched(log.flash, next.flash, log.seq, record)
    BY <1>1, OutcomesTouch
  <2>2. Distinct(next.flash, new) /\ Agreed(next.flash, header, cur, w)
    BY <1>2, <2>1
  <2> QED BY <2>1, <2>2 DEF LogOK
<1> QED BY <1>3, <1>4

\* The region after a tick, and what a power cut in it leaves.
RegionsOK(records, next, w) ==
  /\ \A log \in LogsAfter(records, Len(records)) :
       LogOK(log, next.session, next.header, Current(next), w)
  /\ \A i \in 1..Len(records) : \A log \in LogsAfter(records, i - 1) :
       \A f \in Interrupted(log.flash, log.seq, records[i]) :
         Distinct(f, next.session) /\ Agreed(f, next.header, Current(next), w)

\* No tick, whole or cut, leaves a region that repeats an id or a reason.
LEMMA TickKeeps ==
  ASSUME BlackBoxInv, NEW snap, NEW moved \in BOOLEAN, NEW attempted \in BOOLEAN
  PROVE  LET action  == SamplerAction(snap, moved, attempted)
             records == TickRecords(snap, action)
             next    == RecorderNext(snap, action)
             w       == written + Len(records)
         IN  RegionsOK(records, next, w)
<1> DEFINE action  == SamplerAction(snap, moved, attempted)
           records == TickRecords(snap, action)
           next    == RecorderNext(snap, action)
           w       == written + Len(records)
<1> TickOK(records, next, w)
  BY TickFacts
<1> SUFFICES RegionsOK(records, next, w)
  OBVIOUS
<1> HIDE DEF action, records, next, w
<1> DEFINE OK(log, session) == LogOK(log, session, next.header, Current(next), w)
           old == recorder.session
           new == next.session
<1>1. /\ Len(records) \in 0..2
      /\ \A i \in 1..Len(records) :
           /\ records[i] \in Records /\ records[i].type \in ValidTypes /\ records[i].n <= w
           /\ records[i].type = "header" => i = 1 /\ records[i].session = new /\ old < new
           /\ HasReason(records[i]) => /\ records[i].of = next.header
                                       /\ records[i].of \in 1..w
                                       /\ records[i].reason = Current(next)
      /\ old \in Nat /\ new \in Nat /\ old <= new
      /\ Agreed(flash, next.header, Current(next), w)
  BY DEF TickOK, BlackBoxInv, RecorderOK
<1>2. OK(Log, old)
  <2>1. Distinct(flash, old) /\ seq \in Nat
    BY DEF BlackBoxInv
  <2> QED BY <1>1, <2>1 DEF LogOK, Log, Distinct
<1>3. OK(Log, new)
  BY <1>1, <1>2 DEF LogOK, Distinct, HeaderSlots, Records
<1>4. ASSUME 1 <= Len(records)
      PROVE  /\ \A log \in AppendOutcomes(Log, records[1]) : OK(log, new)
             /\ \A f \in Interrupted(Log.flash, Log.seq, records[1]) :
                  Distinct(f, new) /\ Agreed(f, next.header, Current(next), w)
  <2>1. 1 \in 1..Len(records)
    BY <1>1, <1>4
  <2> QED BY <1>1, <1>2, <2>1, AppendKeeps
<1>5. ASSUME 2 <= Len(records), NEW log \in AppendOutcomes(Log, records[1])
      PROVE  /\ \A log2 \in AppendOutcomes(log, records[2]) : OK(log2, new)
             /\ \A f \in Interrupted(log.flash, log.seq, records[2]) :
                  Distinct(f, new) /\ Agreed(f, next.header, Current(next), w)
  <2>1. 2 \in 1..Len(records) /\ 1 <= Len(records)
    BY <1>1, <1>5
  <2>2. records[2].type # "header"
    BY <1>1, <2>1
  <2>3. OK(log, new)
    BY <1>4, <1>5, <2>1
  <2> QED BY <1>1, <2>1, <2>2, <2>3, AppendKeeps
<1> HIDE DEF OK, old, new
<1>6. \A log \in LogsAfter(records, Len(records)) : OK(log, new)
  <2>1. CASE Len(records) = 0
    BY <1>3, <2>1 DEF LogsAfter
  <2>2. CASE Len(records) = 1
    BY <1>4, <2>2 DEF LogsAfter
  <2>3. CASE Len(records) = 2
    BY <1>5, <2>3 DEF LogsAfter
  <2> QED BY <1>1, <2>1, <2>2, <2>3
<1>7. ASSUME NEW i \in 1..Len(records), NEW log \in LogsAfter(records, i - 1),
             NEW f \in Interrupted(log.flash, log.seq, records[i])
      PROVE  Distinct(f, new) /\ Agreed(f, next.header, Current(next), w)
  <2>1. CASE i = 1
    <3>1. log = Log
      BY <1>7, <2>1 DEF LogsAfter
    <3> QED BY <1>1, <1>4, <1>7, <2>1, <3>1
  <2>2. CASE i = 2
    <3>1. log \in AppendOutcomes(Log, records[1])
      BY <1>7, <2>2 DEF LogsAfter
    <3> QED BY <1>1, <1>5, <1>7, <2>2, <3>1
  <2> QED BY <1>1, <2>1, <2>2
<1> QED BY <1>6, <1>7 DEF OK, new, RegionsOK

\* The damage of a tick on its way: only its failures add to it, where the cursor stands.
DamageNear(log, D) ==
  /\ log \in [flash : [Slots -> Records], seq : Nat, failed : BOOLEAN]
  /\ Damaged(log.flash, log.seq)
       \subseteq D \cup (IF log.failed THEN {SectorOf(RingSlot(log.seq))} ELSE {})

\* One append damages the sector the cursor stands in, and none if it succeeds.
LEMMA AppendDamage ==
  ASSUME NEW D, NEW log, DamageNear(log, D), NEW record \in Records, record.type \in ValidTypes
  PROVE  LET x == SectorOf(RingSlot(log.seq))
         IN  /\ \A next \in AppendOutcomes(log, record) :
                  /\ Damaged(next.flash, next.seq) \subseteq D \cup (IF next.failed THEN {x} ELSE {})
                  /\ ~log.failed => DamageNear(next, D)
             /\ \A f \in Interrupted(log.flash, log.seq, record) : Spoiled(f) \subseteq D \cup {x}
<1> DEFINE x == SectorOf(RingSlot(log.seq))
<1>1. /\ log \in [flash : [Slots -> Records], seq : Nat, failed : BOOLEAN]
      /\ log.flash \in [Slots -> Records] /\ log.seq \in Nat /\ log.failed \in BOOLEAN
      /\ Damaged(log.flash, log.seq) \subseteq D \cup (IF log.failed THEN {x} ELSE {})
  BY DEF DamageNear
<1>2. Spoiled(log.flash) \subseteq D \cup {x}
  BY <1>1 DEF Damaged
<1>3. ASSUME NEW f \in Interrupted(log.flash, log.seq, record)
      PROVE  /\ f \in [Slots -> Records] /\ Damaged(f, log.seq) \subseteq D \cup {x}
             /\ Spoiled(f) \subseteq D \cup {x}
  <2>1. f \in [Slots -> Records]
    BY <1>1, <1>3, AppendTouches DEF Touched
  <2>2. Damaged(f, log.seq) \subseteq Spoiled(log.flash) \cup {x}
    BY <1>1, <1>3, InterruptedDamage
  <2>3. Spoiled(f) \subseteq Damaged(f, log.seq)
    BY DEF Damaged
  <2> QED BY <1>2, <2>1, <2>2, <2>3
<1>4. ASSUME NEW next \in AppendOutcomes(log, record)
      PROVE  /\ Damaged(next.flash, next.seq) \subseteq D \cup (IF next.failed THEN {x} ELSE {})
             /\ ~log.failed => DamageNear(next, D)
  <2>1. CASE next = [log EXCEPT !.flash = Appended(log.flash, log.seq, record), !.seq = @ + 1]
    <3> DEFINE g == Appended(log.flash, log.seq, record)
    <3>1. g \in [Slots -> Records]
      BY <1>1, AppendTouches DEF Touched
    <3>2. Damaged(g, log.seq + 1) \subseteq Damaged(log.flash, log.seq)
      BY <1>1, AppendedDamage
    <3> HIDE DEF g
    <3>3. next = [log EXCEPT !.flash = g, !.seq = @ + 1]
      BY <2>1 DEF g
    <3>4. /\ next \in [flash : [Slots -> Records], seq : Nat, failed : BOOLEAN]
          /\ next.flash = g /\ next.seq = log.seq + 1 /\ next.failed = log.failed
      <4>1. log.seq + 1 \in Nat
        BY <1>1
      <4> QED BY <1>1, <3>1, <3>3, <4>1, Zenon
    <3>5. Damaged(next.flash, next.seq) \subseteq D \cup (IF next.failed THEN {x} ELSE {})
      BY <1>1, <3>2, <3>4
    <3>6. ~log.failed => Damaged(next.flash, next.seq) \subseteq D /\ ~next.failed
      BY <3>4, <3>5
    <3> HIDE DEF x
    <3> QED BY <3>4, <3>5, <3>6 DEF DamageNear
  <2>2. CASE \E f \in Interrupted(log.flash, log.seq, record) :
               next = [log EXCEPT !.flash = f, !.failed = TRUE]
    <3>1. PICK f \in Interrupted(log.flash, log.seq, record) :
            next = [log EXCEPT !.flash = f, !.failed = TRUE]
      BY <2>2
    <3>2. f \in [Slots -> Records] /\ Damaged(f, log.seq) \subseteq D \cup {x}
      BY <1>3, <3>1
    <3>3. /\ next \in [flash : [Slots -> Records], seq : Nat, failed : BOOLEAN]
          /\ next.flash = f /\ next.seq = log.seq /\ next.failed = TRUE
      BY <1>1, <3>1, <3>2, Zenon
    <3>4. Damaged(next.flash, next.seq) \subseteq D \cup {SectorOf(RingSlot(next.seq))}
      BY <3>2, <3>3
    <3> QED BY <3>2, <3>3, <3>4 DEF DamageNear
  <2> QED BY <2>1, <2>2 DEF AppendOutcomes
<1> QED BY <1>3, <1>4

\* The damage of a tick with these records, whole or cut, on top of D.
DamageOK(records, D) ==
  /\ \A log \in LogsAfter(records, Len(records)) :
       \E x : Damaged(log.flash, log.seq) \subseteq D \cup (IF log.failed THEN {x} ELSE {})
  /\ \A i \in 1..Len(records) : \A log \in LogsAfter(records, i - 1) :
       \A f \in Interrupted(log.flash, log.seq, records[i]) : \E x : Spoiled(f) \subseteq D \cup {x}

\* A tick, whole or cut, damages one sector at most, and none without a failure.
LEMMA TickDamage ==
  ASSUME BlackBoxInv, NEW snap, NEW moved \in BOOLEAN, NEW attempted \in BOOLEAN
  PROVE  DamageOK(TickRecords(snap, SamplerAction(snap, moved, attempted)), Damaged(flash, seq))
<1> DEFINE action  == SamplerAction(snap, moved, attempted)
           records == TickRecords(snap, action)
           D       == Damaged(flash, seq)
           Whole(log) ==
             \E x : Damaged(log.flash, log.seq) \subseteq D \cup (IF log.failed THEN {x} ELSE {})
           Cut(f) == \E x : Spoiled(f) \subseteq D \cup {x}
<1>1. /\ Len(records) \in 0..2
      /\ \A i \in 1..Len(records) : records[i] \in Records /\ records[i].type \in ValidTypes
  BY TickFacts DEF TickOK
<1>2. DamageNear(Log, D) /\ ~Log.failed
  <2>1. flash \in [Slots -> Records] /\ seq \in Nat
    BY DEF BlackBoxInv, Distinct
  <2> QED BY <2>1 DEF DamageNear, Log
<1> SUFFICES /\ \A log \in LogsAfter(records, Len(records)) : Whole(log)
             /\ \A i \in 1..Len(records) : \A log \in LogsAfter(records, i - 1) :
                  \A f \in Interrupted(log.flash, log.seq, records[i]) : Cut(f)
  BY DEF DamageOK
<1> HIDE DEF action, records, D
<1>3. Whole(Log)
  BY <1>2 DEF DamageNear
<1>4. ASSUME NEW log, DamageNear(log, D), NEW i \in 1..Len(records)
      PROVE  /\ \A next \in AppendOutcomes(log, records[i]) :
                  Whole(next) /\ (~log.failed => DamageNear(next, D))
             /\ \A f \in Interrupted(log.flash, log.seq, records[i]) : Cut(f)
  <2>1. records[i] \in Records /\ records[i].type \in ValidTypes
    BY <1>1
  <2> DEFINE r == records[i]
  <2>2. r \in Records /\ r.type \in ValidTypes
    BY <2>1
  <2> HIDE DEF r
  <2>3. /\ \A next \in AppendOutcomes(log, r) :
             Whole(next) /\ (~log.failed => DamageNear(next, D))
        /\ \A f \in Interrupted(log.flash, log.seq, r) : Cut(f)
    BY <1>4, <2>2, AppendDamage
  <2> QED BY <2>3 DEF r
<1> HIDE DEF Whole, Cut
<1>5. \A log \in LogsAfter(records, Len(records)) : Whole(log)
  <2>1. CASE Len(records) = 0
    BY <1>3, <2>1 DEF LogsAfter
  <2>2. CASE Len(records) = 1
    BY <1>2, <1>4, <2>2 DEF LogsAfter
  <2>3. CASE Len(records) = 2
    <3>1. 1 \in 1..Len(records) /\ 2 \in 1..Len(records)
      BY <2>3
    <3>2. \A log \in AppendOutcomes(Log, records[1]) : DamageNear(log, D)
      BY <1>2, <1>4, <3>1
    <3>3. \A log \in AppendOutcomes(Log, records[1]) :
            \A next \in AppendOutcomes(log, records[2]) : Whole(next)
      BY <1>4, <3>1, <3>2
    <3> QED BY <2>3, <3>3 DEF LogsAfter
  <2> QED BY <1>1, <2>1, <2>2, <2>3
<1>6. ASSUME NEW i \in 1..Len(records), NEW log \in LogsAfter(records, i - 1),
             NEW f \in Interrupted(log.flash, log.seq, records[i])
      PROVE  Cut(f)
  <2>1. DamageNear(log, D)
    <3>1. CASE i = 1
      <4>1. log = Log
        BY <1>6, <3>1 DEF LogsAfter
      <4> QED BY <1>2, <4>1
    <3>2. CASE i = 2
      <4>1. log \in AppendOutcomes(Log, records[1])
        BY <1>6, <3>2 DEF LogsAfter
      <4>2. 1 \in 1..Len(records)
        BY <1>1
      <4> QED BY <1>2, <1>4, <4>1, <4>2
    <3> QED BY <1>1, <3>1, <3>2
  <2> QED BY <1>4, <1>6, <2>1
<1> QED BY <1>5, <1>6

\* Sets that grow by one element at most.
LEMMA AtMostGrows ==
  ASSUME NEW S, NEW k \in Nat, AtMost(S, k), NEW T
  PROVE  /\ T \subseteq S => AtMost(T, k)
         /\ \A x : T \subseteq S \cup {x} => AtMost(T, k + 1)
<1>1. ASSUME NEW U, IsFiniteSet(U), NEW j \in Nat, Cardinality(U) <= j, T \subseteq U
      PROVE  AtMost(T, j)
  <2>1. T \in SUBSET U
    BY <1>1
  <2>2. IsFiniteSet(T) /\ Cardinality(T) <= Cardinality(U)
    BY <1>1, <2>1, FS_Subset
  <2>3. Cardinality(T) \in Nat /\ Cardinality(U) \in Nat
    BY <1>1, <2>2, FS_CardinalityType
  <2> QED BY <1>1, <2>2, <2>3 DEF AtMost
<1>2. T \subseteq S => AtMost(T, k)
  BY <1>1 DEF AtMost
<1>3. ASSUME NEW x, T \subseteq S \cup {x}
      PROVE  AtMost(T, k + 1)
  <2>1. IsFiniteSet(S \cup {x}) /\ Cardinality(S \cup {x}) <= k + 1
    <3>1. IsFiniteSet(S) /\ Cardinality(S) \in Nat /\ Cardinality(S) <= k
      BY FS_CardinalityType DEF AtMost
    <3>2. /\ IsFiniteSet(S \cup {x})
          /\ Cardinality(S \cup {x}) = IF x \in S THEN Cardinality(S) ELSE Cardinality(S) + 1
      BY <3>1, FS_AddElement
    <3> QED BY <3>1, <3>2
  <2> QED BY <1>1, <1>3, <2>1
<1> QED BY <1>2, <1>3

-----------------------------------------------------------------------------
(* The invariant.                                                          *)

\* A boot from a region with distinct ids and agreed reasons.
LEMMA BootKeeps ==
  ASSUME NEW f, NEW session \in Nat, Distinct(f, session),
         NEW header, NEW cur, NEW w \in Nat, Agreed(f, header, cur, w)
  PROVE  /\ RecorderOK(RecorderBoot(f), w) /\ ResumeCursor(f) \in Nat
         /\ Distinct(f, RecorderBoot(f).session)
         /\ Agreed(f, RecorderBoot(f).header, Current(RecorderBoot(f)), w)
<1>1. /\ ResumeSession(f) \in Nat /\ ResumeCursor(f) \in Nat
      /\ Distinct(f, ResumeSession(f))
  BY Resumed
<1>2. /\ RecorderBoot(f).session = ResumeSession(f) /\ RecorderBoot(f).header = 0
      /\ RecorderBoot(f).tail = 0 /\ RecorderBoot(f).reason = "NONE"
      /\ RecorderBoot(f).substate = "OFF"
  BY DEF RecorderBoot
<1>3. Agreed(f, 0, "NONE", w)
  BY DEF Agreed
<1> QED BY <1>1, <1>2, <1>3 DEF RecorderOK, Current, IsOff

\* Every step of the recorder keeps the invariant.
LEMMA BlackBoxStep == BlackBoxInv /\ [Next]_vars => BlackBoxInv'
<1> SUFFICES ASSUME BlackBoxInv, [Next]_vars
             PROVE  BlackBoxInv'
  OBVIOUS
<1>1. CASE RecorderTick
  <2>1. PICK snap \in Snapshots, moved \in BOOLEAN, attempted \in BOOLEAN :
          LET action  == SamplerAction(snap, moved, attempted)
              records == TickRecords(snap, action)
          IN  /\ \E log \in LogsAfter(records, Len(records)) :
                   /\ flash' = log.flash
                   /\ seq' = log.seq
                   /\ faults' = faults + (IF log.failed THEN 1 ELSE 0)
              /\ written' = written + Len(records)
              /\ recorder' = RecorderNext(snap, action)
    BY <1>1 DEF RecorderTick
  <2> DEFINE action  == SamplerAction(snap, moved, attempted)
             records == TickRecords(snap, action)
             next    == RecorderNext(snap, action)
             w       == written + Len(records)
  <2>2. /\ written' = w /\ recorder' = next
        /\ \E log \in LogsAfter(records, Len(records)) :
             /\ flash' = log.flash
             /\ seq' = log.seq
             /\ faults' = faults + (IF log.failed THEN 1 ELSE 0)
    BY <2>1
  <2>3. /\ TickOK(records, next, w) /\ RegionsOK(records, next, w)
        /\ DamageOK(records, Damaged(flash, seq))
    BY TickFacts, TickKeeps, TickDamage
  <2> HIDE DEF action, records, next, w
  <2>4. /\ w \in Nat /\ RecorderOK(next, w)
        /\ \A log \in LogsAfter(records, Len(records)) :
             LogOK(log, next.session, next.header, Current(next), w)
    BY <2>3 DEF TickOK, RegionsOK
  <2>5. PICK log \in LogsAfter(records, Len(records)) :
          /\ flash' = log.flash
          /\ seq' = log.seq
          /\ faults' = faults + (IF log.failed THEN 1 ELSE 0)
    BY <2>2
  <2>6. LogOK(log, next.session, next.header, Current(next), w)
    BY <2>4
  <2>7. log.seq \in Nat /\ log.failed \in BOOLEAN /\ faults \in Nat
    BY <2>6 DEF LogOK, BlackBoxInv
  <2>8. AtMost(Damaged(flash', seq'), faults')
    <3>1. PICK x : Damaged(log.flash, log.seq)
                     \subseteq Damaged(flash, seq) \cup (IF log.failed THEN {x} ELSE {})
      BY <2>3 DEF DamageOK
    <3>2. Damaged(flash', seq') = Damaged(log.flash, log.seq)
      BY <2>5
    <3>3. AtMost(Damaged(flash, seq), faults)
      BY DEF BlackBoxInv
    <3>4. CASE log.failed
      <4>1. Damaged(flash', seq') \subseteq Damaged(flash, seq) \cup {x}
        BY <3>1, <3>2, <3>4
      <4>2. faults' = faults + 1
        BY <2>5, <3>4
      <4> QED BY <2>7, <3>3, <4>1, <4>2, AtMostGrows
    <3>5. CASE ~log.failed
      <4>1. Damaged(flash', seq') \subseteq Damaged(flash, seq)
        BY <3>1, <3>2, <3>5
      <4>2. faults' = faults
        BY <2>5, <2>7, <3>5
      <4> QED BY <2>7, <3>3, <4>1, <4>2, AtMostGrows
    <3> QED BY <3>4, <3>5
  <2>9. faults' \in Nat /\ seq' \in Nat /\ written' \in Nat
    BY <2>2, <2>4, <2>5, <2>7
  <2>10. RecorderOK(recorder', written') /\ Distinct(flash', recorder'.session)
        /\ Agreed(flash', recorder'.header, Current(recorder'), written')
    BY <2>2, <2>4, <2>5, <2>6 DEF LogOK
  <2> QED BY <2>8, <2>9, <2>10 DEF BlackBoxInv
<1>2. CASE Reboot
  <2>1. /\ flash' = flash /\ written' = written /\ faults' = faults
        /\ seq' = ResumeCursor(flash) /\ recorder' = RecorderBoot(flash)
    BY <1>2 DEF Reboot, Resume
  <2>2. /\ recorder.session \in Nat /\ Distinct(flash, recorder.session)
        /\ Agreed(flash, recorder.header, Current(recorder), written) /\ written \in Nat
        /\ AtMost(Damaged(flash, seq), faults) /\ seq \in Nat /\ faults \in Nat
    BY DEF BlackBoxInv, RecorderOK
  <2>3. /\ RecorderOK(RecorderBoot(flash), written) /\ ResumeCursor(flash) \in Nat
        /\ Distinct(flash, RecorderBoot(flash).session)
        /\ Agreed(flash, RecorderBoot(flash).header, Current(RecorderBoot(flash)), written)
    BY <2>2, BootKeeps
  <2>4. AtMost(Damaged(flash, ResumeCursor(flash)), faults)
    <3>1. Damaged(flash, ResumeCursor(flash)) \subseteq Damaged(flash, seq)
      BY <2>2, ResumedDamage DEF Damaged
    <3> QED BY <2>2, <3>1, AtMostGrows
  <2> QED BY <2>1, <2>2, <2>3, <2>4 DEF BlackBoxInv
<1>3. CASE PowerCut
  <2>1. PICK snap \in Snapshots, moved \in BOOLEAN, attempted \in BOOLEAN :
          LET records == TickRecords(snap, SamplerAction(snap, moved, attempted))
          IN  /\ \E i \in DOMAIN records : \E log \in LogsAfter(records, i - 1) :
                   \E f \in Interrupted(log.flash, log.seq, records[i]) : Resume(f)
              /\ written' = written + Len(records)
    BY <1>3 DEF PowerCut
  <2> DEFINE action  == SamplerAction(snap, moved, attempted)
             records == TickRecords(snap, action)
             next    == RecorderNext(snap, action)
             w       == written + Len(records)
  <2>2. /\ written' = w
        /\ \E i \in DOMAIN records : \E log \in LogsAfter(records, i - 1) :
             \E f \in Interrupted(log.flash, log.seq, records[i]) : Resume(f)
    BY <2>1
  <2>3. /\ w \in Nat /\ RecorderOK(next, w) /\ DOMAIN records = 1..Len(records)
        /\ \A i \in 1..Len(records) : \A log \in LogsAfter(records, i - 1) :
             \A f \in Interrupted(log.flash, log.seq, records[i]) :
               Distinct(f, next.session) /\ Agreed(f, next.header, Current(next), w)
        /\ DamageOK(records, Damaged(flash, seq))
    <3>1. DOMAIN records = 1..Len(records)
      <4>1. Shaped(snap, action, records)
        BY TickShape
      <4> HIDE DEF action, records
      <4> QED BY <4>1 DEF Shaped
    <3>2. /\ TickOK(records, next, w) /\ RegionsOK(records, next, w)
          /\ DamageOK(records, Damaged(flash, seq))
      BY TickFacts, TickKeeps, TickDamage
    <3> HIDE DEF action, records, next, w
    <3> QED BY <3>1, <3>2 DEF TickOK, RegionsOK
  <2> HIDE DEF action, records, next, w
  <2>4. PICK f : /\ Resume(f) /\ Distinct(f, next.session)
                 /\ Agreed(f, next.header, Current(next), w)
                 /\ \E x : Spoiled(f) \subseteq Damaged(flash, seq) \cup {x}
    BY <2>2, <2>3 DEF DamageOK
  <2>5. next.session \in Nat
    BY <2>3 DEF RecorderOK
  <2>6. /\ RecorderOK(RecorderBoot(f), w) /\ ResumeCursor(f) \in Nat
        /\ Distinct(f, RecorderBoot(f).session)
        /\ Agreed(f, RecorderBoot(f).header, Current(RecorderBoot(f)), w)
    BY <2>3, <2>4, <2>5, BootKeeps
  <2>7. flash' = f /\ seq' = ResumeCursor(f) /\ recorder' = RecorderBoot(f)
    BY <2>4 DEF Resume
  <2>8. faults \in Nat /\ faults' = faults + 1 /\ AtMost(Damaged(flash, seq), faults)
    BY <1>3 DEF PowerCut, BlackBoxInv
  <2>9. AtMost(Damaged(flash', seq'), faults')
    <3>1. PICK x : Damaged(f, ResumeCursor(f)) \subseteq Damaged(flash, seq) \cup {x}
      BY <2>4, ResumedDamage
    <3>2. Damaged(flash', seq') = Damaged(f, ResumeCursor(f))
      BY <2>7
    <3> QED BY <2>8, <3>1, <3>2, AtMostGrows
  <2> QED BY <2>2, <2>3, <2>6, <2>7, <2>8, <2>9 DEF BlackBoxInv
<1>4. CASE UNCHANGED vars
  <2>1. UNCHANGED <<flash, seq, recorder, written, faults>>
    BY <1>4 DEF vars
  <2>2. Damaged(flash', seq') = Damaged(flash, seq) /\ faults' = faults
    BY <2>1
  <2> QED BY <2>1, <2>2 DEF BlackBoxInv, Distinct, Agreed, Current, RecorderOK
<1> QED BY <1>1, <1>2, <1>3, <1>4 DEF Next

\* The invariant of the blackbox holds.
THEOREM BlackBoxInvariant == Spec => []BlackBoxInv
<1>1. Init => BlackBoxInv
  <2> SUFFICES ASSUME Init PROVE BlackBoxInv
    OBVIOUS
  <2>1. /\ flash = [slot \in Slots |-> Erased] /\ Erased \in Records
        /\ Erased.type = "erased" /\ seq = 0 /\ written = 0 /\ faults = 0
        /\ recorder = RecorderBoot(flash)
    BY DEF Init, Erased, Record, Records
  <2>2. Distinct(flash, 0) /\ Agreed(flash, 0, "NONE", 0)
    BY <2>1 DEF Distinct, Agreed, HeaderSlots, ValidSlots, ValidTypes, HasReason
  <2>3. AtMost(Damaged(flash, 0), 0)
    <3>1. Damaged(flash, 0) = {}
      BY <2>1 DEF Damaged, Spoiled, AheadErased
    <3> QED BY <3>1, FS_EmptySet DEF AtMost
  <2>4. /\ RecorderOK(RecorderBoot(flash), 0)
        /\ Distinct(flash, RecorderBoot(flash).session)
        /\ Agreed(flash, RecorderBoot(flash).header, Current(RecorderBoot(flash)), 0)
    BY <2>2, BootKeeps
  <2> QED BY <2>1, <2>3, <2>4 DEF BlackBoxInv
<1> QED BY <1>1, BlackBoxStep, PTL DEF Spec

\* Ids on flash are unique, and the next session takes one above all of them, across
\* wraps, failed and cut appends and reboots.
THEOREM IdsUnique == Spec => []SessionIdsUnique
<1>1. BlackBoxInv => SessionIdsUnique
  BY DEF BlackBoxInv, SessionIdsUnique, Distinct
<1> QED BY <1>1, BlackBoxInvariant, PTL

\* A fault spoils one sector at most: neither the appends behind it nor the reboots, which
\* resume where a scan takes them, ever come to programmed slots of another.
THEOREM FaultsSpoilOneSector == Spec => []FaultSpoilsOneSector
<1>1. BlackBoxInv => FaultSpoilsOneSector
  <2> SUFFICES ASSUME BlackBoxInv PROVE FaultSpoilsOneSector
    OBVIOUS
  <2>1. Spoiled(flash) \subseteq Damaged(flash, seq)
    BY DEF Damaged
  <2>2. faults \in Nat /\ AtMost(Damaged(flash, seq), faults)
    BY DEF BlackBoxInv
  <2>3. AtMost(Spoiled(flash), faults)
    BY <2>1, <2>2, AtMostGrows
  <2> QED BY <2>3 DEF AtMost, FaultSpoilsOneSector
<1> QED BY <1>1, BlackBoxInvariant, PTL

\* Whatever the recorder sees in a tail, its samples carry the reason of the drop.
THEOREM ReasonKept == Spec => []TailKeepsReason
<1>1. BlackBoxInv => TailKeepsReason
  BY DEF BlackBoxInv, TailKeepsReason, Ended, Agreed, HasReason
<1> QED BY <1>1, BlackBoxInvariant, PTL

-----------------------------------------------------------------------------
(* The order of the ring.                                                  *)

AheadOf(s, slot) == (slot - RingSlot(s)) % Capacity

\* Of the slots ahead of the cursor s the first l were overwritten, by nothing readable or by
\* a record above number w, and the others are as they were.
Front(f, g, s, w, l) ==
  \A slot \in Slots :
    IF AheadOf(s, slot) < l THEN slot \in ValidSlots(g) => g[slot].n > w
    ELSE g[slot] = f[slot]

\* How far a slot is ahead of the cursor, and of the next one.
LEMMA AheadFacts ==
  ASSUME NEW s \in Nat, NEW slot \in Slots
  PROVE  /\ AheadOf(s, slot) \in 0..(Capacity - 1)
         /\ AheadOf(s, slot) = (IF slot >= RingSlot(s) THEN slot - RingSlot(s)
                                ELSE slot - RingSlot(s) + Capacity)
         /\ AheadOf(s, slot) = 0 <=> slot = RingSlot(s)
         /\ AheadOf(s + 1, slot) = IF AheadOf(s, slot) = 0 THEN Capacity - 1 ELSE AheadOf(s, slot) - 1
<1> DEFINE c == Capacity
           p == RingSlot(s)
           q == RingSlot(s + 1)
<1>1. c \in Nat \ {0} /\ p \in 0..(c - 1) /\ q \in 0..(c - 1) /\ slot \in 0..(c - 1)
      /\ s + 1 \in Nat
  BY RingGeometry DEF Slots
<1>2. q = IF p = c - 1 THEN 0 ELSE p + 1
  BY RingGeometry, NextSlot DEF RingSlot
<1> HIDE DEF c, p, q
<1>3. \A x \in 0..(c - 1) : (slot - x) % c = IF slot >= x THEN slot - x ELSE slot - x + c
  BY <1>1
<1>4. /\ (slot - p) % c = (IF slot >= p THEN slot - p ELSE slot - p + c)
      /\ (slot - q) % c = (IF slot >= q THEN slot - q ELSE slot - q + c)
  BY <1>1, <1>3
<1> DEFINE d == (slot - p) % c
           e == (slot - q) % c
<1>5. d = (IF slot >= p THEN slot - p ELSE slot - p + c) /\ e = (IF slot >= q THEN slot - q ELSE slot - q + c)
  BY <1>4
<1> HIDE DEF d, e
<1>6. d \in 0..(c - 1) /\ (d = 0 <=> slot = p) /\ e = IF d = 0 THEN c - 1 ELSE d - 1
  BY <1>1, <1>2, <1>5
<1> QED BY <1>5, <1>6 DEF AheadOf, c, p, q, d, e

\* The sector that is erased is what lies right ahead of the cursor.
LEMMA SectorAhead ==
  ASSUME NEW s \in Nat, NeedsErase(s), NEW slot \in Slots
  PROVE  SectorOf(slot) = SectorOf(RingSlot(s)) <=> AheadOf(s, slot) < RecordsPerSector
<1> DEFINE r == RecordsPerSector
           p == RingSlot(s)
           k == p \div r
           j == slot \div r
           t == slot % r
<1>1. /\ r \in Nat \ {0} /\ Sectors \in Nat \ {0, 1} /\ Capacity = Sectors * r
      /\ p \in Nat /\ slot \in Nat /\ p < Capacity /\ slot < Capacity /\ p % r = 0
  BY GeometryAssumption, RingGeometry DEF Capacity, Slots, NeedsErase
<1>2. AheadOf(s, slot) = IF slot >= p THEN slot - p ELSE slot - p + Capacity
  BY AheadFacts
<1> HIDE DEF r, p
<1>3. /\ k \in Nat /\ j \in Nat /\ t \in 0..(r - 1)
      /\ p = r * k /\ slot = r * j + t
  BY <1>1
<1> HIDE DEF k, j, t
<1>4. /\ Capacity = r * Sectors /\ r * k \in Nat /\ r * j \in Nat /\ r * Sectors \in Nat
  BY <1>1, <1>3
<1>5. k + 1 <= Sectors => r * k + r <= r * Sectors
  <2>1. \A n \in Nat : n >= 0 => r * n >= 0
    BY <1>1
  <2>2. k + 1 <= Sectors => r * (Sectors - (k + 1)) >= 0
    BY <1>1, <1>3, <2>1
  <2>3. r * (Sectors - (k + 1)) = r * Sectors - r * k - r
    BY <1>1, <1>3
  <2> QED BY <1>1, <1>3, <1>4, <2>2, <2>3
<1>6. k < Sectors
  <2>1. k >= Sectors => r * k >= r * Sectors
    BY <1>1, <1>3
  <2> QED BY <1>1, <1>3, <1>4, <2>1
<1>7. r * k + r <= Capacity
  BY <1>1, <1>3, <1>4, <1>5, <1>6
<1>8. j >= k + 1 => r * j >= r * k + r
  BY <1>1, <1>3
<1>9. j <= k - 1 => r * j + r <= r * k
  BY <1>1, <1>3
<1>10. j = k <=> (slot >= p /\ slot - p < r)
  <2> DEFINE x == r * j
             y == r * k
  <2>1. x \in Nat /\ y \in Nat /\ slot = x + t /\ p = y
    BY <1>3, <1>4
  <2>2. (j >= k + 1 => x >= y + r) /\ (j <= k - 1 => x + r <= y) /\ (j = k => x = y)
    BY <1>8, <1>9
  <2> HIDE DEF x, y
  <2> QED BY <1>1, <1>3, <2>1, <2>2
<1>11. slot < p => slot - p + Capacity >= r
  BY <1>1, <1>3, <1>7
<1> QED BY <1>1, <1>2, <1>10, <1>11 DEF SectorOf, j, k, r, p

\* An append, done, failed or cut, overwrites a sector at the front, a slot, or nothing.
LEMMA AppendFront ==
  ASSUME NEW f \in [Slots -> Records], NEW s \in Nat, NEW w, NEW record \in Records, record.n > w
  PROVE  /\ \A g \in Interrupted(f, s, record) :
              \E l \in 0..RecordsPerSector : Front(f, g, s, w, l)
         /\ \E l \in 1..RecordsPerSector : Front(f, Appended(f, s, record), s, w, l)
<1> DEFINE r == RecordsPerSector
           first == IF NeedsErase(s) THEN r ELSE 0
<1>1. r \in Nat \ {0} /\ Capacity \in Nat \ {0} /\ r < Capacity
  <2>1. Sectors * r = r * (Sectors - 1) + r
    BY GeometryAssumption
  <2>2. r * (Sectors - 1) >= 1
    BY GeometryAssumption
  <2>3. r * (Sectors - 1) \in Int
    BY GeometryAssumption
  <2> QED BY <2>1, <2>2, <2>3, GeometryAssumption DEF Capacity
<1>2. Erased.type \notin ValidTypes /\ Corrupt.type \notin ValidTypes
  BY DEF Erased, Corrupt, Record, ValidTypes
<1>3. \A slot \in Slots : AheadOf(s, slot) \in Nat /\ (AheadOf(s, slot) = 0 <=> slot = RingSlot(s))
  BY AheadFacts
<1>4. Front(f, f, s, w, 0)
  BY <1>3 DEF Front
<1>5. ASSUME NeedsErase(s), NEW contents \in {Erased, Corrupt}
      PROVE  Front(f, WithSector(f, s, contents), s, w, r)
  <2>1. \A slot \in Slots :
          WithSector(f, s, contents)[slot] = IF AheadOf(s, slot) < r THEN contents ELSE f[slot]
    BY <1>5, SectorAhead DEF WithSector
  <2> QED BY <1>2, <2>1 DEF Front, ValidSlots
<1>6. Front(f, Prepared(f, s), s, w, first)
  BY <1>4, <1>5 DEF Prepared
<1>7. ASSUME NEW contents \in {record, Corrupt}
      PROVE  Front(f, Programmed(Prepared(f, s), s, contents), s, w, IF NeedsErase(s) THEN r ELSE 1)
  <2> DEFINE p == Prepared(f, s)
             new == IF p[RingSlot(s)] = Erased THEN contents ELSE Corrupt
             l == IF NeedsErase(s) THEN r ELSE 1
  <2>1. p \in [Slots -> Records]
    <3>1. p \in Interrupted(f, s, record)
      BY DEF Interrupted
    <3> QED BY <3>1, AppendTouches DEF Touched
  <2>2. Programmed(p, s, contents) = [p EXCEPT ![RingSlot(s)] = new]
    BY <2>1, RingGeometry DEF Programmed
  <2>3. new \in {record, Corrupt}
    OBVIOUS
  <2>4. Front(f, p, s, w, first)
    BY <1>6
  <2>5. first <= l /\ l >= 1 /\ (first # l => first = 0 /\ l = 1) /\ l \in Nat
    BY <1>1
  <2> HIDE DEF p, new, l, first
  <2>6. Front(f, [p EXCEPT ![RingSlot(s)] = new], s, w, l)
    <3> SUFFICES ASSUME NEW slot \in Slots
                 PROVE  IF AheadOf(s, slot) < l
                        THEN slot \in ValidSlots([p EXCEPT ![RingSlot(s)] = new])
                               => [p EXCEPT ![RingSlot(s)] = new][slot].n > w
                        ELSE [p EXCEPT ![RingSlot(s)] = new][slot] = f[slot]
      BY DEF Front
    <3>1. CASE slot = RingSlot(s)
      BY <1>2, <1>3, <2>1, <2>3, <2>5, <3>1 DEF ValidSlots
    <3>2. CASE slot # RingSlot(s)
      <4>1. AheadOf(s, slot) \in Nat /\ AheadOf(s, slot) # 0
        BY <1>3, <3>2
      <4>2. AheadOf(s, slot) < l <=> AheadOf(s, slot) < first
        BY <2>5, <4>1
      <4> QED BY <2>1, <2>4, <3>2, <4>2 DEF Front, ValidSlots
    <3> QED BY <3>1, <3>2
  <2> QED BY <2>2, <2>6 DEF p, l
<1>8. first \in 0..r /\ (IF NeedsErase(s) THEN r ELSE 1) \in 1..r /\ r \in 0..r /\ 0 \in 0..r
  BY <1>1
<1>9. \E l \in 1..r : Front(f, Appended(f, s, record), s, w, l)
  BY <1>7, <1>8 DEF Appended
<1>10. ASSUME NEW g \in Interrupted(f, s, record)
       PROVE  \E l \in 0..r : Front(f, g, s, w, l)
  <2>1. CASE g = f
    BY <1>4, <1>8, <2>1
  <2>2. CASE g = Prepared(f, s)
    BY <1>6, <1>8, <2>2
  <2>3. CASE g = Programmed(Prepared(f, s), s, Corrupt)
    <3>1. (IF NeedsErase(s) THEN r ELSE 1) \in 0..r
      BY <1>1
    <3> QED BY <1>7, <2>3, <3>1
  <2>4. CASE g = Appended(f, s, record)
    <3>1. 1..r \subseteq 0..r
      BY <1>1
    <3> QED BY <1>9, <2>4, <3>1
  <2>5. CASE NeedsErase(s) /\ g = WithSector(f, s, Corrupt)
    BY <1>5, <1>8, <2>5
  <2> QED BY <2>1, <2>2, <2>3, <2>4, <2>5 DEF Interrupted
<1> QED BY <1>9, <1>10

\* A second append goes on where the first one left the cursor.
LEMMA FrontAgain ==
  ASSUME NEW f, NEW g, NEW h, NEW s \in Nat, NEW w,
         NEW l \in 0..RecordsPerSector, Front(f, g, s, w, l),
         NEW t \in {s, s + 1}, t = s + 1 => l > 0,
         NEW m \in 0..RecordsPerSector, Front(g, h, t, w, m)
  PROVE  \E k \in Nat : Front(f, h, s, w, k)
<1>1. RecordsPerSector \in Nat \ {0} /\ Capacity \in Nat \ {0} /\ RecordsPerSector < Capacity
  <2>1. Sectors * RecordsPerSector = RecordsPerSector * (Sectors - 1) + RecordsPerSector
    BY GeometryAssumption
  <2>2. RecordsPerSector * (Sectors - 1) >= 1 /\ RecordsPerSector * (Sectors - 1) \in Int
    BY GeometryAssumption
  <2> QED BY <2>1, <2>2, GeometryAssumption DEF Capacity
<1> DEFINE n == IF t = s THEN m ELSE m + 1
           k == IF l >= n THEN l ELSE n
<1>2. k \in Nat
  BY <1>1
<1>3. ASSUME NEW slot \in Slots
      PROVE  /\ AheadOf(s, slot) \in Nat
             /\ AheadOf(t, slot) < m => AheadOf(s, slot) < k
             /\ AheadOf(t, slot) >= m => (AheadOf(s, slot) < l <=> AheadOf(s, slot) < k)
  <2>1. /\ AheadOf(s, slot) \in 0..(Capacity - 1)
        /\ AheadOf(s + 1, slot) = IF AheadOf(s, slot) = 0 THEN Capacity - 1 ELSE AheadOf(s, slot) - 1
    BY AheadFacts
  <2> QED BY <1>1, <2>1
<1>4. \A slot \in Slots : AheadOf(t, slot) \in Nat
  BY AheadFacts
<1> HIDE DEF k
<1>5. Front(f, h, s, w, k)
  <2> SUFFICES ASSUME NEW slot \in Slots
               PROVE  IF AheadOf(s, slot) < k THEN slot \in ValidSlots(h) => h[slot].n > w
                      ELSE h[slot] = f[slot]
    BY DEF Front
  <2>1. CASE AheadOf(t, slot) < m
    BY <1>3, <2>1 DEF Front
  <2>2. CASE ~(AheadOf(t, slot) < m)
    <3>1. AheadOf(s, slot) < l <=> AheadOf(s, slot) < k
      BY <1>1, <1>3, <1>4, <2>2
    <3>2. h[slot] = g[slot]
      BY <2>2 DEF Front
    <3> QED BY <3>1, <3>2 DEF Front, ValidSlots
  <2> QED BY <2>1, <2>2
<1> QED BY <1>2, <1>5

\* What is overwritten at the front of a ring in order is older than what is left.
LEMMA FrontIsOldest ==
  ASSUME BlackBoxInv, InOrder, NEW k \in Nat, Front(flash, flash', seq, written, k)
  PROVE  OldestLost
<1> SUFFICES ASSUME NEW a \in ValidSlots(flash), flash[a].n \in Lost,
                    NEW b \in ValidSlots(flash'), flash'[b].n \in Kept
             PROVE  flash[a].n < flash'[b].n
  BY DEF OldestLost, Lost, Kept
<1>1. \A slot \in ValidSlots(flash) : flash[slot].n \in Nat /\ flash[slot].n <= written
  BY DEF BlackBoxInv, Distinct, Agreed, ValidSlots, Records
<1>2. a \in Slots /\ b \in Slots /\ seq \in Nat /\ written \in Nat
  BY DEF ValidSlots, BlackBoxInv
<1>3. AheadOf(seq, a) < k
  BY <1>2 DEF Front, ValidSlots, Lost
<1>4. flash'[b].n <= written /\ flash'[b].n \in Nat
  BY <1>1 DEF Kept
<1>5. ~(AheadOf(seq, b) < k)
  BY <1>2, <1>4 DEF Front
<1>6. b \in ValidSlots(flash) /\ flash'[b] = flash[b]
  BY <1>2, <1>5 DEF Front, ValidSlots
<1>7. AheadOf(seq, a) \in Nat /\ AheadOf(seq, b) \in Nat
  BY <1>2, AheadFacts
<1>8. AheadOf(seq, a) < AheadOf(seq, b)
  BY <1>3, <1>5, <1>7
<1> QED BY <1>6, <1>8 DEF InOrder, Ahead, AheadOf

\* A region in order from the cursor s on, and numbered up to w.
Ordered(f, s, w) ==
  /\ \A slot \in ValidSlots(f) : f[slot].n <= w
  /\ \A a, b \in ValidSlots(f) : AheadOf(s, a) < AheadOf(s, b) => f[a].n < f[b].n

\* An append that succeeds leaves the ring in order from the next cursor on.
LEMMA AppendOrders ==
  ASSUME NEW f \in [Slots -> Records], NEW s \in Nat, NEW w \in Nat, Ordered(f, s, w),
         NEW record \in Records, record.n = w + 1
  PROVE  Ordered(Appended(f, s, record), s + 1, w + 1)
<1> DEFINE g == Appended(f, s, record)
<1>1. PICK l \in 1..RecordsPerSector : Front(f, g, s, w, l)
  <2>1. record.n > w
    OBVIOUS
  <2> QED BY <2>1, AppendFront
<1>2. Touched(f, g, s, record)
  BY AppendTouches
<1>3. Erased.type \notin ValidTypes /\ Corrupt.type \notin ValidTypes
  BY DEF Erased, Corrupt, Record, ValidTypes
<1> HIDE DEF g
<1>4. ASSUME NEW slot \in ValidSlots(g)
      PROVE  /\ slot \in Slots /\ g[slot].n \in Nat
             /\ slot # RingSlot(s) => slot \in ValidSlots(f) /\ g[slot] = f[slot]
             /\ slot = RingSlot(s) => g[slot].n > w
             /\ g[slot].n <= w + 1
  <2>1. slot \in Slots /\ g[slot] \in Records /\ g[slot].type \in ValidTypes
    BY <1>2, <1>4 DEF ValidSlots, Touched
  <2>2. g[slot] = f[slot] \/ (slot = RingSlot(s) /\ g[slot] = record)
    BY <1>2, <1>3, <2>1 DEF Touched
  <2>3. slot = RingSlot(s) => g[slot].n > w
    <3> SUFFICES ASSUME slot = RingSlot(s) PROVE g[slot].n > w
      OBVIOUS
    <3>1. AheadOf(s, slot) = 0
      BY <2>1, AheadFacts
    <3>2. AheadOf(s, slot) < l
      BY <1>1, <3>1
    <3> QED BY <1>1, <1>4, <2>1, <3>2 DEF Front
  <2>4. g[slot].n \in Nat
    BY <2>1 DEF Records
  <2>5. g[slot] = f[slot] => slot \in ValidSlots(f) /\ g[slot].n <= w
    BY <2>1 DEF ValidSlots, Ordered
  <2>6. g[slot].n <= w + 1
    BY <2>2, <2>4, <2>5
  <2> QED BY <2>1, <2>2, <2>3, <2>4, <2>5, <2>6
<1>5. ASSUME NEW a \in ValidSlots(g), NEW b \in ValidSlots(g), AheadOf(s + 1, a) < AheadOf(s + 1, b)
      PROVE  g[a].n < g[b].n
  <2>1. /\ AheadOf(s, a) \in 0..(Capacity - 1) /\ AheadOf(s, b) \in 0..(Capacity - 1)
        /\ (AheadOf(s, a) = 0 <=> a = RingSlot(s)) /\ (AheadOf(s, b) = 0 <=> b = RingSlot(s))
        /\ AheadOf(s + 1, a) = (IF AheadOf(s, a) = 0 THEN Capacity - 1 ELSE AheadOf(s, a) - 1)
        /\ AheadOf(s + 1, b) = (IF AheadOf(s, b) = 0 THEN Capacity - 1 ELSE AheadOf(s, b) - 1)
    BY <1>4, AheadFacts
  <2>2. a # RingSlot(s)
    BY <1>5, <2>1, RingGeometry
  <2>3. CASE b = RingSlot(s)
    BY <1>4, <2>2, <2>3 DEF Ordered
  <2>4. CASE b # RingSlot(s)
    <3>1. AheadOf(s, a) < AheadOf(s, b)
      BY <1>5, <2>1, <2>2, <2>4
    <3> QED BY <1>4, <2>2, <2>4, <3>1 DEF Ordered
  <2> QED BY <2>3, <2>4
<1>6. Ordered(g, s + 1, w + 1)
  BY <1>4, <1>5 DEF Ordered
<1> QED BY <1>6 DEF g

-----------------------------------------------------------------------------
(* A tick, append by append.                                               *)

\* The region after some records of a tick, seen from the cursor before it.
LogFront(log) ==
  /\ log \in [flash : [Slots -> Records], seq : Nat, failed : BOOLEAN]
  /\ log.seq = seq \/ log.seq = seq + 1
  /\ \E l \in 0..RecordsPerSector :
       Front(flash, log.flash, seq, written, l) /\ (log.seq = seq + 1 => l > 0)

\* The outcomes of an append, one by one.
LEMMA AppendedLog ==
  ASSUME NEW log \in [flash : [Slots -> Records], seq : Nat, failed : BOOLEAN],
         NEW record \in Records, NEW next \in AppendOutcomes(log, record)
  PROVE  /\ next \in [flash : [Slots -> Records], seq : Nat, failed : BOOLEAN]
         /\ \/ /\ next.failed = log.failed /\ next.seq = log.seq + 1
               /\ next.flash = Appended(log.flash, log.seq, record)
            \/ /\ next.failed /\ next.seq = log.seq
               /\ next.flash \in Interrupted(log.flash, log.seq, record)
<1>1. /\ log.flash \in [Slots -> Records] /\ log.seq \in Nat /\ log.seq + 1 \in Nat
      /\ log.failed \in BOOLEAN
  OBVIOUS
<1>2. /\ Appended(log.flash, log.seq, record) \in [Slots -> Records]
      /\ \A f \in Interrupted(log.flash, log.seq, record) : f \in [Slots -> Records]
  BY <1>1, AppendTouches DEF Touched
<1>3. CASE next = [log EXCEPT !.flash = Appended(log.flash, log.seq, record), !.seq = @ + 1]
  <2> DEFINE g == Appended(log.flash, log.seq, record)
  <2>1. next = [log EXCEPT !.flash = g, !.seq = @ + 1] /\ g \in [Slots -> Records]
    BY <1>2, <1>3
  <2> HIDE DEF g
  <2>2. /\ next \in [flash : [Slots -> Records], seq : Nat, failed : BOOLEAN]
        /\ next.failed = log.failed /\ next.seq = log.seq + 1 /\ next.flash = g
    BY <1>1, <2>1, Zenon
  <2> QED BY <2>2 DEF g
<1>4. CASE \E f \in Interrupted(log.flash, log.seq, record) :
             next = [log EXCEPT !.flash = f, !.failed = TRUE]
  <2>1. PICK f \in Interrupted(log.flash, log.seq, record) :
          next = [log EXCEPT !.flash = f, !.failed = TRUE]
    BY <1>4
  <2>2. /\ next \in [flash : [Slots -> Records], seq : Nat, failed : BOOLEAN]
        /\ next.failed /\ next.seq = log.seq /\ next.flash = f
    BY <1>1, <1>2, <2>1
  <2> QED BY <2>1, <2>2
<1> QED BY <1>3, <1>4 DEF AppendOutcomes

\* The log before a tick.
LEMMA LogBefore ==
  ASSUME BlackBoxInv
  PROVE  /\ Log \in [flash : [Slots -> Records], seq : Nat, failed : BOOLEAN]
         /\ Log.flash = flash /\ Log.seq = seq /\ ~Log.failed /\ LogFront(Log)
<1>1. flash \in [Slots -> Records] /\ seq \in Nat
  BY DEF BlackBoxInv, Distinct
<1>2. /\ Log \in [flash : [Slots -> Records], seq : Nat, failed : BOOLEAN]
      /\ Log.flash = flash /\ Log.seq = seq /\ ~Log.failed
  BY <1>1 DEF Log
<1>3. Front(flash, flash, seq, written, 0)
  <2>1. \A slot \in Slots : AheadOf(seq, slot) \in Nat
    BY <1>1, AheadFacts
  <2> QED BY <2>1 DEF Front
<1>4. 0 \in 0..RecordsPerSector /\ seq # seq + 1
  BY <1>1, RingGeometry
<1> QED BY <1>2, <1>3, <1>4 DEF LogFront

\* What a tick overwrites, whole, failed or cut, lies right ahead of the cursor before it.
LEMMA TickFront ==
  ASSUME BlackBoxInv, NEW records, NEW i \in 1..2, i <= Len(records), Len(records) \in 0..2,
         \A j \in 1..Len(records) : records[j] \in Records /\ records[j].n = written + j,
         NEW log \in LogsAfter(records, i - 1)
  PROVE  /\ LogFront(log)
         /\ \A f \in Interrupted(log.flash, log.seq, records[i]) :
              \E k \in Nat : Front(flash, f, seq, written, k)
         /\ i = 1 => \A next \in AppendOutcomes(log, records[1]) : LogFront(next)
<1>1. /\ seq \in Nat /\ written \in Nat
      /\ records[1] \in Records /\ records[1].n > written
      /\ i = 2 => records[2] \in Records /\ records[2].n > written
  <2>1. 1 \in 1..Len(records) /\ (i = 2 => 2 \in 1..Len(records)) /\ seq \in Nat /\ written \in Nat
    BY DEF BlackBoxInv
  <2>2. records[1].n = written + 1 /\ (i = 2 => records[2].n = written + 2)
    BY <2>1
  <2> QED BY <2>1, <2>2
<1>2. ASSUME NEW next \in AppendOutcomes(Log, records[1])
      PROVE  LogFront(next)
  <2>1. /\ next \in [flash : [Slots -> Records], seq : Nat, failed : BOOLEAN]
        /\ \/ next.seq = seq + 1 /\ next.flash = Appended(flash, seq, records[1])
           \/ next.seq = seq /\ next.flash \in Interrupted(flash, seq, records[1])
    BY <1>1, <1>2, AppendedLog, LogBefore
  <2>2. flash \in [Slots -> Records]
    BY LogBefore
  <2>3. CASE next.seq = seq + 1 /\ next.flash = Appended(flash, seq, records[1])
    <3>1. \E l \in 1..RecordsPerSector : Front(flash, next.flash, seq, written, l)
      BY <1>1, <2>2, <2>3, AppendFront
    <3>2. \A l \in 1..RecordsPerSector : l \in 0..RecordsPerSector /\ l > 0
      BY RingGeometry
    <3> QED BY <2>1, <2>3, <3>1, <3>2 DEF LogFront
  <2>4. CASE next.seq = seq /\ next.flash \in Interrupted(flash, seq, records[1])
    <3>1. \E l \in 0..RecordsPerSector : Front(flash, next.flash, seq, written, l)
      BY <1>1, <2>2, <2>4, AppendFront
    <3>2. seq # seq + 1
      BY <1>1
    <3> QED BY <2>1, <2>4, <3>1, <3>2 DEF LogFront
  <2> QED BY <2>1, <2>3, <2>4
<1>3. LogFront(log)
  <2>1. CASE i = 1
    BY <2>1, LogBefore DEF LogsAfter
  <2>2. CASE i = 2
    BY <1>2, <2>2 DEF LogsAfter
  <2> QED BY <2>1, <2>2
<1>4. ASSUME NEW f \in Interrupted(log.flash, log.seq, records[i])
      PROVE  \E k \in Nat : Front(flash, f, seq, written, k)
  <2>1. PICK l \in 0..RecordsPerSector :
          Front(flash, log.flash, seq, written, l) /\ (log.seq = seq + 1 => l > 0)
    BY <1>3 DEF LogFront
  <2>2. log.flash \in [Slots -> Records] /\ log.seq \in Nat /\ log.seq \in {seq, seq + 1}
    BY <1>3 DEF LogFront
  <2>3. records[i] \in Records /\ records[i].n > written
    BY <1>1
  <2>4. PICK m \in 0..RecordsPerSector : Front(log.flash, f, log.seq, written, m)
    BY <1>4, <2>2, <2>3, AppendFront
  <2> QED BY <1>1, <2>1, <2>2, <2>4, FrontAgain
<1>5. i = 1 => log = Log
  BY DEF LogsAfter
<1> QED BY <1>2, <1>3, <1>4, <1>5

\* The region after a tick in which nothing failed: all its records, one behind the other.
LEMMA AllAppended ==
  ASSUME BlackBoxInv, NEW records, Len(records) \in 0..2,
         \A j \in 1..Len(records) : records[j] \in Records,
         NEW log \in LogsAfter(records, Len(records)), ~log.failed
  PROVE  /\ Len(records) = 0 => log.flash = flash /\ log.seq = seq
         /\ Len(records) = 1 => /\ log.flash = Appended(flash, seq, records[1])
                                /\ log.seq = seq + 1
         /\ Len(records) = 2 => /\ log.flash = Appended(Appended(flash, seq, records[1]), seq + 1, records[2])
                                /\ log.seq = seq + 2
<1>1. CASE Len(records) = 0
  BY <1>1, LogBefore DEF LogsAfter
<1>2. CASE Len(records) = 1
  <2>1. log \in AppendOutcomes(Log, records[1]) /\ records[1] \in Records
    BY <1>2 DEF LogsAfter
  <2> QED BY <1>2, <2>1, LogBefore, AppendedLog
<1>3. CASE Len(records) = 2
  <2>1. records[1] \in Records /\ records[2] \in Records
    BY <1>3
  <2>2. PICK first \in AppendOutcomes(Log, records[1]) : log \in AppendOutcomes(first, records[2])
    BY <1>3 DEF LogsAfter
  <2>3. /\ first \in [flash : [Slots -> Records], seq : Nat, failed : BOOLEAN]
        /\ first.failed \/ /\ first.seq = seq + 1
                           /\ first.flash = Appended(flash, seq, records[1])
    BY <2>1, <2>2, LogBefore, AppendedLog
  <2>4. /\ ~first.failed /\ log.seq = first.seq + 1
        /\ log.flash = Appended(first.flash, first.seq, records[2])
    BY <2>1, <2>2, <2>3, AppendedLog
  <2>5. seq + 1 + 1 = seq + 2
    BY DEF BlackBoxInv
  <2> QED BY <1>3, <2>3, <2>4, <2>5
<1> QED BY <1>1, <1>2, <1>3

\* So does the region after the whole tick, failed or not.
LEMMA WholeTickFront ==
  ASSUME BlackBoxInv, NEW records, Len(records) \in 0..2,
         \A j \in 1..Len(records) : records[j] \in Records /\ records[j].n = written + j,
         NEW log \in LogsAfter(records, Len(records))
  PROVE  \E k \in Nat : Front(flash, log.flash, seq, written, k)
<1>1. \A l : LogFront(l) => \E k \in Nat : Front(flash, l.flash, seq, written, k)
  <2>1. 0..RecordsPerSector \subseteq Nat
    OBVIOUS
  <2> QED BY <2>1 DEF LogFront
<1>2. CASE Len(records) = 0
  BY <1>1, <1>2, LogBefore DEF LogsAfter
<1>3. CASE Len(records) = 1
  <2>1. Log \in LogsAfter(records, 1 - 1) /\ log \in AppendOutcomes(Log, records[1])
        /\ 1 \in 1..2 /\ 1 <= Len(records)
    BY <1>3 DEF LogsAfter
  <2> QED BY <1>1, <2>1, TickFront
<1>4. CASE Len(records) = 2
  <2>1. PICK first \in AppendOutcomes(Log, records[1]) : log \in AppendOutcomes(first, records[2])
    BY <1>4 DEF LogsAfter
  <2>2. first \in LogsAfter(records, 2 - 1) /\ 2 \in 1..2 /\ 2 <= Len(records)
    BY <1>4, <2>1 DEF LogsAfter
  <2>3. /\ LogFront(first)
        /\ \A f \in Interrupted(first.flash, first.seq, records[2]) :
             \E k \in Nat : Front(flash, f, seq, written, k)
    BY <2>2, TickFront
  <2>4. log.flash \in Interrupted(first.flash, first.seq, records[2])
    <3>1. records[2] \in Records /\ first \in [flash : [Slots -> Records], seq : Nat, failed : BOOLEAN]
      BY <1>4, <2>3 DEF LogFront
    <3>2. \/ log.flash = Appended(first.flash, first.seq, records[2])
          \/ log.flash \in Interrupted(first.flash, first.seq, records[2])
      BY <2>1, <3>1, AppendedLog
    <3> QED BY <3>2 DEF Interrupted
  <2> QED BY <2>3, <2>4
<1> QED BY <1>2, <1>3, <1>4

\* A tick that writes what it has leaves a ring in order, from the cursor behind its records.
LEMMA TickOrders ==
  ASSUME BlackBoxInv, InOrder, NEW records, Len(records) \in 0..2,
         \A j \in 1..Len(records) : records[j] \in Records /\ records[j].n = written + j,
         NEW log \in LogsAfter(records, Len(records)), ~log.failed
  PROVE  \A a, b \in ValidSlots(log.flash) :
           AheadOf(log.seq, a) < AheadOf(log.seq, b) => log.flash[a].n < log.flash[b].n
<1>1. /\ Ordered(flash, seq, written) /\ flash \in [Slots -> Records]
      /\ seq \in Nat /\ written \in Nat /\ seq + 1 \in Nat /\ written + 1 \in Nat
      /\ (written + 1) + 1 = written + 2 /\ (seq + 1) + 1 = seq + 2
  BY DEF Ordered, BlackBoxInv, Agreed, Distinct, InOrder, Ahead, AheadOf
<1>2. CASE Len(records) = 0
  BY <1>1, <1>2, AllAppended DEF Ordered
<1>3. ASSUME Len(records) > 0
      PROVE  /\ Ordered(Appended(flash, seq, records[1]), seq + 1, written + 1)
             /\ Appended(flash, seq, records[1]) \in [Slots -> Records]
  <2>1. records[1] \in Records /\ records[1].n = written + 1
    BY <1>3
  <2> QED BY <1>1, <2>1, AppendOrders, AppendTouches DEF Touched
<1>4. CASE Len(records) = 1
  <2>1. log.flash = Appended(flash, seq, records[1]) /\ log.seq = seq + 1
    BY <1>4, AllAppended
  <2>2. Ordered(log.flash, log.seq, written + 1)
    BY <1>3, <1>4, <2>1
  <2> QED BY <2>2 DEF Ordered
<1>5. CASE Len(records) = 2
  <2>1. records[2] \in Records /\ records[2].n = (written + 1) + 1
    BY <1>1, <1>5
  <2>2. Ordered(Appended(Appended(flash, seq, records[1]), seq + 1, records[2]),
                (seq + 1) + 1, (written + 1) + 1)
    BY <1>1, <1>3, <1>5, <2>1, AppendOrders
  <2> QED BY <1>1, <1>5, <2>2, AllAppended DEF Ordered
<1> QED BY <1>2, <1>4, <1>5

\* No step takes anything but the oldest records from a ring in order.
LEMMA OldestStep ==
  ASSUME BlackBoxInv, Next, InOrder
  PROVE  OldestLost /\ (written' > written /\ faults' = faults => InOrder')
<1>0. seq \in Nat /\ written \in Nat /\ faults \in Nat
  BY DEF BlackBoxInv
<1>1. CASE RecorderTick
  <2>1. PICK snap \in Snapshots, moved \in BOOLEAN, attempted \in BOOLEAN :
          LET action  == SamplerAction(snap, moved, attempted)
              records == TickRecords(snap, action)
          IN  \E log \in LogsAfter(records, Len(records)) :
                /\ flash' = log.flash
                /\ seq' = log.seq
                /\ faults' = faults + (IF log.failed THEN 1 ELSE 0)
    BY <1>1 DEF RecorderTick
  <2> DEFINE action  == SamplerAction(snap, moved, attempted)
             records == TickRecords(snap, action)
             next    == RecorderNext(snap, action)
             w       == written + Len(records)
  <2>2. TickOK(records, next, w) /\ RegionsOK(records, next, w)
    BY TickFacts, TickKeeps
  <2>3. PICK log \in LogsAfter(records, Len(records)) :
          /\ flash' = log.flash
          /\ seq' = log.seq
          /\ faults' = faults + (IF log.failed THEN 1 ELSE 0)
    BY <2>1
  <2> HIDE DEF action, records, next, w
  <2>4. /\ Len(records) \in 0..2
        /\ \A j \in 1..Len(records) : records[j] \in Records /\ records[j].n = written + j
    BY <2>2 DEF TickOK
  <2>5. OldestLost
    BY <2>3, <2>4, WholeTickFront, FrontIsOldest
  <2>6. ASSUME faults' = faults
        PROVE  InOrder'
    <3>1. log.failed \in BOOLEAN
      BY <2>2 DEF RegionsOK, LogOK
    <3>2. ~log.failed
      BY <1>0, <2>3, <2>6, <3>1
    <3>3. \A a, b \in ValidSlots(flash') :
            AheadOf(seq', a) < AheadOf(seq', b) => flash'[a].n < flash'[b].n
      BY <2>3, <2>4, <3>2, TickOrders
    <3> QED BY <3>3 DEF InOrder, Ahead, AheadOf
  <2> QED BY <2>5, <2>6
<1>2. CASE Reboot
  <2>1. flash' = flash /\ written' = written
    BY <1>2 DEF Reboot, Resume
  <2> QED BY <1>0, <2>1 DEF OldestLost, Lost, ValidSlots
<1>3. CASE PowerCut
  <2>1. PICK snap \in Snapshots, moved \in BOOLEAN, attempted \in BOOLEAN :
          LET records == TickRecords(snap, SamplerAction(snap, moved, attempted))
          IN  \E i \in DOMAIN records : \E log \in LogsAfter(records, i - 1) :
                \E f \in Interrupted(log.flash, log.seq, records[i]) : Resume(f)
    BY <1>3 DEF PowerCut
  <2> DEFINE action  == SamplerAction(snap, moved, attempted)
             records == TickRecords(snap, action)
             next    == RecorderNext(snap, action)
             w       == written + Len(records)
  <2>2. \E i \in DOMAIN records : \E log \in LogsAfter(records, i - 1) :
          \E f \in Interrupted(log.flash, log.seq, records[i]) : Resume(f)
    BY <2>1
  <2>3. TickOK(records, next, w)
    BY TickFacts
  <2>4. DOMAIN records = 1..Len(records)
    <3>1. Shaped(snap, action, records)
      BY TickShape
    <3> HIDE DEF action, records
    <3> QED BY <3>1 DEF Shaped
  <2> HIDE DEF action, records, next, w
  <2>5. /\ Len(records) \in 0..2
        /\ \A j \in 1..Len(records) : records[j] \in Records /\ records[j].n = written + j
    BY <2>3 DEF TickOK
  <2>6. PICK i \in 1..Len(records) : \E log \in LogsAfter(records, i - 1) :
          \E f \in Interrupted(log.flash, log.seq, records[i]) : Resume(f)
    BY <2>2, <2>4
  <2>7. PICK log \in LogsAfter(records, i - 1) :
          \E f \in Interrupted(log.flash, log.seq, records[i]) : Resume(f)
    BY <2>6
  <2>8. PICK f \in Interrupted(log.flash, log.seq, records[i]) : flash' = f
    BY <2>7 DEF Resume
  <2>9. i \in 1..2 /\ i <= Len(records)
    BY <2>5
  <2>10. PICK k \in Nat : Front(flash, f, seq, written, k)
    BY <2>5, <2>9, TickFront
  <2>11. OldestLost
    BY <2>8, <2>10, FrontIsOldest
  <2>12. faults' # faults
    BY <1>0, <1>3 DEF PowerCut
  <2> QED BY <2>11, <2>12
<1> QED BY <1>1, <1>2, <1>3 DEF Next

\* While the ring is in order from the cursor on, its oldest records go first, through wraps,
\* failed appends and power cuts, and an uninterrupted tick leaves it in order (blackbox_ring.c).
THEOREM OldestLostFirst == Spec => OldestGoesFirst
<1>1. BlackBoxInv /\ [Next]_vars
        => [InOrder => OldestLost /\ (written' > written /\ faults' = faults => InOrder')]_vars
  BY OldestStep
<1> QED BY <1>1, BlackBoxInvariant, PTL DEF Spec, OldestGoesFirst


-----------------------------------------------------------------------------
(* The ring before the first wrap and the first fault.                     *)

\* The record numbered of is the last header before slot.
LastHeader(f, slot, of) ==
  /\ of \in 1..slot /\ f[of - 1].type = "header"
  /\ \A h \in HeaderSlots(f) : h < slot => h < of

\* A region filled with w records from slot 0 on, each sample under the last header before it;
\* header is the last of all of them unless it is 0.
Linear(f, header, w) ==
  /\ f \in [Slots -> Records]
  /\ \A slot \in Slots : IF slot < w THEN f[slot].type \in ValidTypes /\ f[slot].n = slot + 1
                                     ELSE f[slot] = Erased
  /\ \A slot \in Slots : f[slot].type = "sample" => LastHeader(f, slot, f[slot].of)
  /\ header > 0 => LastHeader(f, w, header)

\* Before the first wrap and the first fault, the cursor counts the records.
LinearInv ==
  faults = 0 /\ written <= Capacity => seq = written /\ Linear(flash, recorder.header, written)

\* Before the first wrap an append fills the next slot and touches no other.
LEMMA LinearAppends ==
  ASSUME NEW f, NEW header \in Nat, NEW w \in Nat, w < Capacity, Linear(f, header, w),
         NEW record \in Records
  PROVE  w \in Slots /\ Appended(f, w, record) = [f EXCEPT ![w] = record]
<1>1. w \in Slots /\ RingSlot(w) = w /\ f \in [Slots -> Records]
  <2>1. w \in 0..(Capacity - 1) /\ w % Capacity = w
    BY RingGeometry
  <2> QED BY <2>1 DEF Slots, RingSlot, Linear
<1>2. Prepared(f, w) = f
  <2>1. SUFFICES ASSUME NeedsErase(w) PROVE WithSector(f, w, Erased) = f
    BY DEF Prepared
  <2>2. ASSUME NEW slot \in Slots, SectorOf(slot) = SectorOf(w)
        PROVE  f[slot] = Erased
    <3> DEFINE r == RecordsPerSector
    <3>1. w % r = 0 /\ slot \div r = w \div r /\ slot \in Nat /\ r \in Nat \ {0}
      BY <1>1, <2>1, <2>2, RingGeometry DEF NeedsErase, SectorOf, Slots
    <3>2. w = r * (w \div r) + (w % r)
      BY <3>1
    <3>3. slot = r * (slot \div r) + (slot % r) /\ slot % r >= 0
      BY <3>1
    <3>4. slot >= w
      <4> HIDE DEF r
      <4> QED BY <3>1, <3>2, <3>3
    <3> QED BY <3>1, <3>4 DEF Linear
  <2>3. \A slot \in Slots : WithSector(f, w, Erased)[slot] = f[slot]
    BY <1>1, <2>2 DEF WithSector
  <2> QED BY <1>1, <2>3 DEF WithSector
<1>3. f[w] = Erased
  BY <1>1 DEF Linear
<1> QED BY <1>1, <1>2, <1>3 DEF Appended, Programmed

\* The region stays filled one by one, and the last header known, record by record.
LEMMA LinearAppend ==
  ASSUME NEW f, NEW header \in Nat, NEW w \in Nat, w < Capacity, Linear(f, header, w),
         NEW record \in Records, record.type \in ValidTypes, record.n = w + 1,
         record.type = "sample" => record.of = header /\ header > 0,
         NEW last, last = IF record.type = "header" THEN w + 1 ELSE header
  PROVE  Linear(Appended(f, w, record), last, w + 1)
<1> DEFINE g == Appended(f, w, record)
<1>1. w \in Slots /\ g = [f EXCEPT ![w] = record] /\ f \in [Slots -> Records]
  BY LinearAppends DEF Linear
<1>2. /\ g \in [Slots -> Records] /\ g[w] = record
      /\ \A slot \in Slots : slot # w => g[slot] = f[slot]
  BY <1>1
<1> HIDE DEF g
<1>3. \A slot \in Slots : slot \in Nat
  BY DEF Slots
<1>4. ASSUME NEW slot \in Slots
      PROVE  IF slot < w + 1 THEN g[slot].type \in ValidTypes /\ g[slot].n = slot + 1
                             ELSE g[slot] = Erased
  BY <1>2, <1>3 DEF Linear
<1>5. f[w].type = "erased" /\ f[w] = Erased
  BY <1>1 DEF Linear, Erased, Record
<1>6. /\ HeaderSlots(g) \subseteq HeaderSlots(f) \cup {w}
      /\ record.type # "header" => HeaderSlots(g) = HeaderSlots(f)
  BY <1>1, <1>2, <1>5 DEF HeaderSlots
<1>7. ASSUME NEW slot \in 0..w, NEW of, LastHeader(f, slot, of)
      PROVE  LastHeader(g, slot, of)
  <2>1. of \in 1..slot /\ w \in 0..(Capacity - 1) /\ Capacity \in Nat
    BY <1>1, <1>7, RingGeometry DEF LastHeader, Slots
  <2>2. of - 1 \in 0..(Capacity - 1) /\ of - 1 # w
    BY <2>1
  <2>3. \A h \in HeaderSlots(g) : h < slot => h < of
    BY <1>3, <1>1, <1>6, <1>7 DEF LastHeader
  <2> QED BY <1>2, <1>7, <2>2, <2>3 DEF LastHeader, Slots
<1>8. ASSUME NEW slot \in Slots, g[slot].type = "sample"
      PROVE  LastHeader(g, slot, g[slot].of)
  <2>1. slot < w + 1 /\ slot \in 0..w
    <3>1. Erased.type # "sample"
      BY DEF Erased, Record
    <3> QED BY <1>1, <1>3, <1>4, <1>8, <3>1
  <2>2. CASE slot = w
    BY <1>2, <1>7, <1>8, <2>1, <2>2 DEF Linear
  <2>3. CASE slot # w
    BY <1>2, <1>7, <1>8, <2>1, <2>3 DEF Linear
  <2> QED BY <2>2, <2>3
<1>9. last > 0 => LastHeader(g, w + 1, last)
  <2>1. CASE record.type = "header"
    BY <1>1, <1>2, <1>3, <2>1 DEF LastHeader, HeaderSlots
  <2>2. ASSUME record.type # "header", header > 0
        PROVE  LastHeader(g, w + 1, header)
    <3>1. w \in 0..w
      OBVIOUS
    <3>2. LastHeader(g, w, header)
      BY <1>7, <2>2, <3>1 DEF Linear
    <3>3. w \notin HeaderSlots(g)
      BY <1>2, <2>2 DEF HeaderSlots
    <3>4. \A h \in HeaderSlots(g) : h \in Nat /\ (h < w + 1 => h < w)
      BY <1>1, <1>3, <3>3 DEF HeaderSlots
    <3> QED BY <3>2, <3>4 DEF LastHeader
  <2> QED BY <2>1, <2>2
<1> QED BY <1>2, <1>4, <1>8, <1>9 DEF Linear, g

\* A tick without a fault, before the first wrap.
LEMMA LinearTick ==
  ASSUME BlackBoxInv, seq = written, Linear(flash, recorder.header, written),
         NEW snap, NEW moved \in BOOLEAN, NEW attempted \in BOOLEAN
  PROVE  LET action  == SamplerAction(snap, moved, attempted)
             records == TickRecords(snap, action)
             next    == RecorderNext(snap, action)
             w       == written + Len(records)
         IN  w <= Capacity => \A log \in LogsAfter(records, Len(records)) :
               ~log.failed => log.seq = w /\ Linear(log.flash, next.header, w)
<1> DEFINE action  == SamplerAction(snap, moved, attempted)
           records == TickRecords(snap, action)
           next    == RecorderNext(snap, action)
           w       == written + Len(records)
<1> SUFFICES ASSUME w <= Capacity, NEW log \in LogsAfter(records, Len(records)), ~log.failed
             PROVE  log.seq = w /\ Linear(log.flash, next.header, w)
  OBVIOUS
<1>1. /\ written \in Nat /\ recorder.header \in Nat /\ Capacity \in Nat
      /\ ~IsOff(recorder.substate) \/ recorder.tail > 0 => recorder.header > 0
  BY RingGeometry DEF BlackBoxInv, RecorderOK
<1>2. next.header = IF action = "START_SESSION" THEN written + 1 ELSE recorder.header
  BY DEF RecorderNext
<1>3. TickOK(records, next, w) /\ Shaped(snap, action, records) /\ Judged(snap, action)
  BY TickFacts, TickShape, ActionFacts
<1> HIDE DEF action, records, next, w
<1>4. /\ Len(records) \in 0..2
      /\ \A j \in 1..Len(records) : /\ records[j] \in Records /\ records[j].type \in ValidTypes
                                    /\ records[j].n = written + j
  BY <1>3 DEF TickOK
<1>5. /\ Len(records) = 0 => log.flash = flash /\ log.seq = seq
      /\ Len(records) = 1 => /\ log.flash = Appended(flash, seq, records[1])
                             /\ log.seq = seq + 1
      /\ Len(records) = 2 => /\ log.flash = Appended(Appended(flash, seq, records[1]), seq + 1, records[2])
                             /\ log.seq = seq + 2
  BY <1>4, AllAppended
<1>6. CASE action = "IDLE"
  <2>1. Len(records) = 0
    BY <1>3, <1>6 DEF Shaped
  <2> QED BY <1>1, <1>2, <1>5, <1>6, <2>1 DEF w
<1>7. CASE action = "START_SESSION"
  <2>1. Len(records) = 2 /\ w = written + 2
    BY <1>3, <1>7 DEF Shaped, w
  <2>2. /\ records[1].type = "header" /\ records[2].type = "sample"
        /\ records[2].of = written + 1
    BY <1>3, <1>7 DEF Shaped, Record
  <2>3. written < Capacity /\ written + 1 < Capacity /\ written + 1 \in Nat
        /\ (written + 1) + 1 = written + 2
    BY <1>1, <2>1
  <2>4. /\ records[1] \in Records /\ records[1].type \in ValidTypes /\ records[1].n = written + 1
        /\ records[2] \in Records /\ records[2].type \in ValidTypes
        /\ records[2].n = (written + 1) + 1
    BY <1>4, <2>1, <2>3
  <2>5. Linear(Appended(flash, written, records[1]), written + 1, written + 1)
    BY <1>1, <2>2, <2>3, <2>4, LinearAppend
  <2>6. Linear(Appended(Appended(flash, written, records[1]), written + 1, records[2]),
               written + 1, (written + 1) + 1)
    BY <1>1, <2>2, <2>3, <2>4, <2>5, LinearAppend
  <2> QED BY <1>2, <1>5, <1>7, <2>1, <2>3, <2>6
<1>8. CASE action \in {"SAMPLE", "SAMPLE_TAIL", "LOG_ATTEMPT"}
  <2>1. Len(records) = 1 /\ w = written + 1
    BY <1>3, <1>8 DEF Shaped, w
  <2>2. /\ records[1].type # "header"
        /\ records[1].type = "sample" => /\ action \in {"SAMPLE", "SAMPLE_TAIL"}
                                         /\ records[1].of = recorder.header
    BY <1>3, <1>8 DEF Shaped, Record
  <2>3. action \in {"SAMPLE", "SAMPLE_TAIL"} => recorder.header > 0
    BY <1>1, <1>3 DEF Judged
  <2>4. records[1] \in Records /\ records[1].type \in ValidTypes /\ records[1].n = written + 1
        /\ written < Capacity
    BY <1>1, <1>4, <2>1
  <2>5. Linear(Appended(flash, written, records[1]), recorder.header, written + 1)
    BY <1>1, <2>2, <2>3, <2>4, LinearAppend
  <2> QED BY <1>2, <1>5, <1>8, <2>1, <2>5
<1> QED
  <2>1. action \in {"IDLE", "START_SESSION", "SAMPLE", "SAMPLE_TAIL", "LOG_ATTEMPT"}
    BY <1>3 DEF Shaped
  <2> QED BY <2>1, <1>6, <1>7, <1>8

\* A reboot before the first wrap takes the cursor up where it was.
LEMMA LinearBoot ==
  ASSUME NEW f, NEW header, NEW w \in Nat, w <= Capacity, Linear(f, header, w)
  PROVE  ResumeCursor(f) = w /\ Linear(f, 0, w)
<1>1. Linear(f, 0, w)
  BY DEF Linear
<1>2. ValidSlots(f) = {slot \in Slots : slot < w}
  <2>1. Erased.type \notin ValidTypes
    BY DEF Erased, Record, ValidTypes
  <2> QED BY <2>1 DEF Linear, ValidSlots
<1>3. Capacity \in Nat
  BY RingGeometry
<1>4. CASE w = 0
  <2>1. ValidSlots(f) = {}
    BY <1>2, <1>4 DEF Slots
  <2> QED BY <1>1, <1>4, <2>1 DEF ResumeCursor
<1>5. CASE w > 0
  <2>1. /\ ValidSlots(f) \in SUBSET Nat /\ w - 1 \in ValidSlots(f)
        /\ \A slot \in ValidSlots(f) : slot <= w
    BY <1>2, <1>3, <1>5 DEF Slots
  <2>2. Max(ValidSlots(f)) \in ValidSlots(f) /\ w - 1 <= Max(ValidSlots(f))
    BY <2>1, MaxOfBounded
  <2>3. Max(ValidSlots(f)) = w - 1
    BY <1>2, <2>1, <2>2 DEF Slots
  <2> QED BY <1>1, <2>1, <2>3 DEF ResumeCursor
<1> QED BY <1>4, <1>5

\* Every step keeps the region filled one by one.
LEMMA LinearStep ==
  ASSUME BlackBoxInv, LinearInv, [Next]_vars
  PROVE  LinearInv'
<1>0. seq \in Nat /\ written \in Nat /\ faults \in Nat /\ Capacity \in Nat
  BY RingGeometry DEF BlackBoxInv
<1>1. CASE RecorderTick
  <2>1. PICK snap \in Snapshots, moved \in BOOLEAN, attempted \in BOOLEAN :
          LET action  == SamplerAction(snap, moved, attempted)
              records == TickRecords(snap, action)
          IN  /\ \E log \in LogsAfter(records, Len(records)) :
                   /\ flash' = log.flash
                   /\ seq' = log.seq
                   /\ faults' = faults + (IF log.failed THEN 1 ELSE 0)
              /\ written' = written + Len(records)
              /\ recorder' = RecorderNext(snap, action)
    BY <1>1 DEF RecorderTick
  <2> DEFINE action  == SamplerAction(snap, moved, attempted)
             records == TickRecords(snap, action)
             next    == RecorderNext(snap, action)
             w       == written + Len(records)
  <2>2. PICK log \in LogsAfter(records, Len(records)) :
          /\ flash' = log.flash
          /\ seq' = log.seq
          /\ faults' = faults + (IF log.failed THEN 1 ELSE 0)
    BY <2>1
  <2>3. written' = w /\ recorder' = next
    BY <2>1
  <2>4. TickOK(records, next, w) /\ RegionsOK(records, next, w)
    BY TickFacts, TickKeeps
  <2>5. seq = written /\ Linear(flash, recorder.header, written) /\ w <= Capacity
          => (~log.failed => log.seq = w /\ Linear(log.flash, next.header, w))
    BY LinearTick
  <2> HIDE DEF action, records, next, w
  <2>6. log.failed \in BOOLEAN /\ w \in Nat /\ written <= w
    BY <1>0, <2>4 DEF RegionsOK, LogOK, TickOK, w
  <2>7. ASSUME faults' = 0, written' <= Capacity
        PROVE  seq' = written' /\ Linear(flash', recorder'.header, written')
    <3>1. faults = 0 /\ ~log.failed /\ written <= Capacity /\ w <= Capacity
      BY <1>0, <2>2, <2>3, <2>6, <2>7
    <3>2. log.seq = w /\ Linear(log.flash, next.header, w)
      BY <2>5, <3>1 DEF LinearInv
    <3> QED BY <2>2, <2>3, <3>2
  <2> QED BY <2>7 DEF LinearInv
<1>2. CASE Reboot
  <2>1. /\ flash' = flash /\ written' = written /\ faults' = faults
        /\ seq' = ResumeCursor(flash) /\ recorder'.header = 0
    BY <1>2 DEF Reboot, Resume, RecorderBoot
  <2> QED BY <1>0, <2>1, LinearBoot DEF LinearInv
<1>3. CASE PowerCut
  BY <1>0, <1>3 DEF PowerCut, LinearInv
<1>4. CASE UNCHANGED vars
  BY <1>4 DEF vars, LinearInv
<1> QED BY <1>1, <1>2, <1>3, <1>4 DEF Next

\* Before the first wrap and the first fault no row of the dump stands under a session but
\* the one its sample was taken in.
LEMMA LinearRows ==
  ASSUME BlackBoxInv, LinearInv, faults = 0, written <= Capacity, NEW slot \in DumpedSamples
  PROVE  DumpedSession(slot) = flash[slot].of
<1> DEFINE of == flash[slot].of
<1>1. Linear(flash, recorder.header, written) /\ slot \in Slots /\ flash[slot].type = "sample"
  BY DEF LinearInv, DumpedSamples
<1>2. /\ written \in Nat /\ Capacity \in Nat /\ slot \in 0..(Capacity - 1)
      /\ \A h \in Slots : h \in Nat
  BY <1>1, RingGeometry DEF BlackBoxInv, Slots
<1>3. LastHeader(flash, slot, of)
  BY <1>1 DEF Linear
<1>4. slot < written
  <2>1. Erased.type # "sample"
    BY DEF Erased, Record
  <2> QED BY <1>1, <2>1 DEF Linear
<1> HIDE DEF of
<1>5. of - 1 \in Slots /\ of - 1 \in HeadersBefore(slot) /\ of \in Nat
  BY <1>2, <1>3 DEF LastHeader, HeadersBefore, HeaderSlots, Slots
<1>6. /\ HeadersBefore(slot) \in SUBSET Nat
      /\ \A h \in HeadersBefore(slot) : h < of /\ h <= slot
  BY <1>2, <1>3 DEF LastHeader, HeadersBefore, HeaderSlots
<1>7. Max(HeadersBefore(slot)) \in HeadersBefore(slot) /\ of - 1 <= Max(HeadersBefore(slot))
  <2>1. slot \in Nat /\ HeadersBefore(slot) # {}
    BY <1>2, <1>5
  <2> QED BY <1>5, <1>6, <2>1, MaxOfBounded
<1>8. Max(HeadersBefore(slot)) = of - 1
  BY <1>5, <1>6, <1>7
<1>9. flash[of - 1].n = of
  <2>1. of - 1 < written
    BY <1>2, <1>3, <1>4 DEF LastHeader
  <2>2. flash[of - 1].n = (of - 1) + 1
    BY <1>1, <1>5, <2>1 DEF Linear
  <2> QED BY <1>5, <2>2
<1> QED BY <1>8, <1>9 DEF DumpedSession, of

-----------------------------------------------------------------------------
(* The ring before the first wrap, with faults.                            *)

SampleSlots(f) == {slot \in Slots : f[slot].type = "sample"}

\* A region whose records get newer from slot to slot, none ahead of the cursor, with no
\* header of a time between that of a sample and the header it was taken under; header is
\* the last one tried since the boot, 0 if none was.
Sorted(f, s, header, w) ==
  /\ f \in [Slots -> Records]
  /\ \A a \in ValidSlots(f) : a <= s /\ a < f[a].n /\ f[a].n <= w
  /\ \A a, b \in ValidSlots(f) : a < b => f[a].n < f[b].n
  /\ header > 0 => \A h \in HeaderSlots(f) : f[h].n <= header
  /\ \A t \in SampleSlots(f) :
       /\ f[t].of < f[t].n
       /\ \A h \in HeaderSlots(f) : f[h].n <= f[t].of \/ f[t].n < f[h].n

\* Before the first wrap a faulty region stays sorted.
SortedInv ==
  written <= Capacity => seq <= written /\ Sorted(flash, seq, recorder.header, written)

\* An append before the first wrap, done, failed or cut, leaves the region sorted, wherever
\* the cursor stands after it.
LEMMA SortedAppend ==
  ASSUME NEW f, NEW s \in Nat, NEW w \in Nat, NEW header \in 0..w, s <= w, w < Capacity,
         Sorted(f, s, header, w), NEW record \in Records, record.n = w + 1,
         record.type = "sample" => record.of = header /\ header > 0,
         NEW last, last = IF record.type = "header" THEN w + 1 ELSE header,
         NEW g, Touched(f, g, s, record), NEW next \in {s, s + 1}
  PROVE  Sorted(g, next, last, w + 1)
<1>1. RingSlot(s) = s /\ \A slot \in Slots : slot \in Nat
  <2>1. Capacity \in Nat /\ s < Capacity
    BY RingGeometry
  <2> QED BY <2>1 DEF RingSlot, Slots
<1>2. Erased.type = "erased" /\ Corrupt.type = "corrupt"
  BY DEF Erased, Corrupt, Record
<1>3. /\ g \in [Slots -> Records]
      /\ \A slot \in Slots :
           g[slot] \in {f[slot], Erased, Corrupt} \/ (slot = s /\ g[slot] = record)
  BY <1>1 DEF Touched
<1>4. /\ f \in [Slots -> Records]
      /\ \A a \in ValidSlots(f) : a <= s /\ a < f[a].n /\ f[a].n <= w
      /\ \A a, b \in ValidSlots(f) : a < b => f[a].n < f[b].n
      /\ header > 0 => \A h \in HeaderSlots(f) : f[h].n <= header
      /\ \A t \in SampleSlots(f) :
           /\ f[t].of < f[t].n
           /\ \A h \in HeaderSlots(f) : f[h].n <= f[t].of \/ f[t].n < f[h].n
  BY DEF Sorted
<1>5. /\ \A slot \in Slots : f[slot].n \in Nat /\ f[slot].of \in Nat
      /\ \A slot \in Slots : g[slot].n \in Nat /\ g[slot].of \in Nat
      /\ SampleSlots(f) \subseteq ValidSlots(f) /\ HeaderSlots(f) \subseteq ValidSlots(f)
      /\ ValidSlots(f) \subseteq Slots
  BY <1>3, <1>4 DEF Records, SampleSlots, HeaderSlots, ValidSlots, ValidTypes
<1>6. \A slot \in ValidSlots(g) :
        \/ slot \in ValidSlots(f) /\ g[slot] = f[slot]
        \/ slot = s /\ g[slot] = record
  BY <1>2, <1>3 DEF ValidSlots, ValidTypes
<1>7. \A slot \in SampleSlots(g) :
        \/ slot \in SampleSlots(f) /\ g[slot] = f[slot]
        \/ slot = s /\ g[slot] = record /\ record.type = "sample"
  BY <1>2, <1>3 DEF SampleSlots
<1>8. \A slot \in HeaderSlots(g) :
        \/ slot \in HeaderSlots(f) /\ g[slot] = f[slot]
        \/ slot = s /\ g[slot] = record /\ record.type = "header"
  BY <1>2, <1>3 DEF HeaderSlots
<1>9. ASSUME NEW a \in ValidSlots(g)
      PROVE  a <= next /\ a < g[a].n /\ g[a].n <= w + 1
  BY <1>1, <1>4, <1>5, <1>6, <1>9
<1>10. ASSUME NEW a \in ValidSlots(g), NEW b \in ValidSlots(g), a < b
       PROVE  g[a].n < g[b].n
  <2>1. CASE a \in ValidSlots(f) /\ g[a] = f[a] /\ b \in ValidSlots(f) /\ g[b] = f[b]
    BY <1>4, <1>10, <2>1
  <2>2. CASE a \in ValidSlots(f) /\ g[a] = f[a] /\ b = s /\ g[b] = record
    BY <1>4, <1>5, <2>2
  <2>3. CASE a = s /\ b \in ValidSlots(f)
    BY <1>1, <1>4, <1>5, <1>10, <2>3
  <2>4. CASE a = s /\ b = s
    BY <1>10, <2>4
  <2> QED BY <1>6, <2>1, <2>2, <2>3, <2>4
<1>11. ASSUME last > 0, NEW h \in HeaderSlots(g)
       PROVE  g[h].n <= last
  BY <1>4, <1>5, <1>8, <1>11
<1>12. ASSUME NEW t \in SampleSlots(g)
       PROVE  g[t].of < g[t].n
  BY <1>4, <1>7, <1>12
<1>13. ASSUME NEW t \in SampleSlots(g), NEW h \in HeaderSlots(g)
       PROVE  g[h].n <= g[t].of \/ g[t].n < g[h].n
  <2>1. CASE t \in SampleSlots(f) /\ g[t] = f[t]
    BY <1>4, <1>5, <1>8, <2>1
  <2>2. CASE t = s /\ g[t] = record /\ record.type = "sample"
    BY <1>4, <1>8, <2>2
  <2> QED BY <1>7, <2>1, <2>2
<1> QED BY <1>3, <1>9, <1>10, <1>11, <1>12, <1>13 DEF Sorted

\* A log on its way through a tick, with w appends tried.
LogSorted(log, header, w) ==
  /\ log \in [flash : [Slots -> Records], seq : Nat, failed : BOOLEAN]
  /\ log.seq <= w /\ Sorted(log.flash, log.seq, header, w)

\* What a cut in a tick with these records may leave: a region sorted at any cursor behind
\* its records.
CutSorted(f, w) == \E s \in Nat, header \in 0..w : s <= w /\ Sorted(f, s, header, w)

\* The outcomes of one append.
LEMMA SortedOutcomes ==
  ASSUME NEW log, NEW w \in Nat, NEW header \in 0..w, LogSorted(log, header, w), w < Capacity,
         NEW record \in Records, record.n = w + 1,
         record.type = "sample" => record.of = header /\ header > 0,
         NEW last, last = IF record.type = "header" THEN w + 1 ELSE header
  PROVE  /\ \A next \in AppendOutcomes(log, record) : LogSorted(next, last, w + 1)
         /\ \A f \in Interrupted(log.flash, log.seq, record) : CutSorted(f, w + 1)
<1>1. /\ log \in [flash : [Slots -> Records], seq : Nat, failed : BOOLEAN]
      /\ log.seq \in Nat /\ log.seq <= w /\ Sorted(log.flash, log.seq, header, w)
      /\ log.flash \in [Slots -> Records]
  BY DEF LogSorted
<1>2. ASSUME NEW g, Touched(log.flash, g, log.seq, record), NEW next \in {log.seq, log.seq + 1}
      PROVE  Sorted(g, next, last, w + 1)
  BY <1>1, <1>2, SortedAppend
<1>3. ASSUME NEW next \in AppendOutcomes(log, record)
      PROVE  LogSorted(next, last, w + 1)
  <2>1. /\ next \in [flash : [Slots -> Records], seq : Nat, failed : BOOLEAN]
        /\ Touched(log.flash, next.flash, log.seq, record)
        /\ next.seq \in {log.seq, log.seq + 1}
    BY <1>1, OutcomesTouch
  <2>2. Sorted(next.flash, next.seq, last, w + 1)
    BY <1>2, <2>1
  <2> QED BY <1>1, <2>1, <2>2 DEF LogSorted
<1>4. ASSUME NEW f \in Interrupted(log.flash, log.seq, record)
      PROVE  CutSorted(f, w + 1)
  <2>1. Touched(log.flash, f, log.seq, record)
    BY <1>1, AppendTouches
  <2>2. Sorted(f, log.seq, last, w + 1)
    BY <1>2, <2>1
  <2>3. last \in 0..(w + 1) /\ log.seq <= w + 1
    BY <1>1
  <2> QED BY <1>1, <2>2, <2>3 DEF CutSorted
<1> QED BY <1>3, <1>4

\* Appends that were tried but left nothing keep a region sorted.
LEMMA SortedLater ==
  ASSUME NEW w \in Nat, NEW v \in Nat, w <= v, NEW f, CutSorted(f, w)
  PROVE  CutSorted(f, v)
<1>1. PICK s \in Nat, header \in 0..w : s <= w /\ Sorted(f, s, header, w)
  BY DEF CutSorted
<1>2. header \in 0..v /\ s <= v
  BY <1>1
<1>3. Sorted(f, s, header, v)
  BY <1>1 DEF Sorted, ValidSlots, Records
<1> QED BY <1>2, <1>3 DEF CutSorted

\* The logs and the cuts of a tick before the first wrap.
LEMMA SortedTick ==
  ASSUME BlackBoxInv, SortedInv,
         NEW snap, NEW moved \in BOOLEAN, NEW attempted \in BOOLEAN
  PROVE  LET action  == SamplerAction(snap, moved, attempted)
             records == TickRecords(snap, action)
             next    == RecorderNext(snap, action)
             w       == written + Len(records)
         IN  w <= Capacity =>
               /\ \A log \in LogsAfter(records, Len(records)) : LogSorted(log, next.header, w)
               /\ \A i \in DOMAIN records : \A log \in LogsAfter(records, i - 1) :
                    \A f \in Interrupted(log.flash, log.seq, records[i]) : CutSorted(f, w)
<1> DEFINE action  == SamplerAction(snap, moved, attempted)
           records == TickRecords(snap, action)
           next    == RecorderNext(snap, action)
           w       == written + Len(records)
           header  == recorder.header
<1> SUFFICES ASSUME w <= Capacity
             PROVE  /\ \A log \in LogsAfter(records, Len(records)) : LogSorted(log, next.header, w)
                    /\ \A i \in DOMAIN records : \A log \in LogsAfter(records, i - 1) :
                         \A f \in Interrupted(log.flash, log.seq, records[i]) : CutSorted(f, w)
  OBVIOUS
<1>1. /\ written \in Nat /\ header \in 0..written /\ Capacity \in Nat
      /\ ~IsOff(recorder.substate) \/ recorder.tail > 0 => header > 0
  BY RingGeometry DEF BlackBoxInv, RecorderOK
<1>2. next.header = IF action = "START_SESSION" THEN written + 1 ELSE header
  BY DEF RecorderNext
<1>3. TickOK(records, next, w) /\ Shaped(snap, action, records) /\ Judged(snap, action)
  BY TickFacts, TickShape, ActionFacts
<1> w = written + Len(records)
  OBVIOUS
<1> HIDE DEF action, records, next, w
<1>4. /\ Len(records) \in 0..2
      /\ \A j \in 1..Len(records) : records[j] \in Records /\ records[j].n = written + j
  BY <1>3 DEF TickOK
<1>5. written <= Capacity /\ LogSorted(Log, header, written)
  <2>1. written <= Capacity
    BY <1>1, <1>4
  <2>2. flash \in [Slots -> Records] /\ seq \in Nat
    BY DEF BlackBoxInv, Distinct
  <2> QED BY <2>1, <2>2 DEF LogSorted, Log, SortedInv
<1> HIDE DEF header
<1>6. CASE action = "IDLE"
  <2>1. records = << >> /\ Len(records) = 0
    BY <1>3, <1>6 DEF Shaped
  <2> QED BY <1>1, <1>2, <1>5, <1>6, <2>1 DEF LogsAfter
<1>7. CASE action = "START_SESSION"
  <2>1. Len(records) = 2 /\ w = written + 2 /\ DOMAIN records = {1, 2}
    <3>1. Len(records) = 2
      BY <1>3, <1>7 DEF Shaped
    <3>2. \E a, b : records = <<a, b>>
      BY <1>3, <1>7 DEF Shaped
    <3>3. DOMAIN records = 1..2
      BY <3>2
    <3>4. 1..2 = {1, 2}
      OBVIOUS
    <3> QED BY <3>1, <3>3, <3>4
  <2>2. /\ records[1].type = "header" /\ records[2].type = "sample"
        /\ records[2].of = written + 1
    BY <1>3, <1>7 DEF Shaped, Record
  <2> DEFINE v == written + 1
  <2>3. written < Capacity /\ v < Capacity /\ v \in Nat /\ v + 1 = w /\ v \in 0..v /\ v > 0
    BY <1>1, <2>1
  <2>4. /\ records[1] \in Records /\ records[1].n = v
        /\ records[2] \in Records /\ records[2].n = v + 1
    <3>1. 1 \in 1..Len(records) /\ 2 \in 1..Len(records) /\ v + 1 = written + 2
      BY <1>1, <2>1
    <3> QED BY <1>4, <3>1
  <2> HIDE DEF v
  <2>5. /\ \A log \in AppendOutcomes(Log, records[1]) : LogSorted(log, v, v)
        /\ \A f \in Interrupted(Log.flash, Log.seq, records[1]) : CutSorted(f, v)
    BY <1>1, <1>5, <2>2, <2>3, <2>4, SortedOutcomes DEF v
  <2>6. ASSUME NEW log \in AppendOutcomes(Log, records[1])
        PROVE  /\ \A log2 \in AppendOutcomes(log, records[2]) : LogSorted(log2, v, v + 1)
               /\ \A f \in Interrupted(log.flash, log.seq, records[2]) : CutSorted(f, v + 1)
    <3>1. LogSorted(log, v, v) /\ records[2].of = v
      BY <2>2, <2>5, <2>6 DEF v
    <3> QED BY <2>2, <2>3, <2>4, <3>1, SortedOutcomes
  <2>7. \A f \in Interrupted(Log.flash, Log.seq, records[1]) : CutSorted(f, w)
    <3>1. v <= w /\ w \in Nat
      BY <2>3
    <3> QED BY <2>3, <2>5, <3>1, SortedLater
  <2>8. LogsAfter(records, 0) = {Log} /\ LogsAfter(records, 1) = AppendOutcomes(Log, records[1])
        /\ LogsAfter(records, 2)
             = UNION {AppendOutcomes(log, records[2]) : log \in AppendOutcomes(Log, records[1])}
    BY DEF LogsAfter
  <2>9. next.header = v
    BY <1>2, <1>7 DEF v
  <2>10. ASSUME NEW i \in DOMAIN records, NEW log \in LogsAfter(records, i - 1),
               NEW f \in Interrupted(log.flash, log.seq, records[i])
        PROVE  CutSorted(f, w)
    <3>1. CASE i = 1
      BY <2>7, <2>8, <2>10, <3>1
    <3>2. CASE i = 2
      BY <2>3, <2>6, <2>8, <2>10, <3>2
    <3> QED BY <2>1, <3>1, <3>2
  <2>11. ASSUME NEW log \in LogsAfter(records, Len(records))
         PROVE  LogSorted(log, next.header, w)
    BY <2>1, <2>3, <2>6, <2>8, <2>9, <2>11
  <2> QED BY <2>10, <2>11
<1>8. CASE action \in {"SAMPLE", "SAMPLE_TAIL", "LOG_ATTEMPT"}
  <2>1. Len(records) = 1 /\ w = written + 1 /\ DOMAIN records = {1}
    <3>1. Len(records) = 1 /\ DOMAIN records = 1..Len(records)
      BY <1>3, <1>8 DEF Shaped
    <3>2. 1..1 = {1}
      OBVIOUS
    <3> QED BY <3>1, <3>2
  <2>2. /\ records[1].type # "header"
        /\ records[1].type = "sample" => /\ action \in {"SAMPLE", "SAMPLE_TAIL"}
                                         /\ records[1].of = header
    BY <1>3, <1>8 DEF Shaped, Record, header
  <2>3. action \in {"SAMPLE", "SAMPLE_TAIL"} => header > 0
    BY <1>1, <1>3 DEF Judged
  <2>4. records[1] \in Records /\ records[1].n = written + 1 /\ written < Capacity
    BY <1>1, <1>4, <2>1
  <2>5. /\ \A log \in AppendOutcomes(Log, records[1]) : LogSorted(log, header, written + 1)
        /\ \A f \in Interrupted(Log.flash, Log.seq, records[1]) : CutSorted(f, written + 1)
    BY <1>1, <1>5, <2>2, <2>3, <2>4, SortedOutcomes
  <2>6. LogsAfter(records, 0) = {Log} /\ LogsAfter(records, 1) = AppendOutcomes(Log, records[1])
    BY DEF LogsAfter
  <2>7. next.header = header
    BY <1>2, <1>8
  <2>8. ASSUME NEW i \in DOMAIN records, NEW log \in LogsAfter(records, i - 1),
               NEW f \in Interrupted(log.flash, log.seq, records[i])
        PROVE  CutSorted(f, w)
    <3>1. i = 1 /\ log = Log
      BY <2>1, <2>6, <2>8
    <3> QED BY <2>1, <2>5, <2>8, <3>1
  <2> QED BY <2>1, <2>5, <2>6, <2>7, <2>8
<1> QED
  <2>1. action \in {"IDLE", "START_SESSION", "SAMPLE", "SAMPLE_TAIL", "LOG_ATTEMPT"}
    BY <1>3 DEF Shaped
  <2> QED BY <2>1, <1>6, <1>7, <1>8

\* A reboot resumes behind the highest record, which leaves the region sorted.
LEMMA SortedBoot ==
  ASSUME NEW f, NEW w \in Nat, CutSorted(f, w)
  PROVE  ResumeCursor(f) <= w /\ Sorted(f, ResumeCursor(f), 0, w)
<1>1. PICK s \in Nat, header \in 0..w : Sorted(f, s, header, w)
  BY DEF CutSorted
<1>2. /\ f \in [Slots -> Records] /\ Capacity \in Nat
      /\ \A a \in ValidSlots(f) : a \in 0..(Capacity - 1) /\ a < f[a].n /\ f[a].n <= w /\ f[a].n \in Nat
  BY <1>1, RingGeometry DEF Sorted, ValidSlots, Slots, Records
<1>3. CASE ValidSlots(f) = {}
  BY <1>1, <1>3 DEF Sorted, ResumeCursor
<1>4. CASE ValidSlots(f) # {}
  <2> DEFINE m == Max(ValidSlots(f))
  <2>1. m \in ValidSlots(f) /\ \A a \in ValidSlots(f) : a <= m
    <3>1. ValidSlots(f) \in SUBSET Nat /\ \A a \in ValidSlots(f) : a <= Capacity
      BY <1>2
    <3> QED BY <1>2, <1>4, <3>1, MaxOfBounded
  <2>2. ResumeCursor(f) = m + 1
    BY <1>4 DEF ResumeCursor
  <2> HIDE DEF m
  <2>3. m + 1 <= w /\ \A a \in ValidSlots(f) : a <= m + 1
    BY <1>2, <2>1
  <2> QED BY <1>1, <2>2, <2>3 DEF Sorted
<1> QED BY <1>3, <1>4

\* Every step keeps the region sorted until the first wrap.
LEMMA SortedStep ==
  ASSUME BlackBoxInv, SortedInv, [Next]_vars
  PROVE  SortedInv'
<1>0. /\ seq \in Nat /\ written \in Nat /\ Capacity \in Nat
      /\ recorder.header \in 0..written
  BY RingGeometry DEF BlackBoxInv, RecorderOK
<1>1. CASE RecorderTick
  <2>1. PICK snap \in Snapshots, moved \in BOOLEAN, attempted \in BOOLEAN :
          LET action  == SamplerAction(snap, moved, attempted)
              records == TickRecords(snap, action)
          IN  /\ \E log \in LogsAfter(records, Len(records)) : flash' = log.flash /\ seq' = log.seq
              /\ written' = written + Len(records)
              /\ recorder' = RecorderNext(snap, action)
    BY <1>1 DEF RecorderTick
  <2> DEFINE action  == SamplerAction(snap, moved, attempted)
             records == TickRecords(snap, action)
             next    == RecorderNext(snap, action)
             w       == written + Len(records)
  <2>2. PICK log \in LogsAfter(records, Len(records)) : flash' = log.flash /\ seq' = log.seq
    BY <2>1
  <2>3. written' = w /\ recorder' = next
    BY <2>1
  <2>4. w <= Capacity => LogSorted(log, next.header, w)
    BY SortedTick
  <2> HIDE DEF action, records, next, w
  <2> QED BY <2>2, <2>3, <2>4 DEF SortedInv, LogSorted
<1>2. CASE Reboot
  <2>1. /\ flash' = flash /\ written' = written
        /\ seq' = ResumeCursor(flash) /\ recorder'.header = 0
    BY <1>2 DEF Reboot, Resume, RecorderBoot
  <2>2. written <= Capacity => CutSorted(flash, written)
    BY <1>0 DEF SortedInv, CutSorted
  <2> QED BY <1>0, <2>1, <2>2, SortedBoot DEF SortedInv
<1>3. CASE PowerCut
  <2>1. PICK snap \in Snapshots, moved \in BOOLEAN, attempted \in BOOLEAN :
          LET records == TickRecords(snap, SamplerAction(snap, moved, attempted))
          IN  /\ \E i \in DOMAIN records : \E log \in LogsAfter(records, i - 1) :
                   \E f \in Interrupted(log.flash, log.seq, records[i]) : Resume(f)
              /\ written' = written + Len(records)
    BY <1>3 DEF PowerCut
  <2> DEFINE records == TickRecords(snap, SamplerAction(snap, moved, attempted))
             w       == written + Len(records)
  <2>2. PICK i \in DOMAIN records : \E log \in LogsAfter(records, i - 1) :
          \E f \in Interrupted(log.flash, log.seq, records[i]) : Resume(f)
    BY <2>1
  <2>3. PICK log \in LogsAfter(records, i - 1) :
          \E f \in Interrupted(log.flash, log.seq, records[i]) : Resume(f)
    BY <2>2
  <2>4. PICK f \in Interrupted(log.flash, log.seq, records[i]) : Resume(f)
    BY <2>3
  <2>5. w <= Capacity => CutSorted(f, w)
    BY SortedTick
  <2>6. written' = w
    BY <2>1
  <2>7. w \in Nat
    BY TickFacts DEF TickOK
  <2> HIDE DEF records, w
  <2>8. flash' = f /\ seq' = ResumeCursor(f) /\ recorder'.header = 0
    BY <2>4 DEF Resume, RecorderBoot
  <2> QED BY <2>5, <2>6, <2>7, <2>8, SortedBoot DEF SortedInv
<1>4. CASE UNCHANGED vars
  BY <1>4 DEF vars, SortedInv
<1> QED BY <1>1, <1>2, <1>3, <1>4 DEF Next

\* In a sorted region a sample is dumped under the header it was taken under, if that one is
\* on flash: it lies before the sample, and no other header in between.
LEMMA SortedRows ==
  ASSUME BlackBoxInv, SortedInv, written <= Capacity, NEW slot \in DumpedSamples,
         NEW h \in HeaderSlots(flash), flash[h].n = flash[slot].of
  PROVE  DumpedSession(slot) = flash[slot].of
<1>1. /\ slot \in Slots /\ h \in Slots /\ slot \in SampleSlots(flash)
      /\ slot \in ValidSlots(flash) /\ HeaderSlots(flash) \subseteq ValidSlots(flash)
      /\ slot # h /\ \A a \in Slots : a \in Nat /\ flash[a].n \in Nat /\ flash[a].of \in Nat
      /\ \A a \in HeaderSlots(flash) : a \in Slots
  BY DEF DumpedSamples, SampleSlots, HeaderSlots, ValidSlots, ValidTypes, Slots,
         SortedInv, Sorted, Records
<1>2. /\ \A a, b \in ValidSlots(flash) : a < b => flash[a].n < flash[b].n
      /\ flash[slot].of < flash[slot].n
      /\ \A g \in HeaderSlots(flash) : flash[g].n <= flash[slot].of \/ flash[slot].n < flash[g].n
  BY <1>1 DEF SortedInv, Sorted
<1>3. h < slot
  BY <1>1, <1>2
<1>4. \A g \in HeaderSlots(flash) : g < slot => g <= h
  <2>1. SUFFICES ASSUME NEW g \in HeaderSlots(flash), g < slot, h < g PROVE FALSE
    BY <1>1
  <2>2. flash[h].n < flash[g].n /\ flash[g].n < flash[slot].n
    BY <1>1, <1>2, <2>1
  <2> QED BY <1>1, <1>2, <2>1, <2>2
<1>5. /\ HeadersBefore(slot) \in SUBSET Nat /\ h \in HeadersBefore(slot)
      /\ \A g \in HeadersBefore(slot) : g <= h
  BY <1>1, <1>3, <1>4 DEF HeadersBefore
<1>6. Max(HeadersBefore(slot)) \in HeadersBefore(slot) /\ h <= Max(HeadersBefore(slot))
  BY <1>1, <1>5, MaxOfBounded
<1>7. Max(HeadersBefore(slot)) = h
  BY <1>1, <1>5, <1>6
<1> QED BY <1>7 DEF DumpedSession

-----------------------------------------------------------------------------
(* The dump of a ring that has not wrapped.                                *)

\* Before the first wrap a row of the dump carries the session its sample was taken in,
\* whatever reboots lie between, unless a fault took that session's header (usb_console.c,
\* blackbox_ring.c).
THEOREM RowsCarryTheirSession == Spec => []DumpedRowsCarryTheirSession
<1>1. Init => LinearInv
  <2>1. ASSUME Init PROVE Linear(flash, 0, 0) /\ seq = 0 /\ written = 0 /\ recorder.header = 0
    <3>1. /\ flash = [slot \in Slots |-> Erased] /\ Erased \in Records
          /\ Erased.type = "erased" /\ seq = 0 /\ written = 0 /\ recorder.header = 0
      BY <2>1 DEF Init, Erased, Record, Records, RecorderBoot
    <3>2. \A slot \in Slots : slot \in Nat
      BY DEF Slots
    <3> QED BY <3>1, <3>2 DEF Linear
  <2> QED BY <2>1 DEF LinearInv
<1>2. Init => SortedInv
  <2>1. ASSUME Init PROVE Sorted(flash, 0, 0, 0) /\ seq = 0 /\ written = 0 /\ recorder.header = 0
    <3>1. /\ flash = [slot \in Slots |-> Erased] /\ Erased \in Records
          /\ Erased.type = "erased" /\ seq = 0 /\ written = 0 /\ recorder.header = 0
      BY <2>1 DEF Init, Erased, Record, Records, RecorderBoot
    <3>2. ValidSlots(flash) = {} /\ HeaderSlots(flash) = {} /\ SampleSlots(flash) = {}
      BY <3>1 DEF ValidSlots, HeaderSlots, SampleSlots, ValidTypes
    <3> QED BY <3>1, <3>2 DEF Sorted
  <2> QED BY <2>1 DEF SortedInv
<1>3. BlackBoxInv /\ LinearInv /\ SortedInv => DumpedRowsCarryTheirSession
  <2> SUFFICES ASSUME BlackBoxInv, LinearInv, SortedInv, written <= Capacity,
                      NEW slot \in DumpedSamples, DumpedSession(slot) # flash[slot].of
               PROVE  faults > 0 /\ \A h \in HeaderSlots(flash) : flash[h].n # flash[slot].of
    BY DEF DumpedRowsCarryTheirSession
  <2>1. faults # 0 /\ faults \in Nat
    BY LinearRows DEF BlackBoxInv
  <2> QED BY <2>1, SortedRows
<1>4. BlackBoxInv /\ LinearInv /\ SortedInv /\ [Next]_vars => LinearInv' /\ SortedInv'
  BY LinearStep, SortedStep
<1> QED BY <1>1, <1>2, <1>3, <1>4, BlackBoxInvariant, PTL DEF Spec
=============================================================================
