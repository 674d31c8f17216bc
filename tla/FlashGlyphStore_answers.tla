----------------------- MODULE FlashGlyphStore_answers -----------------------
(***************************************************************************)
(* What find() answers: a store opened again over the flash finds what the *)
(* store before it found, and an answer, once given, stays until a rebuild *)
(* or a wipe, or until its segment is retired, and over that if the        *)
(* reclaim chose to keep the glyph.                                        *)
(***************************************************************************)
EXTENDS FlashGlyphStore_proofs

----------------------------------------------------------------------------
(* Opening the store again finds the ring, the journal and the counts of slots *)
(* that the session has.                                                       *)

LEMMA FoundAgain ==
  ASSUME SInv, RingMirrored(flash, ram), JournalMirrored(flash, ram), CountsMirrored(flash, ram)
  PROVE  SameMirror(ram, Reopened)
<1> DEFINE t == ram.tail  n == ram.live
<1>1. RingOf(flash.seg, t, n) /\ t \in Segments /\ n \in 0 .. SegmentCount /\ n \in Nat /\ ram.head \in Segments
  BY RingLive DEF RingMirrored
<1>2. RingMirrored(flash, Reopened) /\ Reopened.live = n /\ (n > 0 => Reopened.tail = t)
  BY <1>1, SInvParts, ReopenedMirrors
<1>3. JournalMirrored(flash, Reopened) /\ CountsMirrored(flash, Reopened)
  BY ReopenedFields
<1>4. /\ Reopened.entries = ram.entries /\ Reopened.floor = ram.floor /\ Reopened.done = ram.done
      /\ Reopened.usedSlots = ram.usedSlots /\ Reopened.marks = ram.marks
  BY <1>3 DEF JournalMirrored, CountsMirrored
<1>5. CASE n = 0
  <2>1. /\ Reopened.head = ram.head /\ Reopened.tail = ram.tail /\ Reopened.used = ram.used /\ Reopened.next = ram.next
        /\ Reopened.live = ram.live
    BY <1>2, <1>5 DEF RingMirrored
  <2>2. Reopened.segEpoch = ram.segEpoch
    BY <1>2, <2>1 DEF RingMirrored
  <2> QED
    BY <1>4, <2>1, <2>2 DEF SameMirror
<1>6. CASE n # 0
  <2>1. n > 0
    BY <1>1, <1>6
  <2>2. Reopened.tail = t /\ Reopened.live = n
    BY <1>2, <2>1
  <2>3. Reopened.segEpoch = ram.segEpoch
    BY <1>2, <2>2 DEF RingMirrored
  <2>4. Reopened.head \in Segments /\ Reopened.head = ram.head
    <3>1. Dist(t, Reopened.head) = n - 1 /\ Dist(t, ram.head) = n - 1
      BY <1>2, <2>1, <2>2 DEF RingMirrored
    <3>2. Reopened.head \in Segments
      BY SInvParts, ReopenedSane DEF RamSane, RamSet
    <3> QED
      BY <1>1, <3>1, <3>2, DistFacts
  <2>5. Reopened.next = ram.next /\ Reopened.used = ram.used
    BY <1>2, <2>1, <2>2, <2>4 DEF RingMirrored
  <2> QED
    BY <1>4, <2>2, <2>3, <2>4, <2>5 DEF SameMirror
<1> QED
  BY <1>5, <1>6

----------------------------------------------------------------------------
(* The counter of live slots.  The current slots are those that name a segment *)
(* of the ring by its epoch, each its own record; a lookup reaches every slot of *)
(* a glyph unless a rebuild was cut; and the counter says how many are current.  *)

Current(f)      == {i \in Slots : f.index[i] \in WholeSlots /\ Live(f, f.index[i].value.seg) /\ Exact(f, f.index[i])}
CurrentIn(f, s) == {i \in Current(f) : f.index[i].value.seg = s}
Once(f)         == \A i, j \in Current(f) : f.index[i] = f.index[j] => i = j
ReachedIn(f, k, i) == \E p \in Probes : Probe(k, p) = i /\ \A q \in 0 .. p : f.index[Probe(k, q)] # Erased
AllReach(f)     == \A i \in Slots : f.index[i] \in GlyphSlots => ReachedIn(f, f.index[i].key, i)
DoneOf(j)       == j = <<>> \/ j[Len(j)].done
Fit(f)          == Once(f) /\ (~f.wipe /\ DoneOf(f.journal) => AllReach(f))

\* What is placed has no slot yet, and a copy is not in the tail.
PlacedNew(f, r, o) ==
  o.call \in {"commit", "reclaim"} =>
    /\ \A sl \in Range(o.placed) : \A i \in Slots : f.index[i] # sl
    /\ \A i, j \in 1 .. Len(o.placed) : o.placed[i] = o.placed[j] => i = j
    /\ o.call = "reclaim" => \A sl \in Range(o.placed) : sl.value.seg # r.tail
\* A rebuild inserts nothing but current slots.
InsertsCurrent(f, o) == Inserting(o) => AllReach(f) /\ NoTorn(f) /\ InUse(f.index) \subseteq Current(f)
Counted(f, r, o) ==
  Trusted(r, o) /\ r.done =>
    /\ AllReach(f)
    /\ NoTorn(f) => /\ r.liveSlots = Cardinality(Current(f))
                    /\ o.call = "reclaim" /\ o.gone = {} => o.named = Cardinality(CurrentIn(f, r.tail))
Tallied(f, r, o) == Fit(f) /\ PlacedNew(f, r, o) /\ InsertsCurrent(f, o) /\ Counted(f, r, o)
LInv == Tallied(flash, ram, op)

LEMMA LInvParts ==
  ASSUME LInv
  PROVE  /\ Fit(flash) /\ Once(flash) /\ PlacedNew(flash, ram, op) /\ InsertsCurrent(flash, op) /\ Counted(flash, ram, op)
         /\ ~flash.wipe /\ DoneOf(flash.journal) => AllReach(flash)
  BY DEF LInv, Tallied, Fit

LEMMA CurrentFinite ==
  ASSUME NEW f
  PROVE  /\ IsFiniteSet(Slots) /\ IsFiniteSet(Current(f)) /\ Cardinality(Current(f)) \in Nat
         /\ \A s : IsFiniteSet(CurrentIn(f, s)) /\ Cardinality(CurrentIn(f, s)) \in Nat
<1>1. IsFiniteSet(Slots)
  <2>1. 0 \in Int /\ SlotCount - 1 \in Int
    BY StoreFacts
  <2> QED
    BY <2>1, FS_Interval DEF Slots
<1>2. Current(f) \subseteq Slots /\ \A s : CurrentIn(f, s) \subseteq Slots
  BY DEF Current, CurrentIn
<1> QED
  BY <1>1, <1>2, FS_Subset, FS_CardinalityType

\* No slot becomes current.
LEMMA OnceLess ==
  ASSUME NEW f, NEW g, Once(f), \A i \in Current(g) : i \in Current(f) /\ g.index[i] = f.index[i]
  PROVE  Once(g)
  BY DEF Once

\* Only the slots count for the probes.
LEMMA ReachSame ==
  ASSUME NEW f, NEW g, g.index = f.index
  PROVE  /\ AllReach(f) => AllReach(g)
         /\ NoTorn(f) <=> NoTorn(g)
<1>1. \A k, i : ReachedIn(f, k, i) <=> ReachedIn(g, k, i)
  BY DEF ReachedIn
<1> QED
  BY <1>1 DEF AllReach, NoTorn

\* A change of the log alone that makes no slot current.
LEMMA FitLess ==
  ASSUME NEW f, NEW g, Fit(f), g.index = f.index, Current(g) \subseteq Current(f), f.wipe => g.wipe,
         DoneOf(g.journal) => DoneOf(f.journal)
  PROVE  Fit(g)
<1>1. Once(g)
  BY OnceLess DEF Fit
<1> QED
  BY <1>1, ReachSame DEF Fit

\* Calls that place nothing and insert nothing.
LEMMA QuietCalls ==
  \A o : o.call \notin {"commit", "reclaim", "rebuild"} =>
           \A f, r : /\ PlacedNew(f, r, o) /\ InsertsCurrent(f, o)
                     /\ (Trusted(r, o) /\ r.done =>
                           AllReach(f) /\ (NoTorn(f) => r.liveSlots = Cardinality(Current(f)))) => Counted(f, r, o)
  BY DEF PlacedNew, InsertsCurrent, Inserting, Counted

LEMMA DoesTally ==
  ASSUME SInv, NEW p, NEW r, NEW c, NEW o, Does(p, r, c, o), Safe(p), \A f \in Torn(p) : Fit(f), Tallied(Written(p), r, o)
  PROVE  LInv'
<1>1. CASE flash' = Written(p) /\ ram' = r /\ count' = c /\ op' = o
  BY <1>1 DEF LInv
<1>2. ASSUME op' = None, NEW f \in Torn(p),
             \/ flash' = f /\ ram' = Closed
             \/ flash' \in {f, [f EXCEPT !.wipe = TRUE]} /\ ram' = Failed
      PROVE  LInv'
  <2>1. ~Trusted(ram', None)
    <3>1. ~Closed.open
      BY DEF Closed
    <3>2. Failed.wipe /\ Failed.stopped
      BY SInvParts, FailedSane
    <3> QED
      BY <1>2, <3>1, <3>2 DEF Trusted
  <2>2. FlashSane(f) /\ Fit(f)
    BY <1>2 DEF Safe, Intact
  <2>3. Fit([f EXCEPT !.wipe = TRUE])
    <3> DEFINE g == [f EXCEPT !.wipe = TRUE]
    <3>1. g.seg = f.seg /\ g.index = f.index /\ g.journal = f.journal /\ g.wipe
      BY <2>2 DEF FlashSane, FlashSet
    <3> HIDE DEF g
    <3>2. Current(g) = Current(f)
      BY <3>1 DEF Current, Live, Exact
    <3>3. Fit(g)
      BY <2>2, <3>1, <3>2, FitLess
    <3> QED
      BY <3>3 DEF g
  <2>4. Fit(flash')
    BY <1>2, <2>2, <2>3
  <2>5. None.call \notin {"commit", "reclaim", "rebuild"}
    BY OpCalls
  <2>6. PlacedNew(flash', ram', None) /\ InsertsCurrent(flash', None) /\ Counted(flash', ram', None)
    BY <2>1, <2>5, QuietCalls
  <2> QED
    BY <1>2, <2>4, <2>6 DEF LInv, Tallied
<1> QED
  BY <1>1, <1>2 DEF Does, Failed

\* A step that leaves the flash alone.
LEMMA QuietTally ==
  ASSUME LInv, flash' = flash, PlacedNew(flash, ram', op'), InsertsCurrent(flash, op'), Counted(flash, ram', op')
  PROVE  LInv'
  BY LInvParts DEF LInv, Tallied

LEMMA NotedTally ==
  ASSUME SInv, LInv, NEW r, NEW o, Notes(r, o), r.done = ram.done, r.liveSlots = ram.liveSlots,
         o.call \notin {"commit", "reclaim", "rebuild"}, Trusted(r, o) => Trusted(ram, op)
  PROVE  LInv'
<1>1. flash' = flash /\ ram' = r /\ op' = o
  BY DEF Notes
<1>2. PlacedNew(flash, r, o) /\ InsertsCurrent(flash, o) /\ Counted(flash, r, o)
  BY LInvParts, QuietCalls DEF Counted
<1> QED
  BY <1>1, <1>2, QuietTally

----------------------------------------------------------------------------
(* The records that slots name are as many as the current slots. *)

\* The record a current slot names.
RecordAt(i) ==
  CHOOSE r \in Records(flash.index[i].value.seg) : r.key = flash.index[i].key /\ r.at = flash.index[i].value.at

LEMMA CurrentIs ==
  ASSUME SInv, NEW i \in Current(flash)
  PROVE  /\ i \in Slots /\ flash.index[i] \in GlyphSlots /\ ~flash.index[i].torn /\ flash.index[i].key \in Glyphs
         /\ flash.index[i].value.seg \in Segments /\ flash.index[i].value.at \in 0 .. Cap
         /\ Live(flash, flash.index[i].value.seg)
         /\ flash.index[i].value.epoch = flash.seg[flash.index[i].value.seg].epoch
  BY SlotKinds DEF Current, WholeSlots, Exact

LEMMA RecordAtIs ==
  ASSUME SInv, JInv, NEW i \in Current(flash)
  PROVE  /\ RecordAt(i) \in Records(flash.index[i].value.seg)
         /\ RecordAt(i).key = flash.index[i].key /\ RecordAt(i).at = flash.index[i].value.at
<1>1. Backed(flash, flash.index[i], faults <= 1)
  BY JInvParts DEF Books, Backs, Current
<1>2. PICK r \in flash.seg[flash.index[i].value.seg].recs : r.key = flash.index[i].key /\ r.at = flash.index[i].value.at
  BY <1>1 DEF Backed
<1>3. r.key # Scrap
  BY <1>2, CurrentIs, StoreAssumption DEF Keys
<1>4. r \in Records(flash.index[i].value.seg)
  BY <1>3 DEF Records
<1> QED
  BY <1>2, <1>4 DEF RecordAt

LEMMA NamesItsRecord ==
  ASSUME SInv, JInv, AllReach(flash), NEW i \in Current(flash)
  PROVE  i \in NamedBy(flash.seg[flash.index[i].value.seg].epoch, flash.index[i].value.seg, RecordAt(i))
<1>1. ReachedIn(flash, flash.index[i].key, i)
  BY CurrentIs DEF AllReach
<1>2. Reaches(flash.index[i].key, i)
  BY <1>1 DEF ReachedIn, Reaches, SlotErased
<1> QED
  BY <1>2, CurrentIs, RecordAtIs DEF NamedBy

\* No two records of a segment start at the same unit.
LEMMA RecordsApart ==
  ASSUME SInv, NEW s \in Segments, NEW q \in Records(s), NEW r \in Records(s), q.at = r.at
  PROVE  q = r
  BY SInvParts, RecordsFew

LEMMA NamedIsCurrent ==
  ASSUME SInv, JInv, NoTorn(flash), NEW s \in Segments, Live(flash, s), NEW r \in Records(s),
         NEW i \in NamedBy(flash.seg[s].epoch, s, r)
  PROVE  i \in CurrentIn(flash, s) /\ i \in Current(flash) /\ RecordAt(i) = r
<1>1. /\ i \in Slots /\ flash.index[i] \in GlyphSlots
      /\ flash.index[i].key = r.key /\ flash.index[i].value.seg = s /\ flash.index[i].value.at = r.at
  BY SInvParts, NamedByAre
<1>2. flash.index[i].value.epoch % EpochMod = flash.seg[s].epoch % EpochMod
  BY DEF NamedBy
<1>3. ~flash.index[i].torn
  BY <1>1 DEF NoTorn
<1>4. InWindow(flash, flash.seg[s].epoch)
  BY JInvParts DEF Books, Within
<1>5. Exact(flash, flash.index[i])
  BY <1>1, <1>2, <1>3, <1>4, TrulyNames
<1>6. i \in Current(flash)
  BY <1>1, <1>3, <1>5 DEF Current, WholeSlots
<1>7. RecordAt(i) = r
  BY <1>1, <1>6, RecordAtIs, RecordsApart
<1> QED
  BY <1>1, <1>6, <1>7 DEF CurrentIn

\* A current slot is told by its segment and its record.
LEMMA OneSlot ==
  ASSUME SInv, JInv, Once(flash), NEW i \in Current(flash), NEW j \in Current(flash),
         flash.index[i].value.seg = flash.index[j].value.seg, RecordAt(i) = RecordAt(j)
  PROVE  i = j
<1> DEFINE x == flash.index[i]  y == flash.index[j]
<1>1. x.key = y.key /\ x.value.at = y.value.at /\ x.value.seg = y.value.seg /\ x.value.epoch = y.value.epoch
  BY RecordAtIs, CurrentIs
<1>2. x \in GlyphSlots /\ y \in GlyphSlots /\ ~x.torn /\ ~y.torn
  BY CurrentIs
<1> HIDE DEF x, y
<1>3. x.value \in PlaceSet /\ y.value \in PlaceSet /\ x.torn \in BOOLEAN /\ y.torn \in BOOLEAN
  BY <1>2 DEF GlyphSlots
<1>4. x.value = y.value
  BY <1>1, <1>3 DEF PlaceSet
<1>5. x = y
  BY <1>1, <1>2, <1>3, <1>4 DEF GlyphSlots
<1> QED
  BY <1>5 DEF x, y, Once

\* A one-to-one map makes two sets as large.
LEMMA SameSize ==
  ASSUME NEW S, NEW T, IsFiniteSet(S), NEW f \in [S -> T], \A i, j \in S : f[i] = f[j] => i = j, \A t \in T : \E i \in S : f[i] = t
  PROVE  Cardinality(T) = Cardinality(S)
<1>1. f \in Bijection(S, T)
  BY DEF Bijection, Injection, Surjection, IsInjective
<1>2. ExistsBijection(S, T)
  BY <1>1 DEF ExistsBijection
<1> QED
  BY <1>2, FS_Bijection

LEMMA NamedInTail ==
  ASSUME SInv, JInv, AllReach(flash), NoTorn(flash), Once(flash), NEW s \in Segments, Live(flash, s)
  PROVE  Cardinality({r \in Records(s) : NamedBy(flash.seg[s].epoch, s, r) # {}}) = Cardinality(CurrentIn(flash, s))
<1> DEFINE C == CurrentIn(flash, s)
           T == {r \in Records(s) : NamedBy(flash.seg[s].epoch, s, r) # {}}
           f == [i \in C |-> RecordAt(i)]
<1>1. \A i \in C : i \in Current(flash) /\ flash.index[i].value.seg = s
  BY DEF CurrentIn
<1>2. \A i \in C : RecordAt(i) \in T
  BY <1>1, RecordAtIs, NamesItsRecord
<1>3. \A t \in T : \E i \in C : RecordAt(i) = t
  BY NamedIsCurrent
<1>4. \A i, j \in C : RecordAt(i) = RecordAt(j) => i = j
  BY <1>1, OneSlot
<1>5. IsFiniteSet(C)
  BY CurrentFinite
<1> HIDE DEF C, T
<1>6. f \in [C -> T] /\ (\A i, j \in C : f[i] = f[j] => i = j) /\ \A t \in T : \E i \in C : f[i] = t
  BY <1>2, <1>3, <1>4
<1> HIDE DEF f
<1>7. Cardinality(T) = Cardinality(C)
  BY <1>5, <1>6, SameSize
<1> QED
  BY <1>7 DEF C, T

LEMMA FoundAreCurrent ==
  ASSUME SInv, JInv, AllReach(flash), NoTorn(flash), Once(flash), HasRing(flash.seg)
  PROVE  Reopened.liveSlots = Cardinality(Current(flash))
<1>1. PICK t \in Segments : \E n \in 0 .. SegmentCount : RingOf(flash.seg, t, n)
  BY DEF HasRing
<1>2. PICK n \in 0 .. SegmentCount : RingOf(flash.seg, t, n)
  BY <1>1
<1>3. LiveFound = n /\ (n > 0 => RingFound = {s \in Segments : Dist(t, s) < n}) /\ n \in Nat
  BY <1>2, SInvParts, RingIsFound, StoreFacts
<1>4. \A s \in Segments : Live(flash, s) <=> Dist(t, s) < n
  BY <1>2 DEF RingOf, Live
<1>5. CASE n = 0
  <2>1. Current(flash) = {}
    <3> SUFFICES ASSUME NEW i \in Current(flash) PROVE FALSE
      OBVIOUS
    <3>1. flash.index[i].value.seg \in Segments /\ Live(flash, flash.index[i].value.seg)
      BY CurrentIs
    <3>2. Dist(t, flash.index[i].value.seg) \in Nat /\ Dist(t, flash.index[i].value.seg) < n
      BY <1>4, <3>1, DistNat
    <3> QED
      BY <1>5, <3>2
  <2> QED
    BY <1>3, <1>5, <2>1, FS_EmptySet, ReopenedFields, NoneFoundFields
<1>6. CASE n # 0
  <2> DEFINE C == Current(flash)
             f == [i \in C |-> <<flash.index[i].value.seg, RecordAt(i)>>]
  <2>1. RingFound = {s \in Segments : Live(flash, s)}
    BY <1>3, <1>4, <1>6
  <2>2. \A i \in C : <<flash.index[i].value.seg, RecordAt(i)>> \in NamedFound
    <3> SUFFICES ASSUME NEW i \in C PROVE <<flash.index[i].value.seg, RecordAt(i)>> \in NamedFound
      OBVIOUS
    <3>1. flash.index[i].value.seg \in RingFound
      BY <2>1, CurrentIs
    <3>2. RecordAt(i) \in Records(flash.index[i].value.seg)
      BY RecordAtIs
    <3>3. NamedBy(flash.seg[flash.index[i].value.seg].epoch, flash.index[i].value.seg, RecordAt(i)) # {}
      BY NamesItsRecord
    <3> QED
      BY <3>1, <3>2, <3>3 DEF NamedFound
  <2>3. \A x \in NamedFound : \E i \in C : <<flash.index[i].value.seg, RecordAt(i)>> = x
    <3> SUFFICES ASSUME NEW x \in NamedFound PROVE \E i \in C : <<flash.index[i].value.seg, RecordAt(i)>> = x
      OBVIOUS
    <3>1. PICK s \in RingFound : \E r \in Records(s) : x = <<s, r>>
      BY DEF NamedFound
    <3>2. PICK r \in Records(s) : x = <<s, r>>
      BY <3>1
    <3>3. PICK i : i \in NamedBy(flash.seg[s].epoch, s, r)
      BY <3>2 DEF NamedFound
    <3>4. i \in CurrentIn(flash, s) /\ i \in Current(flash) /\ RecordAt(i) = r
      BY <2>1, <3>3, NamedIsCurrent
    <3> QED
      BY <3>2, <3>4 DEF CurrentIn
  <2>4. \A i, j \in C : <<flash.index[i].value.seg, RecordAt(i)>> = <<flash.index[j].value.seg, RecordAt(j)>> => i = j
    BY OneSlot
  <2>5. IsFiniteSet(C)
    BY CurrentFinite
  <2> HIDE DEF C
  <2>6. f \in [C -> NamedFound] /\ (\A i, j \in C : f[i] = f[j] => i = j) /\ \A x \in NamedFound : \E i \in C : f[i] = x
    BY <2>2, <2>3, <2>4
  <2> HIDE DEF f
  <2>7. Cardinality(NamedFound) = Cardinality(C)
    BY <2>5, <2>6, SameSize
  <2>8. Reopened.liveSlots = Cardinality(NamedFound)
    BY <1>3, <1>6, ReopenedIs, NoneFoundFields DEF NoneFound, Closed
  <2> QED
    BY <2>7, <2>8 DEF C
<1> QED
  BY <1>5, <1>6

----------------------------------------------------------------------------
(* The steps that leave the flash alone. *)

LEMMA OpenTallies ==
  ASSUME SInv, JInv, LInv, Open
  PROVE  LInv'
<1>1. flash' = flash /\ ram' = Reopened /\ op' = None
  BY DEF Open
<1>2. ASSUME Trusted(Reopened, None), Reopened.done
      PROVE  AllReach(flash) /\ (NoTorn(flash) => Reopened.liveSlots = Cardinality(Current(flash)))
  <2>1. ~flash.wipe
    BY <1>2, ReopenedFields DEF Trusted
  <2>2. DoneOf(flash.journal)
    BY <1>2, ReopenedFields DEF JournalMirrored, DoneOf
  <2>3. AllReach(flash)
    BY <2>1, <2>2, LInvParts
  <2>4. HasRing(flash.seg)
    BY <2>1, SInvParts DEF Intact
  <2> QED
    BY <2>3, <2>4, LInvParts, FoundAreCurrent
<1>3. None.call \notin {"commit", "reclaim", "rebuild"}
  BY OpCalls
<1>4. PlacedNew(flash, Reopened, None) /\ InsertsCurrent(flash, None) /\ Counted(flash, Reopened, None)
  BY <1>2, <1>3, QuietCalls
<1> QED
  BY <1>1, <1>4, QuietTally

LEMMA CommitTallies ==
  ASSUME SInv, LInv, NEW b \in Batches, Commit(b)
  PROVE  LInv'
<1>1. Ready /\ ~ram.stopped
  BY DEF Commit
<1>2. op = None /\ Trusted(ram, op)
  BY <1>1, OpCalls DEF Ready, Trusted
<1> DEFINE full == [ram EXCEPT !.indexFull = TRUE, !.stopped = TRUE]
           asks == [ram EXCEPT !.roomAsked = TRUE, !.stopped = TRUE]
           stop == [ram EXCEPT !.stopped = TRUE]
           o    == [call |-> "commit", todo |-> b, placed |-> <<>>, keys |-> {b[i] : i \in DOMAIN b}]
<1>3. Notes(full, None) \/ Notes(asks, None) \/ Notes(stop, None) \/ Notes(ram, o)
  BY DEF Commit
<1>4. /\ full.done = ram.done /\ full.liveSlots = ram.liveSlots
      /\ asks.done = ram.done /\ asks.liveSlots = ram.liveSlots
      /\ stop.done = ram.done /\ stop.liveSlots = ram.liveSlots
  BY SInvParts DEF RamSet
<1>5. o.call = "commit" /\ o.placed = <<>> /\ Len(o.placed) = 0 /\ Range(o.placed) = {}
  <2>1. <<>> \in Seq(Nat) /\ Len(<<>>) = 0
    OBVIOUS
  <2> QED
    BY <2>1, RangeFacts
<1> HIDE DEF full, asks, stop, o
<1>6. CASE Notes(ram, o)
  <2>1. flash' = flash /\ ram' = ram /\ op' = o
    BY <1>6 DEF Notes
  <2>2. PlacedNew(flash, ram, o) /\ InsertsCurrent(flash, o)
    BY <1>5 DEF PlacedNew, InsertsCurrent, Inserting
  <2>3. Counted(flash, ram, o)
    BY <1>2, <1>5, LInvParts DEF Counted
  <2> QED
    BY <2>1, <2>2, <2>3, QuietTally
<1> QED
  BY <1>2, <1>3, <1>4, <1>6, NotedTally, OpCalls

LEMMA FlagsTally ==
  ASSUME SInv, LInv, \/ MarkFull \/ Wipe \/ RoomMade
                     \/ \E budget \in {"Idle", "Open"} : MakeRoom(budget)
  PROVE  LInv'
<1>1. CASE MarkFull
  <2>1. Notes([ram EXCEPT !.stopped = TRUE, !.roomAsked = TRUE], None) /\ op = None
    BY <1>1 DEF MarkFull, Ready
  <2> DEFINE r == [ram EXCEPT !.stopped = TRUE, !.roomAsked = TRUE]
  <2>2. r.done = ram.done /\ r.liveSlots = ram.liveSlots /\ r.open = ram.open /\ r.wipe = ram.wipe /\ r.stopped
    BY SInvParts DEF RamSet
  <2> HIDE DEF r
  <2>3. Trusted(r, None) => Trusted(ram, op)
    BY <2>1, <2>2 DEF Trusted
  <2> QED
    BY <2>1, <2>2, <2>3, NotedTally, OpCalls DEF r
<1>2. CASE Wipe
  <2> DEFINE r == [ram EXCEPT !.stopped = TRUE]
             o == [call |-> "wipe", todo |-> WipeSteps, then |-> None]
  <2>1. Notes(r, o) /\ o.call = "wipe"
    BY <1>2 DEF Wipe
  <2>2. r.done = ram.done /\ r.liveSlots = ram.liveSlots
    BY SInvParts DEF RamSet
  <2> HIDE DEF r, o
  <2>3. ~Trusted(r, o)
    BY <2>1 DEF Trusted
  <2> QED
    BY <2>1, <2>2, <2>3, NotedTally
<1>3. CASE RoomMade
  <2>1. op.call = "room" /\ Trusted(ram, op)
    BY <1>3, InCall DEF RoomMade
  <2> DEFINE asked == ram.live >= 2 /\ ram.roomAsked
             r == [ram EXCEPT !.roomAsked = asked, !.stopped = asked \/ NeedsRebuild]
  <2>2. Notes(r, None)
    BY <1>3 DEF RoomMade
  <2>3. r.done = ram.done /\ r.liveSlots = ram.liveSlots
    BY SInvParts DEF RamSet
  <2> HIDE DEF r
  <2> QED
    BY <2>1, <2>2, <2>3, NotedTally, OpCalls
<1>4. ASSUME NEW budget \in {"Idle", "Open"}, MakeRoom(budget)
      PROVE  LInv'
  <2> DEFINE o == Room(budget, IF budget = "Idle" THEN 1 ELSE SegmentCount + 1, FALSE)
  <2>1. Notes(ram, o) /\ Ready /\ ~ram.wipe /\ o.call = "room"
    BY <1>4 DEF MakeRoom, Room
  <2> HIDE DEF o
  <2>2. Trusted(ram, op)
    BY <2>1, OpCalls DEF Ready, Trusted
  <2> QED
    BY <2>1, <2>2, NotedTally
<1> QED
  BY <1>1, <1>2, <1>3, <1>4

LEMMA SameTally ==
  ASSUME LInv, flash' = flash, ram' = ram, op' = op
  PROVE  LInv'
  BY DEF LInv

----------------------------------------------------------------------------
(* A change of one segment, or of the state sector. *)

\* A segment changed such that none of its slots becomes current.
LEMMA SegFit ==
  ASSUME SInv, LInv, NEW s \in Segments, NEW x, NEW g, g = [flash EXCEPT !.seg[s] = x],
         x.header = "live" => \/ Live(flash, s) /\ x.epoch = flash.seg[s].epoch
                              \/ \A i \in Slots : flash.index[i] \in WholeSlots /\ flash.index[i].value.seg = s
                                                    => flash.index[i].value.epoch # x.epoch
  PROVE  /\ Fit(g) /\ g.index = flash.index
         /\ (Live(flash, s) => x.header = "live" /\ x.epoch = flash.seg[s].epoch) => Current(g) = Current(flash)
         /\ x.header # "live" => Current(g) = Current(flash) \ CurrentIn(flash, s)
<1>1. /\ g.index = flash.index /\ g.journal = flash.journal /\ g.wipe = flash.wipe
      /\ g.seg = [flash.seg EXCEPT ![s] = x] /\ flash.seg \in [Segments -> SegmentSet]
  BY LogTyped DEF FlashSet
<1>2. g.seg[s] = x /\ \A u \in Segments \ {s} : g.seg[u] = flash.seg[u]
  BY <1>1
<1>0. \A i \in Current(flash) : /\ i \in Slots /\ flash.index[i] \in WholeSlots /\ flash.index[i].value.seg \in Segments
                                /\ Live(flash, flash.index[i].value.seg) /\ Exact(flash, flash.index[i])
  BY CurrentIs DEF Current
<1>3. Current(g) \subseteq Current(flash)
  <2> SUFFICES ASSUME NEW i \in Current(g) PROVE i \in Current(flash)
    OBVIOUS
  <2>1. i \in Slots /\ flash.index[i] \in WholeSlots /\ flash.index[i].value.seg \in Segments
    BY <1>1, SlotKinds DEF Current, WholeSlots
  <2>2. Live(g, flash.index[i].value.seg) /\ flash.index[i].value.epoch = g.seg[flash.index[i].value.seg].epoch
    BY <1>1 DEF Current, Exact
  <2>3. CASE flash.index[i].value.seg # s
    BY <1>2, <2>1, <2>2, <2>3 DEF Current, Live, Exact
  <2>4. CASE flash.index[i].value.seg = s
    BY <1>2, <2>1, <2>2, <2>4 DEF Current, Live, Exact
  <2> QED
    BY <2>3, <2>4
<1>4. Fit(g)
  BY <1>1, <1>3, LInvParts, FitLess
<1>5. ASSUME Live(flash, s) => x.header = "live" /\ x.epoch = flash.seg[s].epoch
      PROVE  Current(flash) \subseteq Current(g)
  <2> SUFFICES ASSUME NEW i \in Current(flash) PROVE i \in Current(g)
    OBVIOUS
  <2>1. CASE flash.index[i].value.seg # s
    <3>1. g.seg[flash.index[i].value.seg] = flash.seg[flash.index[i].value.seg]
      BY <1>0, <1>2, <2>1
    <3> QED
      BY <1>0, <1>1, <3>1 DEF Current, Live, Exact
  <2>2. CASE flash.index[i].value.seg = s
    <3>1. Live(flash, s) /\ flash.index[i].value.epoch = flash.seg[s].epoch
      BY <1>0, <2>2 DEF Exact
    <3> QED
      BY <1>0, <1>1, <1>2, <1>5, <2>2, <3>1 DEF Current, Live, Exact
  <2> QED
    BY <2>1, <2>2
<1>6. ASSUME x.header # "live"
      PROVE  Current(g) = Current(flash) \ CurrentIn(flash, s)
  <2>1. \A i \in Current(g) : i \notin CurrentIn(flash, s)
    BY <1>1, <1>2, <1>6 DEF Current, CurrentIn, Live
  <2>2. \A i \in Current(flash) : i \notin CurrentIn(flash, s) => i \in Current(g)
    <3> SUFFICES ASSUME NEW i \in Current(flash), i \notin CurrentIn(flash, s) PROVE i \in Current(g)
      OBVIOUS
    <3>1. flash.index[i].value.seg # s
      BY DEF CurrentIn
    <3>2. g.seg[flash.index[i].value.seg] = flash.seg[flash.index[i].value.seg]
      BY <1>0, <1>2, <3>1
    <3> QED
      BY <1>0, <1>1, <3>2 DEF Current, Live, Exact
  <2> QED
    BY <1>3, <2>1, <2>2
<1> QED
  BY <1>1, <1>3, <1>4, <1>5, <1>6

\* A call goes on over a log that changed without a slot becoming or ceasing to be current.
LEMMA TalliedOn ==
  ASSUME LInv, NEW g, Fit(g), g.index = flash.index, Current(g) = Current(flash), NEW r, NEW o, o.call # "rebuild",
         o.call \in {"commit", "reclaim"} => o = op, r.tail = ram.tail \/ o.call # "reclaim",
         r.liveSlots = ram.liveSlots, r.done = ram.done, Trusted(r, o) => Trusted(ram, op)
  PROVE  Tallied(g, r, o)
<1>1. (AllReach(flash) => AllReach(g)) /\ (NoTorn(flash) <=> NoTorn(g))
  BY ReachSame
<1>2. \A s : CurrentIn(g, s) = CurrentIn(flash, s)
  BY DEF CurrentIn
<1>3. PlacedNew(g, r, o)
  BY LInvParts DEF PlacedNew
<1>4. InsertsCurrent(g, o)
  BY DEF InsertsCurrent, Inserting
<1>5. Counted(g, r, o)
  BY <1>1, <1>2, LInvParts DEF Counted
<1> QED
  BY <1>3, <1>4, <1>5 DEF Tallied

\* A segment outside the ring is erased.
LEMMA EraseFit ==
  ASSUME SInv, LInv, NEW s \in Segments, ~Live(flash, s)
  PROVE  /\ \A f \in Torn(EraseSeg(s)) : Fit(f)
         /\ LET g == Written(EraseSeg(s)) IN Fit(g) /\ g.index = flash.index /\ Current(g) = Current(flash)
<1>1. \A f \in Torn(EraseSeg(s)) : Fit(f)
  <2> SUFFICES ASSUME NEW f \in Torn(EraseSeg(s)) PROVE Fit(f)
    OBVIOUS
  <2>1. CASE f = flash
    BY <2>1, LInvParts
  <2>2. ASSUME NEW a \in 0 .. Cap, f = [flash EXCEPT !.seg[s] = [BlankSegment EXCEPT !.recs = {r \in flash.seg[s].recs : r.at >= a}]]
        PROVE  Fit(f)
    <3> DEFINE x == [BlankSegment EXCEPT !.recs = {r \in flash.seg[s].recs : r.at >= a}]
    <3>1. x.header = "blank" /\ f = [flash EXCEPT !.seg[s] = x]
      BY <2>2 DEF BlankSegment
    <3> HIDE DEF x
    <3> QED
      BY <3>1, SegFit
  <2> QED
    BY <2>1, <2>2, TornErase
<1>2. Written(EraseSeg(s)) = [flash EXCEPT !.seg[s] = BlankSegment]
  BY WrittenErase
<1> QED
  BY <1>1, <1>2, SegFit, BlankIsSegment

\* The epoch of a segment to be opened is no slot's yet.
LEMMA NewEpoch ==
  ASSUME SInv, JInv, RingMirrored(flash, ram), NEW i \in Slots, flash.index[i] \in WholeSlots
  PROVE  flash.index[i].value.epoch # ram.next
<1>1. flash.index[i] \in GlyphSlots /\ flash.index[i].value.epoch \in Nat
  BY LogTyped
<1>2. PICK s \in Segments : Live(flash, s) /\ flash.index[i].value.epoch <= flash.seg[s].epoch
  BY <1>1, JInvParts DEF Books, Dated
<1>3. flash.seg[s].epoch < ram.next /\ flash.seg[s].epoch \in Nat /\ ram.next \in Nat
  BY <1>2, RingBelow, LogTyped, RingLive
<1> QED
  BY <1>1, <1>2, <1>3

LEMMA HeaderFit ==
  ASSUME SInv, JInv, LInv, RingMirrored(flash, ram), NEW s \in Segments, ~Live(flash, s)
  PROVE  /\ \A f \in Torn(Header(s, ram.next)) : Fit(f)
         /\ LET g == Written(Header(s, ram.next)) IN Fit(g) /\ g.index = flash.index /\ Current(g) = Current(flash)
<1> DEFINE torn == [flash.seg[s] EXCEPT !.header = "torn"]
           x    == [flash.seg[s] EXCEPT !.header = "live", !.epoch = ram.next]
<1>1. flash.seg[s] \in SegmentSet /\ flash \in FlashSet
  BY LogTyped
<1>2. torn.header = "torn" /\ x.header = "live" /\ x.epoch = ram.next
  BY <1>1 DEF SegmentSet
<1>3. [flash EXCEPT !.seg[s].header = "torn"] = [flash EXCEPT !.seg[s] = torn]
  OBVIOUS
<1> HIDE DEF torn, x
<1>4. Written(Header(s, ram.next)) = [flash EXCEPT !.seg[s] = x]
  <2> DEFINE e == ram.next  g == Written(Header(s, e))
  <2> HIDE DEF e
  <2>1. g = [flash EXCEPT !.seg[s].header = "live", !.seg[s].epoch = e]
    BY WrittenHeader
  <2> HIDE DEF g
  <2>2. [flash EXCEPT !.seg[s].header = "live", !.seg[s].epoch = e] = [flash EXCEPT !.seg[s] = x]
    BY LogTyped DEF FlashSet, x, e
  <2>3. g = [flash EXCEPT !.seg[s] = x]
    BY <2>1, <2>2
  <2> QED
    BY <2>3 DEF g, e
<1>5. Fit([flash EXCEPT !.seg[s] = torn])
  BY <1>2, SegFit
<1>6. \A f \in Torn(Header(s, ram.next)) : Fit(f)
  BY <1>3, <1>5, LInvParts, TornHeader
<1> QED
  BY <1>2, <1>4, <1>6, NewEpoch, SegFit

\* A record is added.
LEMMA RecordFit ==
  ASSUME SInv, LInv, NEW s \in Segments, NEW r
  PROVE  /\ \A f \in Torn(Record(s, r)) : Fit(f)
         /\ LET g == Written(Record(s, r)) IN Fit(g) /\ g.index = flash.index /\ Current(g) = Current(flash)
<1>1. ASSUME NEW t
      PROVE  LET g == [flash EXCEPT !.seg[s].recs = @ \cup {t}] IN Fit(g) /\ g.index = flash.index /\ Current(g) = Current(flash)
  <2> DEFINE x == [flash.seg[s] EXCEPT !.recs = @ \cup {t}]
  <2>1. x.header = flash.seg[s].header /\ x.epoch = flash.seg[s].epoch
    BY LogTyped DEF SegmentSet
  <2>2. [flash EXCEPT !.seg[s].recs = @ \cup {t}] = [flash EXCEPT !.seg[s] = x]
    OBVIOUS
  <2> HIDE DEF x
  <2> QED
    BY <2>1, <2>2, SegFit DEF Live
<1>2. \A f \in Torn(Record(s, r)) : Fit(f)
  BY <1>1, LInvParts, TornRecord
<1>3. Written(Record(s, r)) = [flash EXCEPT !.seg[s].recs = @ \cup {r}]
  BY WrittenRecord
<1> DEFINE h == [flash EXCEPT !.seg[s].recs = @ \cup {r}]
<1>4. Fit(h) /\ h.index = flash.index /\ Current(h) = Current(flash)
  BY <1>1
<1> HIDE DEF h
<1>5. Written(Record(s, r)) = h
  BY <1>3 DEF h
<1> QED
  BY <1>2, <1>4, <1>5

----------------------------------------------------------------------------
(* The steps that change the log. *)

\* The wipe word changes no slot and no segment.
LEMMA WipeFit ==
  ASSUME SInv, LInv
  PROVE  /\ \A f \in Torn(Do("wipe")) : Fit(f)
         /\ LET g == Written(Do("wipe")) IN Fit(g) /\ g.index = flash.index /\ Current(g) = Current(flash)
<1> DEFINE g == [flash EXCEPT !.wipe = TRUE]
<1>1. g.index = flash.index /\ g.seg = flash.seg /\ g.journal = flash.journal /\ g.wipe
  BY LogTyped DEF FlashSet
<1>2. Written(Do("wipe")) = g
  BY WrittenWipe
<1> HIDE DEF g
<1>3. Current(g) = Current(flash)
  BY <1>1 DEF Current, Live, Exact
<1>4. Fit(g)
  BY <1>1, <1>3, LInvParts, FitLess
<1>5. \A f \in Torn(Do("wipe")) : f = flash \/ f = g
  BY <1>2, TornState
<1> QED
  BY <1>1, <1>2, <1>3, <1>4, <1>5, LInvParts

LEMMA StopWritesTallies ==
  ASSUME SInv, LInv, StopWrites
  PROVE  LInv'
<1> DEFINE g == Written(Do("wipe"))
<1>1. Does(Do("wipe"), Failed, count, None) /\ Failed.wipe /\ Failed.stopped
  BY SInvParts, FailedSane DEF StopWrites, Failed
<1>2. (\A f \in Torn(Do("wipe")) : Fit(f)) /\ Fit(g)
  BY WipeFit
<1>3. Safe(Do("wipe"))
  BY SInvParts, SafeIndex
<1> HIDE DEF g
<1>4. PlacedNew(g, Failed, None) /\ InsertsCurrent(g, None) /\ Counted(g, Failed, None)
  BY <1>1, QuietCalls, OpCalls DEF Trusted
<1>5. Tallied(g, Failed, None)
  BY <1>2, <1>4 DEF Tallied
<1> QED
  BY <1>1, <1>2, <1>3, <1>5, DoesTally DEF g

LEMMA LastFaceTallies ==
  ASSUME SInv, LInv, LastFace
  PROVE  LInv'
<1> DEFINE g == Written(Do("wipe"))
           r == [ram EXCEPT !.wipe = TRUE]
<1>1. Does(Do("wipe"), r, count, None) /\ op = None /\ ram.open /\ ~ram.wipe
  BY DEF LastFace, Ready
<1>2. r.done = ram.done /\ r.liveSlots = ram.liveSlots
  BY SInvParts DEF RamSet
<1>3. Trusted(ram, op)
  BY <1>1, OpCalls DEF Trusted
<1>4. (\A f \in Torn(Do("wipe")) : Fit(f)) /\ Fit(g) /\ g.index = flash.index /\ Current(g) = Current(flash)
  BY WipeFit
<1>5. Safe(Do("wipe"))
  BY SInvParts, SafeIndex
<1> HIDE DEF g, r
<1>6. Tallied(g, r, None)
  BY <1>2, <1>3, <1>4, TalliedOn, OpCalls
<1> QED
  BY <1>1, <1>4, <1>5, <1>6, DoesTally DEF g

LEMMA MoveHeadTallies ==
  ASSUME SInv, JInv, LInv, MoveHead
  PROVE  LInv'
<1>1. /\ RingMirrored(flash, ram) /\ JournalMirrored(flash, ram) /\ CountsMirrored(flash, ram) /\ Trusted(ram, op)
      /\ op.call # "rebuild" /\ (op.call = "reclaim" => ram.live >= 2)
  <2>1. Placing
    BY DEF MoveHead
  <2>2. op.call \in {"commit", "reclaim"} /\ op.call # "rebuild"
    BY <2>1 DEF Placing
  <2>3. op.call = "reclaim" => ram.live >= 2
    BY <2>1, PlacingIs, OpCalls
  <2> QED
    BY <2>2, <2>3, InCall
<1>2. FlashSane(flash) /\ RamSane(ram) /\ ram \in RamSet
  BY SInvParts
<1>3. CASE ToOpen(ram) = 0
  BY <1>3, StopWritesTallies DEF MoveHead
<1>4. ASSUME ToOpen(ram) # 0
      PROVE  NextHead \in Segments /\ ~(Dist(ram.tail, NextHead) < ram.live) /\ ~Live(flash, NextHead)
  BY <1>1, <1>2, <1>4, NextHeadIs, RingLive
<1>5. ASSUME ToOpen(ram) # 0, Does(EraseSeg(NextHead), ram, count, op)
      PROVE  LInv'
  <2> DEFINE g == Written(EraseSeg(NextHead))
  <2>1. Safe(EraseSeg(NextHead))
    BY <1>1, <1>4, <1>5, EraseMirrors
  <2>2. (\A f \in Torn(EraseSeg(NextHead)) : Fit(f)) /\ Fit(g) /\ g.index = flash.index /\ Current(g) = Current(flash)
    BY <1>4, <1>5, EraseFit
  <2> HIDE DEF g
  <2>3. Tallied(g, ram, op)
    BY <1>1, <2>2, TalliedOn
  <2> QED
    BY <1>5, <2>1, <2>2, <2>3, DoesTally DEF g
<1>6. ASSUME ToOpen(ram) # 0, flash.seg[NextHead] = BlankSegment, Does(Header(NextHead, ram.next), Moved, count, op)
      PROVE  LInv'
  <2> DEFINE g == Written(Header(NextHead, ram.next))
  <2>1. Safe(Header(NextHead, ram.next))
    BY <1>1, <1>6, HeaderMirrors
  <2>2. (\A f \in Torn(Header(NextHead, ram.next)) : Fit(f)) /\ Fit(g) /\ g.index = flash.index /\ Current(g) = Current(flash)
    BY <1>1, <1>4, <1>6, HeaderFit
  <2> HIDE DEF g
  <2>3. /\ Moved.done = ram.done /\ Moved.liveSlots = ram.liveSlots /\ Moved.open = ram.open
        /\ Moved.wipe = ram.wipe /\ Moved.stopped = ram.stopped /\ (ram.live # 0 => Moved.tail = ram.tail)
    BY <1>2 DEF RamSet, Moved
  <2>4. op.call = "reclaim" => ram.live # 0
    BY <1>1, <1>2 DEF RamSet
  <2>5. Tallied(g, Moved, op)
    BY <1>1, <2>2, <2>3, <2>4, TalliedOn
  <2> QED
    BY <1>6, <2>1, <2>2, <2>5, DoesTally DEF g
<1> QED
  BY <1>3, <1>5, <1>6 DEF MoveHead

LEMMA EraseTailTallies ==
  ASSUME SInv, LInv, EraseTail
  PROVE  LInv'
<1> DEFINE r == [ram EXCEPT !.roomAsked = FALSE]
<1>1. op.call = "reclaim" /\ op.gone # {}
  BY DEF EraseTail
<1>2. /\ op \in ReclaimSet /\ ReclaimSane(ram, op) /\ Trusted(ram, op)
      /\ RingMirrored(flash, ram) /\ JournalMirrored(flash, ram) /\ CountsMirrored(flash, ram)
      /\ ram \in RamSet
  BY <1>1, SInvParts, OpIs, InCall
<1>3. PICK s \in Segments : op.gone = {s} /\ ~(Dist(ram.tail, s) < ram.live)
  BY <1>1, <1>2 DEF ReclaimSane
<1>4. Does(EraseSeg(s), r, count, op.room)
  BY <1>3 DEF EraseTail
<1> DEFINE g == Written(EraseSeg(s))
<1>5. Safe(EraseSeg(s))
  BY <1>2, <1>3, EraseMirrors
<1>6. r.done = ram.done /\ r.liveSlots = ram.liveSlots
  BY <1>2 DEF RamSet
<1>7. op.room.call = "room"
  BY <1>2, OpCalls DEF ReclaimSet
<1>8. (\A f \in Torn(EraseSeg(s)) : Fit(f)) /\ Fit(g) /\ g.index = flash.index /\ Current(g) = Current(flash)
  BY <1>2, <1>3, RingLive, EraseFit
<1> HIDE DEF g, r
<1>9. Tallied(g, r, op.room)
  BY <1>2, <1>6, <1>7, <1>8, TalliedOn
<1> QED
  BY <1>4, <1>5, <1>8, <1>9, DoesTally DEF g

\* The tail leaves the ring, and the current slots lose those that name it.
LEMMA RetireTailTallies ==
  ASSUME SInv, LInv, RetireTail
  PROVE  LInv'
<1> DEFINE o == [op EXCEPT !.gone = {ram.tail}]
           g == Written(Retire(ram.tail))
<1>1. op.call = "reclaim" /\ op.todo = <<>> /\ op.placed = <<>> /\ op.gone = {} /\ Does(Retire(ram.tail), RetiredRam, count, o)
  BY DEF RetireTail, RetiredRam
<1>2. /\ op \in ReclaimSet /\ ReclaimSane(ram, op) /\ Trusted(ram, op)
      /\ RingMirrored(flash, ram) /\ JournalMirrored(flash, ram) /\ CountsMirrored(flash, ram) /\ ram.tail \in Segments /\ ram \in RamSet
  BY <1>1, SInvParts, OpIs, InCall DEF RamSet
<1>3. ram.live >= 2 /\ op.named \in Nat
  <2>1. ~\E s \in Segments : op.gone = {s} /\ ~(Dist(ram.tail, s) < ram.live)
    BY <1>1
  <2>2. op.named \in Nat
    BY <1>2 DEF ReclaimSet
  <2> QED
    BY <1>2, <2>1, <2>2 DEF ReclaimSane
<1>4. Safe(Retire(ram.tail))
  BY <1>2, <1>3, RetireMirrors
<1>5. RetiredRam.done = ram.done /\ RetiredRam.liveSlots = ram.liveSlots - op.named
  BY <1>2 DEF RamSet, RetiredRam
<1>6. o.call = "reclaim" /\ o.placed = <<>> /\ o.gone # {}
  BY <1>1, <1>2 DEF ReclaimSet
<1>7. Fit(g) /\ g.index = flash.index /\ Current(g) = Current(flash) \ CurrentIn(flash, ram.tail)
  <2> DEFINE x == [flash.seg[ram.tail] EXCEPT !.header = "retired"]
  <2>1. x.header = "retired"
    BY <1>2, LogTyped DEF SegmentSet
  <2>2. g = [flash EXCEPT !.seg[ram.tail] = x]
    BY WrittenRetire
  <2> HIDE DEF x, g
  <2> QED
    BY <1>2, <2>1, <2>2, SegFit
<1>8. \A f \in Torn(Retire(ram.tail)) : Fit(f)
  BY <1>7, LInvParts, TornRetire
<1> HIDE DEF o, g
<1>9. PlacedNew(g, RetiredRam, o)
  <2>1. <<>> \in Seq(Nat) /\ Len(<<>>) = 0
    OBVIOUS
  <2>2. Range(o.placed) = {} /\ Len(o.placed) = 0
    BY <1>6, <2>1, RangeFacts
  <2> QED
    BY <2>2 DEF PlacedNew
<1>10. InsertsCurrent(g, o)
  BY <1>6 DEF InsertsCurrent, Inserting
<1>11. ASSUME ram.done
       PROVE  AllReach(g) /\ (NoTorn(g) => RetiredRam.liveSlots = Cardinality(Current(g)))
  <2>1. AllReach(flash) /\ (NoTorn(flash) => /\ ram.liveSlots = Cardinality(Current(flash))
                                             /\ op.named = Cardinality(CurrentIn(flash, ram.tail)))
    BY <1>1, <1>2, <1>11, LInvParts DEF Counted
  <2>2. AllReach(g) /\ (NoTorn(g) <=> NoTorn(flash))
    BY <1>7, <2>1, ReachSame
  <2>3. Current(flash) \cap CurrentIn(flash, ram.tail) = CurrentIn(flash, ram.tail)
    BY DEF CurrentIn
  <2>4. Cardinality(Current(g)) = Cardinality(Current(flash)) - Cardinality(CurrentIn(flash, ram.tail))
    BY <1>7, <2>3, CurrentFinite, FS_Difference
  <2> QED
    BY <1>5, <2>1, <2>2, <2>4
<1>12. Counted(g, RetiredRam, o)
  BY <1>5, <1>6, <1>11 DEF Counted
<1>13. Tallied(g, RetiredRam, o)
  BY <1>7, <1>9, <1>10, <1>12 DEF Tallied
<1> QED
  BY <1>1, <1>4, <1>8, <1>13, DoesTally DEF g

\* Records are placed where no slot points yet.
LEMMA PlaceRecordTallies ==
  ASSUME SInv, JInv, LInv, PlaceRecord
  PROVE  LInv'
<1> DEFINE k == Head(op.todo)
           a == ram.used
           end == a + Size[k]
           h == ram.head
           rec == [key |-> k, whole |-> TRUE, at |-> a, end |-> end]
           sl == Slot(k, Place(h, a, ram.segEpoch[h]))
           r == [ram EXCEPT !.used = end]
           o == [op EXCEPT !.todo = Tail(@), !.placed = Append(@, sl)]
           g == Written(Record(h, rec))
<1>1. Placing /\ ~NeedsHead /\ Does(Record(h, rec), r, count, o)
  BY DEF PlaceRecord
<1>2. RingMirrored(flash, ram) /\ Trusted(ram, op) /\ op.call \in {"commit", "reclaim"}
  BY <1>1, PlacingIs, InCall DEF Placing
<1>3. /\ k \in Glyphs
      /\ op \in CommitSet \/ (op \in ReclaimSet /\ ram.live >= 2 /\ op.placed = <<>>)
  BY <1>1, PlacingIs
<1>4. /\ ram \in RamSet /\ RamSane(ram) /\ FlashSane(flash) /\ Intact(flash) /\ h \in Segments /\ ram.tail \in Segments
      /\ ram.live \in 0 .. SegmentCount /\ ram.live \in Nat /\ a \in 0 .. Cap /\ a \in Nat
  BY SInvParts, StoreFacts DEF RamSet
<1>5. ram.live > 0 /\ Fits(a, Size[k])
  BY <1>1, <1>4 DEF NeedsHead
<1>6. Size[k] \in Nat /\ Size[k] >= 1 /\ a + Size[k] <= Cap
  <2>1. Size[k] \in 1 .. Cap
    BY <1>3, StoreAssumption
  <2> QED
    BY <1>4, <1>5, <2>1, StoreFacts DEF Fits
<1>7. end \in 1 .. Cap /\ a < end
  BY <1>4, <1>6, StoreFacts
<1>8. rec \in RecordSet /\ rec.at = a
  BY <1>3, <1>4, <1>7 DEF RecordSet
<1>9. a = Fill(flash.seg[h].recs) /\ flash.seg[h].recs \in SUBSET RecordSet
  BY <1>2, <1>4, <1>5, LogTyped DEF RingMirrored
<1>10. \A q \in flash.seg[h].recs : q.end <= a /\ q.at # a
  <2> SUFFICES ASSUME NEW q \in flash.seg[h].recs PROVE q.end <= a /\ q.at # a
    OBVIOUS
  <2>1. q.end <= a /\ q \in RecordSet
    BY <1>9, FillFacts
  <2>2. q.at \in Nat /\ q.end \in Nat /\ q.at < q.end
    BY <2>1, RecordParts
  <2> QED
    BY <1>4, <2>1, <2>2
<1>11. Safe(Record(h, rec))
  BY <1>4, <1>8, <1>10, SafeRecord
<1>12. /\ r.done = ram.done /\ r.liveSlots = ram.liveSlots /\ r.tail = ram.tail
       /\ r.open = ram.open /\ r.wipe = ram.wipe /\ r.stopped = ram.stopped
  BY <1>4 DEF RamSet
<1>13. /\ o.placed = Append(op.placed, sl) /\ o.call = op.call
       /\ op.call = "reclaim" => o.named = op.named /\ o.gone = op.gone
  BY <1>2, <1>3, OpCalls DEF CommitSet, ReclaimSet
<1>14. Live(flash, h) /\ ram.segEpoch[h] = flash.seg[h].epoch /\ ram.segEpoch[h] \in Nat \ {0}
  <2>1. Dist(ram.tail, h) < ram.live
    BY <1>2, <1>4, <1>5 DEF RingMirrored
  <2> QED
    BY <1>2, <1>4, <2>1, LiveEpochs DEF Live
<1>15. sl.key = k /\ sl.value.seg = h /\ sl.value.at = a /\ sl.value.epoch = flash.seg[h].epoch /\ sl \in WholeSlots
  <2>1. Place(h, a, ram.segEpoch[h]) \in PlaceSet
    BY <1>4, <1>14 DEF Place, PlaceSet
  <2> QED
    BY <1>3, <1>14, <2>1 DEF Slot, Place, WholeSlots, GlyphSlots
<1> HIDE DEF rec, r, o, sl
<1>16. (\A f \in Torn(Record(h, rec)) : Fit(f)) /\ Fit(g) /\ g.index = flash.index /\ Current(g) = Current(flash)
  BY <1>4, RecordFit
<1> HIDE DEF g
<1>17. op.placed \in Seq(WholeSlots) /\ \A t \in Range(op.placed) : Names(flash, t, TRUE)
  BY <1>2, PlacedIn, JInvParts DEF PlacedTrue
\* Nothing names what is not written yet.
<1>18. \A t : Backed(flash, t, TRUE) \/ Backed(flash, t, faults <= 1) => t # sl
  BY <1>10, <1>15 DEF Backed
<1>19. \A i \in Slots : flash.index[i] # sl
  <2> SUFFICES ASSUME NEW i \in Slots, flash.index[i] = sl PROVE FALSE
    OBVIOUS
  <2>1. flash.index[i] \in WholeSlots /\ Exact(flash, flash.index[i])
    BY <1>15 DEF Exact
  <2> QED
    BY <1>18, <2>1, JInvParts DEF Books, Backs
<1>20. sl \notin Range(op.placed)
  BY <1>17, <1>18 DEF Names
<1>21. PlacedNew(g, r, o)
  <2>1. Range(o.placed) = Range(op.placed) \cup {sl}
    BY <1>13, <1>15, <1>17, RangeFacts
  <2>2. \A t \in Range(o.placed) : \A i \in Slots : g.index[i] # t
    BY <1>2, <1>16, <1>19, <2>1, LInvParts DEF PlacedNew
  <2>3. ASSUME NEW i \in 1 .. Len(o.placed), NEW j \in 1 .. Len(o.placed), o.placed[i] = o.placed[j] PROVE i = j
    <3> DEFINE s == op.placed
    <3>1. s \in Seq(WholeSlots) /\ sl \notin Range(s) /\ \A m, n \in 1 .. Len(s) : s[m] = s[n] => m = n
      BY <1>2, <1>17, <1>20, LInvParts DEF PlacedNew
    <3>2. o.placed = Append(s, sl)
      BY <1>13
    <3> HIDE DEF s
    <3>3. Len(s) \in Nat /\ Len(o.placed) = Len(s) + 1 /\ o.placed[Len(s) + 1] = sl /\ \A m \in 1 .. Len(s) : o.placed[m] = s[m]
      BY <3>1, <3>2
    <3>4. \A m \in 1 .. Len(s) : s[m] \in Range(s)
      BY <3>1 DEF Range
    <3>5. \A m \in 1 .. Len(o.placed) : m \in 1 .. Len(s) \/ m = Len(s) + 1
      BY <3>3
    <3> QED
      BY <2>3, <3>1, <3>3, <3>4, <3>5
  <2>4. ASSUME o.call = "reclaim" PROVE \A t \in Range(o.placed) : t.value.seg # r.tail
    <3>1. op.call = "reclaim" /\ ram.live >= 2 /\ op.placed = <<>>
      BY <1>3, <1>13, <2>4, OpCalls
    <3>2. Range(op.placed) = {}
      BY <1>17, <3>1, RangeFacts
    <3>3. h # ram.tail
      <4>1. Dist(ram.tail, h) = ram.live - 1 /\ Dist(ram.tail, ram.tail) = 0
        BY <1>2, <1>4, <1>5, DistFacts DEF RingMirrored
      <4>2. ram.live - 1 # 0
        BY <1>4, <3>1
      <4> QED
        BY <4>1, <4>2
    <3> QED
      BY <1>12, <1>15, <2>1, <3>2, <3>3
  <2> QED
    BY <2>2, <2>3, <2>4 DEF PlacedNew
<1>22. InsertsCurrent(g, o)
  BY <1>2, <1>13 DEF InsertsCurrent, Inserting
<1>23. Counted(g, r, o)
  <2>1. (AllReach(flash) => AllReach(g)) /\ (NoTorn(flash) <=> NoTorn(g)) /\ CurrentIn(g, ram.tail) = CurrentIn(flash, ram.tail)
    BY <1>16, ReachSame DEF CurrentIn
  <2> QED
    BY <1>2, <1>12, <1>13, <1>16, <2>1, LInvParts DEF Counted
<1>24. Tallied(g, r, o)
  BY <1>16, <1>21, <1>22, <1>23 DEF Tallied
<1> QED
  BY <1>1, <1>11, <1>16, <1>24, DoesTally DEF g

----------------------------------------------------------------------------
(* The steps that write a slot. *)

LEMMA ProbeIn == \A k \in Keys, p \in Probes : Probe(k, p) \in Slots
<1> SUFFICES ASSUME NEW k \in Keys, NEW p \in Probes PROVE Probe(k, p) \in Slots
  OBVIOUS
<1>1. Home[k] \in Slots /\ p \in Nat
  BY StoreFacts, StoreAssumption DEF Probes
<1>2. Home[k] + p \in Nat /\ SlotCount \in Nat \ {0}
  BY <1>1, StoreFacts DEF Slots
<1> QED
  BY <1>2, ModIn DEF Probe, Slots

\* A slot filled by insert().
Puts(g, k, x) == g = [flash EXCEPT !.index[FirstFree(k)] = x]
PutIs(g, k, x) ==
  /\ FirstFree(k) \in Slots /\ flash.index[FirstFree(k)] = Erased /\ g.index[FirstFree(k)] = x
  /\ \A j \in Slots : j # FirstFree(k) => g.index[j] = flash.index[j]
  /\ g.seg = flash.seg /\ g.journal = flash.journal /\ g.wipe = flash.wipe
  /\ AllReach(flash) => AllReach(g)
  /\ ReachedIn(g, k, FirstFree(k))

\* A slot filled where insert() fills it: its key's probes reach it, and what the
\* others reach they reach still.
LEMMA SlotPut ==
  ASSUME SInv, NEW k \in Keys, FreeProbes(k) # {}, NEW x, x # Erased, x \in GlyphSlots => x.key = k,
         NEW g, Puts(g, k, x)
  PROVE  PutIs(g, k, x)
<1> DEFINE i == FirstFree(k)  m == Min(FreeProbes(k))
<1>1. i \in Slots /\ flash.index[i] = Erased /\ m \in Probes /\ i = Probe(k, m) /\ \A q \in FreeProbes(k) : m <= q
  BY FirstFreeIs DEF FirstFree
<1>2. /\ g.index = [flash.index EXCEPT ![i] = x] /\ flash.index \in [Slots -> SlotSet]
      /\ g.seg = flash.seg /\ g.journal = flash.journal /\ g.wipe = flash.wipe
  BY LogTyped DEF FlashSet, Puts
<1> HIDE DEF i, m
<1>3. g.index[i] = x /\ \A j \in Slots : j # i => g.index[j] = flash.index[j]
  BY <1>1, <1>2
<1>4. \A j \in Slots : flash.index[j] # Erased => g.index[j] # Erased
  BY <1>3
<1>5. ReachedIn(g, k, i)
  <2>1. ASSUME NEW q \in 0 .. m PROVE g.index[Probe(k, q)] # Erased
    <3>1. q \in Probes /\ q \in Nat /\ m \in Nat
      BY <1>1, StoreFacts DEF Probes
    <3>2. Probe(k, q) \in Slots
      BY <3>1, ProbeIn
    <3>3. CASE q = m
      BY <1>1, <1>3, <3>3
    <3>4. CASE q # m
      <4>1. ~(m <= q)
        BY <3>1, <3>4
      <4>2. flash.index[Probe(k, q)] # Erased
        BY <1>1, <3>1, <4>1 DEF FreeProbes, SlotErased
      <4> QED
        BY <1>4, <3>2, <4>2
    <3> QED
      BY <3>3, <3>4
  <2> QED
    BY <1>1, <2>1 DEF ReachedIn
<1>6. ASSUME AllReach(flash) PROVE AllReach(g)
  <2> SUFFICES ASSUME NEW j \in Slots, g.index[j] \in GlyphSlots PROVE ReachedIn(g, g.index[j].key, j)
    BY DEF AllReach
  <2>1. CASE j = i
    BY <1>3, <1>5, <2>1
  <2>2. CASE j # i
    <3>1. g.index[j] = flash.index[j]
      BY <1>3, <2>2
    <3> DEFINE c == flash.index[j].key
    <3>2. c \in Keys
      BY <3>1, SlotKinds DEF Keys
    <3>3. PICK p \in Probes : Probe(c, p) = j /\ \A q \in 0 .. p : flash.index[Probe(c, q)] # Erased
      BY <1>6, <3>1 DEF AllReach, ReachedIn
    <3> HIDE DEF c
    <3>4. \A q \in 0 .. p : q \in Probes
      BY StoreFacts DEF Probes
    <3>5. \A q \in 0 .. p : g.index[Probe(c, q)] # Erased
      BY <1>4, <3>2, <3>3, <3>4, ProbeIn
    <3>6. ReachedIn(g, c, j)
      BY <3>3, <3>5 DEF ReachedIn
    <3> QED
      BY <3>1, <3>6 DEF c
  <2> QED
    BY <2>1, <2>2
<1> QED
  BY <1>1, <1>2, <1>3, <1>5, <1>6 DEF i, PutIs

\* A slot whose write was cut, or a mark, is not current.
LEMMA PutOther ==
  ASSUME SInv, LInv, NEW k \in Keys, FreeProbes(k) # {}, NEW x, x # Erased, x \in GlyphSlots => x.key = k, x \notin WholeSlots,
         NEW g, Puts(g, k, x)
  PROVE  Fit(g) /\ Current(g) = Current(flash) /\ \A s : CurrentIn(g, s) = CurrentIn(flash, s)
<1> DEFINE i == FirstFree(k)
<1>1. /\ i \in Slots /\ flash.index[i] = Erased /\ g.index[i] = x
      /\ \A j \in Slots : j # i => g.index[j] = flash.index[j]
      /\ g.seg = flash.seg /\ g.journal = flash.journal /\ g.wipe = flash.wipe
      /\ AllReach(flash) => AllReach(g)
  <2>1. PutIs(g, k, x)
    BY SlotPut
  <2> QED
    BY <2>1 DEF PutIs
<1> HIDE DEF i
<1>2. Erased \notin WholeSlots
  BY SlotKinds DEF WholeSlots
<1>3. Current(g) = Current(flash) /\ \A j \in Current(g) : g.index[j] = flash.index[j]
  BY <1>1, <1>2 DEF Current, Live, Exact
<1>4. Once(g)
  BY <1>3, LInvParts, OnceLess
<1>5. Fit(g)
  BY <1>1, <1>4, LInvParts DEF Fit
<1> QED
  BY <1>3, <1>5 DEF CurrentIn

LEMMA PutCurrent ==
  ASSUME SInv, LInv, NEW k \in Keys, FreeProbes(k) # {}, NEW sl \in WholeSlots, sl.key = k,
         Live(flash, sl.value.seg), Exact(flash, sl), \A j \in Slots : flash.index[j] # sl,
         NEW g, Puts(g, k, sl)
  PROVE  /\ Fit(g) /\ Current(g) = Current(flash) \cup {FirstFree(k)}
         /\ Cardinality(Current(g)) = Cardinality(Current(flash)) + 1
         /\ \A s : s # sl.value.seg => CurrentIn(g, s) = CurrentIn(flash, s)
<1> DEFINE i == FirstFree(k)
<1>0. sl \in GlyphSlots /\ sl # Erased
  BY SlotKinds DEF WholeSlots
<1>1. /\ i \in Slots /\ flash.index[i] = Erased /\ g.index[i] = sl
      /\ \A j \in Slots : j # i => g.index[j] = flash.index[j]
      /\ g.seg = flash.seg /\ g.journal = flash.journal /\ g.wipe = flash.wipe
      /\ AllReach(flash) => AllReach(g)
  <2>1. PutIs(g, k, sl)
    BY <1>0, SlotPut
  <2> QED
    BY <2>1 DEF PutIs
<1> HIDE DEF i
<1>2. Erased \notin WholeSlots
  BY SlotKinds DEF WholeSlots
<1>3. i \notin Current(flash)
  BY <1>1, <1>2 DEF Current
<1>4. i \in Current(g)
  BY <1>1 DEF Current, Live, Exact
<1>5. \A j \in Slots : j # i => (j \in Current(g) <=> j \in Current(flash))
  BY <1>1 DEF Current, Live, Exact
<1>6. Current(g) = Current(flash) \cup {i}
  <2>1. Current(g) \subseteq Slots /\ Current(flash) \subseteq Slots
    BY DEF Current
  <2> QED
    BY <1>4, <1>5, <2>1
<1>7. Cardinality(Current(g)) = Cardinality(Current(flash)) + 1
  BY <1>3, <1>6, CurrentFinite, FS_AddElement
<1>8. Once(g)
  <2> SUFFICES ASSUME NEW j \in Current(g), NEW n \in Current(g), g.index[j] = g.index[n] PROVE j = n
    BY DEF Once
  <2>1. j \in Slots /\ n \in Slots
    BY DEF Current
  <2>2. \A m \in Slots : m # i => g.index[m] # sl
    BY <1>1
  <2>3. CASE j = i \/ n = i
    BY <1>1, <2>1, <2>2, <2>3
  <2>4. CASE j # i /\ n # i
    BY <1>1, <1>5, <2>1, <2>4, LInvParts DEF Once
  <2> QED
    BY <2>3, <2>4
<1>9. Fit(g)
  BY <1>1, <1>8, LInvParts DEF Fit
<1>10. \A s : s # sl.value.seg => CurrentIn(g, s) = CurrentIn(flash, s)
  <2> SUFFICES ASSUME NEW s, s # sl.value.seg PROVE CurrentIn(g, s) = CurrentIn(flash, s)
    OBVIOUS
  <2>1. \A j : j \in CurrentIn(g, s) <=> j \in CurrentIn(flash, s)
    <3> SUFFICES ASSUME NEW j PROVE j \in CurrentIn(g, s) <=> j \in CurrentIn(flash, s)
      OBVIOUS
    <3>1. CASE j = i
      BY <1>1, <1>3, <3>1 DEF CurrentIn
    <3>2. CASE j # i
      <4>1. j \in Current(g) <=> j \in Current(flash)
        BY <1>6, <3>2
      <4>2. j \in Current(g) => g.index[j] = flash.index[j]
        BY <1>1, <3>2 DEF Current
      <4> QED
        BY <4>1, <4>2 DEF CurrentIn
    <3> QED
      BY <3>1, <3>2
  <2> QED
    BY <2>1 DEF CurrentIn
<1> QED
  BY <1>6, <1>7, <1>9, <1>10 DEF i

----------------------------------------------------------------------------
(* insert(), of a mark or of a slot for a record in place. *)

\* Whatever a cut leaves of a slot.
LEMMA InsertFit ==
  ASSUME SInv, LInv, NEW k \in Keys, FreeProbes(k) # {}, NEW sl \in MarkSlots \cup WholeSlots, sl.key = k
  PROVE  \A f \in Torn(SlotAt(FirstFree(k), sl)) : Fit(f)
<1> SUFFICES ASSUME NEW f \in Torn(SlotAt(FirstFree(k), sl)) PROVE Fit(f)
  OBVIOUS
<1>1. CASE f = flash
  BY <1>1, LInvParts
<1>2. ASSUME NEW t \in TornSlots(sl), f = [flash EXCEPT !.index[FirstFree(k)] = t]
      PROVE  Fit(f)
  <2>1. t # Erased /\ (t \in GlyphSlots => t.key = k) /\ t \notin WholeSlots
    <3>1. CASE t = Junk
      BY <3>1, SlotKinds DEF WholeSlots
    <3>2. CASE t # Junk
      <4>1. t \in GlyphSlots /\ t.key = sl.key /\ t.torn
        BY <3>2, TornSlotsAre
      <4> QED
        BY <4>1, SlotKinds DEF WholeSlots
    <3> QED
      BY <3>1, <3>2
  <2>2. Puts(f, k, t)
    BY <1>2 DEF Puts
  <2> QED
    BY <2>1, <2>2, PutOther
<1> QED
  BY <1>1, <1>2, TornSlot

\* A slot to be written names a record no other slot names, or none.
NewSlot(sl) == sl \in WholeSlots => Names(flash, sl, TRUE) /\ \A j \in Slots : flash.index[j] # sl
\* What is left to do once it is written.
GoesOn(o, sl) ==
  /\ o.call \in {"none", "commit", "reclaim"}
  /\ o.call \in {"commit", "reclaim"} =>
       /\ op.call = o.call /\ \A s \in Range(o.placed) : s \in Range(op.placed) /\ s # sl
       /\ \A i, j \in 1 .. Len(o.placed) : o.placed[i] = o.placed[j] => i = j
  /\ o.call = "reclaim" => sl.value.seg # ram.tail /\ o.named = op.named /\ o.gone = op.gone

LEMMA InsertTallies ==
  ASSUME SInv, LInv, NEW k \in Keys, NEW sl \in MarkSlots \cup WholeSlots, sl.key = k, FreeProbes(k) # {}, Trusted(ram, op),
         NewSlot(sl), NEW c, NEW o, GoesOn(o, sl), Does(SlotAt(FirstFree(k), sl), Inserted(sl), c, o)
  PROVE  LInv'
<1>0. /\ sl \in WholeSlots => Names(flash, sl, TRUE) /\ \A j \in Slots : flash.index[j] # sl
      /\ o.call \in {"none", "commit", "reclaim"}
      /\ o.call \in {"commit", "reclaim"} =>
           /\ op.call = o.call /\ \A s \in Range(o.placed) : s \in Range(op.placed) /\ s # sl
           /\ \A i, j \in 1 .. Len(o.placed) : o.placed[i] = o.placed[j] => i = j
      /\ o.call = "reclaim" => sl.value.seg # ram.tail /\ o.named = op.named /\ o.gone = op.gone
  BY DEF NewSlot, GoesOn
<1> DEFINE r == Inserted(sl)
           g == Written(SlotAt(FirstFree(k), sl))
<1>1. Puts(g, k, sl)
  BY WrittenSlot DEF Puts
<1>2. sl # Erased /\ (sl \in GlyphSlots => sl.key = k)
  BY SlotKinds DEF WholeSlots
<1>3. Safe(SlotAt(FirstFree(k), sl))
  BY FirstFreeIs, SInvParts, SafeSlot
<1>4. \A f \in Torn(SlotAt(FirstFree(k), sl)) : Fit(f)
  BY InsertFit
<1> HIDE DEF g
<1>5. PutIs(g, k, sl)
  BY <1>1, <1>2, SlotPut
<1>6. /\ FirstFree(k) \in Slots /\ g.index[FirstFree(k)] = sl /\ \A j \in Slots : j # FirstFree(k) => g.index[j] = flash.index[j]
      /\ AllReach(flash) => AllReach(g)
  BY <1>5 DEF PutIs
<1>7. NoTorn(g) => NoTorn(flash)
  <2>1. flash.index[FirstFree(k)] = Erased
    BY <1>5 DEF PutIs
  <2>2. flash.index[FirstFree(k)] \notin GlyphSlots
    BY <2>1, SlotKinds
  <2> QED
    BY <1>6, <2>2 DEF NoTorn
<1>8. /\ r.liveSlots = ram.liveSlots + (IF sl.value = NoGlyph THEN 0 ELSE 1)
      /\ r.done = ram.done /\ r.tail = ram.tail /\ r.open = ram.open /\ r.wipe = ram.wipe /\ r.stopped = ram.stopped
      /\ ram.liveSlots \in Int
  BY SInvParts DEF RamSet, Inserted
<1> HIDE DEF r
<1>9. /\ Fit(g)
      /\ ram.liveSlots = Cardinality(Current(flash)) => r.liveSlots = Cardinality(Current(g))
      /\ o.call = "reclaim" => CurrentIn(g, ram.tail) = CurrentIn(flash, ram.tail)
  <2>1. CASE sl \in WholeSlots
    <3>1. Live(flash, sl.value.seg) /\ Exact(flash, sl) /\ \A j \in Slots : flash.index[j] # sl
      BY <1>0, <2>1 DEF Names
    <3>2. sl.value # NoGlyph
      BY <2>1, SlotKinds DEF WholeSlots
    <3>3. /\ Fit(g) /\ Cardinality(Current(g)) = Cardinality(Current(flash)) + 1
          /\ \A s : s # sl.value.seg => CurrentIn(g, s) = CurrentIn(flash, s)
      BY <1>1, <2>1, <3>1, PutCurrent
    <3>4. r.liveSlots = ram.liveSlots + 1
      BY <1>8, <3>2
    <3> QED
      BY <1>0, <3>3, <3>4
  <2>2. CASE sl \in MarkSlots
    <3>1. sl \notin WholeSlots /\ sl.value = NoGlyph
      BY <2>2, SlotKinds DEF WholeSlots
    <3>2. Fit(g) /\ Current(g) = Current(flash) /\ \A s : CurrentIn(g, s) = CurrentIn(flash, s)
      BY <1>1, <1>2, <3>1, PutOther
    <3>3. r.liveSlots = ram.liveSlots
      BY <1>8, <3>1
    <3> QED
      BY <3>2, <3>3
  <2> QED
    BY <2>1, <2>2
<1>10. PlacedNew(g, r, o)
  <2> SUFFICES ASSUME o.call \in {"commit", "reclaim"} PROVE PlacedNew(g, r, o)
    BY DEF PlacedNew
  <2>1. op.call = o.call /\ \A s \in Range(o.placed) : s \in Range(op.placed) /\ s # sl
    BY <1>0
  <2>2. \A s \in Range(o.placed) : \A i \in Slots : g.index[i] # s
    BY <1>6, <2>1, LInvParts DEF PlacedNew
  <2>3. o.call = "reclaim" => \A s \in Range(o.placed) : s.value.seg # r.tail
    BY <1>8, <2>1, LInvParts DEF PlacedNew
  <2> QED
    BY <1>0, <2>2, <2>3 DEF PlacedNew
<1>11. InsertsCurrent(g, o)
  BY <1>0 DEF InsertsCurrent, Inserting
<1>12. Counted(g, r, o)
  BY <1>0, <1>6, <1>7, <1>8, <1>9, LInvParts DEF Counted
<1>13. Tallied(g, r, o)
  BY <1>9, <1>10, <1>11, <1>12 DEF Tallied
<1> QED
  BY <1>3, <1>4, <1>13, DoesTally DEF g, r

LEMMA CommitSlotTallies ==
  ASSUME SInv, JInv, LInv, CommitSlot
  PROVE  LInv'
<1> DEFINE s == op.placed
           sl == Head(op.placed)
           rest == IF Len(op.placed) = 1 THEN None ELSE [op EXCEPT !.placed = Tail(@)]
<1>1. op.call = "commit" /\ op.todo = <<>>
  BY DEF CommitSlot
<1>2. op \in CommitSet /\ CommitSane(op) /\ ram.open /\ ~ram.stopped /\ Trusted(ram, op) /\ ram \in RamSet
  BY <1>1, SInvParts, OpIs, InCall
<1>3. s \in Seq(WholeSlots) /\ s # <<>>
  BY <1>1, <1>2 DEF CommitSet, CommitSane
<1>4. sl \in WholeSlots /\ sl \in Range(s) /\ Range(Tail(s)) \subseteq Range(s)
  BY <1>3, RangeFacts
<1>5. sl.key \in Keys /\ Names(flash, sl, TRUE) /\ \A j \in Slots : flash.index[j] # sl
  <2>1. Names(flash, sl, TRUE)
    BY <1>1, <1>4, JInvParts DEF PlacedTrue
  <2>2. \A j \in Slots : flash.index[j] # sl
    BY <1>1, <1>4, LInvParts DEF PlacedNew
  <2> QED
    BY <1>4, <2>1, <2>2 DEF WholeSlots, GlyphSlots, Keys
<1>6. \A i, j \in 1 .. Len(s) : s[i] = s[j] => i = j
  BY <1>1, LInvParts DEF PlacedNew
<1>7. /\ \A x \in Range(Tail(s)) : x # sl
      /\ \A i, j \in 1 .. Len(Tail(s)) : Tail(s)[i] = Tail(s)[j] => i = j
  <2> HIDE DEF s, sl
  <2>1. Tail(s) \in Seq(WholeSlots) /\ Len(s) \in Nat /\ Len(s) >= 1 /\ Len(Tail(s)) = Len(s) - 1
    BY <1>3, HeadTail
  <2>2. \A n \in 1 .. Len(Tail(s)) : n \in Nat /\ n + 1 \in 1 .. Len(s) /\ Tail(s)[n] = s[n + 1]
    BY <1>3, <2>1
  <2>3. ASSUME NEW i \in 1 .. Len(Tail(s)), NEW j \in 1 .. Len(Tail(s)), Tail(s)[i] = Tail(s)[j] PROVE i = j
    <3>1. i + 1 = j + 1 /\ i \in Nat /\ j \in Nat
      BY <1>6, <2>2, <2>3
    <3> QED
      BY <3>1
  <2>4. ASSUME NEW x \in Range(Tail(s)) PROVE x # sl
    <3>1. PICK n \in 1 .. Len(Tail(s)) : x = Tail(s)[n]
      BY <2>1 DEF Range
    <3>2. x = s[n + 1] /\ n + 1 \in 1 .. Len(s) /\ n + 1 # 1 /\ 1 \in 1 .. Len(s)
      BY <2>1, <2>2, <3>1
    <3>3. sl = s[1]
      BY <1>3 DEF sl, s
    <3> QED
      BY <1>6, <3>2, <3>3
  <2> QED
    BY <2>3, <2>4
<1>8. /\ rest.call \in {"none", "commit"}
      /\ rest.call \in {"commit", "reclaim"} =>
           /\ op.call = rest.call /\ \A x \in Range(rest.placed) : x \in Range(op.placed) /\ x # sl
           /\ \A i, j \in 1 .. Len(rest.placed) : rest.placed[i] = rest.placed[j] => i = j
  <2>1. CASE Len(op.placed) = 1
    BY <2>1, OpCalls
  <2>2. CASE Len(op.placed) # 1
    <3>1. rest.placed = Tail(op.placed) /\ rest.call = "commit"
      BY <1>1, <1>2, <2>2 DEF CommitSet
    <3> HIDE DEF rest
    <3> QED
      BY <1>1, <1>4, <1>7, <3>1
  <2> QED
    BY <2>1, <2>2
<1>9. CASE FreeProbes(sl.key) = {}
  <2>1. Notes(ChainFull, None)
    BY <1>1, <1>9 DEF CommitSlot
  <2>2. ChainFull.done = ram.done /\ ChainFull.liveSlots = ram.liveSlots
    BY <1>2 DEF ChainFull, RamSet
  <2> QED
    BY <1>2, <2>1, <2>2, OpCalls, NotedTally
<1>10. CASE FreeProbes(sl.key) # {}
  <2>1. Does(SlotAt(FirstFree(sl.key), sl), Inserted(sl), count, rest)
    BY <1>1, <1>10 DEF CommitSlot
  <2> HIDE DEF sl, rest
  <2>2. GoesOn(rest, sl) /\ NewSlot(sl) /\ sl \in MarkSlots \cup WholeSlots
    BY <1>4, <1>5, <1>8 DEF GoesOn, NewSlot
  <2> QED
    BY <1>2, <1>5, <1>10, <2>1, <2>2, InsertTallies
<1> QED
  BY <1>9, <1>10

LEMMA MarkNoGlyphTallies ==
  ASSUME SInv, LInv, NEW k \in Blanks, MarkNoGlyph(k)
  PROVE  LInv'
<1> DEFINE full == [ram EXCEPT !.indexFull = TRUE, !.stopped = TRUE]
           sl == Slot(k, NoGlyph)
<1>1. op = None /\ ram.open /\ ~ram.stopped
  BY DEF MarkNoGlyph, Ready
<1>2. Trusted(ram, op) /\ ram \in RamSet /\ None.call = "none"
  BY <1>1, SInvParts, OpCalls DEF Trusted
<1>3. \/ Notes(full, None) \/ Notes(ChainFull, None)
      \/ FreeProbes(k) # {} /\ Does(SlotAt(FirstFree(k), sl), Inserted(sl), count, None)
  BY DEF MarkNoGlyph
<1>4. full.done = ram.done /\ full.liveSlots = ram.liveSlots /\ ChainFull.done = ram.done /\ ChainFull.liveSlots = ram.liveSlots
  BY <1>2 DEF ChainFull, RamSet
<1>5. sl \in MarkSlots /\ k \in Keys /\ sl.key = k
  BY DEF MarkSlots, Keys, Slot
<1>6. sl \notin WholeSlots
  BY <1>5, SlotKinds DEF WholeSlots
<1>7. NewSlot(sl) /\ GoesOn(None, sl)
  BY <1>2, <1>6 DEF NewSlot, GoesOn
<1> HIDE DEF full, sl
<1>8. CASE Notes(full, None) \/ Notes(ChainFull, None)
  BY <1>2, <1>4, <1>8, NotedTally
<1>9. CASE FreeProbes(k) # {} /\ Does(SlotAt(FirstFree(k), sl), Inserted(sl), count, None)
  BY <1>2, <1>5, <1>7, <1>9, InsertTallies
<1> QED
  BY <1>3, <1>8, <1>9

LEMMA CopySlotTallies ==
  ASSUME SInv, JInv, LInv, CopySlot
  PROVE  LInv'
<1> DEFINE sl == Head(op.placed)
           rest == [op EXCEPT !.placed = <<>>, !.counts = Tail(@)]
           c == [count EXCEPT ![FirstFree(sl.key)] = Head(op.counts) \div 2]
<1>1. op.call = "reclaim" /\ op.placed # <<>>
  BY DEF CopySlot
<1>2. op \in ReclaimSet /\ Trusted(ram, op) /\ ram \in RamSet
  BY <1>1, SInvParts, OpIs, InCall
<1>3. op.placed \in Seq(WholeSlots)
  BY <1>2 DEF ReclaimSet
<1>4. sl \in WholeSlots /\ sl \in Range(op.placed)
  BY <1>1, <1>3, RangeFacts
<1>5. /\ sl.key \in Keys /\ Names(flash, sl, TRUE) /\ \A j \in Slots : flash.index[j] # sl
      /\ sl.value.seg # ram.tail
  <2>1. Names(flash, sl, TRUE)
    BY <1>1, <1>4, JInvParts DEF PlacedTrue
  <2>2. (\A j \in Slots : flash.index[j] # sl) /\ sl.value.seg # ram.tail
    BY <1>1, <1>4, LInvParts DEF PlacedNew
  <2> QED
    BY <1>4, <2>1, <2>2 DEF WholeSlots, GlyphSlots, Keys
<1>6. rest.call = "reclaim" /\ rest.placed = <<>> /\ rest.named = op.named /\ rest.gone = op.gone
  BY <1>1, <1>2 DEF ReclaimSet
<1>7. Range(rest.placed) = {} /\ Len(rest.placed) = 0
  <2>1. <<>> \in Seq(Nat) /\ Len(<<>>) = 0
    OBVIOUS
  <2> QED
    BY <1>6, <2>1, RangeFacts
<1> HIDE DEF rest
<1>8. CASE FreeProbes(sl.key) = {}
  <2>1. Notes(ChainFull, rest)
    BY <1>1, <1>8 DEF CopySlot, rest
  <2>2. /\ ChainFull.done = ram.done /\ ChainFull.liveSlots = ram.liveSlots /\ ChainFull.tail = ram.tail
    BY <1>2 DEF ChainFull, RamSet
  <2>3. flash' = flash /\ ram' = ChainFull /\ op' = rest
    BY <2>1 DEF Notes
  <2>4. PlacedNew(flash, ChainFull, rest) /\ InsertsCurrent(flash, rest)
    BY <1>6, <1>7 DEF PlacedNew, InsertsCurrent, Inserting
  <2>5. Counted(flash, ChainFull, rest)
    BY <1>1, <1>2, <1>6, <2>2, LInvParts DEF Counted
  <2> QED
    BY <2>3, <2>4, <2>5, QuietTally
<1>9. CASE FreeProbes(sl.key) # {}
  <2>1. Does(SlotAt(FirstFree(sl.key), sl), Inserted(sl), c, rest)
    BY <1>1, <1>9 DEF CopySlot, rest
  <2> HIDE DEF sl, c
  <2>2. sl \in MarkSlots \cup WholeSlots /\ NewSlot(sl)
    BY <1>4, <1>5 DEF NewSlot
  <2>3. GoesOn(rest, sl)
    BY <1>1, <1>5, <1>6, <1>7 DEF GoesOn
  <2> QED
    BY <1>2, <1>5, <1>9, <2>1, <2>2, <2>3, InsertTallies
<1> QED
  BY <1>8, <1>9

LEMMA ReclaimTallies ==
  ASSUME SInv, JInv, LInv, Reclaim
  PROVE  LInv'
<1> DEFINE t == ram.tail
           named == {r \in Records(t) : NamedBy(ram.segEpoch[t], t, r) # {}}
<1>1. op.call = "room" /\ ram' = ram /\ flash' = flash /\ NextStep(op.budget, op.tried) = "Reclaim"
  BY DEF Reclaim, Notes
<1>2. op'.call = "reclaim" /\ op'.placed = <<>> /\ op'.named = Cardinality(named)
  BY DEF Reclaim, Notes
<1>3. Trusted(ram, op) /\ RingMirrored(flash, ram) /\ ram \in RamSet /\ t \in Segments
  BY <1>1, InCall, SInvParts DEF RamSet
<1> HIDE DEF named
<1>4. Range(op'.placed) = {} /\ Len(op'.placed) = 0
  <2>1. <<>> \in Seq(Nat) /\ Len(<<>>) = 0
    OBVIOUS
  <2> QED
    BY <1>2, <2>1, RangeFacts
<1>5. PlacedNew(flash, ram', op') /\ InsertsCurrent(flash, op')
  BY <1>2, <1>4 DEF PlacedNew, InsertsCurrent, Inserting
<1>6. Live(flash, t) /\ ram.segEpoch[t] = flash.seg[t].epoch
  <2>1. ram.live \in Nat
    BY <1>3, StoreFacts DEF RamSet
  <2>2. ram.live >= 2
    BY <1>1, <2>1, ReclaimRing
  <2>3. Dist(t, t) < ram.live
    BY <1>3, <2>1, <2>2, DistFacts
  <2> QED
    BY <1>3, <2>3, SInvParts, LiveEpochs DEF Live
<1>7. ASSUME ram.done
      PROVE  AllReach(flash) /\ (NoTorn(flash) => /\ ram.liveSlots = Cardinality(Current(flash))
                                                  /\ op'.named = Cardinality(CurrentIn(flash, t)))
  <2>1. AllReach(flash) /\ (NoTorn(flash) => ram.liveSlots = Cardinality(Current(flash)))
    BY <1>3, <1>7, LInvParts DEF Counted
  <2>2. NoTorn(flash) => Cardinality(named) = Cardinality(CurrentIn(flash, t))
    BY <1>3, <1>6, <2>1, LInvParts, NamedInTail DEF named
  <2> QED
    BY <1>2, <2>1, <2>2
<1>8. Counted(flash, ram', op')
  BY <1>1, <1>7 DEF Counted
<1> QED
  BY <1>1, <1>5, <1>8, QuietTally

----------------------------------------------------------------------------
(* Rebuilding the index. *)

\* An index with nothing in it.
LEMMA BlankFit ==
  ASSUME NEW f, f.index = BlankIndex
  PROVE  Fit(f) /\ Current(f) = {} /\ InUse(f.index) = {} /\ AllReach(f) /\ NoTorn(f)
<1>1. \A i \in Slots : f.index[i] \notin GlyphSlots
  BY BlankNamesNone
<1>2. Current(f) = {}
  BY <1>1 DEF Current, WholeSlots
<1> QED
  BY <1>1, <1>2, BlankCounts DEF Fit, Once, AllReach, NoTorn

\* An index erased in part, by a rebuild or a wipe on record.
LEMMA EraseIndexFit ==
  ASSUME SInv, LInv, flash.wipe \/ ~DoneOf(flash.journal)
  PROVE  \A f \in Torn(Do("eraseIndex")) : Fit(f)
<1> SUFFICES ASSUME NEW f \in Torn(Do("eraseIndex")) PROVE Fit(f)
  OBVIOUS
<1>1. CASE f = flash
  BY <1>1, LInvParts
<1>2. ASSUME NEW n \in Slots, f = [flash EXCEPT !.index = [i \in Slots |-> IF i < n THEN Erased ELSE flash.index[i]]]
      PROVE  Fit(f)
  <2> DEFINE index == [i \in Slots |-> IF i < n THEN Erased ELSE flash.index[i]]
  <2>1. \A i \in Slots : index[i] \in {Erased, flash.index[i]}
    OBVIOUS
  <2>2. f = [flash EXCEPT !.index = index]
    BY <1>2
  <2> HIDE DEF index
  <2>3. f.index = index /\ f.seg = flash.seg /\ f.journal = flash.journal /\ f.wipe = flash.wipe
    BY <2>2, LogTyped DEF FlashSet
  <2>4. Erased \notin WholeSlots
    BY SlotKinds DEF WholeSlots
  <2>5. \A i \in Current(f) : i \in Current(flash) /\ f.index[i] = flash.index[i]
    BY <2>1, <2>3, <2>4 DEF Current, Live, Exact
  <2>6. Once(f)
    BY <2>5, LInvParts, OnceLess
  <2> QED
    BY <2>3, <2>6 DEF Fit
<1> QED
  BY <1>1, <1>2, TornEraseIndex

LEMMA RebuildTallies ==
  ASSUME SInv, LInv, Rebuild
  PROVE  LInv'
<1> DEFINE then == Room(op.budget, op.steps - 1, TRUE)
           wipe == [call |-> "wipe", todo |-> WipeSteps, then |-> [then EXCEPT !.steps = 0]]
           eats == [ram EXCEPT !.starved = FALSE]
           o == [call |-> "rebuild", stage |-> "base", plan |-> Plan, inserted |-> 0, room |-> then, base |-> BaseOf(ram)]
           starves == [ram EXCEPT !.starved = TRUE]
<1>1. /\ op.call = "room"
      /\ \/ Notes(Failed, wipe)
         \/ Notes(eats, o)
         \/ Failing /\ ram' = starves /\ op' = then /\ UNCHANGED <<flash, count>>
  BY DEF Rebuild, Failed, BaseOf
<1>2. Trusted(ram, op) /\ ram \in RamSet
  BY <1>1, SInvParts, InCall
<1>3. then.call = "room" /\ wipe.call = "wipe" /\ o.call = "rebuild" /\ o.stage = "base"
  BY DEF Room
<1>4. /\ Failed.done = ram.done /\ Failed.liveSlots = ram.liveSlots
      /\ eats.done = ram.done /\ eats.liveSlots = ram.liveSlots
      /\ starves.done = ram.done /\ starves.liveSlots = ram.liveSlots
  BY <1>2 DEF RamSet, Failed
<1> HIDE DEF then, wipe, eats, o, starves
<1>5. CASE Notes(Failed, wipe)
  BY <1>2, <1>3, <1>4, <1>5, NotedTally
<1>6. CASE Notes(eats, o)
  <2>1. flash' = flash /\ ram' = eats /\ op' = o
    BY <1>6 DEF Notes
  <2>2. PlacedNew(flash, eats, o) /\ InsertsCurrent(flash, o)
    BY <1>3 DEF PlacedNew, InsertsCurrent, Inserting
  <2>3. Counted(flash, eats, o)
    BY <1>2, <1>3, <1>4, LInvParts DEF Counted
  <2> QED
    BY <2>1, <2>2, <2>3, QuietTally
<1>7. CASE Failing /\ ram' = starves /\ op' = then /\ UNCHANGED <<flash, count>>
  <2>1. PlacedNew(flash, starves, then) /\ InsertsCurrent(flash, then)
    BY <1>3 DEF PlacedNew, InsertsCurrent, Inserting
  <2>2. Counted(flash, starves, then)
    BY <1>2, <1>3, <1>4, LInvParts DEF Counted
  <2> QED
    BY <1>7, <2>1, <2>2, QuietTally
<1> QED
  BY <1>1, <1>5, <1>6, <1>7

\* With a rebuild begun the slots of glyphs need not all be found.
LEMMA RebuildBaseTallies ==
  ASSUME SInv, LInv, RebuildBase
  PROVE  LInv'
<1> DEFINE r == [ram EXCEPT !.entries = @ + 1, !.done = FALSE]
           o == [op EXCEPT !.stage = "erase"]
           g == Written(Base(op.base))
<1>1. op.call = "rebuild" /\ Does(Base(op.base), r, count, o)
  BY DEF RebuildBase
<1>2. op \in RebuildSet /\ op.base \in Nat /\ ram \in RamSet
  BY <1>1, RebuildIs
<1>3. Safe(Base(op.base)) /\ flash \in FlashSet /\ flash.journal \in Seq(Entry)
  BY <1>2, SInvParts, SafeIndex, SaneParts DEF FlashSane
<1>4. ASSUME NEW b \in Nat, NEW f, f = [flash EXCEPT !.journal = Append(@, [base |-> b, done |-> FALSE])]
      PROVE  Fit(f)
  <2>1. /\ f.seg = flash.seg /\ f.index = flash.index
        /\ f.journal = Append(flash.journal, [base |-> b, done |-> FALSE])
    BY <1>3, <1>4 DEF FlashSet
  <2>2. ~DoneOf(f.journal)
    <3> DEFINE k == f.journal
    <3>1. k = Append(flash.journal, [base |-> b, done |-> FALSE])
      BY <2>1
    <3> HIDE DEF k
    <3>2. k # <<>> /\ k[Len(k)] = [base |-> b, done |-> FALSE]
      BY <1>3, <3>1, FloorBegun
    <3>3. ~DoneOf(k)
      BY <3>2 DEF DoneOf
    <3> QED
      BY <3>3 DEF k
  <2>3. Current(f) = Current(flash)
    BY <2>1 DEF Current, Live, Exact
  <2>4. Once(f)
    BY <2>1, <2>3, LInvParts, OnceLess
  <2> QED
    BY <2>2, <2>4 DEF Fit
<1>5. Fit(g)
  BY <1>2, <1>4, WrittenBase
<1>6. \A f \in Torn(Base(op.base)) : Fit(f)
  <2>1. 0 \in Nat
    OBVIOUS
  <2> QED
    BY <1>4, <2>1, LInvParts, TornBase
<1>7. o.call = "rebuild" /\ o.stage = "erase" /\ r.done = FALSE
  BY <1>1, <1>2 DEF RebuildSet, RamSet
<1> HIDE DEF o, g, r
<1>8. PlacedNew(g, r, o) /\ InsertsCurrent(g, o) /\ Counted(g, r, o)
  BY <1>7 DEF PlacedNew, InsertsCurrent, Inserting, Counted
<1> QED
  BY <1>1, <1>3, <1>5, <1>6, <1>8, DoesTally DEF Tallied, g

\* A rebuild under way is not done.
LEMMA NotDone ==
  ASSUME SInv, op.call = "rebuild", op.stage # "base"
  PROVE  ~DoneOf(flash.journal) /\ ~ram.done
<1>1. RebuildSane(flash, op) /\ JournalMirrored(flash, ram)
  BY RebuildIs
<1>2. Len(flash.journal) > 0 /\ flash.journal[Len(flash.journal)] = [base |-> op.base, done |-> FALSE]
  BY <1>1 DEF RebuildSane
<1>3. flash.journal # <<>>
  <2>1. Len(<<>>) = 0
    OBVIOUS
  <2> QED
    BY <1>2, <2>1
<1>4. ~DoneOf(flash.journal)
  BY <1>2, <1>3 DEF DoneOf
<1> QED
  BY <1>1, <1>4 DEF JournalMirrored, DoneOf

LEMMA RebuildEraseTallies ==
  ASSUME SInv, LInv, RebuildErase
  PROVE  LInv'
<1> DEFINE o == [op EXCEPT !.stage = "insert"]
           g == Written(Do("eraseIndex"))
<1>1. op.call = "rebuild" /\ op.stage = "erase" /\ Does(Do("eraseIndex"), ram, NoCounts, o)
  BY DEF RebuildErase
<1>2. op \in RebuildSet /\ ~DoneOf(flash.journal) /\ ~ram.done
  BY <1>1, RebuildIs, NotDone
<1>3. Safe(Do("eraseIndex"))
  BY SInvParts, SafeIndex
<1>4. g.index = BlankIndex
  <2>1. g = [flash EXCEPT !.index = BlankIndex]
    BY WrittenEraseIndex
  <2> HIDE DEF g
  <2> QED
    BY <2>1, LogTyped DEF FlashSet
<1> HIDE DEF g
<1>5. o.call = "rebuild"
  BY <1>1, <1>2 DEF RebuildSet
<1> HIDE DEF o
<1>6. Fit(g) /\ AllReach(g) /\ NoTorn(g) /\ InUse(g.index) = {}
  BY <1>4, BlankFit
<1>7. PlacedNew(g, ram, o) /\ InsertsCurrent(g, o) /\ Counted(g, ram, o)
  BY <1>2, <1>5, <1>6 DEF PlacedNew, InsertsCurrent, Counted
<1>8. Tallied(g, ram, o)
  BY <1>6, <1>7 DEF Tallied
<1> QED
  BY <1>1, <1>2, <1>3, <1>8, EraseIndexFit, DoesTally DEF g

\* A slot that names a record leads a lookup to it.
LEMMA NamedValid ==
  ASSUME SInv, RingMirrored(flash, ram), NEW sl \in WholeSlots, NEW w, Names(flash, sl, w)
  PROVE  ValidRecord(sl.key, sl.value) # {}
<1> DEFINE k == sl.key  s == sl.value.seg
<1>0. sl \in GlyphSlots /\ k \in Glyphs /\ k \in Keys /\ s \in Segments
  BY SlotKinds DEF WholeSlots, Keys
<1>1. PICK r \in flash.seg[s].recs : r.key = k /\ r.at = sl.value.at
  BY DEF Names, Backed
<1>2. k # Scrap
  BY <1>0, SlotKinds
<1>3. r \in Records(s)
  BY <1>1, <1>2 DEF Records
<1>4. ram.segEpoch[s] = sl.value.epoch /\ ram.segEpoch[s] # 0
  <2>1. Dist(ram.tail, s) < ram.live
    BY <1>0, RingLive DEF Names
  <2> QED
    BY <1>0, <2>1, SInvParts, LiveEpochs DEF Names, Exact
<1>5. flash.seg[s].recs \in SUBSET RecordSet /\ r.end <= Cap
  BY <1>0, <1>1, LogTyped, RecordParts
<1>6. s = ram.head => r.end <= ram.used
  <2>1. ram.live > 0
    BY <1>0, RingLive, DistNat DEF Names
  <2>2. ram.used = Fill(flash.seg[ram.head].recs)
    BY <2>1 DEF RingMirrored
  <2> QED
    BY <1>1, <1>5, <2>2, FillFacts
<1>7. r \in ValidRecord(k, sl.value)
  BY <1>1, <1>3, <1>4, <1>5, <1>6 DEF ValidRecord
<1> QED
  BY <1>7

\* A lookup finds a key whose slot its probes reach, when the slot's record is there.
LEMMA FindsIt ==
  ASSUME SInv, AllReach(flash), RingMirrored(flash, ram), ram.open, NEW sl \in WholeSlots, NEW w, Names(flash, sl, w),
         NEW j \in Slots, flash.index[j] = sl
  PROVE  Find(sl.key) = "Found"
<1> DEFINE k == sl.key  s == sl.value.seg
<1>1. sl \in GlyphSlots /\ k \in Glyphs /\ k \in Keys /\ s \in Segments
  BY SlotKinds DEF WholeSlots, Keys
<1>2. ValidRecord(k, sl.value) # {}
  BY NamedValid
<1>3. PICK p \in Probes : Probe(k, p) = j /\ \A q \in 0 .. p : flash.index[Probe(k, q)] # Erased
  BY <1>1 DEF AllReach, ReachedIn
<1> DEFINE stops == {q \in Probes : Stops(k, q)}
           m == Min(stops)
<1>4. Stops(k, p)
  BY <1>2, <1>3 DEF Stops
<1>5. m \in stops /\ \A q \in stops : m <= q
  <2>1. stops \in SUBSET Nat /\ stops # {}
    BY <1>4, StoreFacts DEF Probes
  <2> HIDE DEF stops
  <2> QED
    BY <2>1, MinOfNat
<1>6. m \in Probes /\ Stops(k, m) /\ m <= p
  BY <1>4, <1>5
<1>7. FindAt(k) = flash.index[Probe(k, m)]
  BY <1>4 DEF FindAt
<1> HIDE DEF stops, m, k
<1>8. flash.index[Probe(k, m)] # Erased
  <2>1. m \in Nat /\ p \in Nat
    BY <1>6, StoreFacts DEF Probes
  <2> QED
    BY <1>3, <1>6, <2>1
<1>9. flash.index[Probe(k, m)].key = k /\ Probe(k, m) \in Slots
  BY <1>1, <1>6, <1>8, ProbeIn DEF Stops, SlotErased
<1>10. flash.index[Probe(k, m)] \in GlyphSlots
  BY <1>1, <1>9, LogTyped, SInvParts, SaneParts, GlyphKeySlot
<1>11. FindAt(k).value # NoGlyph
  BY <1>7, <1>10, SlotKinds
<1> QED
  BY <1>7, <1>8, <1>11 DEF Find, SlotErased, k

\* Every slot a rebuild writes is current, and written once.
LEMMA RebuildInsertTallies ==
  ASSUME SInv, JInv, LInv, RebuildInsert
  PROVE  LInv'
<1> DEFINE e == Head(op.plan)
           sl == Head(op.plan).slot
           k == sl.key
           rest == [op EXCEPT !.plan = Tail(@)]
           more == [rest EXCEPT !.inserted = @ + 1]
           c == [count EXCEPT ![FirstFree(k)] = Head(op.plan).count]
           g == Written(SlotAt(FirstFree(k), sl))
<1>1. /\ op.call = "rebuild" /\ op.stage = "insert" /\ op.plan # <<>>
      /\ \/ Notes(ram, rest)
         \/ StopWrites
         \/ Find(k) # "Found" /\ FreeProbes(k) # {} /\ Does(SlotAt(FirstFree(k), sl), ram, c, more)
  BY DEF RebuildInsert
<1>2. /\ op \in RebuildSet /\ ram.open /\ RingMirrored(flash, ram) /\ op.plan \in Seq(PlanSet)
      /\ ~DoneOf(flash.journal) /\ ~ram.done
  BY <1>1, RebuildIs, NotDone
<1>3. e \in PlanSet /\ e \in Range(op.plan)
  BY <1>1, <1>2, HeadTail, RangeFacts
<1>4. sl \in WholeSlots /\ k \in Keys /\ sl # Erased /\ sl \in GlyphSlots
  BY <1>3, SlotKinds DEF PlanSet, WholeSlots, GlyphSlots, Keys
<1>5. Names(flash, sl, faults <= 1)
  BY <1>1, <1>3, JInvParts DEF PlanTrue
<1>6. AllReach(flash) /\ NoTorn(flash) /\ InUse(flash.index) \subseteq Current(flash)
  BY <1>1, LInvParts DEF InsertsCurrent, Inserting
<1>7. rest.call = "rebuild" /\ rest.stage = "insert" /\ more.call = "rebuild" /\ more.stage = "insert"
  BY <1>1, <1>2 DEF RebuildSet
<1> HIDE DEF e, sl, rest, more
<1>8. CASE Notes(ram, rest)
  <2>1. PlacedNew(flash, ram, rest) /\ InsertsCurrent(flash, rest) /\ Counted(flash, ram, rest)
    BY <1>2, <1>6, <1>7 DEF PlacedNew, InsertsCurrent, Counted
  <2>2. flash' = flash /\ ram' = ram /\ op' = rest
    BY <1>8 DEF Notes
  <2> QED
    BY <2>1, <2>2, QuietTally
<1>9. CASE Find(k) # "Found" /\ FreeProbes(k) # {} /\ Does(SlotAt(FirstFree(k), sl), ram, c, more)
  <2>1. \A j \in Slots : flash.index[j] # sl
    BY <1>2, <1>4, <1>5, <1>6, <1>9, FindsIt
  <2>2. Puts(g, k, sl)
    BY WrittenSlot DEF Puts
  <2>3. Safe(SlotAt(FirstFree(k), sl))
    BY <1>4, <1>9, FirstFreeIs, SInvParts, SafeSlot
  <2>4. \A f \in Torn(SlotAt(FirstFree(k), sl)) : Fit(f)
    BY <1>4, <1>9, InsertFit
  <2> HIDE DEF g
  <2>5. PutIs(g, k, sl)
    BY <1>4, <1>9, <2>2, SlotPut
  <2>6. Fit(g) /\ Current(g) = Current(flash) \cup {FirstFree(k)}
    <3>1. Live(flash, sl.value.seg) /\ Exact(flash, sl)
      BY <1>5 DEF Names
    <3> QED
      BY <1>4, <1>9, <2>1, <2>2, <3>1, PutCurrent
  <2>7. AllReach(g) /\ NoTorn(g)
    <3>1. AllReach(g) /\ \A j \in Slots : g.index[j] \in {sl, flash.index[j]}
      BY <1>6, <2>5 DEF PutIs
    <3>2. ~sl.torn
      BY <1>4 DEF WholeSlots
    <3> QED
      BY <1>6, <3>1, <3>2 DEF NoTorn
  <2>8. InUse(g.index) \subseteq Current(g)
    BY <1>6, <2>5, <2>6 DEF PutIs, InUse
  <2>9. PlacedNew(g, ram, more) /\ InsertsCurrent(g, more) /\ Counted(g, ram, more)
    BY <1>2, <1>7, <2>7, <2>8 DEF PlacedNew, InsertsCurrent, Counted
  <2>10. Tallied(g, ram, more)
    BY <2>6, <2>9 DEF Tallied
  <2> QED
    BY <1>9, <2>3, <2>4, <2>10, DoesTally DEF g
<1> QED
  BY <1>1, <1>8, <1>9, StopWritesTallies

\* A rebuild done has counted the current slots.
LEMMA RebuildDoneTallies ==
  ASSUME SInv, LInv, RebuildDone
  PROVE  LInv'
<1> DEFINE r == [ram EXCEPT !.done = TRUE, !.floor = op.base, !.usedSlots = op.inserted, !.liveSlots = op.inserted,
                            !.marks = 0, !.indexFull = FALSE, !.chainFull = FALSE]
           g == Written(Do("done"))
<1>1. op.call = "rebuild" /\ op.stage = "insert" /\ Does(Do("done"), r, count, op.room)
  BY DEF RebuildDone
<1>2. /\ op \in RebuildSet /\ RebuildSane(flash, op) /\ Mirrored(flash, ram, op) /\ ram \in RamSet
      /\ op.inserted \in Nat /\ op.room \in RoomSet
  BY <1>1, RebuildIs
<1>3. Len(flash.journal) > 0
  BY <1>1, <1>2 DEF RebuildSane
<1>4. op.inserted = Cardinality(InUse(flash.index))
  BY <1>1, <1>2 DEF Mirrored, Inserting
<1>5. Safe(Do("done"))
  BY <1>3, SInvParts, SafeIndex
<1>6. g.seg = flash.seg /\ g.index = flash.index
  <2>1. g = [flash EXCEPT !.journal[Len(flash.journal)].done = TRUE]
    BY WrittenDone
  <2> HIDE DEF g
  <2> QED
    BY <2>1, LogTyped DEF FlashSet
<1> HIDE DEF g
<1>7. AllReach(flash) /\ InUse(flash.index) \subseteq Current(flash)
  BY <1>1, LInvParts DEF InsertsCurrent, Inserting
<1>8. Current(flash) \subseteq InUse(flash.index)
  BY SlotKinds DEF Current, WholeSlots, InUse
<1>9. Current(g) = Current(flash) /\ Current(flash) = InUse(flash.index)
  BY <1>6, <1>7, <1>8 DEF Current, Live, Exact
<1>10. AllReach(g)
  BY <1>6, <1>7, ReachSame
<1>11. Fit(g)
  <2>1. Once(g)
    BY <1>6, <1>9, LInvParts, OnceLess
  <2> QED
    BY <1>10, <2>1 DEF Fit
<1>12. \A f \in Torn(Do("done")) : Fit(f)
  BY <1>11, LInvParts, TornState DEF g
<1>13. r.liveSlots = op.inserted
  BY <1>2 DEF RamSet
<1> HIDE DEF r
<1>14. op.room.call = "room"
  BY <1>2, OpCalls
<1>15. PlacedNew(g, r, op.room) /\ InsertsCurrent(g, op.room) /\ Counted(g, r, op.room)
  BY <1>4, <1>9, <1>10, <1>13, <1>14, QuietCalls
<1>16. Tallied(g, r, op.room)
  BY <1>11, <1>15 DEF Tallied
<1> QED
  BY <1>1, <1>5, <1>12, <1>16, DoesTally DEF g

----------------------------------------------------------------------------
(* Wiping, and every behaviour. *)

\* A part of a wipe, but the last: nothing is counted until the store is empty.
LEMMA WipePartTallies ==
  ASSUME SInv, LInv, NEW what, Safe(Do(what)), op \in WipeSet, ram.wipe, ram.stopped, NEW rest, NEW o, o = [op EXCEPT !.todo = rest],
         Does(Do(what), ram, count, o), \A f \in Torn(Do(what)) : Fit(f), Fit(Written(Do(what)))
  PROVE  LInv'
<1> DEFINE g == Written(Do(what))
<1>1. o.call = "wipe"
  BY OpCalls DEF WipeSet
<1> HIDE DEF g
<1>2. PlacedNew(g, ram, o) /\ InsertsCurrent(g, o) /\ Counted(g, ram, o)
  BY <1>1, QuietCalls DEF Trusted
<1>3. Tallied(g, ram, o)
  BY <1>2 DEF Tallied, g
<1> QED
  BY <1>3, DoesTally DEF g

\* The log and the state of a store whose index is erased.
LEMMA WipedFit ==
  ASSUME SInv, LInv, flash.index = BlankIndex
  PROVE  /\ \A f \in Torn(Do("eraseLog")) \cup {Written(Do("eraseLog"))} : Fit(f)
         /\ \A f \in Torn(Do("eraseState")) \cup {Written(Do("eraseState"))} : Fit(f)
         /\ Written(Do("eraseState")).index = BlankIndex
<1>1. \A x : [flash EXCEPT !.seg = x].index = BlankIndex
  BY LogTyped DEF FlashSet
<1>2. [flash EXCEPT !.journal = <<>>, !.wipe = FALSE].index = BlankIndex
  BY LogTyped DEF FlashSet
<1>3. \A f \in Torn(Do("eraseLog")) \cup {Written(Do("eraseLog"))} : f.index = BlankIndex
  <2> SUFFICES ASSUME NEW f \in Torn(Do("eraseLog")) \cup {Written(Do("eraseLog"))} PROVE f.index = BlankIndex
    OBVIOUS
  <2>1. f = flash \/ \E x : f = [flash EXCEPT !.seg = x]
    BY TornEraseLog, WrittenEraseLog
  <2> QED
    BY <1>1, <2>1
<1>4. \A f \in Torn(Do("eraseState")) \cup {Written(Do("eraseState"))} : f.index = BlankIndex
  <2> SUFFICES ASSUME NEW f \in Torn(Do("eraseState")) \cup {Written(Do("eraseState"))} PROVE f.index = BlankIndex
    OBVIOUS
  <2>1. f = flash \/ f = Written(Do("eraseState"))
    BY TornState
  <2>2. f = flash \/ f = [flash EXCEPT !.journal = <<>>, !.wipe = FALSE]
    BY <2>1, WrittenEraseState
  <2> QED
    BY <1>2, <2>2
<1> QED
  BY <1>3, <1>4, BlankFit

LEMMA WipeStepTallies ==
  ASSUME SInv, LInv, WipeStep
  PROVE  LInv'
<1> DEFINE T3 == <<"eraseIndex", "eraseLog", "eraseState">>
           T2 == <<"eraseLog", "eraseState">>
           T1 == <<"eraseState">>
<1>1. op.call = "wipe"
  BY DEF WipeStep
<1>2. op \in WipeSet /\ WipeSane(flash, op) /\ ram.open /\ ram.wipe /\ ram.stopped
  BY <1>1, SInvParts, OpIs
<1>3. op.todo \in {WipeSteps, T3, T2, T1} /\ op.then \in {None} \cup RoomSet
  BY <1>2 DEF WipeSet, WipeTails
<1>4. Intact(flash) /\ flash \in FlashSet
  BY SInvParts DEF FlashSane
<1>5. /\ Len(op.todo) = 1 => Does(Do(Head(op.todo)), Fresh, NoCounts, op.then)
      /\ Len(op.todo) # 1 => Does(Do(Head(op.todo)), ram, count, [op EXCEPT !.todo = Tail(@)])
  BY DEF WipeStep, Fresh
<1>6. CASE op.todo = WipeSteps
  <2> DEFINE o == [op EXCEPT !.todo = T3]
  <2>1. Does(Do("wipe"), ram, count, o)
    BY <1>5, <1>6, WipeTailsAre
  <2>2. Safe(Do("wipe"))
    BY <1>4, SafeIndex
  <2>3. Fit(Written(Do("wipe"))) /\ \A f \in Torn(Do("wipe")) : Fit(f)
    BY WipeFit
  <2> HIDE DEF o
  <2> QED
    BY <1>2, <2>1, <2>2, <2>3, WipePartTallies DEF o
<1>7. CASE op.todo = T3
  <2> DEFINE o == [op EXCEPT !.todo = T2]
             g == Written(Do("eraseIndex"))
  <2>1. Does(Do("eraseIndex"), ram, count, o)
    BY <1>5, <1>7, WipeTailsAre
  <2>2. Safe(Do("eraseIndex"))
    BY <1>4, SafeIndex
  <2>3. flash.wipe
    BY <1>2, <1>7, WipeTailsAre DEF WipeSane
  <2>4. \A f \in Torn(Do("eraseIndex")) : Fit(f)
    BY <2>3, EraseIndexFit
  <2>5. g.index = BlankIndex
    <3>1. g = [flash EXCEPT !.index = BlankIndex]
      BY WrittenEraseIndex
    <3> HIDE DEF g
    <3> QED
      BY <1>4, <3>1 DEF FlashSet
  <2> HIDE DEF g
  <2>6. Fit(g)
    BY <2>5, BlankFit
  <2> HIDE DEF o
  <2> QED
    BY <1>2, <2>1, <2>2, <2>4, <2>6, WipePartTallies DEF o, g
<1>8. CASE op.todo = T2
  <2> DEFINE o == [op EXCEPT !.todo = T1]
  <2>1. Does(Do("eraseLog"), ram, count, o)
    BY <1>5, <1>8, WipeTailsAre
  <2>2. flash.wipe /\ flash.index = BlankIndex
    BY <1>2, <1>8, WipeTailsAre DEF WipeSane
  <2>3. Safe(Do("eraseLog"))
    BY <1>4, <2>2, SafeWipe
  <2>4. Fit(Written(Do("eraseLog"))) /\ \A f \in Torn(Do("eraseLog")) : Fit(f)
    BY <2>2, WipedFit
  <2> HIDE DEF o
  <2> QED
    BY <1>2, <2>1, <2>3, <2>4, WipePartTallies DEF o
<1>9. CASE op.todo = T1
  <2> DEFINE g == Written(Do("eraseState"))
  <2>1. Does(Do("eraseState"), Fresh, NoCounts, op.then)
    BY <1>5, <1>9, WipeTailsAre
  <2>2. flash.wipe /\ flash.index = BlankIndex /\ flash.seg = [s \in Segments |-> BlankSegment]
    BY <1>2, <1>9, WipeTailsAre DEF WipeSane
  <2>3. Safe(Do("eraseState"))
    BY <1>4, <2>2, SafeWipe
  <2>4. g.index = BlankIndex /\ \A f \in Torn(Do("eraseState")) : Fit(f)
    BY <2>2, WipedFit
  <2> HIDE DEF g
  <2>5. Fit(g) /\ Current(g) = {} /\ AllReach(g)
    BY <2>4, BlankFit
  <2>6. op.then.call \in {"none", "room"}
    BY <1>3, OpCalls
  <2>7. Fresh.liveSlots = Cardinality(Current(g))
    BY <2>5, FS_EmptySet DEF Fresh, Closed
  <2>8. PlacedNew(g, Fresh, op.then) /\ InsertsCurrent(g, op.then) /\ Counted(g, Fresh, op.then)
    BY <2>5, <2>6, <2>7, QuietCalls
  <2>9. Tallied(g, Fresh, op.then)
    BY <2>5, <2>8 DEF Tallied
  <2> QED
    BY <2>1, <2>3, <2>4, <2>9, DoesTally DEF g
<1> QED
  BY <1>3, <1>6, <1>7, <1>8, <1>9

LEMMA InitTallies ==
  ASSUME Init
  PROVE  LInv
<1>1. flash = Blank /\ ram = Fresh /\ op = None /\ Blank.index = BlankIndex
  BY DEF Init, Fresh, Blank
<1>2. Fit(Blank) /\ Current(Blank) = {} /\ AllReach(Blank)
  BY <1>1, BlankFit
<1>3. Fresh.liveSlots = Cardinality(Current(Blank))
  BY <1>2, FS_EmptySet DEF Fresh, Closed
<1>4. PlacedNew(Blank, Fresh, None) /\ InsertsCurrent(Blank, None) /\ Counted(Blank, Fresh, None)
  BY <1>2, <1>3, QuietCalls, OpCalls
<1> QED
  BY <1>1, <1>2, <1>4 DEF LInv, Tallied

LEMMA StepTallies ==
  ASSUME SInv, JInv, LInv, [Next]_vars
  PROVE  LInv'
<1>1. CASE Open
  BY <1>1, OpenTallies
<1>2. CASE MoveHead
  BY <1>2, MoveHeadTallies
<1>3. CASE PlaceRecord
  BY <1>3, PlaceRecordTallies
<1>4. CASE CommitSlot
  BY <1>4, CommitSlotTallies
<1>5. CASE Reclaim
  BY <1>5, ReclaimTallies
<1>6. CASE CopySlot
  BY <1>6, CopySlotTallies
<1>7. CASE RetireTail
  BY <1>7, RetireTailTallies
<1>8. CASE EraseTail
  BY <1>8, EraseTailTallies
<1>9. CASE Rebuild
  BY <1>9, RebuildTallies
<1>10. CASE RebuildBase
  BY <1>10, RebuildBaseTallies
<1>11. CASE RebuildErase
  BY <1>11, RebuildEraseTallies
<1>12. CASE RebuildInsert
  BY <1>12, RebuildInsertTallies
<1>13. CASE RebuildDone
  BY <1>13, RebuildDoneTallies
<1>14. CASE WipeStep
  BY <1>14, WipeStepTallies
<1>15. CASE LastFace
  BY <1>15, LastFaceTallies
<1>16. CASE RoomMade \/ Wipe \/ MarkFull \/ \E budget \in {"Idle", "Open"} : MakeRoom(budget)
  BY <1>16, FlagsTally
<1>17. ASSUME NEW b \in Batches, Commit(b) PROVE LInv'
  BY <1>17, CommitTallies
<1>18. ASSUME NEW k \in Blanks, MarkNoGlyph(k) PROVE LInv'
  BY <1>18, MarkNoGlyphTallies
<1>19. ASSUME NEW k \in Glyphs, NoteDrawn(k) PROVE LInv'
  <2>1. flash' = flash /\ ram' = ram /\ op' = op
    BY <1>19 DEF NoteDrawn
  <2> QED
    BY <2>1, SameTally
<1>20. CASE UNCHANGED vars
  <2>1. flash' = flash /\ ram' = ram /\ op' = op
    BY <1>20 DEF vars
  <2> QED
    BY <2>1, SameTally
<1> QED
  BY <1>1, <1>2, <1>3, <1>4, <1>5, <1>6, <1>7, <1>8, <1>9, <1>10, <1>11, <1>12, <1>13, <1>14, <1>15, <1>16,
     <1>17, <1>18, <1>19, <1>20 DEF Next, Proceed

\* What open() would find is what the session has.
LEMMA FoundThere ==
  ASSUME SInv, JInv, LInv
  PROVE  OpenFindsWhatWasThere
<1> SUFFICES ASSUME Ready, ~ram.wipe
             PROVE  /\ SameMirror(ram, Reopened)
                    /\ ram.done /\ TornGlyphSlots = {} => ram.liveSlots = Reopened.liveSlots
  <2> SUFFICES ASSUME Ready, ~ram.wipe,
                      NEW f \in {"segEpoch", "head", "tail", "live", "used", "next", "usedSlots", "marks", "entries", "done", "floor"}
                                \cup (IF ram.done /\ TornGlyphSlots = {} THEN {"liveSlots"} ELSE {})
               PROVE  ram[f] = Reopened[f]
    BY DEF OpenFindsWhatWasThere
  <2> QED
    BY DEF SameMirror
<1>1. Trusted(ram, op) /\ RingMirrored(flash, ram) /\ JournalMirrored(flash, ram) /\ CountsMirrored(flash, ram)
  BY WhenReady
<1>2. SameMirror(ram, Reopened)
  BY <1>1, FoundAgain
<1>3. ASSUME ram.done, TornGlyphSlots = {}
      PROVE  ram.liveSlots = Reopened.liveSlots
  <2>1. NoTorn(flash)
    BY <1>3, SlotKinds DEF NoTorn, TornGlyphSlots
  <2>2. AllReach(flash) /\ ram.liveSlots = Cardinality(Current(flash))
    BY <1>1, <1>3, <2>1, LInvParts DEF Counted
  <2>3. HasRing(flash.seg)
    BY <1>1, RingLive DEF RingMirrored, HasRing
  <2> QED
    BY <2>1, <2>2, <2>3, LInvParts, FoundAreCurrent
<1> QED
  BY <1>2, <1>3

\* What a session keeps in RAM is what opening the store again would find, in every
\* behaviour: the ring, where writing resumes, the journal and the counts of slots,
\* those of live records too unless a rebuild or a slot was cut.
THEOREM OpenFindsIt == Spec => []OpenFindsWhatWasThere
<1>1. Init => SInv /\ JInv /\ LInv
  BY InitSound, InitTrue, InitTallies
<1>2. SInv /\ JInv /\ LInv /\ [Next]_vars => (SInv /\ JInv /\ LInv)'
  <2>1. SInv /\ [Next]_vars => SInv'
    BY StepKeeps
  <2>2. SInv /\ JInv /\ [Next]_vars => JInv'
    BY StepTrue
  <2> QED
    BY <2>1, <2>2, StepTallies
<1>3. SInv /\ JInv /\ LInv => OpenFindsWhatWasThere
  BY FoundThere
<1> QED
  BY <1>1, <1>2, <1>3, PTL DEF Spec

----------------------------------------------------------------------------
(* Lookups, of any flash and RAM; and what keeps one answered. *)

ValidIn(f, m, k, v) ==
  {r \in {x \in f.seg[v.seg].recs : x.key # Scrap} :
     /\ m.segEpoch[v.seg] # 0 /\ m.segEpoch[v.seg] % EpochMod = v.epoch % EpochMod
     /\ r.at = v.at /\ r.key = k
     /\ r.end <= (IF v.seg = m.head THEN m.used ELSE Cap)}
StopsIn(f, m, k, p) ==
  LET sl == f.index[Probe(k, p)]
  IN \/ sl = Erased
     \/ sl.key = k /\ (sl.value = NoGlyph \/ ValidIn(f, m, k, sl.value) # {})
FindAtIn(f, m, k) ==
  LET stops == {p \in Probes : StopsIn(f, m, k, p)}
  IN IF stops = {} THEN Erased ELSE f.index[Probe(k, Min(stops))]
FindIn(f, m, k) == IF ~m.open \/ FindAtIn(f, m, k) = Erased THEN "NotStored"
                   ELSE IF FindAtIn(f, m, k).value = NoGlyph THEN "NoGlyph" ELSE "Found"

\* The answer to a key of either kind, and the probe it comes from: a slot of the
\* key's that is reached, and whose record is there.
Answer(k) == IF k \in Blanks THEN "NoGlyph" ELSE "Found"
Answers(f, m, k, p) ==
  /\ \A q \in 0 .. p : f.index[Probe(k, q)] # Erased
  /\ f.index[Probe(k, p)].key = k
  /\ k \in Glyphs => ValidIn(f, m, k, f.index[Probe(k, p)].value) # {}

LEMMA FindHere == \A k : Find(k) = FindIn(flash, ram, k)
  BY DEF Find, FindAt, Stops, SlotErased, ValidRecord, Records, FindIn, FindAtIn, StopsIn, ValidIn

LEMMA FindNext == \A k : Find(k)' = FindIn(flash', ram', k)
  BY DEF Find, FindAt, Stops, SlotErased, ValidRecord, Records, FindIn, FindAtIn, StopsIn, ValidIn

\* A slot of a key's is a mark if the font has no glyph for it, and else one of a record's.
LEMMA KeySlot ==
  ASSUME NEW f, FlashSane(f), NEW i \in Slots, NEW k \in Keys, f.index[i].key = k
  PROVE  /\ f.index[i] # Erased
         /\ k \in Blanks <=> f.index[i].value = NoGlyph
         /\ k \in Blanks \/ k \in Glyphs
<1>1. f.index[i] \in SlotSet
  BY SaneParts
<1>2. k \in Glyphs \/ k \in Blanks
  BY DEF Keys
<1>3. k \in Glyphs => f.index[i] \in GlyphSlots
  BY <1>1, GlyphKeySlot
<1>4. k \in Blanks => f.index[i] \in MarkSlots
  BY <1>1, GlyphKeySlot
<1> QED
  BY <1>2, <1>3, <1>4, SlotKinds

LEMMA AnswerIs ==
  ASSUME NEW f, FlashSane(f), NEW m, m.open, NEW k \in Keys, NEW p \in Probes, Answers(f, m, k, p)
  PROVE  FindIn(f, m, k) = Answer(k)
<1> DEFINE stops == {q \in Probes : StopsIn(f, m, k, q)}
           n == Min(stops)
<1>1. f.index[Probe(k, p)].key = k /\ Probe(k, p) \in Slots
  BY ProbeIn DEF Answers
<1>2. StopsIn(f, m, k, p)
  BY <1>1, KeySlot DEF StopsIn, Answers
<1>3. n \in stops /\ \A q \in stops : n <= q
  <2>1. stops \in SUBSET Nat /\ stops # {}
    BY <1>2, StoreFacts DEF Probes
  <2> HIDE DEF stops
  <2> QED
    BY <2>1, MinOfNat
<1>4. n \in Probes /\ StopsIn(f, m, k, n) /\ n <= p
  BY <1>2, <1>3
<1>5. FindAtIn(f, m, k) = f.index[Probe(k, n)]
  BY <1>2 DEF FindAtIn
<1> HIDE DEF stops, n
<1>6. f.index[Probe(k, n)] # Erased
  <2>1. n \in 0 .. p
    BY <1>4, StoreFacts DEF Probes
  <2> QED
    BY <2>1 DEF Answers
<1>7. f.index[Probe(k, n)].key = k /\ Probe(k, n) \in Slots
  BY <1>4, <1>6, ProbeIn DEF StopsIn
<1>8. k \in Blanks <=> f.index[Probe(k, n)].value = NoGlyph
  BY <1>7, KeySlot
<1> QED
  BY <1>5, <1>6, <1>8 DEF FindIn, Answer

LEMMA Answered ==
  ASSUME NEW f, FlashSane(f), NEW m, NEW k \in Keys, FindIn(f, m, k) # "NotStored"
  PROVE  m.open /\ \E p \in Probes : Answers(f, m, k, p)
<1> DEFINE stops == {q \in Probes : StopsIn(f, m, k, q)}
           n == Min(stops)
<1>1. m.open /\ FindAtIn(f, m, k) # Erased
  BY DEF FindIn
<1>2. stops # {} /\ FindAtIn(f, m, k) = f.index[Probe(k, n)]
  BY <1>1 DEF FindAtIn
<1>3. n \in stops /\ \A q \in stops : n <= q
  <2>1. stops \in SUBSET Nat
    BY StoreFacts DEF Probes
  <2> HIDE DEF stops
  <2> QED
    BY <1>2, <2>1, MinOfNat
<1>4. n \in Probes /\ StopsIn(f, m, k, n) /\ \A q \in Probes : StopsIn(f, m, k, q) => n <= q
  BY <1>3
<1> HIDE DEF stops, n
<1>5. \A q \in 0 .. n : f.index[Probe(k, q)] # Erased
  <2> SUFFICES ASSUME NEW q \in 0 .. n PROVE f.index[Probe(k, q)] # Erased
    OBVIOUS
  <2>1. q \in Probes /\ (n <= q => q = n)
    BY <1>4, StoreFacts DEF Probes
  <2> QED
    BY <1>1, <1>2, <1>4, <2>1 DEF StopsIn
<1>6. f.index[Probe(k, n)].key = k /\ Probe(k, n) \in Slots
  BY <1>1, <1>2, <1>4, ProbeIn DEF StopsIn
<1>7. k \in Glyphs => f.index[Probe(k, n)].value # NoGlyph
  BY <1>6, KeySlot, StoreAssumption
<1>8. Answers(f, m, k, n)
  BY <1>1, <1>2, <1>4, <1>5, <1>6, <1>7 DEF Answers, StopsIn
<1> QED
  BY <1>1, <1>4, <1>8

\* The slots in use and the records of the ring's segments are still there.
Holds(g) ==
  /\ \A i \in Slots : flash.index[i] # Erased => g.index[i] = flash.index[i]
  /\ \A s \in Segments : ram.segEpoch[s] # 0 => flash.seg[s].recs \subseteq g.seg[s].recs
\* The segments of the ring have their epochs, and the head is as full, or a new one.
Follows(m) ==
  /\ \A s \in Segments : ram.segEpoch[s] # 0 => m.segEpoch[s] = ram.segEpoch[s]
  /\ \/ m.head = ram.head /\ m.used \in Nat /\ ram.used <= m.used
     \/ m.head \in Segments /\ ram.segEpoch[m.head] = 0

LEMMA ValidStays ==
  ASSUME SInv, NEW k, NEW v, v.seg \in Segments, NEW r \in ValidIn(flash, ram, k, v), NEW g, r \in g.seg[v.seg].recs,
         NEW m, m.segEpoch[v.seg] = ram.segEpoch[v.seg],
         \/ m.head = ram.head /\ m.used \in Nat /\ ram.used <= m.used
         \/ m.head \in Segments /\ ram.segEpoch[m.head] = 0
  PROVE  r \in ValidIn(g, m, k, v)
<1>1. /\ r \in flash.seg[v.seg].recs /\ r.key # Scrap /\ r.at = v.at /\ r.key = k
      /\ ram.segEpoch[v.seg] # 0 /\ ram.segEpoch[v.seg] % EpochMod = v.epoch % EpochMod
      /\ r.end <= (IF v.seg = ram.head THEN ram.used ELSE Cap)
  BY DEF ValidIn
<1>2. r.end \in Nat /\ r.end <= Cap /\ ram.used \in Nat
  <2>1. r \in RecordSet
    BY <1>1, SInvParts, SaneParts
  <2>2. ram.used \in Nat
    BY SInvParts, StoreFacts DEF RamSet
  <2> QED
    BY <2>1, <2>2, RecordParts
<1>3. r.end <= (IF v.seg = m.head THEN m.used ELSE Cap)
  <2>1. CASE m.head = ram.head /\ m.used \in Nat /\ ram.used <= m.used
    <3>1. r.end <= ram.used => r.end <= m.used
      BY <1>2, <2>1
    <3> QED
      BY <1>1, <1>2, <2>1, <3>1
  <2>2. CASE m.head \in Segments /\ ram.segEpoch[m.head] = 0
    BY <1>1, <1>2, <2>2
  <2> QED
    BY <2>1, <2>2
<1> QED
  BY <1>1, <1>3 DEF ValidIn

LEMMA StillFound ==
  ASSUME SInv, NEW g, FlashSane(g), Holds(g), NEW m, m.open, Follows(m), NEW k \in Keys, Find(k) # "NotStored"
  PROVE  FindIn(g, m, k) = Find(k)
<1>1. FlashSane(flash)
  BY SInvParts
<1>2. PICK p \in Probes : Answers(flash, ram, k, p)
  BY <1>1, FindHere, Answered
<1>3. ram.open /\ Find(k) = Answer(k)
  BY <1>1, <1>2, FindHere, Answered, AnswerIs
<1>4. /\ \A q \in 0 .. p : flash.index[Probe(k, q)] # Erased
      /\ flash.index[Probe(k, p)].key = k /\ Probe(k, p) \in Slots
  BY <1>2, ProbeIn DEF Answers
<1>5. \A q \in 0 .. p : q \in Probes /\ Probe(k, q) \in Slots /\ p \in 0 .. p
  BY StoreFacts, ProbeIn DEF Probes
<1>6. \A q \in 0 .. p : g.index[Probe(k, q)] = flash.index[Probe(k, q)]
  BY <1>4, <1>5 DEF Holds
<1>7. g.index[Probe(k, p)] = flash.index[Probe(k, p)]
  <2>1. p \in 0 .. p
    BY StoreFacts DEF Probes
  <2> QED
    BY <1>6, <2>1
<1>8. ASSUME k \in Glyphs
      PROVE  ValidIn(g, m, k, g.index[Probe(k, p)].value) # {}
  <2> DEFINE v == flash.index[Probe(k, p)].value
  <2>1. PICK r : r \in ValidIn(flash, ram, k, v)
    BY <1>2, <1>8 DEF Answers
  <2>2. v.seg \in Segments
    BY <1>1, <1>4, <1>8, SaneParts, GlyphKeySlot, SlotKinds
  <2> HIDE DEF v
  <2>3. r \in flash.seg[v.seg].recs /\ ram.segEpoch[v.seg] # 0
    BY <2>1 DEF ValidIn
  <2>4. r \in g.seg[v.seg].recs
    BY <2>2, <2>3 DEF Holds
  <2>5. /\ m.segEpoch[v.seg] = ram.segEpoch[v.seg]
        /\ \/ m.head = ram.head /\ m.used \in Nat /\ ram.used <= m.used
           \/ m.head \in Segments /\ ram.segEpoch[m.head] = 0
    BY <2>2, <2>3 DEF Follows
  <2>6. r \in ValidIn(g, m, k, v)
    BY <2>1, <2>2, <2>4, <2>5, ValidStays
  <2> QED
    BY <1>7, <2>6 DEF v
<1>9. Answers(g, m, k, p)
  BY <1>4, <1>6, <1>7, <1>8 DEF Answers
<1> QED
  BY <1>3, <1>9, AnswerIs

\* The slots in use and the segments of the ring stay, and no record is lost.
Keeps(g) ==
  /\ \A i \in Slots : flash.index[i] # Erased => g.index[i] = flash.index[i]
  /\ \A s \in Segments : Live(flash, s) =>
       Live(g, s) /\ g.seg[s].epoch = flash.seg[s].epoch /\ flash.seg[s].recs \subseteq g.seg[s].recs
AllKeep(p) == \A g \in Torn(p) \cup {Written(p)} : Keeps(g)
AllHold(p) == \A g \in Torn(p) \cup {Written(p)} : Holds(g)

LEMMA KeepsHolds ==
  ASSUME SInv, RingMirrored(flash, ram)
  PROVE  /\ \A g : Keeps(g) => Holds(g)
         /\ \A p : AllKeep(p) => AllHold(p)
<1>1. \A s \in Segments : ram.segEpoch[s] # 0 => Live(flash, s)
  BY RingLive
<1>2. \A g : Keeps(g) => Holds(g)
  BY <1>1 DEF Keeps, Holds
<1> QED
  BY <1>2 DEF AllKeep, AllHold

LEMMA KeepsSame ==
  ASSUME NEW g, g.seg = flash.seg, \A i \in Slots : flash.index[i] # Erased => g.index[i] = flash.index[i]
  PROVE  Keeps(g)
  BY DEF Keeps, Live

\* One segment changes: it is not in the ring, or it gains records.
LEMMA KeepsSeg ==
  ASSUME FlashSane(flash), NEW s \in Segments, NEW x, NEW g, g = [flash EXCEPT !.seg[s] = x], Live(flash, s) => Grows(s, x)
  PROVE  Keeps(g)
<1>1. flash \in FlashSet /\ flash.seg \in [Segments -> SegmentSet]
  BY SaneParts DEF FlashSane
<1>2. g.index = flash.index /\ g.seg[s] = x /\ \A u \in Segments \ {s} : g.seg[u] = flash.seg[u]
  BY <1>1 DEF FlashSet
<1> QED
  BY <1>2 DEF Keeps, Live, Grows

LEMMA EraseKeeps ==
  ASSUME FlashSane(flash), NEW s \in Segments, ~Live(flash, s)
  PROVE  AllKeep(EraseSeg(s))
<1>1. Keeps(flash)
  BY KeepsSame
<1>2. \A f \in Torn(EraseSeg(s)) : f = flash \/ \E x : f = [flash EXCEPT !.seg[s] = x]
  BY TornErase
<1>3. Written(EraseSeg(s)) = [flash EXCEPT !.seg[s] = BlankSegment]
  BY WrittenErase
<1> QED
  BY <1>1, <1>2, <1>3, KeepsSeg DEF AllKeep

LEMMA HeaderKeeps ==
  ASSUME FlashSane(flash), NEW s \in Segments, ~Live(flash, s), NEW e
  PROVE  AllKeep(Header(s, e))
<1>1. Keeps(flash) /\ flash \in FlashSet /\ flash.seg \in [Segments -> SegmentSet] /\ flash.seg[s] \in SegmentSet
  BY KeepsSame, SaneParts DEF FlashSane
<1>2. \A f \in Torn(Header(s, e)) : f = flash \/ f = [flash EXCEPT !.seg[s] = [flash.seg[s] EXCEPT !.header = "torn"]]
  BY <1>1, TornHeader DEF FlashSet
<1> DEFINE x == [flash.seg[s] EXCEPT !.header = "live", !.epoch = e]
           f == [flash EXCEPT !.seg[s].header = "live", !.seg[s].epoch = e]
<1>3. f = [flash EXCEPT !.seg[s] = x]
  BY <1>1 DEF FlashSet, SegmentSet
<1>4. Written(Header(s, e)) = f
  BY WrittenHeader
<1> HIDE DEF x, f
<1> QED
  BY <1>1, <1>2, <1>3, <1>4, KeepsSeg DEF AllKeep

LEMMA RecordKeeps ==
  ASSUME FlashSane(flash), NEW s \in Segments, NEW r
  PROVE  AllKeep(Record(s, r))
<1>1. Keeps(flash) /\ flash \in FlashSet /\ flash.seg \in [Segments -> SegmentSet] /\ flash.seg[s] \in SegmentSet
  BY KeepsSame, SaneParts DEF FlashSane
<1>2. ASSUME NEW t, NEW f, f = [flash EXCEPT !.seg[s].recs = @ \cup {t}] PROVE Keeps(f)
  <2> DEFINE x == [flash.seg[s] EXCEPT !.recs = @ \cup {t}]
  <2>1. f = [flash EXCEPT !.seg[s] = x]
    BY <1>1, <1>2 DEF FlashSet
  <2>2. Live(flash, s) => Grows(s, x)
    BY <1>1 DEF Live, Grows, SegmentSet
  <2> HIDE DEF x
  <2> QED
    BY <2>1, <2>2, KeepsSeg
<1>3. \A f \in Torn(Record(s, r)) : f = flash \/ \E t : f = [flash EXCEPT !.seg[s].recs = @ \cup {t}]
  BY TornRecord
<1>4. Written(Record(s, r)) = [flash EXCEPT !.seg[s].recs = @ \cup {r}]
  BY WrittenRecord
<1> QED
  BY <1>1, <1>2, <1>3, <1>4 DEF AllKeep

LEMMA SlotKeeps ==
  ASSUME FlashSane(flash), NEW i \in Slots, flash.index[i] = Erased, NEW sl
  PROVE  AllKeep(SlotAt(i, sl))
<1>1. Keeps(flash) /\ flash \in FlashSet /\ flash.index \in [Slots -> SlotSet]
  BY KeepsSame, SaneParts DEF FlashSane
<1>2. ASSUME NEW t, NEW f, f = [flash EXCEPT !.index[i] = t] PROVE Keeps(f)
  <2>1. f.seg = flash.seg /\ f.index = [flash.index EXCEPT ![i] = t]
    BY <1>1, <1>2 DEF FlashSet
  <2> QED
    BY <1>1, <2>1, KeepsSame
<1>3. Written(SlotAt(i, sl)) = [flash EXCEPT !.index[i] = sl]
  BY WrittenSlot
<1> QED
  BY <1>1, <1>2, <1>3, TornSlot DEF AllKeep

LEMMA WipeKeeps ==
  ASSUME FlashSane(flash)
  PROVE  AllKeep(Do("wipe"))
<1>1. Keeps(flash) /\ flash \in FlashSet
  BY KeepsSame DEF FlashSane
<1>2. Written(Do("wipe")) = [flash EXCEPT !.wipe = TRUE] /\ Torn(Do("wipe")) = {flash, Written(Do("wipe"))}
  BY WrittenWipe, TornState
<1>3. Keeps([flash EXCEPT !.wipe = TRUE])
  <2>1. [flash EXCEPT !.wipe = TRUE].seg = flash.seg /\ [flash EXCEPT !.wipe = TRUE].index = flash.index
    BY <1>1 DEF FlashSet
  <2> QED
    BY <2>1, KeepsSame
<1> QED
  BY <1>1, <1>2, <1>3 DEF AllKeep

\* A segment that is retired has its records still.
LEMMA RetireHolds ==
  ASSUME FlashSane(flash), NEW s \in Segments
  PROVE  AllHold(Retire(s))
<1>1. flash \in FlashSet /\ flash.seg \in [Segments -> SegmentSet] /\ flash.seg[s] \in SegmentSet
  BY SaneParts DEF FlashSane
<1>2. Torn(Retire(s)) = {flash, Written(Retire(s))} /\ Written(Retire(s)) = [flash EXCEPT !.seg[s].header = "retired"]
  BY TornRetire, WrittenRetire
<1> DEFINE g == [flash EXCEPT !.seg[s].header = "retired"]
<1>3. g.index = flash.index /\ \A u \in Segments : g.seg[u].recs = flash.seg[u].recs
  BY <1>1 DEF FlashSet, SegmentSet
<1> HIDE DEF g
<1>4. Holds(flash) /\ Holds(g)
  BY <1>3 DEF Holds
<1> QED
  BY <1>2, <1>4 DEF AllHold, g

----------------------------------------------------------------------------
(* The steps that leave every answer as it was. *)

\* Of a step: what was answered is answered the same, unless the store closed.
Stays == ram'.open => \A k \in Keys : Find(k) # "NotStored" => Find(k)' = Find(k)

LEMMA SameRamFollows ==
  ASSUME ram \in RamSet, NEW m, m.segEpoch = ram.segEpoch, m.head = ram.head, m.used = ram.used
  PROVE  Follows(m)
<1>1. ram.used \in Nat
  BY StoreFacts DEF RamSet
<1> QED
  BY <1>1 DEF Follows

LEMMA HoldingStays ==
  ASSUME SInv, SInv', Holds(flash'), Follows(ram')
  PROVE  Stays
<1>1. FlashSane(flash')
  BY DEF SInv, Sound
<1>2. \A k : Find(k)' = FindIn(flash', ram', k)
  BY FindNext
<1> QED
  BY <1>1, <1>2, StillFound DEF Stays

LEMMA QuietStays ==
  ASSUME SInv, SInv', flash' = flash, ram'.segEpoch = ram.segEpoch, ram'.head = ram.head, ram'.used = ram.used
  PROVE  Stays
<1>1. Holds(flash') /\ Follows(ram')
  BY SInvParts, SameRamFollows DEF Holds
<1> QED
  BY <1>1, HoldingStays

\* A flash operation that a cut or a failure stops.
LEMMA StoppedStays ==
  ASSUME SInv, SInv', NEW p, AllHold(p), NEW f \in Torn(p),
         \/ flash' = f /\ ram' = Closed
         \/ flash' \in {f, [f EXCEPT !.wipe = TRUE]} /\ ram' = Failed
  PROVE  Stays
<1>1. CASE ram' = Closed
  BY <1>1 DEF Stays, Closed
<1>2. CASE flash' \in {f, [f EXCEPT !.wipe = TRUE]} /\ ram' = Failed
  <2>1. Holds(f)
    BY DEF AllHold
  <2>2. flash'.seg = f.seg /\ flash'.index = f.index
    <3>1. flash' \in FlashSet
      BY DEF SInv, Sound, FlashSane
    <3>2. DOMAIN flash' = {"seg", "index", "journal", "wipe"}
      BY <3>1 DEF FlashSet
    <3>3. DOMAIN flash' = DOMAIN f
      BY <1>2
    <3> QED
      BY <1>2, <3>2, <3>3
  <2>3. Holds(flash')
    BY <2>1, <2>2 DEF Holds
  <2>4. Follows(ram')
    <3>1. ram \in RamSet
      BY SInvParts
    <3>2. Failed.segEpoch = ram.segEpoch /\ Failed.head = ram.head /\ Failed.used = ram.used
      BY <3>1 DEF Failed, RamSet
    <3> QED
      BY <1>2, <3>1, <3>2, SameRamFollows
  <2> QED
    BY <2>3, <2>4, HoldingStays
<1> QED
  BY <1>1, <1>2

LEMMA DoesStays ==
  ASSUME SInv, SInv', NEW p, NEW r, NEW c, NEW o, Does(p, r, c, o), AllHold(p), Follows(r)
  PROVE  Stays
<1>1. CASE flash' = Written(p) /\ ram' = r
  <2>1. Holds(flash')
    BY <1>1 DEF AllHold
  <2> QED
    BY <1>1, <2>1, HoldingStays
<1>2. ASSUME NEW f \in Torn(p),
             \/ flash' = f /\ ram' = Closed
             \/ flash' \in {f, [f EXCEPT !.wipe = TRUE]} /\ ram' = Failed
      PROVE  Stays
  BY <1>2, StoppedStays
<1> QED
  BY <1>1, <1>2 DEF Does, Failed

----------------------------------------------------------------------------
(* What a reclaim is to keep: until its segment is retired, each of those glyphs is *)
(* still to be placed, has its copy placed, or has a slot for the copy.             *)

\* A slot of the key's, reached, for a whole record that is not in segment t.
CopyAt(f, t, k, i) ==
  /\ f.index[i] \in WholeSlots /\ f.index[i].key = k /\ f.index[i].value.seg # t
  /\ Names(f, f.index[i], TRUE) /\ ReachedIn(f, k, i)
HasCopy(f, t, o, k) ==
  \/ k \in Range(o.todo)
  \/ \E sl \in Range(o.placed) : sl.key = k
  \/ \E i \in Slots : CopyAt(f, t, k, i)
\* A chain found full keeps its copy from a slot.
Copied(f, r, o) ==
  o.call = "reclaim" /\ o.gone = {} /\ ~r.chainFull => \A k \in o.keys : HasCopy(f, r.tail, o, k)
KInv == Copied(flash, ram, op)

LEMMA CopyStays ==
  ASSUME SInv, NEW g, Keeps(g), NEW t, NEW k, NEW i \in Slots, CopyAt(flash, t, k, i)
  PROVE  CopyAt(g, t, k, i)
<1> DEFINE sl == flash.index[i]
<1>1. sl \in WholeSlots /\ sl \in GlyphSlots /\ sl # Erased /\ sl.key = k /\ k \in Keys /\ sl.value.seg \in Segments
  BY SlotKinds DEF CopyAt, WholeSlots, Keys
<1>2. g.index[i] = sl
  BY <1>1 DEF Keeps
<1>3. PICK p \in Probes : Probe(k, p) = i /\ \A q \in 0 .. p : flash.index[Probe(k, q)] # Erased
  BY DEF CopyAt, ReachedIn
<1>4. Names(flash, sl, TRUE) /\ sl.value.seg # t
  BY DEF CopyAt
<1> HIDE DEF sl
<1>5. Names(g, sl, TRUE)
  <2>1. Live(flash, sl.value.seg)
    BY <1>4 DEF Names
  <2>2. Live(g, sl.value.seg) /\ g.seg[sl.value.seg].epoch = flash.seg[sl.value.seg].epoch
        /\ flash.seg[sl.value.seg].recs \subseteq g.seg[sl.value.seg].recs
    BY <1>1, <2>1 DEF Keeps
  <2> QED
    BY <1>4, <2>2 DEF Names, Exact, Backed
<1>6. ReachedIn(g, k, i)
  <2>1. \A q \in 0 .. p : q \in Probes
    BY StoreFacts DEF Probes
  <2>2. \A q \in 0 .. p : g.index[Probe(k, q)] # Erased
    BY <1>1, <1>3, <2>1, ProbeIn DEF Keeps
  <2> QED
    BY <1>3, <2>2 DEF ReachedIn
<1> QED
  BY <1>1, <1>2, <1>4, <1>5, <1>6 DEF CopyAt

LEMMA NoReclaim ==
  ASSUME op'.call # "reclaim"
  PROVE  KInv'
  BY DEF KInv, Copied

\* A flash operation that ends a call, or is another call's, is none of a reclaim's.
LEMMA DoesNoReclaim ==
  ASSUME NEW p, NEW r, NEW c, NEW o, Does(p, r, c, o), o.call # "reclaim"
  PROVE  KInv'
<1>1. op' = o \/ op' = None
  BY DEF Does
<1> QED
  BY <1>1, NoReclaim, OpCalls

\* A step of a reclaim: whatever it has still to place or has placed before is so
\* after it, or has a slot.
LEMMA DoesCopies ==
  ASSUME SInv, KInv, op.call = "reclaim", op.gone = {},
         NEW p, NEW r, NEW c, NEW o, Does(p, r, c, o), AllKeep(p),
         r.tail = ram.tail, r.chainFull = ram.chainFull, o.keys = op.keys,
         \A k \in o.keys : k \in Range(op.todo) \/ (\E sl \in Range(op.placed) : sl.key = k)
                           => HasCopy(Written(p), ram.tail, o, k)
  PROVE  KInv'
<1>1. CASE flash' = Written(p) /\ ram' = r /\ op' = o
  <2>1. Keeps(Written(p))
    BY DEF AllKeep
  <2>2. ASSUME ~ram.chainFull, NEW k \in op.keys PROVE HasCopy(Written(p), ram.tail, o, k)
    <3>1. HasCopy(flash, ram.tail, op, k)
      BY <2>2 DEF KInv, Copied
    <3>2. \A i \in Slots : CopyAt(flash, ram.tail, k, i) => CopyAt(Written(p), ram.tail, k, i)
      BY <2>1, CopyStays
    <3> QED
      BY <3>1, <3>2 DEF HasCopy
  <2> QED
    BY <1>1, <2>2 DEF KInv, Copied
<1>2. CASE op' = None
  BY <1>2, NoReclaim, OpCalls
<1> QED
  BY <1>1, <1>2 DEF Does

----------------------------------------------------------------------------
(* The steps of a session, and what they leave to place. *)

\* The store is open and nothing has failed in it.
LEMMA WhenUp ==
  ASSUME SInv, ram.open, ~ram.wipe
  PROVE  /\ Trusted(ram, op) /\ Mirrored(flash, ram, op) /\ RingMirrored(flash, ram) /\ JournalMirrored(flash, ram)
         /\ op.call # "wipe" /\ (op.call # "rebuild" => CountsMirrored(flash, ram))
<1>1. op.call # "wipe"
  BY SInvParts, OpIs
<1>2. Trusted(ram, op)
  BY <1>1 DEF Trusted
<1> QED
  BY <1>1, <1>2, SInvParts DEF Mirrored, Inserting

LEMMA OpenStays ==
  ASSUME SInv, SInv', Open, ram.open, ~ram.wipe
  PROVE  Stays /\ KInv'
<1>1. op = None /\ op' = None /\ flash' = flash /\ ram' = Reopened
  BY DEF Open
<1>2. SameMirror(ram, Reopened)
  BY <1>1, WhenUp, FoundAgain, OpCalls
<1> QED
  BY <1>1, <1>2, QuietStays, NoReclaim, OpCalls DEF SameMirror

LEMMA StopWritesStays ==
  ASSUME SInv, SInv', ram.open, ~ram.wipe, StopWrites
  PROVE  Stays /\ KInv'
<1>1. Does(Do("wipe"), Failed, count, None)
  BY DEF StopWrites, Failed
<1>2. AllHold(Do("wipe"))
  BY SInvParts, WhenUp, WipeKeeps, KeepsHolds
<1>3. Follows(Failed)
  <2>1. ram \in RamSet
    BY SInvParts
  <2>2. Failed.segEpoch = ram.segEpoch /\ Failed.head = ram.head /\ Failed.used = ram.used
    BY <2>1 DEF Failed, RamSet
  <2> QED
    BY <2>1, <2>2, SameRamFollows
<1> QED
  BY <1>1, <1>2, <1>3, DoesStays, DoesNoReclaim, OpCalls

LEMMA MoveHeadStays ==
  ASSUME SInv, SInv', KInv, MoveHead, ram.open, ~ram.wipe
  PROVE  Stays /\ KInv'
<1>1. Placing /\ NeedsHead /\ RingMirrored(flash, ram) /\ FlashSane(flash) /\ RamSane(ram) /\ ram \in RamSet
  BY WhenUp, SInvParts DEF MoveHead
<1>2. op.call = "reclaim" => op.gone = {} /\ ram.live >= 2
  BY <1>1, PlacingIs, OpCalls
<1>3. CASE ToOpen(ram) = 0
  BY <1>3, StopWritesStays DEF MoveHead
<1>4. ASSUME ToOpen(ram) # 0 PROVE NextHead \in Segments /\ ~Live(flash, NextHead) /\ ram.segEpoch[NextHead] = 0
  BY <1>1, <1>4, NextHeadIs, RingLive
<1>5. ASSUME ToOpen(ram) # 0, Does(EraseSeg(NextHead), ram, count, op)
      PROVE  Stays /\ KInv'
  <2>1. AllKeep(EraseSeg(NextHead)) /\ AllHold(EraseSeg(NextHead))
    BY <1>1, <1>4, <1>5, EraseKeeps, KeepsHolds
  <2>2. Stays
    BY <1>1, <1>5, <2>1, SameRamFollows, DoesStays
  <2>3. KInv'
    <3>1. CASE op.call = "reclaim"
      BY <1>2, <1>5, <2>1, <3>1, DoesCopies DEF HasCopy
    <3> QED
      BY <1>5, <3>1, DoesNoReclaim
  <2> QED
    BY <2>2, <2>3
<1>6. ASSUME ToOpen(ram) # 0, Does(Header(NextHead, ram.next), Moved, count, op)
      PROVE  Stays /\ KInv'
  <2>1. AllKeep(Header(NextHead, ram.next)) /\ AllHold(Header(NextHead, ram.next))
    BY <1>1, <1>4, <1>6, HeaderKeeps, KeepsHolds
  <2>2. /\ Moved.segEpoch = [ram.segEpoch EXCEPT ![NextHead] = ram.next] /\ Moved.head = NextHead
        /\ Moved.chainFull = ram.chainFull /\ ram.segEpoch \in [Segments -> Nat]
        /\ ram.live # 0 => Moved.tail = ram.tail
    BY <1>1 DEF Moved, RamSet
  <2>3. Follows(Moved)
    BY <1>4, <1>6, <2>2 DEF Follows
  <2>4. KInv'
    <3>1. CASE op.call = "reclaim"
      <4>1. ram.live # 0
        BY <1>2, <3>1
      <4> QED
        BY <1>2, <1>6, <2>1, <2>2, <3>1, <4>1, DoesCopies DEF HasCopy
    <3> QED
      BY <1>6, <3>1, DoesNoReclaim
  <2> QED
    BY <1>6, <2>1, <2>3, <2>4, DoesStays
<1> QED
  BY <1>3, <1>5, <1>6 DEF MoveHead

LEMMA PlaceRecordStays ==
  ASSUME SInv, SInv', KInv, PlaceRecord, ram.open, ~ram.wipe
  PROVE  Stays /\ KInv'
<1> DEFINE k == Head(op.todo)
           end == ram.used + Size[k]
           rec == [key |-> k, whole |-> TRUE, at |-> ram.used, end |-> end]
           sl == Slot(k, Place(ram.head, ram.used, ram.segEpoch[ram.head]))
           r == [ram EXCEPT !.used = end]
           o == [op EXCEPT !.todo = Tail(@), !.placed = Append(@, sl)]
<1>1. Placing /\ Does(Record(ram.head, rec), r, count, o)
  BY DEF PlaceRecord
<1>2. RingMirrored(flash, ram) /\ FlashSane(flash) /\ ram \in RamSet /\ ram.head \in Segments
  BY WhenUp, SInvParts DEF RamSet
<1>3. AllKeep(Record(ram.head, rec)) /\ AllHold(Record(ram.head, rec))
  BY <1>2, RecordKeeps, KeepsHolds
<1>4. op.todo \in Seq(Glyphs) /\ op.todo # <<>> /\ k \in Glyphs
  BY <1>1, PlacingIs
<1>5. /\ r.segEpoch = ram.segEpoch /\ r.head = ram.head /\ r.used = end /\ r.tail = ram.tail /\ r.chainFull = ram.chainFull
      /\ end \in Nat /\ ram.used <= end
  <2>0. Size[k] \in 1 .. Cap
    BY <1>4, StoreAssumption
  <2>1. ram.used \in Nat /\ Size[k] \in Nat
    BY <1>2, <2>0, StoreFacts DEF RamSet
  <2>2. r.segEpoch = ram.segEpoch /\ r.head = ram.head /\ r.used = end /\ r.tail = ram.tail /\ r.chainFull = ram.chainFull
    BY <1>2 DEF RamSet
  <2> QED
    BY <2>1, <2>2
<1>6. Follows(r)
  BY <1>5 DEF Follows
<1> HIDE DEF rec, r, end
<1>7. CASE op.call = "reclaim"
  <2>1. op \in ReclaimSet /\ op.gone = {} /\ op.placed = <<>>
    BY <1>1, <1>7, PlacingIs, OpCalls
  <2>2. o.todo = Tail(op.todo) /\ o.placed = Append(op.placed, sl) /\ o.keys = op.keys
    BY <2>1 DEF ReclaimSet
  <2> HIDE DEF o
  <2>3. Range(op.placed) = {} /\ Range(o.placed) = {sl}
    <3> HIDE DEF sl
    <3> DEFINE X == {sl}
    <3>1. <<>> \in Seq(X) /\ sl \in X
      OBVIOUS
    <3> HIDE DEF X
    <3>2. Range(<<>>) = {} /\ Range(Append(<<>>, sl)) = Range(<<>>) \cup {sl}
      BY <3>1, RangeFacts
    <3> QED
      BY <2>1, <2>2, <3>2
  <2>4. \A x \in Range(op.todo) : x = k \/ x \in Range(o.todo)
    <3>1. Range(op.todo) = {op.todo[i] : i \in 1 .. Len(op.todo)}
      BY <1>4, RangeEquality
    <3>0. o.todo \in Seq(Glyphs)
      BY <1>4, <2>2
    <3>2. Range(o.todo) = {o.todo[i] : i \in 1 .. Len(o.todo)}
      BY <3>0, RangeEquality
    <3>3. \A i \in 1 .. Len(op.todo) : i = 1 \/ (i - 1 \in 1 .. Len(o.todo) /\ o.todo[i - 1] = op.todo[i])
      BY <1>4, <2>2
    <3>4. op.todo[1] = k
      BY <1>4
    <3> QED
      BY <3>1, <3>2, <3>3, <3>4
  <2>5. sl.key = k
    BY DEF Slot
  <2> HIDE DEF k, sl
  <2>6. \A x \in o.keys : x \in Range(op.todo) \/ (\E y \in Range(op.placed) : y.key = x)
                          => HasCopy(Written(Record(ram.head, rec)), ram.tail, o, x)
    BY <2>3, <2>4, <2>5 DEF HasCopy
  <2>7. KInv'
    BY <1>1, <1>3, <1>5, <1>7, <2>1, <2>2, <2>6, DoesCopies
  <2> QED
    BY <1>1, <1>3, <1>6, <2>7, DoesStays
<1>8. CASE op.call # "reclaim"
  <2>1. op \in CommitSet /\ op.call = "commit"
    BY <1>1, <1>8, PlacingIs, OpCalls
  <2>2. o.call # "reclaim"
    BY <2>1 DEF CommitSet
  <2> HIDE DEF o
  <2> QED
    BY <1>1, <1>3, <1>6, <2>2, DoesStays, DoesNoReclaim
<1> QED
  BY <1>7, <1>8

\* insert() writes where nothing was.
LEMMA InsertHolds ==
  ASSUME SInv, ram.open, ~ram.wipe, NEW k \in Keys, FreeProbes(k) # {}, NEW sl
  PROVE  /\ AllKeep(SlotAt(FirstFree(k), sl)) /\ AllHold(SlotAt(FirstFree(k), sl)) /\ Follows(Inserted(sl))
         /\ Inserted(sl).tail = ram.tail /\ Inserted(sl).chainFull = ram.chainFull
<1>1. RingMirrored(flash, ram) /\ FlashSane(flash) /\ ram \in RamSet
  BY WhenUp, SInvParts
<1>2. FirstFree(k) \in Slots /\ flash.index[FirstFree(k)] = Erased
  BY FirstFreeIs
<1>3. /\ Inserted(sl).segEpoch = ram.segEpoch /\ Inserted(sl).head = ram.head /\ Inserted(sl).used = ram.used
      /\ Inserted(sl).tail = ram.tail /\ Inserted(sl).chainFull = ram.chainFull
  BY <1>1 DEF Inserted, RamSet
<1> QED
  BY <1>1, <1>2, <1>3, SlotKeeps, KeepsHolds, SameRamFollows

\* Flags of the RAM, set with no flash operation.
LEMMA NotesStays ==
  ASSUME SInv, SInv', NEW r, NEW o, Notes(r, o), r.segEpoch = ram.segEpoch, r.head = ram.head, r.used = ram.used
  PROVE  Stays /\ (o.call # "reclaim" => KInv')
<1>1. flash' = flash /\ ram' = r /\ op' = o
  BY DEF Notes
<1> QED
  BY <1>1, QuietStays, NoReclaim

LEMMA CommitSlotStays ==
  ASSUME SInv, SInv', CommitSlot, ram.open, ~ram.wipe
  PROVE  Stays
<1> DEFINE sl == Head(op.placed)
           rest == IF Len(op.placed) = 1 THEN None ELSE [op EXCEPT !.placed = Tail(@)]
<1>1. op.call = "commit" /\ op.todo = <<>> /\ ram \in RamSet
  BY SInvParts DEF CommitSlot
<1>2. sl.key \in Keys
  <2>1. op \in CommitSet /\ op.placed # <<>>
    BY <1>1, SInvParts, OpIs DEF CommitSane
  <2>2. op.placed \in Seq(WholeSlots)
    BY <2>1 DEF CommitSet
  <2>3. sl \in WholeSlots
    BY <2>1, <2>2
  <2> QED
    BY <2>3 DEF WholeSlots, GlyphSlots, Keys
<1>3. CASE FreeProbes(sl.key) = {}
  <2>1. Notes(ChainFull, None)
    BY <1>3 DEF CommitSlot
  <2>2. ChainFull.segEpoch = ram.segEpoch /\ ChainFull.head = ram.head /\ ChainFull.used = ram.used
    BY <1>1 DEF ChainFull, RamSet
  <2> QED
    BY <2>1, <2>2, NotesStays
<1>4. CASE FreeProbes(sl.key) # {}
  <2>1. Does(SlotAt(FirstFree(sl.key), sl), Inserted(sl), count, rest)
    BY <1>4 DEF CommitSlot
  <2> HIDE DEF sl, rest
  <2> QED
    BY <1>2, <1>4, <2>1, InsertHolds, DoesStays
<1> QED
  BY <1>3, <1>4

LEMMA MarkNoGlyphStays ==
  ASSUME SInv, SInv', NEW k \in Blanks, MarkNoGlyph(k), ram.open, ~ram.wipe
  PROVE  Stays
<1>1. ram \in RamSet /\ k \in Keys
  BY SInvParts DEF Keys
<1>2. /\ ChainFull.segEpoch = ram.segEpoch /\ ChainFull.head = ram.head /\ ChainFull.used = ram.used
      /\ LET r == [ram EXCEPT !.indexFull = TRUE, !.stopped = TRUE]
         IN r.segEpoch = ram.segEpoch /\ r.head = ram.head /\ r.used = ram.used
  BY <1>1 DEF ChainFull, RamSet
<1>3. CASE Notes([ram EXCEPT !.indexFull = TRUE, !.stopped = TRUE], None) \/ Notes(ChainFull, None)
  BY <1>2, <1>3, NotesStays
<1>4. ASSUME FreeProbes(k) # {}, Does(SlotAt(FirstFree(k), Slot(k, NoGlyph)), Inserted(Slot(k, NoGlyph)), count, None)
      PROVE  Stays
  BY <1>1, <1>4, InsertHolds, DoesStays
<1> QED
  BY <1>3, <1>4 DEF MarkNoGlyph

LEMMA LastFaceStays ==
  ASSUME SInv, SInv', LastFace, ram.open, ~ram.wipe
  PROVE  Stays
<1> DEFINE r == [ram EXCEPT !.wipe = TRUE]
<1>1. Does(Do("wipe"), r, count, None)
  BY DEF LastFace
<1>2. AllHold(Do("wipe"))
  BY SInvParts, WhenUp, WipeKeeps, KeepsHolds
<1>3. ram \in RamSet
  BY SInvParts
<1>4. r.segEpoch = ram.segEpoch /\ r.head = ram.head /\ r.used = ram.used
  BY <1>3 DEF RamSet
<1> HIDE DEF r
<1>5. Follows(r)
  BY <1>3, <1>4, SameRamFollows
<1> QED
  BY <1>1, <1>2, <1>5, DoesStays

\* The segment that is erased last left the ring before.
LEMMA EraseTailStays ==
  ASSUME SInv, SInv', EraseTail, ram.open, ~ram.wipe
  PROVE  Stays
<1> DEFINE r == [ram EXCEPT !.roomAsked = FALSE]
<1>1. op \in ReclaimSet /\ ReclaimSane(ram, op) /\ op.gone # {} /\ RingMirrored(flash, ram) /\ FlashSane(flash) /\ ram \in RamSet
  BY WhenUp, SInvParts, OpIs DEF EraseTail
<1>2. PICK s \in Segments : op.gone = {s} /\ ~(Dist(ram.tail, s) < ram.live)
  BY <1>1 DEF ReclaimSane
<1>3. Does(EraseSeg(s), r, count, op.room)
  BY <1>2 DEF EraseTail
<1>4. ~Live(flash, s)
  BY <1>1, <1>2, RingLive
<1>5. AllHold(EraseSeg(s))
  BY <1>1, <1>4, EraseKeeps, KeepsHolds
<1>6. r.segEpoch = ram.segEpoch /\ r.head = ram.head /\ r.used = ram.used
  BY <1>1 DEF RamSet
<1> HIDE DEF r
<1>7. Follows(r)
  BY <1>1, <1>6, SameRamFollows
<1> QED
  BY <1>3, <1>5, <1>7, DoesStays

\* Everything a reclaim is to keep is still to be placed when it begins.
LEMMA ReclaimStays ==
  ASSUME SInv, SInv', Reclaim
  PROVE  Stays /\ KInv'
<1> DEFINE t == ram.tail
           epoch == ram.segEpoch[t]
           named == {r \in Records(t) : NamedBy(epoch, t, r) # {}}
           drawn == {r \in named : CountOf(epoch, t, r) > 0}
           Before(r) == {q \in drawn : \/ CountOf(epoch, t, q) > CountOf(epoch, t, r)
                                       \/ CountOf(epoch, t, q) = CountOf(epoch, t, r) /\ q.at >= r.at}
           best  == {r \in drawn : SumSize(Before(r)) <= Cap \div 2}
           kept  == IF Opens(ram.used, KeysOf(InOrder(best))) <= ToOpen(ram) THEN InOrder(best) ELSE <<>>
<1>1. op.call = "room" /\ ram' = ram /\ flash' = flash
  BY DEF Reclaim, Notes
<1>2. op'.todo = KeysOf(kept) /\ op'.keys = {kept[i].key : i \in DOMAIN kept}
  BY DEF Reclaim, Notes
<1> HIDE DEF kept
<1>3. op'.keys = Range(op'.todo)
  BY <1>2 DEF KeysOf, Range
<1>4. KInv'
  BY <1>3 DEF KInv, Copied, HasCopy
<1> QED
  BY <1>1, <1>4, QuietStays

LEMMA CopySlotStays ==
  ASSUME SInv, SInv', JInv, LInv, KInv, CopySlot, ram.open, ~ram.wipe
  PROVE  Stays /\ KInv'
<1> DEFINE sl == Head(op.placed)
           rest == [op EXCEPT !.placed = <<>>, !.counts = Tail(@)]
           c == [count EXCEPT ![FirstFree(sl.key)] = Head(op.counts) \div 2]
           k == sl.key
<1>1. op.call = "reclaim" /\ op.placed # <<>> /\ ram \in RamSet
  BY SInvParts DEF CopySlot
<1>2. op \in ReclaimSet /\ ReclaimSane(ram, op) /\ op.gone = {} /\ Len(op.placed) <= 1
  BY <1>1, SInvParts, OpIs DEF ReclaimSane
<1>3. op.placed \in Seq(WholeSlots)
  BY <1>2 DEF ReclaimSet
<1>4. sl \in WholeSlots /\ sl \in Range(op.placed) /\ k \in Keys /\ \A x \in Range(op.placed) : x = sl
  <2>1. sl \in WholeSlots /\ sl \in Range(op.placed)
    BY <1>1, <1>3, RangeFacts
  <2>2. Range(op.placed) = {op.placed[i] : i \in 1 .. Len(op.placed)}
    BY <1>3, RangeEquality
  <2>3. \A i \in 1 .. Len(op.placed) : i = 1
    BY <1>2, <1>3
  <2> QED
    BY <1>1, <1>3, <2>1, <2>2, <2>3 DEF WholeSlots, GlyphSlots, Keys
<1>5. Names(flash, sl, TRUE) /\ sl.value.seg # ram.tail
  BY <1>1, <1>4, JInvParts, LInvParts DEF PlacedTrue, PlacedNew
<1>6. rest.todo = op.todo /\ rest.placed = <<>> /\ rest.keys = op.keys /\ rest.gone = {} /\ rest.call = "reclaim"
  BY <1>1, <1>2 DEF ReclaimSet
<1>7. CASE FreeProbes(k) = {}
  <2>1. Notes(ChainFull, rest)
    BY <1>1, <1>7 DEF CopySlot
  <2>2. ChainFull.segEpoch = ram.segEpoch /\ ChainFull.head = ram.head /\ ChainFull.used = ram.used /\ ChainFull.chainFull
    BY <1>1 DEF ChainFull, RamSet
  <2>3. KInv'
    BY <2>1, <2>2 DEF Notes, KInv, Copied
  <2> QED
    BY <2>1, <2>2, <2>3, NotesStays
<1>8. CASE FreeProbes(k) # {}
  <2> DEFINE i == FirstFree(k)  p == SlotAt(i, sl)  g == Written(p)
  <2>1. Does(p, Inserted(sl), c, rest)
    BY <1>1, <1>8 DEF CopySlot
  <2>2. Puts(g, k, sl)
    BY WrittenSlot DEF Puts
  <2> HIDE DEF sl, rest, c
  <2>3. AllKeep(p) /\ AllHold(p) /\ Follows(Inserted(sl)) /\ Inserted(sl).tail = ram.tail /\ Inserted(sl).chainFull = ram.chainFull
    BY <1>4, <1>8, InsertHolds
  <2>4. PutIs(g, k, sl)
    <3>1. sl # Erased
      BY <1>4, SlotKinds DEF WholeSlots
    <3> HIDE DEF g
    <3> QED
      BY <1>4, <1>8, <2>2, <3>1, SlotPut
  <2> HIDE DEF g, p, k, i
  <2>5. CopyAt(g, ram.tail, k, i)
    <3>1. g.index[i] = sl /\ g.seg = flash.seg /\ ReachedIn(g, k, i) /\ i \in Slots
      BY <2>4 DEF PutIs, i
    <3>2. Names(g, sl, TRUE)
      BY <1>5, <3>1 DEF Names, Live, Exact, Backed
    <3> QED
      BY <1>4, <1>5, <3>1, <3>2 DEF CopyAt, k
  <2>6. i \in Slots
    BY <2>4 DEF PutIs, i
  <2>7. \A x \in rest.keys : x \in Range(op.todo) \/ (\E y \in Range(op.placed) : y.key = x)
                             => HasCopy(g, ram.tail, rest, x)
    BY <1>4, <1>6, <2>5, <2>6 DEF HasCopy, k
  <2>8. KInv'
    BY <1>1, <1>2, <1>6, <2>1, <2>3, <2>7, DoesCopies DEF g
  <2> QED
    BY <2>1, <2>3, <2>8, DoesStays
<1> QED
  BY <1>7, <1>8

\* When the tail is retired, the glyphs that were to be kept are found by their copies,
\* unless a chain was full, and those of the other segments where they were.
LEMMA RetireTailStays ==
  ASSUME SInv, SInv', KInv, RetireTail, ram.open, ~ram.wipe,
         NEW k \in Keys, Find(k) # "NotStored", ram'.open
  PROVE  \/ Find(k)' = Find(k)
         \/ op'.call = "reclaim" /\ op'.gone # op.gone /\ (k \notin op.keys \/ ram.chainFull)
<1> DEFINE t == ram.tail
           o == [op EXCEPT !.gone = {t}]
           g == Written(Retire(t))
<1>1. op.call = "reclaim" /\ op.todo = <<>> /\ op.placed = <<>> /\ op.gone = {} /\ Does(Retire(t), RetiredRam, count, o)
  BY DEF RetireTail, RetiredRam
<1>2. op \in ReclaimSet /\ RingMirrored(flash, ram) /\ FlashSane(flash) /\ ram \in RamSet /\ t \in Segments
  BY <1>1, WhenUp, SInvParts, OpIs DEF RamSet
<1>3. AllHold(Retire(t))
  BY <1>2, RetireHolds
<1>4. ASSUME NEW f \in Torn(Retire(t)),
             \/ flash' = f /\ ram' = Closed
             \/ flash' \in {f, [f EXCEPT !.wipe = TRUE]} /\ ram' = Failed
      PROVE  Find(k)' = Find(k)
  BY <1>3, <1>4, StoppedStays DEF Stays
<1>5. ASSUME flash' = g, ram' = RetiredRam, op' = o, k \in op.keys, ~ram.chainFull
      PROVE  Find(k)' = Find(k)
  <2>1. Range(op.todo) = {} /\ Range(op.placed) = {}
    <3>1. <<>> \in Seq(Nat)
      OBVIOUS
    <3> QED
      BY <1>1, <3>1, RangeFacts
  <2>2. PICK i \in Slots : CopyAt(flash, t, k, i)
    BY <1>1, <1>5, <2>1 DEF KInv, Copied, HasCopy
  <2> DEFINE sl == flash.index[i]
  <2>3. sl \in WholeSlots /\ sl.key = k /\ sl.value.seg # t /\ Names(flash, sl, TRUE) /\ sl.value.seg \in Segments
    BY <2>2, SlotKinds DEF CopyAt, WholeSlots
  <2>4. PICK p \in Probes : Probe(k, p) = i /\ \A q \in 0 .. p : flash.index[Probe(k, q)] # Erased
    BY <2>2 DEF CopyAt, ReachedIn
  <2>5. g.index = flash.index /\ \A u \in Segments : g.seg[u].recs = flash.seg[u].recs
    <3>1. flash \in FlashSet /\ flash.seg \in [Segments -> SegmentSet] /\ flash.seg[t] \in SegmentSet
      BY <1>2, SaneParts DEF FlashSane
    <3>2. g = [flash EXCEPT !.seg[t].header = "retired"]
      BY WrittenRetire
    <3> HIDE DEF g
    <3> QED
      BY <3>1, <3>2 DEF FlashSet, SegmentSet
  <2>6. /\ RetiredRam.segEpoch[sl.value.seg] = ram.segEpoch[sl.value.seg]
        /\ RetiredRam.head = ram.head /\ RetiredRam.used = ram.used /\ ram.used \in Nat
    BY <1>2, <2>3, StoreFacts DEF RetiredRam, RamSet
  <2> HIDE DEF sl, g, t
  <2>7. PICK r : r \in ValidIn(flash, ram, k, sl.value)
    <3>1. ValidRecord(k, sl.value) # {}
      BY <1>2, <2>3, NamedValid
    <3> QED
      BY <3>1 DEF ValidRecord, Records, ValidIn
  <2>8. r \in g.seg[sl.value.seg].recs
    BY <2>3, <2>5, <2>7 DEF ValidIn
  <2>9. r \in ValidIn(g, RetiredRam, k, sl.value)
    BY <2>3, <2>6, <2>7, <2>8, ValidStays
  <2>10. Answers(g, RetiredRam, k, p) /\ Answers(flash, ram, k, p)
    BY <2>3, <2>4, <2>5, <2>7, <2>9 DEF Answers, sl
  <2>11. FlashSane(g)
    BY <1>5 DEF SInv, Sound
  <2>12. FindIn(g, RetiredRam, k) = Answer(k) /\ FindIn(flash, ram, k) = Answer(k)
    BY <1>2, <1>5, <2>10, <2>11, AnswerIs
  <2>13. Find(k)' = FindIn(flash', ram', k)
    BY FindNext
  <2> QED
    BY <1>5, <2>12, <2>13, FindHere
<1>6. ASSUME flash' = g, ram' = RetiredRam, op' = o
      PROVE  op'.call = "reclaim" /\ op'.gone # op.gone
  BY <1>1, <1>2, <1>6 DEF ReclaimSet
<1> QED
  BY <1>1, <1>4, <1>5, <1>6 DEF Does, Failed

\* A reclaim in progress began as one, and goes on.
LEMMA OneReclaim ==
  ASSUME SInv, [Next]_vars, op'.call = "reclaim", op.call # "reclaim"
  PROVE  Reclaim
<1>1. op.call \in {"none", "room", "commit", "rebuild", "wipe"} /\ OpSane(flash, ram, op)
  BY SInvParts, OpCalls DEF OpSane
<1>2. \A o : o.call = op.call => o.call # "reclaim"
  OBVIOUS
<1>3. \A p, r, c, o : Does(p, r, c, o) => op' \in {o, None}
  BY DEF Does
<1>4. \A r, o : Notes(r, o) => op' = o
  BY DEF Notes
<1>5. ~MoveHead
  BY <1>3, OpCalls DEF MoveHead, StopWrites
<1>6. ~PlaceRecord
  <2> SUFFICES ASSUME PlaceRecord PROVE FALSE
    OBVIOUS
  <2> DEFINE o == [op EXCEPT !.todo = Tail(@),
                 !.placed = Append(@, Slot(Head(op.todo), Place(ram.head, ram.used, ram.segEpoch[ram.head])))]
  <2>1. op' \in {o, None} /\ Placing
    BY <1>3 DEF PlaceRecord
  <2>2. o.call = op.call
    BY <2>1, PlacingIs DEF CommitSet, ReclaimSet
  <2> HIDE DEF o
  <2> QED
    BY <2>1, <2>2, OpCalls
<1>7. ~CommitSlot
  <2> SUFFICES ASSUME CommitSlot PROVE FALSE
    OBVIOUS
  <2>1. op \in CommitSet
    BY <1>1, OpIs DEF CommitSlot
  <2> DEFINE o == [op EXCEPT !.placed = Tail(@)]
  <2>2. o.call = op.call
    BY <2>1 DEF CommitSet
  <2>3. op' \in {o, None}
    BY <1>3, <1>4 DEF CommitSlot
  <2> HIDE DEF o
  <2> QED
    BY <2>2, <2>3, OpCalls
<1>8. ~Rebuild
  <2> SUFFICES ASSUME Rebuild PROVE FALSE
    OBVIOUS
  <2>1. op'.call \in {"wipe", "rebuild", "room"}
    BY DEF Rebuild, Notes, Room
  <2> QED
    BY <2>1
<1>9. ~(RebuildBase \/ RebuildErase \/ RebuildInsert \/ RebuildDone)
  <2> SUFFICES ASSUME RebuildBase \/ RebuildErase \/ RebuildInsert \/ RebuildDone PROVE FALSE
    OBVIOUS
  <2>1. op.call = "rebuild" /\ op \in RebuildSet /\ op.room.call = "room"
    <3>1. op.call = "rebuild"
      BY DEF RebuildBase, RebuildErase, RebuildInsert, RebuildDone
    <3> QED
      BY <1>1, <3>1, OpIs, OpCalls DEF RebuildSet
  <2>2. \A x, y : [op EXCEPT !.stage = x].call = "rebuild" /\ [op EXCEPT !.plan = x].call = "rebuild"
                  /\ [[op EXCEPT !.plan = x] EXCEPT !.inserted = y].call = "rebuild"
    BY <2>1 DEF RebuildSet
  <2>3. CASE RebuildBase \/ RebuildErase \/ RebuildDone
    <3>1. \/ op' = None \/ op' = op.room
          \/ op' = [op EXCEPT !.stage = "erase"] \/ op' = [op EXCEPT !.stage = "insert"]
      BY <1>3, <2>3 DEF RebuildBase, RebuildErase, RebuildDone
    <3> QED
      BY <2>1, <2>2, <3>1, OpCalls
  <2>4. CASE RebuildInsert
    <3> DEFINE rest == [op EXCEPT !.plan = Tail(@)]
               more == [rest EXCEPT !.inserted = @ + 1]
    <3>1. rest.call = "rebuild" /\ more.call = "rebuild"
      BY <2>1 DEF RebuildSet
    <3>2. op' \in {rest, more, None}
      BY <1>3, <1>4, <2>4 DEF RebuildInsert, StopWrites
    <3> HIDE DEF rest, more
    <3> QED
      BY <3>1, <3>2, OpCalls
  <2> QED
    BY <2>3, <2>4
<1>10. ~WipeStep
  <2> SUFFICES ASSUME WipeStep PROVE FALSE
    OBVIOUS
  <2>1. op \in WipeSet
    BY <1>1, OpIs DEF WipeStep
  <2> DEFINE o == [op EXCEPT !.todo = Tail(@)]
  <2>2. o.call = "wipe" /\ op.then.call # "reclaim"
    BY <2>1, OpCalls DEF WipeSet
  <2>3. op' \in {o, op.then, None}
    BY <1>3 DEF WipeStep
  <2> HIDE DEF o
  <2> QED
    BY <2>2, <2>3, OpCalls
<1>11. ~(CopySlot \/ RetireTail \/ EraseTail)
  BY DEF CopySlot, RetireTail, EraseTail
<1>12. ~(RoomMade \/ MarkFull \/ LastFace \/ Open \/ UNCHANGED vars)
  BY <1>3, <1>4, OpCalls DEF RoomMade, MarkFull, LastFace, Open, vars
<1>13. ~(Wipe \/ \E budget \in {"Idle", "Open"} : MakeRoom(budget))
  BY DEF Wipe, MakeRoom, Notes, Room
<1>14. ~(\E b \in Batches : Commit(b))
  <2> SUFFICES ASSUME NEW b \in Batches, Commit(b) PROVE FALSE
    OBVIOUS
  <2>1. \/ op' = None
        \/ op' = [call |-> "commit", todo |-> b, placed |-> <<>>, keys |-> {b[i] : i \in DOMAIN b}]
    BY <1>4 DEF Commit
  <2> QED
    BY <2>1, OpCalls
<1>15. ~(\E k \in Blanks : MarkNoGlyph(k)) /\ ~(\E k \in Glyphs : NoteDrawn(k))
  BY <1>3, <1>4, OpCalls DEF MarkNoGlyph, NoteDrawn
<1> QED
  BY <1>5, <1>6, <1>7, <1>8, <1>9, <1>10, <1>11, <1>12, <1>13, <1>14, <1>15 DEF Next, Proceed

\* The steps that set flags and write nothing.
LEMMA FlagsStay ==
  ASSUME SInv, SInv', \/ Rebuild \/ RoomMade \/ MarkFull \/ \E b \in Batches : Commit(b)
                      \/ \E k \in Glyphs : NoteDrawn(k)
                      \/ \E budget \in {"Idle", "Open"} : MakeRoom(budget)
                      \/ UNCHANGED vars
  PROVE  Stays
<1> DEFINE Same(r) == r.segEpoch = ram.segEpoch /\ r.head = ram.head /\ r.used = ram.used
<1>1. ram \in RamSet
  BY SInvParts
<1>2. flash' = flash
  BY DEF Rebuild, RoomMade, MarkFull, Commit, NoteDrawn, MakeRoom, Notes, vars
<1>3. CASE Rebuild
  <2>1. \/ ram' = [ram EXCEPT !.wipe = TRUE, !.stopped = TRUE] \/ ram' = [ram EXCEPT !.starved = FALSE]
        \/ ram' = [ram EXCEPT !.starved = TRUE]
    BY <1>3 DEF Rebuild, Notes
  <2> QED
    BY <1>1, <1>2, <2>1, QuietStays DEF RamSet
<1>4. CASE RoomMade
  <2>1. \E x, y : ram' = [ram EXCEPT !.roomAsked = x, !.stopped = y]
    BY <1>4 DEF RoomMade, Notes
  <2>2. Same(ram')
    BY <1>1, <2>1 DEF RamSet
  <2> QED
    BY <1>2, <2>2, QuietStays
<1>5. CASE MarkFull \/ (\E b \in Batches : Commit(b))
  <2>1. \/ ram' = [ram EXCEPT !.stopped = TRUE, !.roomAsked = TRUE]
        \/ ram' = [ram EXCEPT !.indexFull = TRUE, !.stopped = TRUE]
        \/ ram' = [ram EXCEPT !.roomAsked = TRUE, !.stopped = TRUE]
        \/ ram' = [ram EXCEPT !.stopped = TRUE] \/ ram' = ram
    BY <1>5 DEF MarkFull, Commit, Notes
  <2>2. Same(ram')
    BY <1>1, <2>1 DEF RamSet
  <2> QED
    BY <1>2, <2>2, QuietStays
<1>6. CASE \/ \E k \in Glyphs : NoteDrawn(k)
           \/ \E budget \in {"Idle", "Open"} : MakeRoom(budget)
           \/ UNCHANGED vars
  <2>1. ram' = ram
    BY <1>6 DEF NoteDrawn, MakeRoom, Notes, vars
  <2> QED
    BY <1>2, <2>1, QuietStays
<1> QED
  BY <1>3, <1>4, <1>5, <1>6

\* What a step may do to an answer, and what it leaves of a reclaim to keep.
Answering ==
  ram'.open /\ ~ram.wipe =>
    \A k \in Keys : Find(k) # "NotStored" =>
      \/ Find(k)' = Find(k) \/ op.call \in {"rebuild", "wipe"}
      \/ op.call = "reclaim" /\ op'.call = "reclaim" /\ op.gone # op'.gone
           /\ (k \notin op.keys \/ ram.chainFull)

LEMMA StepAnswers ==
  ASSUME SInv, JInv, LInv, KInv, [Next]_vars
  PROVE  KInv' /\ Answering
<1>0. SInv'
  BY StepKeeps
<1>1. Stays => Answering
  BY DEF Stays, Answering
<1>2. op.call \in {"room", "reclaim", "rebuild"} => ram.open /\ ~ram.wipe
  BY SInvParts, OpIs
<1>3. ~ram.open \/ ram.wipe => Answering
  BY DEF Answering, Find
<1>4. CASE Reclaim
  BY <1>0, <1>1, <1>4, ReclaimStays
<1>5. ASSUME op.call = "reclaim" PROVE KInv' /\ Answering
  <2>1. ram.open /\ ~ram.wipe
    BY <1>2, <1>5
  <2>2. CASE MoveHead
    BY <1>0, <1>1, <2>1, <2>2, MoveHeadStays
  <2>3. CASE PlaceRecord
    BY <1>0, <1>1, <2>1, <2>3, PlaceRecordStays
  <2>4. CASE CopySlot
    BY <1>0, <1>1, <2>1, <2>4, CopySlotStays
  <2>5. CASE RetireTail
    <3>1. Answering
      BY <1>0, <1>5, <2>1, <2>5, RetireTailStays DEF Answering
    <3>2. KInv'
      <4> DEFINE o == [op EXCEPT !.gone = {ram.tail}]
      <4>1. op \in ReclaimSet
        BY <1>5, SInvParts, OpIs
      <4>2. o.gone # {}
        BY <4>1 DEF ReclaimSet
      <4>3. op' = o \/ op' = None
        BY <2>5 DEF RetireTail, Does
      <4> HIDE DEF o
      <4>4. op'.call # "reclaim" \/ op'.gone # {}
        BY <4>2, <4>3, OpCalls
      <4> QED
        BY <4>4 DEF KInv, Copied
    <3> QED
      BY <3>1, <3>2
  <2>6. CASE EraseTail
    <3>1. op.room.call = "room"
      BY <1>5, SInvParts, OpIs, OpCalls DEF ReclaimSet
    <3>2. op'.call # "reclaim"
      BY <2>6, <3>1, OpCalls DEF EraseTail, Does
    <3> QED
      BY <1>0, <1>1, <2>1, <2>6, <3>2, EraseTailStays, NoReclaim
  <2>7. CASE UNCHANGED vars
    <3>1. KInv'
      BY <2>7 DEF vars, KInv, Copied, HasCopy, CopyAt, Names, Live, Exact, Backed, ReachedIn
    <3> QED
      BY <1>0, <1>1, <2>7, <3>1, FlagsStay
  <2>8. \/ MoveHead \/ PlaceRecord \/ CopySlot \/ RetireTail \/ EraseTail \/ UNCHANGED vars
    <3>1. op # None
      BY <1>5, OpCalls
    <3> QED
      BY <1>5, <3>1 DEF Next, Proceed, Open, CommitSlot, Reclaim, Rebuild, RebuildBase, RebuildErase, RebuildInsert,
         RebuildDone, WipeStep, RoomMade, Wipe, LastFace, MarkFull, Commit, MarkNoGlyph, NoteDrawn, MakeRoom, Ready
  <2> QED
    BY <2>2, <2>3, <2>4, <2>5, <2>6, <2>7, <2>8
<1>6. ASSUME op.call # "reclaim", ~Reclaim PROVE KInv' /\ Answering
  <2>1. KInv'
    BY <1>6, OneReclaim, NoReclaim
  <2>2. op.call \in {"rebuild", "wipe"} => Answering
    BY DEF Answering
  <2>3. SUFFICES ASSUME ram.open, ~ram.wipe, op.call \notin {"rebuild", "wipe"} PROVE Stays
    BY <1>1, <1>3, <2>1, <2>2
  <2>4. CASE Open
    BY <1>0, <2>3, <2>4, OpenStays
  <2>5. CASE MoveHead
    BY <1>0, <2>3, <2>5, MoveHeadStays
  <2>6. CASE PlaceRecord
    BY <1>0, <2>3, <2>6, PlaceRecordStays
  <2>7. CASE CommitSlot
    BY <1>0, <2>3, <2>7, CommitSlotStays
  <2>8. CASE LastFace
    BY <1>0, <2>3, <2>8, LastFaceStays
  <2>9. ASSUME NEW k \in Blanks, MarkNoGlyph(k) PROVE Stays
    BY <1>0, <2>3, <2>9, MarkNoGlyphStays
  <2>10. CASE \/ Rebuild \/ RoomMade \/ MarkFull \/ \E b \in Batches : Commit(b)
              \/ \E k \in Glyphs : NoteDrawn(k)
              \/ \E budget \in {"Idle", "Open"} : MakeRoom(budget)
              \/ UNCHANGED vars
    BY <1>0, <2>10, FlagsStay
  <2>11. ~Wipe
    BY <2>3 DEF Wipe
  <2>12. ~(RebuildBase \/ RebuildErase \/ RebuildInsert \/ RebuildDone \/ WipeStep)
    BY <2>3 DEF RebuildBase, RebuildErase, RebuildInsert, RebuildDone, WipeStep
  <2>13. ~(CopySlot \/ RetireTail \/ EraseTail)
    BY <1>6 DEF CopySlot, RetireTail, EraseTail
  <2> QED
    BY <1>6, <2>4, <2>5, <2>6, <2>7, <2>8, <2>9, <2>10, <2>11, <2>12, <2>13 DEF Next, Proceed
<1> QED
  BY <1>4, <1>5, <1>6

\* A glyph that was answered stays answered, the same way, through every step of every
\* behaviour but a rebuild, a wipe and the retiring of its segment; and through that
\* too when reclaimTail() chose to keep it, unless a full chain kept its copy from a slot.
THEOREM AnswersStayed == Spec => AnswersStay
<1>1. Init => SInv /\ JInv /\ LInv /\ KInv
  <2>1. Init => KInv
    BY OpCalls DEF Init, KInv, Copied
  <2> QED
    BY <2>1, InitSound, InitTrue, InitTallies
<1>2. SInv /\ JInv /\ LInv /\ KInv /\ [Next]_vars => (SInv /\ JInv /\ LInv /\ KInv)'
  <2>1. SInv /\ [Next]_vars => SInv'
    BY StepKeeps
  <2>2. SInv /\ JInv /\ [Next]_vars => JInv'
    BY StepTrue
  <2>3. SInv /\ JInv /\ LInv /\ [Next]_vars => LInv'
    BY StepTallies
  <2> QED
    BY <2>1, <2>2, <2>3, StepAnswers
<1>3. SInv /\ JInv /\ LInv /\ KInv /\ [Next]_vars =>
      [ram'.open /\ ~ram.wipe /\ op.call \notin {"rebuild", "wipe"} =>
         \A k \in Keys :
           \/ Find(k)' = Find(k) \/ Find(k) = "NotStored"
           \/ op.call = "reclaim" /\ op'.call = "reclaim" /\ op.gone # op'.gone
                /\ (k \notin op.keys \/ ram.chainFull)]_vars
  BY StepAnswers DEF Answering
<1> QED
  BY <1>1, <1>2, <1>3, PTL DEF Spec, AnswersStay
=============================================================================
