------------------------ MODULE FlashGlyphStore_proofs ------------------------
(***************************************************************************)
(* Proofs about FlashGlyphStore for any glyphs, ring, index and journal,   *)
(* and any number of power cuts and failed writes.                         *)
(***************************************************************************)
EXTENDS FlashGlyphStore, FiniteSetTheorems, SequenceTheorems, WellFoundedInduction, TLAPS

----------------------------------------------------------------------------
(* Numbers. *)

LEMMA MinOfNat ==
  ASSUME NEW S \in SUBSET Nat, S # {}
  PROVE  Min(S) \in S /\ \A y \in S : Min(S) <= y
<1>1. PICK x \in S : \A y \in S : ~(<<y, x>> \in OpToRel(<, Nat))
  BY WFMin, NatLessThanWellFounded
<1>2. \A y \in S : ~(y < x)
  BY <1>1 DEF OpToRel
<1>3. \A y \in S : x =< y
  BY <1>2
<1> QED
  BY <1>3 DEF Min

\* Max returns the greatest of naturals that have a bound.
LEMMA MaxOfNat ==
  ASSUME NEW B \in Nat, NEW S \in SUBSET (0 .. B), S # {}
  PROVE  Max(S) \in S /\ \A y \in S : y <= Max(S)
<1> DEFINE T == {B - x : x \in S}
<1>1. T \in SUBSET Nat /\ T # {}
  <2>1. \A x \in S : B - x \in Nat
    OBVIOUS
  <2> QED
    BY <2>1
<1>2. Min(T) \in T /\ \A y \in T : Min(T) <= y
  BY <1>1, MinOfNat
<1>3. PICK x \in S : Min(T) = B - x
  BY <1>2
<1>4. \A y \in S : y <= x
  <2> TAKE y \in S
  <2>1. B - y \in T
    OBVIOUS
  <2>2. B - x <= B - y
    BY <1>2, <1>3, <2>1
  <2> QED
    BY <2>2
<1> HIDE DEF T
<1>5. \A y \in S : x >= y
  BY <1>4
<1> QED
  BY <1>5 DEF Max

\* The greatest is the one nothing exceeds.
LEMMA MaxIs ==
  ASSUME NEW S \in SUBSET Nat, NEW x \in S, \A y \in S : y <= x
  PROVE  Max(S) = x
<1>1. \E z \in S : \A y \in S : z >= y
  OBVIOUS
<1>2. Max(S) \in S /\ \A y \in S : Max(S) >= y
  BY <1>1 DEF Max
<1>3. Max(S) >= x /\ Max(S) <= x /\ Max(S) \in Nat
  BY <1>2
<1> QED
  BY <1>3

\* What holds of 0, and of n + 1 when of n, holds of every natural.
LEMMA Induct ==
  ASSUME NEW P \in SUBSET Nat, 0 \in P, \A n \in P : n + 1 \in P
  PROVE  P = Nat
<1> DEFINE Q == Nat \ P
<1> SUFFICES ASSUME Q # {} PROVE FALSE
  OBVIOUS
<1>1. Min(Q) \in Q /\ \A y \in Q : Min(Q) <= y
  BY MinOfNat
<1>2. Min(Q) # 0 /\ Min(Q) \in Nat
  BY <1>1
<1>3. Min(Q) - 1 \in Nat /\ ~(Min(Q) <= Min(Q) - 1)
  BY <1>2
<1>4. Min(Q) - 1 \in P
  BY <1>1, <1>3
<1>5. (Min(Q) - 1) + 1 = Min(Q)
  BY <1>2
<1>6. Min(Q) \in P
  BY <1>4, <1>5
<1> QED
  BY <1>1, <1>6

\* A remainder of a number less than twice the divisor.
LEMMA ModOnce ==
  ASSUME NEW m \in Nat \ {0}, NEW x \in 0 .. 2 * m - 1
  PROVE  x % m = IF x < m THEN x ELSE x - m
<1>1. x = m * (x \div m) + (x % m) /\ x % m \in 0 .. m - 1 /\ x \div m \in Int
  OBVIOUS
<1> QED
  BY <1>1, SMT

LEMMA ModIn == \A x \in Nat, m \in Nat \ {0} : x % m \in 0 .. m - 1
  OBVIOUS

----------------------------------------------------------------------------
(* The invariant.  What the flash holds has its shape, and no two records of a *)
(* segment share a unit.                                                       *)

Headers    == {"blank", "live", "torn", "retired"}
RecordSet  == {r \in [key : Glyphs \cup {Scrap}, whole : BOOLEAN, at : 0 .. Cap, end : 1 .. Cap] : r.at < r.end}
SegmentSet == [header : Headers, epoch : Nat, recs : SUBSET RecordSet]
PlaceSet   == [seg : Segments, at : 0 .. Cap, epoch : Nat \ {0}]
GlyphSlots == [key : Glyphs, value : PlaceSet, torn : BOOLEAN]
WholeSlots == {sl \in GlyphSlots : ~sl.torn}
MarkSlots  == {Slot(k, NoGlyph) : k \in Blanks}
SlotSet    == {Erased, Junk} \cup MarkSlots \cup GlyphSlots
Entry      == [base : Nat, done : BOOLEAN]
FlashSet   == [seg : [Segments -> SegmentSet], index : [Slots -> SlotSet], journal : Seq(Entry), wipe : BOOLEAN]

Apart(q, r)   == q.end <= r.at \/ r.end <= q.at
Disjoint(seg) == \A s \in Segments : \A q, r \in seg[s].recs : q # r => Apart(q, r)
FlashSane(f)  == f \in FlashSet /\ Disjoint(f.seg)

LEMMA StoreFacts ==
  /\ SegmentCount \in Nat /\ SegmentCount >= 2 /\ 0 \in Segments /\ Segments \subseteq Nat
  /\ Cap \in Nat /\ Cap >= 1 /\ SlotCount \in Nat /\ SlotCount >= 1 /\ Slots \subseteq Nat
  /\ MaxProbe \in Nat /\ MaxProbe >= 1 /\ MaxProbe <= SlotCount /\ MaxCount \in Nat
  BY StoreAssumption DEF Segments, Slots

----------------------------------------------------------------------------
(* What a flash operation leaves, whole or stopped. *)

LEMMA WrittenHeader == \A s, e : Written(Header(s, e)) = [flash EXCEPT !.seg[s].header = "live", !.seg[s].epoch = e]
  BY DEF Written, Header
LEMMA WrittenRecord == \A s, r : Written(Record(s, r)) = [flash EXCEPT !.seg[s].recs = @ \cup {r}]
  BY DEF Written, Record
LEMMA WrittenSlot == \A i, sl : Written(SlotAt(i, sl)) = [flash EXCEPT !.index[i] = sl]
  BY DEF Written, SlotAt
LEMMA WrittenRetire == \A s : Written(Retire(s)) = [flash EXCEPT !.seg[s].header = "retired"]
  BY DEF Written, Retire
LEMMA WrittenErase == \A s : Written(EraseSeg(s)) = [flash EXCEPT !.seg[s] = BlankSegment]
  BY DEF Written, EraseSeg
LEMMA WrittenBase == \A b : Written(Base(b)) = [flash EXCEPT !.journal = Append(@, [base |-> b, done |-> FALSE])]
  BY DEF Written, Base
LEMMA WrittenDone == Written(Do("done")) = [flash EXCEPT !.journal[Len(flash.journal)].done = TRUE]
  BY DEF Written, Do
LEMMA WrittenEraseIndex == Written(Do("eraseIndex")) = [flash EXCEPT !.index = BlankIndex]
  BY DEF Written, Do
LEMMA WrittenWipe == Written(Do("wipe")) = [flash EXCEPT !.wipe = TRUE]
  BY DEF Written, Do
LEMMA WrittenEraseLog == Written(Do("eraseLog")) = [flash EXCEPT !.seg = [s \in Segments |-> BlankSegment]]
  BY DEF Written, Do
LEMMA WrittenEraseState == Written(Do("eraseState")) = [flash EXCEPT !.journal = <<>>, !.wipe = FALSE]
  BY DEF Written, Do

\* The records a cut may leave in place of one that was to be written.
Remains(r) == {[r EXCEPT !.whole = FALSE]} \cup {[key |-> Scrap, whole |-> FALSE, at |-> r.at, end |-> e] : e \in r.at + 1 .. Cap}
\* The slots a cut may leave in place of one.
TornSlots(sl) ==
  {Junk} \cup IF sl.value = NoGlyph THEN {} ELSE {[sl EXCEPT !.value.at = a, !.torn = TRUE] : a \in sl.value.at + 1 .. Cap - 1}

LEMMA TornHeader ==
  \A s, e : Torn(Header(s, e)) = {flash, [flash EXCEPT !.seg[s].header = "torn"]}
  BY DEF Torn, Header
LEMMA TornRecord ==
  \A s, r : \A f \in Torn(Record(s, r)) :
  f = flash \/ \E t \in Remains(r) : f = [flash EXCEPT !.seg[s].recs = @ \cup {t}]
<1> TAKE s, r
<1>1. Torn(Record(s, r)) = {flash} \cup (
        {[flash EXCEPT !.seg[s].recs = @ \cup {[r EXCEPT !.whole = FALSE]}]} \cup
        {[flash EXCEPT !.seg[s].recs =
           @ \cup {[key |-> Scrap, whole |-> FALSE, at |-> r.at, end |-> e]}] : e \in r.at + 1 .. Cap})
  BY DEF Torn, Record
<1>2. \A f \in Torn(Record(s, r)) :
        \/ f = flash
        \/ f = [flash EXCEPT !.seg[s].recs = @ \cup {[r EXCEPT !.whole = FALSE]}]
        \/ \E e \in r.at + 1 .. Cap :
             f = [flash EXCEPT !.seg[s].recs = @ \cup {[key |-> Scrap, whole |-> FALSE, at |-> r.at, end |-> e]}]
  BY <1>1
<1>3. /\ [r EXCEPT !.whole = FALSE] \in Remains(r)
      /\ \A e \in r.at + 1 .. Cap : [key |-> Scrap, whole |-> FALSE, at |-> r.at, end |-> e] \in Remains(r)
  BY DEF Remains
<1> QED
  BY <1>2, <1>3
LEMMA TornSlot ==
  \A i, sl : \A f \in Torn(SlotAt(i, sl)) : f = flash \/ \E t \in TornSlots(sl) : f = [flash EXCEPT !.index[i] = t]
<1> TAKE i, sl
<1>1. Torn(SlotAt(i, sl)) = {flash} \cup (
        {[flash EXCEPT !.index[i] = Junk]} \cup
        IF sl.value = NoGlyph THEN {}
        ELSE {[flash EXCEPT !.index[i] = [sl EXCEPT !.value.at = a, !.torn = TRUE]] : a \in sl.value.at + 1 .. Cap - 1})
  BY DEF Torn, SlotAt
<1>2. \A f \in Torn(SlotAt(i, sl)) :
        \/ f = flash
        \/ f = [flash EXCEPT !.index[i] = Junk]
        \/ /\ sl.value # NoGlyph
           /\ \E a \in sl.value.at + 1 .. Cap - 1 : f = [flash EXCEPT !.index[i] = [sl EXCEPT !.value.at = a, !.torn = TRUE]]
  BY <1>1
<1>3. /\ Junk \in TornSlots(sl)
      /\ sl.value # NoGlyph => \A a \in sl.value.at + 1 .. Cap - 1 : [sl EXCEPT !.value.at = a, !.torn = TRUE] \in TornSlots(sl)
  BY DEF TornSlots
<1> QED
  BY <1>2, <1>3
LEMMA TornErase ==
  \A s : \A f \in Torn(EraseSeg(s)) :
  f = flash \/ \E a \in 0 .. Cap : f = [flash EXCEPT !.seg[s] = [BlankSegment EXCEPT !.recs = {r \in flash.seg[s].recs : r.at >= a}]]
  BY DEF Torn, EraseSeg
LEMMA TornBase ==
  \A b : \A f \in Torn(Base(b)) : f = flash \/ f = [flash EXCEPT !.journal = Append(@, [base |-> 0, done |-> FALSE])]
  BY DEF Torn, Base
LEMMA TornEraseIndex ==
  \A f \in Torn(Do("eraseIndex")) :
  f = flash \/ \E n \in Slots : f = [flash EXCEPT !.index = [i \in Slots |-> IF i < n THEN Erased ELSE flash.index[i]]]
  BY DEF Torn, Do
LEMMA TornEraseLog ==
  \A f \in Torn(Do("eraseLog")) :
  f = flash \/ \E n \in Segments : f = [flash EXCEPT !.seg = [s \in Segments |-> IF s < n THEN BlankSegment ELSE flash.seg[s]]]
  BY DEF Torn, Do
LEMMA TornRetire ==
  \A s : Torn(Retire(s)) = {flash, Written(Retire(s))}
  BY DEF Torn, Retire
LEMMA TornState ==
  \A what \in {"done", "wipe", "eraseState"} : Torn(Do(what)) = {flash, Written(Do(what))}
  BY DEF Torn, Do

----------------------------------------------------------------------------
(* The shape, kept. *)

LEMMA SaneParts ==
  ASSUME NEW f, FlashSane(f)
  PROVE  /\ f.seg \in [Segments -> SegmentSet] /\ f.index \in [Slots -> SlotSet]
         /\ f.journal \in Seq(Entry) /\ f.wipe \in BOOLEAN
         /\ \A s \in Segments : /\ f.seg[s].header \in Headers /\ f.seg[s].epoch \in Nat
                                /\ f.seg[s].recs \in SUBSET RecordSet
         /\ \A s \in Segments : \A q, r \in f.seg[s].recs : q # r => Apart(q, r)
<1>1. f \in FlashSet
  BY DEF FlashSane
<1>2. /\ f.seg \in [Segments -> SegmentSet] /\ f.index \in [Slots -> SlotSet]
      /\ f.journal \in Seq(Entry) /\ f.wipe \in BOOLEAN
  BY <1>1 DEF FlashSet
<1>3. \A s \in Segments : f.seg[s] \in SegmentSet
  BY <1>2
<1>4. \A s \in Segments : /\ f.seg[s].header \in Headers /\ f.seg[s].epoch \in Nat
                          /\ f.seg[s].recs \in SUBSET RecordSet
  BY <1>3 DEF SegmentSet
<1> QED
  BY <1>2, <1>4 DEF FlashSane, Disjoint

LEMMA RecordParts ==
  ASSUME NEW r \in RecordSet
  PROVE  /\ r.key \in Glyphs \cup {Scrap} /\ r.whole \in BOOLEAN
         /\ r.at \in Nat /\ r.end \in Nat /\ r.at < r.end /\ r.end <= Cap /\ r.end >= 1
  BY StoreFacts DEF RecordSet

LEMMA SegSane ==
  ASSUME FlashSane(flash), NEW s \in Segments, NEW x \in SegmentSet,
         \A q, r \in x.recs : q # r => Apart(q, r)
  PROVE  FlashSane([flash EXCEPT !.seg[s] = x])
<1> DEFINE f == [flash EXCEPT !.seg[s] = x]
<1>1. flash \in FlashSet /\ Disjoint(flash.seg)
  BY DEF FlashSane
<1>2. f.seg = [flash.seg EXCEPT ![s] = x] /\ flash.seg \in [Segments -> SegmentSet]
  BY <1>1 DEF FlashSet
<1>3. f \in FlashSet
  BY <1>1 DEF FlashSet
<1>4. Disjoint(f.seg)
  BY <1>1, <1>2 DEF Disjoint
<1> QED
  BY <1>3, <1>4 DEF FlashSane

LEMMA IndexSane ==
  ASSUME FlashSane(flash), NEW index \in [Slots -> SlotSet]
  PROVE  FlashSane([flash EXCEPT !.index = index])
  BY DEF FlashSane, FlashSet

LEMMA SlotSane ==
  ASSUME FlashSane(flash), NEW i, NEW sl \in SlotSet
  PROVE  FlashSane([flash EXCEPT !.index[i] = sl])
<1>1. flash.index \in [Slots -> SlotSet]
  BY DEF FlashSane, FlashSet
<1>2. [flash.index EXCEPT ![i] = sl] \in [Slots -> SlotSet]
  BY <1>1
<1>3. flash \in FlashSet
  BY DEF FlashSane
<1>4. [flash EXCEPT !.index[i] = sl] = [flash EXCEPT !.index = [flash.index EXCEPT ![i] = sl]]
  BY <1>3 DEF FlashSet
<1> QED
  BY <1>2, <1>4, IndexSane

LEMMA JournalSane ==
  ASSUME FlashSane(flash), NEW j \in Seq(Entry)
  PROVE  FlashSane([flash EXCEPT !.journal = j])
  BY DEF FlashSane, FlashSet

LEMMA WipeWordSane ==
  ASSUME NEW f, FlashSane(f), NEW w \in BOOLEAN
  PROVE  FlashSane([f EXCEPT !.wipe = w])
  BY DEF FlashSane, FlashSet

LEMMA BlankIsSegment == BlankSegment \in SegmentSet /\ BlankSegment.recs = {} /\ BlankSegment.header = "blank" /\ BlankSegment.epoch = 0
  BY DEF BlankSegment, SegmentSet, Headers

LEMMA ErasedIsSlot == Erased \in SlotSet /\ Junk \in SlotSet /\ BlankIndex \in [Slots -> SlotSet]
  BY DEF SlotSet, BlankIndex

LEMMA HeaderSane ==
  ASSUME FlashSane(flash), NEW s \in Segments, NEW e \in Nat, NEW h \in Headers
  PROVE  /\ FlashSane([flash EXCEPT !.seg[s].header = h, !.seg[s].epoch = e])
         /\ FlashSane([flash EXCEPT !.seg[s].header = h])
<1>0. flash \in FlashSet /\ flash.seg \in [Segments -> SegmentSet] /\ flash.seg[s] \in SegmentSet
  BY SaneParts DEF FlashSane
<1>1. /\ [flash.seg[s] EXCEPT !.header = h, !.epoch = e] \in SegmentSet
      /\ [flash.seg[s] EXCEPT !.header = h, !.epoch = e].recs = flash.seg[s].recs
  BY <1>0 DEF SegmentSet
<1>2. [flash.seg[s] EXCEPT !.header = h] \in SegmentSet /\ [flash.seg[s] EXCEPT !.header = h].recs = flash.seg[s].recs
  BY <1>0 DEF SegmentSet
<1>3. \A q, r \in flash.seg[s].recs : q # r => Apart(q, r)
  BY SaneParts
<1>4. [flash EXCEPT !.seg[s].header = h, !.seg[s].epoch = e] = [flash EXCEPT !.seg[s] = [flash.seg[s] EXCEPT !.header = h, !.epoch = e]]
  BY <1>0 DEF FlashSet, SegmentSet
<1>5. [flash EXCEPT !.seg[s].header = h] = [flash EXCEPT !.seg[s] = [flash.seg[s] EXCEPT !.header = h]]
  BY <1>0 DEF FlashSet, SegmentSet
<1>6. FlashSane([flash EXCEPT !.seg[s] = [flash.seg[s] EXCEPT !.header = h, !.epoch = e]])
  BY <1>1, <1>3, SegSane
<1>7. FlashSane([flash EXCEPT !.seg[s] = [flash.seg[s] EXCEPT !.header = h]])
  BY <1>2, <1>3, SegSane
<1> QED
  BY <1>4, <1>5, <1>6, <1>7

\* A record added past all the others of its segment.
LEMMA AddSane ==
  ASSUME FlashSane(flash), NEW s \in Segments, NEW r \in RecordSet,
         \A q \in flash.seg[s].recs : q.end <= r.at
  PROVE  FlashSane([flash EXCEPT !.seg[s].recs = @ \cup {r}])
<1> DEFINE x == [flash.seg[s] EXCEPT !.recs = @ \cup {r}]
<1>0. flash \in FlashSet /\ flash.seg \in [Segments -> SegmentSet] /\ flash.seg[s] \in SegmentSet
  BY SaneParts DEF FlashSane
<1>1. x \in SegmentSet /\ x.recs = flash.seg[s].recs \cup {r}
  BY <1>0 DEF SegmentSet
<1>2. \A p, q \in flash.seg[s].recs : p # q => Apart(p, q)
  BY SaneParts
<1>3. \A p, q \in x.recs : p # q => Apart(p, q)
  BY <1>1, <1>2 DEF Apart
<1>4. [flash EXCEPT !.seg[s].recs = @ \cup {r}] = [flash EXCEPT !.seg[s] = x]
  BY <1>0 DEF FlashSet, SegmentSet
<1> QED
  BY <1>1, <1>3, <1>4, SegSane

LEMMA RemainsAre ==
  ASSUME NEW r \in RecordSet, NEW t \in Remains(r)
  PROVE  t \in RecordSet /\ t.at = r.at /\ t.key \in {r.key, Scrap} /\ ~t.whole
<1>1. CASE t = [r EXCEPT !.whole = FALSE]
  BY <1>1 DEF RecordSet
<1>2. ASSUME NEW e \in r.at + 1 .. Cap, t = [key |-> Scrap, whole |-> FALSE, at |-> r.at, end |-> e]
      PROVE  t \in RecordSet /\ t.at = r.at /\ t.key \in {r.key, Scrap} /\ ~t.whole
  <2>1. r.at \in 0 .. Cap /\ e \in 1 .. Cap /\ r.at < e
    BY RecordParts, StoreFacts
  <2> QED
    BY <1>2, <2>1 DEF RecordSet
<1> QED
  BY <1>1, <1>2 DEF Remains

\* A slot to be written, and what a cut leaves of it.
LEMMA TornSlotsAre ==
  ASSUME NEW sl \in MarkSlots \cup WholeSlots, NEW t \in TornSlots(sl)
  PROVE  \/ t = Junk
         \/ /\ sl \in WholeSlots /\ t \in GlyphSlots /\ t.key = sl.key /\ t.torn
            /\ t.value.seg = sl.value.seg /\ t.value.epoch = sl.value.epoch
<1>1. CASE t = Junk
  BY <1>1
<1>2. ASSUME sl.value # NoGlyph, NEW a \in sl.value.at + 1 .. Cap - 1, t = [sl EXCEPT !.value.at = a, !.torn = TRUE]
      PROVE  /\ sl \in WholeSlots /\ t \in GlyphSlots /\ t.key = sl.key /\ t.torn
             /\ t.value.seg = sl.value.seg /\ t.value.epoch = sl.value.epoch
  <2>1. sl \in WholeSlots
    BY <1>2 DEF MarkSlots, Slot
  <2>2. sl.value \in PlaceSet /\ sl \in GlyphSlots
    BY <2>1 DEF WholeSlots, GlyphSlots
  <2>3. a \in 0 .. Cap
    BY <2>2, StoreFacts DEF PlaceSet
  <2> QED
    BY <1>2, <2>1, <2>2, <2>3 DEF GlyphSlots, PlaceSet
<1> QED
  BY <1>1, <1>2 DEF TornSlots

\* What each kind of slot looks like: a glyph's slot is no mark, and neither is erased.
LEMMA SlotKinds ==
  /\ \A sl \in GlyphSlots : /\ sl # Erased /\ sl # Junk /\ sl.value # NoGlyph /\ sl.key \in Glyphs /\ sl.key # Scrap /\ sl.key \notin Blanks
                            /\ sl.value.seg \in Segments /\ sl.value.at \in 0 .. Cap /\ sl.value.epoch \in Nat \ {0}
  /\ \A sl \in MarkSlots : sl # Erased /\ sl # Junk /\ sl.value = NoGlyph /\ sl.key \in Blanks /\ sl.key # Scrap /\ ~sl.torn
  /\ Erased.key = Scrap /\ Junk.key = Scrap /\ Erased.value = NoGlyph /\ Junk.value = NoGlyph /\ Junk # Erased /\ ~Erased.torn /\ Junk.torn
<1>1. Scrap \notin Glyphs /\ Scrap \notin Blanks /\ Glyphs \cap Blanks = {}
  BY StoreAssumption DEF Keys
<1>2. Erased.key = Scrap /\ Junk.key = Scrap /\ Erased.value = NoGlyph /\ Junk.value = NoGlyph /\ Junk # Erased /\ ~Erased.torn /\ Junk.torn
  BY DEF Erased, Junk, Slot
<1>3. ASSUME NEW sl \in GlyphSlots
      PROVE  /\ sl # Erased /\ sl # Junk /\ sl.value # NoGlyph /\ sl.key \in Glyphs /\ sl.key # Scrap /\ sl.key \notin Blanks
             /\ sl.value.seg \in Segments /\ sl.value.at \in 0 .. Cap /\ sl.value.epoch \in Nat \ {0}
  <2>1. sl.key \in Glyphs /\ sl.value \in PlaceSet
    BY DEF GlyphSlots
  <2>2. sl.value.epoch # 0 /\ NoGlyph.epoch = 0
    BY <2>1 DEF PlaceSet, NoGlyph, Place
  <2> QED
    BY <2>1, <2>2, <1>1, <1>2 DEF PlaceSet
<1>4. ASSUME NEW sl \in MarkSlots
      PROVE  sl # Erased /\ sl # Junk /\ sl.value = NoGlyph /\ sl.key \in Blanks /\ sl.key # Scrap /\ ~sl.torn
  BY <1>1, <1>2 DEF MarkSlots, Slot
<1> QED
  BY <1>2, <1>3, <1>4

----------------------------------------------------------------------------
(* The ring: the n segments from t on, and no others, have live headers, each with *)
(* an epoch above the one before.                                                 *)

Dist(t, s) == IF s >= t THEN s - t ELSE s - t + SegmentCount

RingOf(seg, t, n) ==
  /\ \A s \in Segments : seg[s].header = "live" <=> Dist(t, s) < n
  /\ \A s, u \in Segments : Dist(t, s) < Dist(t, u) /\ Dist(t, u) < n => seg[s].epoch < seg[u].epoch
  /\ \A s \in Segments : Dist(t, s) < n => seg[s].epoch > 0

LEMMA DistFacts ==
  /\ \A t, s \in Segments : Dist(t, s) \in 0 .. SegmentCount - 1
  /\ \A t, s, u \in Segments : Dist(t, s) = Dist(t, u) => s = u
  /\ \A t \in Segments : Dist(t, t) = 0
  /\ \A s \in Segments : Following(s) \in Segments /\ Following(s) # s
  /\ \A t, s \in Segments : Dist(t, s) + 1 < SegmentCount => Dist(t, Following(s)) = Dist(t, s) + 1
  /\ \A t, s \in Segments : s # t => Dist(Following(t), s) = Dist(t, s) - 1
  /\ \A t \in Segments : Dist(Following(t), t) = SegmentCount - 1
  BY StoreFacts DEF Dist, Segments, Following

LEMMA DistNat == \A t, s \in Segments : Dist(t, s) \in Nat
  BY StoreFacts DEF Dist, Segments

LEMMA RingSame ==
  ASSUME NEW seg, NEW seg2, NEW t, NEW n, RingOf(seg, t, n),
         \A s \in Segments : seg2[s].header = seg[s].header /\ seg2[s].epoch = seg[s].epoch
  PROVE  RingOf(seg2, t, n)
  BY DEF RingOf

\* A segment outside the ring may change as long as its header does not come alive.
LEMMA RingOutside ==
  ASSUME NEW seg, NEW seg2, NEW t \in Segments, NEW n \in Nat, RingOf(seg, t, n), NEW x \in Segments,
         ~(Dist(t, x) < n), seg2[x].header # "live", \A s \in Segments \ {x} : seg2[s] = seg[s]
  PROVE  RingOf(seg2, t, n)
<1>1. \A s \in Segments : Dist(t, s) < n => s # x
  OBVIOUS
<1>2. \A s \in Segments : seg2[s].header = "live" <=> Dist(t, s) < n
  BY DEF RingOf
<1>3. ASSUME NEW s \in Segments, NEW u \in Segments, Dist(t, s) < Dist(t, u), Dist(t, u) < n
      PROVE  seg2[s].epoch < seg2[u].epoch
  <2>1. Dist(t, s) < n
    BY <1>3, DistFacts
  <2> QED
    BY <1>1, <1>3, <2>1 DEF RingOf
<1>4. \A s \in Segments : Dist(t, s) < n => seg2[s].epoch > 0
  BY <1>1 DEF RingOf
<1> QED
  BY <1>2, <1>3, <1>4 DEF RingOf

\* The head moves on, into the segment after it.
LEMMA RingGrows ==
  ASSUME NEW seg, NEW seg2, NEW t \in Segments, NEW n \in 0 .. SegmentCount - 1, RingOf(seg, t, n),
         NEW x \in Segments, n > 0 => Dist(t, x) = n, seg2[x].header = "live",
         \A s \in Segments \ {x} : seg2[s] = seg[s],
         seg2[x].epoch > 0, \A s \in Segments : Dist(t, s) < n => seg[s].epoch < seg2[x].epoch
  PROVE  RingOf(seg2, IF n = 0 THEN x ELSE t, n + 1)
<1>0. n \in Nat
  BY StoreFacts
<1>1. CASE n = 0
  <2>1. \A s \in Segments : Dist(x, s) < 1 <=> s = x
    BY DistFacts
  <2>2. \A s \in Segments \ {x} : seg2[s].header # "live"
    BY <1>1, DistFacts DEF RingOf
  <2>3. \A s, u \in Segments : ~(Dist(x, s) < Dist(x, u) /\ Dist(x, u) < 1)
    BY DistFacts
  <2>4. RingOf(seg2, x, 1)
    BY <2>1, <2>2, <2>3 DEF RingOf
  <2> QED
    BY <1>1, <2>4
<1>2. CASE n > 0
  <2>1. Dist(t, x) = n
    BY <1>2
  <2>2. \A s \in Segments : Dist(t, s) < n + 1 <=> (Dist(t, s) < n \/ s = x)
    <3>1. \A s \in Segments : Dist(t, s) \in Nat /\ (Dist(t, s) = n <=> s = x)
      BY <2>1, DistFacts
    <3>2. \A d \in Nat : d < n + 1 <=> (d < n \/ d = n)
      BY <1>0
    <3> QED
      BY <3>1, <3>2
  <2>3. \A s \in Segments : seg2[s].header = "live" <=> Dist(t, s) < n + 1
    BY <2>1, <2>2 DEF RingOf
  <2>4. ASSUME NEW s \in Segments, NEW u \in Segments, Dist(t, s) < Dist(t, u), Dist(t, u) < n + 1
        PROVE  seg2[s].epoch < seg2[u].epoch
    <3>1. s # x /\ Dist(t, s) < n
      BY <1>0, <2>1, <2>2, <2>4, DistFacts
    <3>2. CASE u = x
      BY <3>1, <3>2
    <3>3. CASE u # x
      BY <2>2, <2>4, <3>1, <3>3 DEF RingOf
    <3> QED
      BY <3>2, <3>3
  <2>5. \A s \in Segments : Dist(t, s) < n + 1 => seg2[s].epoch > 0
    BY <2>2 DEF RingOf
  <2>6. RingOf(seg2, t, n + 1)
    BY <2>3, <2>4, <2>5 DEF RingOf
  <2> QED
    BY <1>2, <2>6
<1> QED
  BY <1>0, <1>1, <1>2

\* The tail leaves.
LEMMA RingShrinks ==
  ASSUME NEW seg, NEW seg2, NEW t \in Segments, NEW n \in 1 .. SegmentCount, RingOf(seg, t, n),
         seg2[t].header # "live", \A s \in Segments \ {t} : seg2[s] = seg[s]
  PROVE  RingOf(seg2, Following(t), n - 1)
<1>0. n \in Nat /\ n >= 1 /\ n <= SegmentCount /\ SegmentCount \in Nat
  BY StoreFacts
<1>1. \A s \in Segments \ {t} : Dist(Following(t), s) = Dist(t, s) - 1 /\ Dist(t, s) \in Nat
  BY DistFacts
<1>2. \A s \in Segments \ {t} : Dist(Following(t), s) < n - 1 <=> Dist(t, s) < n
  BY <1>0, <1>1
<1>3. ~(Dist(Following(t), t) < n - 1)
  BY <1>0, DistFacts
<1>4. \A s \in Segments : seg2[s].header = "live" <=> Dist(Following(t), s) < n - 1
  BY <1>2, <1>3 DEF RingOf
<1>5. ASSUME NEW s \in Segments, NEW u \in Segments, Dist(Following(t), s) < Dist(Following(t), u), Dist(Following(t), u) < n - 1
      PROVE  seg2[s].epoch < seg2[u].epoch
  <2>1. s # t /\ u # t
    BY <1>0, <1>3, <1>5, DistFacts
  <2>2. Dist(t, s) < Dist(t, u) /\ Dist(t, u) < n
    BY <1>0, <1>1, <1>5, <2>1
  <2> QED
    BY <2>1, <2>2 DEF RingOf
<1>6. \A s \in Segments : Dist(Following(t), s) < n - 1 => seg2[s].epoch > 0
  BY <1>2, <1>3 DEF RingOf
<1> QED
  BY <1>4, <1>5, <1>6 DEF RingOf

LEMMA NoRing ==
  ASSUME NEW seg, \A s \in Segments : seg[s].header # "live"
  PROVE  RingOf(seg, 0, 0)
  BY StoreFacts, DistFacts DEF RingOf

----------------------------------------------------------------------------
(* How far a segment is filled. *)

Fill(recs) == Max({0} \cup {r.end : r \in recs})

LEMMA FillFacts ==
  ASSUME NEW recs \in SUBSET RecordSet
  PROVE  /\ Fill(recs) \in 0 .. Cap
         /\ \A r \in recs : r.end <= Fill(recs)
         /\ recs = {} => Fill(recs) = 0
<1> DEFINE E == {0} \cup {r.end : r \in recs}
<1>1. E \in SUBSET (0 .. Cap) /\ E # {}
  BY RecordParts, StoreFacts
<1>2. Max(E) \in E /\ \A y \in E : y <= Max(E)
  BY <1>1, StoreFacts, MaxOfNat
<1>3. recs = {} => E = {0}
  OBVIOUS
<1> HIDE DEF E
<1>4. E = {0} => Max(E) = 0
  BY <1>2
<1>5. Max(E) \in 0 .. Cap
  BY <1>1, <1>2
<1>6. \A r \in recs : r.end \in E
  BY DEF E
<1>7. \A r \in recs : r.end <= Max(E)
  BY <1>2, <1>6
<1>8. Fill(recs) = Max(E)
  BY DEF E, Fill
<1> QED
  BY <1>3, <1>4, <1>5, <1>7, <1>8

\* After a record past all others writing resumes at its end.
LEMMA FillGrows ==
  ASSUME NEW recs \in SUBSET RecordSet, NEW x \in RecordSet, \A q \in recs : q.end <= x.at
  PROVE  Fill(recs \cup {x}) = x.end
<1> DEFINE E == {0} \cup {r.end : r \in recs \cup {x}}
<1>1. E \in SUBSET Nat
  BY RecordParts
<1>2. x.end \in E
  OBVIOUS
<1>3. \A r \in recs : r.end <= x.end
  BY RecordParts
<1>4. \A y \in E : y <= x.end
  BY <1>3, RecordParts
<1> HIDE DEF E
<1>5. Max(E) = x.end
  BY <1>1, <1>2, <1>4, MaxIs
<1> QED
  BY <1>5 DEF E, Fill

LEMMA ResumeIs == \A s : Resume(s) = Fill(flash.seg[s].recs)
  BY DEF Resume, Fill

\* With records apart, at most one starts at a unit; and so they are few.
LEMMA OneAt ==
  ASSUME NEW recs \in SUBSET RecordSet, \A q, r \in recs : q # r => Apart(q, r)
  PROVE  /\ \A q, r \in recs : q.at = r.at => q = r
         /\ IsFiniteSet(recs)
<1>1. ASSUME NEW q \in recs, NEW r \in recs, q.at = r.at, q # r PROVE FALSE
  <2>1. Apart(q, r)
    BY <1>1
  <2> QED
    BY <1>1, <2>1, RecordParts DEF Apart
<1> DEFINE f == [r \in recs |-> r.at]
<1>2. f \in Injection(recs, 0 .. Cap)
  <2>1. \A r \in recs : r.at \in 0 .. Cap
    BY RecordParts, StoreFacts
  <2>2. f \in [recs -> 0 .. Cap]
    BY <2>1
  <2>3. \A q, r \in recs : f[q] = f[r] => q = r
    BY <1>1
  <2> QED
    BY <2>2, <2>3 DEF Injection, IsInjective
<1>3. IsFiniteSet(0 .. Cap)
  BY FS_Interval, StoreFacts
<1> QED
  BY <1>1, <1>2, <1>3, FS_Injection

----------------------------------------------------------------------------
(* The slots in use, and those that mark a key without a glyph. *)

InUse(index)  == {i \in Slots : index[i] # Erased}
Marked(index) == {i \in Slots : index[i].key # Scrap /\ index[i].value = NoGlyph}

LEMMA SlotsFinite ==
  /\ IsFiniteSet(Slots) /\ IsFiniteSet(Segments)
  /\ \A S \in SUBSET Slots : IsFiniteSet(S) /\ Cardinality(S) \in Nat
<1>1. IsFiniteSet(0 .. SlotCount - 1) /\ IsFiniteSet(0 .. SegmentCount - 1)
  BY StoreFacts, FS_Interval
<1>2. IsFiniteSet(Slots) /\ IsFiniteSet(Segments)
  BY <1>1 DEF Slots, Segments
<1>3. \A S \in SUBSET Slots : IsFiniteSet(S)
  BY <1>2, FS_Subset
<1> QED
  BY <1>2, <1>3, FS_CardinalityType

LEMMA CountsTyped ==
  ASSUME NEW index
  PROVE  /\ InUse(index) \in SUBSET Slots /\ Marked(index) \in SUBSET Slots
         /\ IsFiniteSet(InUse(index)) /\ Cardinality(InUse(index)) \in Nat
         /\ IsFiniteSet(Marked(index)) /\ Cardinality(Marked(index)) \in Nat
  BY SlotsFinite DEF InUse, Marked

LEMMA BlankCounts ==
  InUse(BlankIndex) = {} /\ Marked(BlankIndex) = {} /\ Cardinality(InUse(BlankIndex)) = 0 /\ Cardinality(Marked(BlankIndex)) = 0
<1>1. InUse(BlankIndex) = {} /\ Marked(BlankIndex) = {}
  BY SlotKinds DEF InUse, Marked, BlankIndex
<1> QED
  BY <1>1, FS_EmptySet

\* Filling an erased slot adds one to the slots in use, and to the marks if it is one.
LEMMA InsertCounts ==
  ASSUME NEW index \in [Slots -> SlotSet], NEW i \in Slots, index[i] = Erased, NEW sl \in MarkSlots \cup GlyphSlots,
         NEW index2, index2 = [index EXCEPT ![i] = sl]
  PROVE  /\ Cardinality(InUse(index2)) = Cardinality(InUse(index)) + 1
         /\ sl \in GlyphSlots => Marked(index2) = Marked(index)
         /\ sl \in MarkSlots => Cardinality(Marked(index2)) = Cardinality(Marked(index)) + 1
<1>1. index2[i] = sl /\ \A j \in Slots \ {i} : index2[j] = index[j]
  OBVIOUS
<1>2. InUse(index2) = InUse(index) \cup {i} /\ i \notin InUse(index)
  BY <1>1, SlotKinds DEF InUse
<1>3. Cardinality(InUse(index2)) = Cardinality(InUse(index)) + 1
  BY <1>2, CountsTyped, FS_AddElement
<1>4. i \notin Marked(index)
  BY SlotKinds DEF Marked
<1>5. sl \in GlyphSlots => Marked(index2) = Marked(index)
  BY <1>1, <1>4, SlotKinds DEF Marked
<1>6. sl \in MarkSlots => Marked(index2) = Marked(index) \cup {i}
  BY <1>1, SlotKinds DEF Marked
<1>7. Cardinality(Marked(index) \cup {i}) = Cardinality(Marked(index)) + 1
  BY <1>4, CountsTyped, FS_AddElement
<1> QED
  BY <1>3, <1>5, <1>6, <1>7

----------------------------------------------------------------------------
(* The journal: the base of the newest rebuild that finished. *)

Dones(journal)   == {i \in DOMAIN journal : journal[i].done}
FloorOf(journal) == IF Dones(journal) = {} THEN 0 ELSE journal[Max(Dones(journal))].base

LEMMA FloorTyped ==
  ASSUME NEW j \in Seq(Entry)
  PROVE  FloorOf(j) \in Nat
<1>1. Dones(j) \in SUBSET (0 .. Len(j)) /\ Len(j) \in Nat /\ Dones(j) \subseteq DOMAIN j
  BY DEF Dones
<1>2. CASE Dones(j) = {}
  BY <1>2 DEF FloorOf
<1>3. CASE Dones(j) # {}
  <2>1. Max(Dones(j)) \in DOMAIN j
    BY <1>1, <1>3, MaxOfNat
  <2>2. j[Max(Dones(j))] \in Entry
    BY <2>1, ElementOfSeq, LenProperties
  <2> QED
    BY <1>3, <2>2 DEF FloorOf, Entry
<1> QED
  BY <1>2, <1>3

\* A rebuild that begins changes nothing,
LEMMA FloorBegun ==
  ASSUME NEW j \in Seq(Entry), NEW b \in Nat, NEW k, k = Append(j, [base |-> b, done |-> FALSE])
  PROVE  /\ k \in Seq(Entry) /\ Len(k) = Len(j) + 1 /\ k # <<>> /\ k[Len(k)] = [base |-> b, done |-> FALSE]
         /\ FloorOf(k) = FloorOf(j)
<1>0. [base |-> b, done |-> FALSE] \in Entry
  BY DEF Entry
<1>1. /\ k \in Seq(Entry) /\ Len(k) = Len(j) + 1 /\ k[Len(k)] = [base |-> b, done |-> FALSE]
      /\ \A i \in 1 .. Len(j) : k[i] = j[i]
  BY <1>0, AppendProperties
<1>2. DOMAIN j = 1 .. Len(j) /\ DOMAIN k = 1 .. Len(k) /\ Len(j) \in Nat
  BY <1>1, LenProperties
<1>3. DOMAIN k = DOMAIN j \cup {Len(k)}
  BY <1>1, <1>2
<1>4. Dones(k) = Dones(j)
  BY <1>1, <1>2, <1>3 DEF Dones
<1>5. Dones(j) # {} => Max(Dones(j)) \in 1 .. Len(j)
  <2>1. Dones(j) \in SUBSET (0 .. Len(j)) /\ Dones(j) \subseteq DOMAIN j
    BY <1>2 DEF Dones
  <2> QED
    BY <1>2, <2>1, MaxOfNat
<1>6. k # <<>>
  BY <1>1, <1>2
<1> QED
  BY <1>1, <1>4, <1>5, <1>6 DEF FloorOf

\* and one that ends makes its base the floor.
LEMMA FloorDone ==
  ASSUME NEW j \in Seq(Entry), Len(j) > 0, NEW k, k = [j EXCEPT ![Len(j)].done = TRUE]
  PROVE  /\ k \in Seq(Entry) /\ Len(k) = Len(j) /\ k # <<>> /\ k[Len(k)].done
         /\ FloorOf(k) = j[Len(j)].base
<1>0. DOMAIN j = 1 .. Len(j) /\ Len(j) \in Nat /\ Len(j) \in DOMAIN j /\ j[Len(j)] \in Entry
  BY LenProperties, ElementOfSeq
<1>1. k = [j EXCEPT ![Len(j)] = [j[Len(j)] EXCEPT !.done = TRUE]]
  OBVIOUS
<1>2. [j[Len(j)] EXCEPT !.done = TRUE] \in Entry
  BY <1>0 DEF Entry
<1>3. k \in Seq(Entry) /\ Len(k) = Len(j) /\ k[Len(j)] = [j[Len(j)] EXCEPT !.done = TRUE]
  BY <1>0, <1>1, <1>2, ExceptSeq
<1>4. k[Len(j)].done /\ k[Len(j)].base = j[Len(j)].base
  BY <1>0, <1>3 DEF Entry
<1>5. DOMAIN k = 1 .. Len(j)
  BY <1>3, LenProperties
<1>6. Dones(k) \in SUBSET (0 .. Len(j)) /\ Len(j) \in Dones(k)
  BY <1>0, <1>4, <1>5 DEF Dones
<1>7. Max(Dones(k)) = Len(j)
  <2>1. Dones(k) \in SUBSET Nat /\ \A y \in Dones(k) : y <= Len(j)
    <3>1. \A m \in Nat : \A y \in 0 .. m : y \in Nat /\ y <= m
      OBVIOUS
    <3> QED
      BY <1>0, <1>6, <3>1
  <2> QED
    BY <1>6, <2>1, MaxIs
<1>8. Len(k) = Len(j) /\ k # <<>>
  BY <1>0, <1>3
<1> QED
  BY <1>3, <1>4, <1>6, <1>7, <1>8 DEF FloorOf

LEMMA FloorEmpty == FloorOf(<<>>) = 0
  BY DEF FloorOf, Dones

----------------------------------------------------------------------------
(* What open() finds. *)

RamSet ==
  [open : BOOLEAN, segEpoch : [Segments -> Nat], head : Segments, tail : Segments, live : 0 .. SegmentCount,
   used : 0 .. Cap, next : Nat \ {0}, liveSlots : Int, usedSlots : Nat, marks : Nat,
   entries : Nat, done : BOOLEAN, floor : Nat,
   chainFull : BOOLEAN, indexFull : BOOLEAN, roomAsked : BOOLEAN,
   starved : BOOLEAN, wipe : BOOLEAN, stopped : BOOLEAN]
\* The counters of slots never leave fewer in use than are live or marks.
RamSane(r) == r \in RamSet /\ r.liveSlots + r.marks <= r.usedSlots

\* The parts of Reopened, named.
HeadFound  == CHOOSE s \in LiveHeaders : \A t \in LiveHeaders : flash.seg[t].epoch <= flash.seg[s].epoch
LiveFound  == IF LiveHeaders = {} THEN 0 ELSE Max({n \in 1 .. SegmentCount : Run(HeadFound, n)})
RingFound  == {(HeadFound - i + SegmentCount) % SegmentCount : i \in 0 .. LiveFound - 1}
NamedFound == {r \in UNION {{<<s, t>> : t \in Records(s)} : s \in RingFound} :
                 NamedBy(flash.seg[r[1]].epoch, r[1], r[2]) # {}}
NoneFound  == [Closed EXCEPT
  !.open = TRUE, !.wipe = flash.wipe, !.stopped = flash.wipe,
  !.usedSlots = Cardinality(InUse(flash.index)), !.marks = Cardinality(Marked(flash.index)),
  !.entries = Len(flash.journal),
  !.done = flash.journal = <<>> \/ flash.journal[Len(flash.journal)].done,
  !.floor = FloorOf(flash.journal)]

LEMMA ReopenedIs ==
  Reopened = IF LiveFound = 0 THEN NoneFound
             ELSE [NoneFound EXCEPT
               !.segEpoch = [s \in Segments |-> IF s \in RingFound THEN flash.seg[s].epoch ELSE 0],
               !.head = HeadFound, !.tail = (HeadFound - LiveFound + 1 + SegmentCount) % SegmentCount, !.live = LiveFound,
               !.used = Resume(HeadFound), !.next = flash.seg[HeadFound].epoch + 1, !.liveSlots = Cardinality(NamedFound)]
<1>1. {i \in Slots : ~SlotErased(flash.index[i])} = InUse(flash.index)
  BY DEF SlotErased, InUse
<1>2. NoneFound = [Closed EXCEPT
        !.open = TRUE, !.wipe = flash.wipe, !.stopped = flash.wipe,
        !.usedSlots = Cardinality({i \in Slots : ~SlotErased(flash.index[i])}),
        !.marks = Cardinality({i \in Slots : flash.index[i].key # Scrap /\ flash.index[i].value = NoGlyph}),
        !.entries = Len(flash.journal),
        !.done = flash.journal = <<>> \/ flash.journal[Len(flash.journal)].done,
        !.floor = LET dones == {i \in DOMAIN flash.journal : flash.journal[i].done}
                  IN IF dones = {} THEN 0 ELSE flash.journal[Max(dones)].base]
  BY <1>1 DEF NoneFound, FloorOf, Dones, Marked
<1> QED
  BY <1>2 DEF Reopened, HeadFound, LiveFound, RingFound, NamedFound

\* Among any epochs of segments there is a newest.
LEMMA NewestExists ==
  ASSUME NEW S \in SUBSET Segments, S # {}, NEW e, \A s \in S : e[s] \in Nat
  PROVE  \E s \in S : \A t \in S : e[t] <= e[s]
<1> DEFINE P == {n \in Nat : (\E s \in S : s < n) => \E s \in S : s < n /\ \A t \in S : t < n => e[t] <= e[s]}
<1>0. S \subseteq Nat /\ \A s \in S : s < SegmentCount
  BY StoreFacts DEF Segments
<1>1. 0 \in P
  BY <1>0
<1>2. ASSUME NEW n \in P PROVE n + 1 \in P
  <2>0. n \in Nat /\ n + 1 \in Nat /\ \A s \in S : s < n + 1 <=> (s < n \/ s = n)
    BY <1>0
  <2>1. CASE n \notin S
    <3>1. \A s \in S : s < n + 1 <=> s < n
      BY <2>0, <2>1
    <3> QED
      BY <2>0, <3>1
  <2>2. CASE n \in S /\ ~\E s \in S : s < n
    <3>1. \A s \in S : s < n + 1 => s = n
      BY <2>0, <2>2
    <3>2. e[n] <= e[n] /\ n < n + 1
      BY <2>0, <2>2
    <3> QED
      BY <2>0, <2>2, <3>1, <3>2
  <2>3. CASE n \in S /\ \E s \in S : s < n
    <3>1. PICK s \in S : s < n /\ \A t \in S : t < n => e[t] <= e[s]
      BY <2>3
    <3>2. CASE e[n] <= e[s]
      <4>1. \A t \in S : t < n + 1 => e[t] <= e[s]
        BY <2>0, <3>1, <3>2
      <4> QED
        BY <2>0, <3>1, <4>1
    <3>3. CASE ~(e[n] <= e[s])
      <4>1. \A t \in S : t < n => e[t] <= e[n]
        BY <2>3, <3>1, <3>3
      <4>2. \A t \in S : t < n + 1 => e[t] <= e[n]
        BY <2>0, <2>3, <4>1
      <4> QED
        BY <2>0, <2>3, <4>2
    <3> QED
      BY <3>2, <3>3
  <2> QED
    BY <2>1, <2>2, <2>3
<1> HIDE DEF P
<1>3. P = Nat
  <2>1. P \in SUBSET Nat
    BY DEF P
  <2> QED
    BY <1>1, <1>2, <2>1, Induct
<1>4. SegmentCount \in P
  BY <1>3, StoreFacts
<1> QED
  BY <1>0, <1>4 DEF P

LEMMA HeadFoundIs ==
  ASSUME FlashSane(flash), LiveHeaders # {}
  PROVE  HeadFound \in LiveHeaders /\ HeadFound \in Segments /\ \A t \in LiveHeaders : flash.seg[t].epoch <= flash.seg[HeadFound].epoch
<1> DEFINE e == [s \in Segments |-> flash.seg[s].epoch]
<1>1. LiveHeaders \in SUBSET Segments /\ \A s \in LiveHeaders : e[s] \in Nat
  BY SaneParts DEF LiveHeaders
<1>2. \E s \in LiveHeaders : \A t \in LiveHeaders : e[t] <= e[s]
  <2> HIDE DEF e
  <2> QED
    BY <1>1, NewestExists
<1>3. \E s \in LiveHeaders : \A t \in LiveHeaders : flash.seg[t].epoch <= flash.seg[s].epoch
  BY <1>1, <1>2
<1> QED
  BY <1>1, <1>3 DEF HeadFound

LEMMA LiveFoundIs ==
  ASSUME FlashSane(flash), LiveHeaders # {}
  PROVE  /\ LiveFound \in 1 .. SegmentCount /\ Run(HeadFound, LiveFound)
         /\ \A n \in 1 .. SegmentCount : Run(HeadFound, n) => n <= LiveFound
<1> DEFINE S == {n \in 1 .. SegmentCount : Run(HeadFound, n)}
<1>1. S \in SUBSET (0 .. SegmentCount)
  BY StoreFacts
<1>2. Run(HeadFound, 1)
  BY DEF Run
<1>3. 1 \in S
  BY <1>2, StoreFacts
<1>4. LiveFound = Max(S)
  BY DEF LiveFound
<1> HIDE DEF S
<1>5. Max(S) \in S /\ \A y \in S : y <= Max(S)
  BY <1>1, <1>3, StoreFacts, MaxOfNat
<1> QED
  BY <1>4, <1>5 DEF S

LEMMA RingFoundIn ==
  ASSUME FlashSane(flash)
  PROVE  RingFound \in SUBSET Segments
<1> SUFFICES ASSUME NEW i \in 0 .. LiveFound - 1 PROVE (HeadFound - i + SegmentCount) % SegmentCount \in Segments
  BY DEF RingFound
<1>1. LiveHeaders # {}
  BY DEF LiveFound
<1>2. HeadFound \in Segments /\ LiveFound \in 1 .. SegmentCount
  BY <1>1, HeadFoundIs, LiveFoundIs
<1>3. HeadFound - i + SegmentCount \in Nat
  BY <1>2, StoreFacts DEF Segments
<1>4. SegmentCount \in Nat \ {0}
  BY StoreFacts
<1>5. (HeadFound - i + SegmentCount) % SegmentCount \in 0 .. SegmentCount - 1
  BY <1>3, <1>4, ModIn
<1> QED
  BY <1>5 DEF Segments

\* The segment i before another.
Back(h, i) == (h - i + SegmentCount) % SegmentCount

LEMMA BackFacts ==
  ASSUME NEW h \in Segments, NEW i \in 0 .. SegmentCount - 1
  PROVE  /\ Back(h, i) = IF i <= h THEN h - i ELSE h - i + SegmentCount
         /\ Back(h, i) \in Segments
<1>1. SegmentCount \in Nat \ {0} /\ h \in 0 .. SegmentCount - 1
  BY StoreFacts DEF Segments
<1> DEFINE x == h - i + SegmentCount
<1>2. x \in 0 .. 2 * SegmentCount - 1 /\ Back(h, i) = x % SegmentCount /\ SegmentCount \in Nat \ {0}
  BY <1>1 DEF Back
<1> HIDE DEF x
<1>3. Back(h, i) = IF x < SegmentCount THEN x ELSE x - SegmentCount
  BY <1>2, ModOnce
<1>4. Back(h, i) = IF i <= h THEN h - i ELSE h - i + SegmentCount
  BY <1>1, <1>3 DEF x
<1> QED
  BY <1>1, <1>4 DEF Segments

LEMMA BackDist ==
  ASSUME NEW t \in Segments, NEW h \in Segments, NEW i \in 0 .. SegmentCount - 1
  PROVE  /\ i <= Dist(t, h) => Dist(t, Back(h, i)) = Dist(t, h) - i
         /\ i = Dist(t, h) + 1 => Dist(t, Back(h, i)) = SegmentCount - 1
         /\ i > 0 => Following(Back(h, i)) = Back(h, i - 1)
<1>1. SegmentCount \in Nat /\ t \in 0 .. SegmentCount - 1 /\ h \in 0 .. SegmentCount - 1
  BY StoreFacts DEF Segments
<1>2. Back(h, i) = IF i <= h THEN h - i ELSE h - i + SegmentCount
  BY BackFacts
<1>3. i <= Dist(t, h) => Dist(t, Back(h, i)) = Dist(t, h) - i
  BY <1>1, <1>2 DEF Dist
<1>4. i = Dist(t, h) + 1 => Dist(t, Back(h, i)) = SegmentCount - 1
  BY <1>1, <1>2 DEF Dist
<1>5. ASSUME i > 0 PROVE Following(Back(h, i)) = Back(h, i - 1)
  <2>1. i - 1 \in 0 .. SegmentCount - 1
    BY <1>1, <1>5
  <2>2. Back(h, i - 1) = IF i - 1 <= h THEN h - (i - 1) ELSE h - (i - 1) + SegmentCount
    BY <2>1, BackFacts
  <2> QED
    BY <1>1, <1>2, <1>5, <2>2 DEF Following
<1> QED
  BY <1>3, <1>4, <1>5

\* Every distance is some segment's.
LEMMA AtDist ==
  ASSUME NEW t \in Segments, NEW d \in 0 .. SegmentCount - 1
  PROVE  \E s \in Segments : Dist(t, s) = d
<1>1. SegmentCount \in Nat /\ t \in 0 .. SegmentCount - 1
  BY StoreFacts DEF Segments
<1> DEFINE s == IF t + d < SegmentCount THEN t + d ELSE t + d - SegmentCount
<1>2. s \in Segments /\ Dist(t, s) = d
  BY <1>1 DEF Dist, Segments
<1> QED
  BY <1>2

\* open() finds the ring, whole.
LEMMA RingIsFound ==
  ASSUME FlashSane(flash), NEW t \in Segments, NEW n \in 0 .. SegmentCount, RingOf(flash.seg, t, n)
  PROVE  /\ LiveFound = n
         /\ n > 0 => /\ HeadFound \in Segments /\ Dist(t, HeadFound) = n - 1
                     /\ Back(HeadFound, n - 1) = t
                     /\ RingFound = {s \in Segments : Dist(t, s) < n}
<1>0. SegmentCount \in Nat /\ n \in Nat /\ n <= SegmentCount
  BY StoreFacts
<1>1. LiveHeaders = {s \in Segments : Dist(t, s) < n}
  BY DEF LiveHeaders, RingOf
<1>2. CASE n = 0
  <2>1. LiveHeaders = {}
    BY <1>1, <1>2, DistFacts
  <2> QED
    BY <1>2, <2>1 DEF LiveFound
<1>3. CASE n > 0
  <2> DEFINE h == HeadFound
  <2>1. PICK top \in Segments : Dist(t, top) = n - 1
    <3>1. n - 1 \in 0 .. SegmentCount - 1
      BY <1>0, <1>3
    <3> QED
      BY <3>1, AtDist
  <2>2. top \in LiveHeaders
    BY <1>0, <1>1, <1>3, <2>1
  <2>3. h \in Segments /\ h \in LiveHeaders /\ flash.seg[top].epoch <= flash.seg[h].epoch
    BY <2>2, HeadFoundIs
  <2>4. Dist(t, h) < n /\ Dist(t, h) \in Nat
    BY <1>1, <2>3, DistFacts
  <2>5. Dist(t, h) = n - 1
    <3> SUFFICES ASSUME Dist(t, h) # n - 1 PROVE FALSE
      OBVIOUS
    <3>1. Dist(t, h) < Dist(t, top) /\ Dist(t, top) < n
      BY <1>0, <1>3, <2>1, <2>4
    <3>2. flash.seg[h].epoch < flash.seg[top].epoch
      BY <2>3, <3>1 DEF RingOf
    <3>3. flash.seg[h].epoch \in Nat /\ flash.seg[top].epoch \in Nat
      BY <2>3, SaneParts
    <3> QED
      BY <2>3, <3>2, <3>3
  <2> HIDE DEF h
  <2>6. Run(h, n)
    <3> SUFFICES ASSUME NEW i \in 1 .. n - 1
                 PROVE  Back(h, i) \in LiveHeaders /\ flash.seg[Back(h, i)].epoch < flash.seg[Following(Back(h, i))].epoch
      BY DEF Run, Back
    <3>1. i \in 0 .. SegmentCount - 1 /\ i - 1 \in 0 .. SegmentCount - 1 /\ i > 0
      BY <1>0
    <3>2. Back(h, i) \in Segments /\ Back(h, i - 1) \in Segments
      BY <2>3, <3>1, BackFacts
    <3>3. Dist(t, Back(h, i)) = n - 1 - i
      BY <1>0, <2>3, <2>5, <3>1, BackDist
    <3>4. Dist(t, Back(h, i - 1)) = n - 1 - (i - 1)
      BY <1>0, <2>3, <2>5, <3>1, BackDist
    <3>5. Following(Back(h, i)) = Back(h, i - 1)
      BY <2>3, <3>1, BackDist
    <3>6. Dist(t, Back(h, i)) < Dist(t, Back(h, i - 1)) /\ Dist(t, Back(h, i - 1)) < n /\ Dist(t, Back(h, i)) < n
      BY <1>0, <3>1, <3>3, <3>4
    <3> QED
      BY <1>1, <3>2, <3>5, <3>6 DEF RingOf
  <2>7. ASSUME NEW k \in 1 .. SegmentCount, Run(h, k) PROVE k <= n
    <3> SUFFICES ASSUME k > n PROVE FALSE
      BY <1>0
    <3>1. n \in 1 .. k - 1 /\ n \in 0 .. SegmentCount - 1 /\ n = Dist(t, h) + 1
      BY <1>0, <1>3, <2>5
    <3>2. Back(h, n) \in LiveHeaders
      BY <2>7, <3>1 DEF Run, Back
    <3>3. Dist(t, Back(h, n)) = SegmentCount - 1
      BY <2>3, <3>1, BackDist
    <3> QED
      BY <1>0, <1>1, <3>1, <3>2, <3>3
  <2>8. LiveFound = n
    <3>0. LiveHeaders # {}
      BY <2>2
    <3>1. LiveFound \in 1 .. SegmentCount /\ Run(h, LiveFound) /\ (n \in 1 .. SegmentCount => n <= LiveFound)
      <4>1. /\ LiveFound \in 1 .. SegmentCount /\ Run(h, LiveFound)
            /\ \A k \in 1 .. SegmentCount : Run(h, k) => k <= LiveFound
        BY <3>0, LiveFoundIs DEF h
      <4> QED
        BY <2>6, <4>1
    <3>2. LiveFound <= n
      BY <2>7, <3>1
    <3> QED
      BY <1>0, <1>3, <3>1, <3>2
  <2>9. Back(h, n - 1) = t
    <3>1. n - 1 \in 0 .. SegmentCount - 1
      BY <1>0, <1>3
    <3>0. n - 1 <= Dist(t, h) /\ Dist(t, h) - (n - 1) = 0
      BY <1>0, <2>5
    <3>2. Dist(t, Back(h, n - 1)) = Dist(t, h) - (n - 1) /\ Back(h, n - 1) \in Segments
      BY <2>3, <3>0, <3>1, BackDist, BackFacts
    <3> QED
      BY <3>0, <3>2, DistFacts
  <2>10. RingFound = {s \in Segments : Dist(t, s) < n}
    <3>1. ASSUME NEW i \in 0 .. n - 1 PROVE Back(h, i) \in Segments /\ Dist(t, Back(h, i)) < n
      <4>1. i \in 0 .. SegmentCount - 1 /\ i <= Dist(t, h)
        BY <1>0, <2>5
      <4>2. Dist(t, Back(h, i)) = n - 1 - i /\ Back(h, i) \in Segments
        BY <2>3, <2>5, <4>1, BackDist, BackFacts
      <4> QED
        BY <1>0, <4>2
    <3>2. ASSUME NEW s \in Segments, Dist(t, s) < n PROVE \E i \in 0 .. n - 1 : s = Back(h, i)
      <4> DEFINE i == n - 1 - Dist(t, s)
      <4>1. i \in 0 .. n - 1 /\ i \in 0 .. SegmentCount - 1 /\ i <= Dist(t, h)
        BY <1>0, <2>5, <3>2, DistFacts
      <4>2. Dist(t, Back(h, i)) = Dist(t, h) - i /\ Back(h, i) \in Segments
        BY <2>3, <4>1, BackDist, BackFacts
      <4>3. Dist(t, Back(h, i)) = Dist(t, s)
        BY <1>0, <2>5, <4>2, DistFacts
      <4> QED
        BY <4>1, <4>2, <4>3, DistFacts
    <3>3. RingFound = {Back(h, i) : i \in 0 .. n - 1}
      BY <2>8 DEF RingFound, Back, h
    <3> QED
      BY <3>1, <3>2, <3>3
  <2> QED
    BY <1>3, <2>3, <2>5, <2>8, <2>9, <2>10 DEF h
<1> QED
  BY <1>0, <1>2, <1>3

LEMMA GlyphKeySlot ==
  ASSUME NEW sl \in SlotSet
  PROVE  /\ sl.key \in Glyphs => sl \in GlyphSlots
         /\ sl.key \in Blanks => sl \in MarkSlots
         /\ sl # Erased /\ sl.key = Scrap => sl = Junk
<1>1. Scrap \notin Glyphs /\ Scrap \notin Blanks /\ Glyphs \cap Blanks = {}
  BY StoreAssumption DEF Keys
<1> QED
  BY <1>1, SlotKinds DEF SlotSet

LEMMA RecordsAre ==
  ASSUME FlashSane(flash), NEW s \in Segments, NEW r \in Records(s)
  PROVE  r \in flash.seg[s].recs /\ r \in RecordSet /\ r.key \in Glyphs
<1>1. r \in flash.seg[s].recs /\ r.key # Scrap /\ r \in RecordSet
  BY SaneParts DEF Records
<1> QED
  BY <1>1, RecordParts

\* A slot that names a record is a glyph's, and names only it.
LEMMA NamedByAre ==
  ASSUME FlashSane(flash), NEW s \in Segments, NEW r \in Records(s), NEW epoch, NEW i \in NamedBy(epoch, s, r)
  PROVE  /\ i \in Slots /\ flash.index[i] \in GlyphSlots /\ i \in InUse(flash.index) \ Marked(flash.index)
         /\ flash.index[i].key = r.key /\ flash.index[i].value.seg = s /\ flash.index[i].value.at = r.at
<1>1. /\ i \in Slots /\ flash.index[i].key = r.key /\ flash.index[i].value.seg = s /\ flash.index[i].value.at = r.at
  BY DEF NamedBy
<1>2. flash.index[i] \in SlotSet
  BY <1>1, SaneParts
<1>3. flash.index[i] \in GlyphSlots
  BY <1>1, <1>2, RecordsAre, GlyphKeySlot
<1> QED
  BY <1>1, <1>3, SlotKinds DEF InUse, Marked

\* Records that slots name are no more than the slots in use that are no marks.
LEMMA NamedAreFew ==
  ASSUME FlashSane(flash), NEW S, NEW epoch,
         \A x \in S : \E s \in Segments : \E r \in Records(s) : x = <<s, r>> /\ NamedBy(epoch[s], s, r) # {}
  PROVE  /\ IsFiniteSet(S) /\ Cardinality(S) \in Nat
         /\ Cardinality(S) + Cardinality(Marked(flash.index)) <= Cardinality(InUse(flash.index))
<1> DEFINE free == InUse(flash.index) \ Marked(flash.index)
           f == [x \in S |-> CHOOSE i \in Slots : i \in NamedBy(epoch[x[1]], x[1], x[2])]
<1>1. ASSUME NEW x \in S
      PROVE  \E s \in Segments : \E r \in Records(s) : x = <<s, r>> /\ f[x] \in NamedBy(epoch[s], s, r)
  <2>0. PICK s \in Segments : \E r \in Records(s) : x = <<s, r>> /\ NamedBy(epoch[s], s, r) # {}
    OBVIOUS
  <2>1. PICK r \in Records(s) : x = <<s, r>> /\ NamedBy(epoch[s], s, r) # {}
    BY <2>0
  <2>2. \E i \in Slots : i \in NamedBy(epoch[s], s, r)
    BY <2>1, NamedByAre
  <2>3. x[1] = s /\ x[2] = r
    BY <2>1
  <2>4. (CHOOSE i \in Slots : i \in NamedBy(epoch[s], s, r)) \in NamedBy(epoch[s], s, r)
    BY <2>2
  <2>5. f[x] \in NamedBy(epoch[s], s, r)
    BY <2>3, <2>4
  <2> QED
    BY <2>1, <2>5
<1> HIDE DEF f
<1>2. \A x \in S : f[x] \in free
  BY <1>1, NamedByAre
<1>3. ASSUME NEW x \in S, NEW y \in S, f[x] = f[y] PROVE x = y
  <2>s. PICK s \in Segments : \E r \in Records(s) : x = <<s, r>> /\ f[x] \in NamedBy(epoch[s], s, r)
    BY <1>1
  <2>1. PICK r \in Records(s) : x = <<s, r>> /\ f[x] \in NamedBy(epoch[s], s, r)
    BY <2>s
  <2>t. PICK t \in Segments : \E q \in Records(t) : y = <<t, q>> /\ f[y] \in NamedBy(epoch[t], t, q)
    BY <1>1
  <2>2. PICK q \in Records(t) : y = <<t, q>> /\ f[y] \in NamedBy(epoch[t], t, q)
    BY <2>t
  <2>3. flash.index[f[x]].value.seg = s /\ flash.index[f[x]].value.at = r.at
    BY <2>1, NamedByAre
  <2>4. flash.index[f[y]].value.seg = t /\ flash.index[f[y]].value.at = q.at
    BY <2>2, NamedByAre
  <2>5. s = t /\ r.at = q.at
    BY <1>3, <2>3, <2>4
  <2>6. r = q
    <3>1. flash.seg[s].recs \in SUBSET RecordSet /\ \A a, b \in flash.seg[s].recs : a # b => Apart(a, b)
      BY SaneParts
    <3>2. r \in flash.seg[s].recs /\ q \in flash.seg[s].recs
      BY <2>5, RecordsAre
    <3> QED
      BY <2>5, <3>1, <3>2, OneAt
  <2> QED
    BY <2>1, <2>2, <2>5, <2>6
<1>4. f \in Injection(S, free)
  <2>1. f = [x \in S |-> f[x]]
    BY DEF f
  <2>2. f \in [S -> free]
    BY <1>2, <2>1
  <2> QED
    BY <1>3, <2>2 DEF Injection, IsInjective
<1>5. IsFiniteSet(free) /\ Marked(flash.index) \subseteq InUse(flash.index)
  BY CountsTyped, FS_Difference, SlotKinds DEF InUse, Marked
<1>6. IsFiniteSet(S) /\ Cardinality(S) <= Cardinality(free)
  BY <1>4, <1>5, FS_Injection
<1>7. Cardinality(free) = Cardinality(InUse(flash.index)) - Cardinality(Marked(flash.index))
  <2>1. InUse(flash.index) \cap Marked(flash.index) = Marked(flash.index)
    BY <1>5
  <2> QED
    BY <2>1, CountsTyped, FS_Difference
<1>8. Cardinality(S) \in Nat /\ Cardinality(free) \in Nat
  BY <1>5, <1>6, FS_CardinalityType
<1> QED
  BY <1>6, <1>7, <1>8, CountsTyped

LEMMA NamedFoundFew ==
  ASSUME FlashSane(flash)
  PROVE  /\ Cardinality(NamedFound) \in Nat
         /\ Cardinality(NamedFound) + Cardinality(Marked(flash.index)) <= Cardinality(InUse(flash.index))
<1> DEFINE epoch == [s \in Segments |-> flash.seg[s].epoch]
<1>1. ASSUME NEW x \in NamedFound
      PROVE  \E s \in Segments : \E r \in Records(s) : x = <<s, r>> /\ NamedBy(epoch[s], s, r) # {}
  <2>1. PICK s \in RingFound : x \in {<<s, t>> : t \in Records(s)}
    BY <1>1 DEF NamedFound
  <2>2. PICK r \in Records(s) : x = <<s, r>>
    BY <2>1
  <2>3. NamedBy(flash.seg[x[1]].epoch, x[1], x[2]) # {}
    BY <1>1 DEF NamedFound
  <2>4. s \in Segments /\ x[1] = s /\ x[2] = r
    BY <2>2, RingFoundIn
  <2>5. NamedBy(epoch[s], s, r) # {}
    BY <2>3, <2>4
  <2> QED
    BY <2>2, <2>4, <2>5
<1> HIDE DEF epoch
<1> QED
  BY <1>1, NamedAreFew

LEMMA NoneFoundSane ==
  ASSUME FlashSane(flash)
  PROVE  RamSane(NoneFound)
<1>1. /\ flash.wipe \in BOOLEAN /\ Len(flash.journal) \in Nat /\ FloorOf(flash.journal) \in Nat
      /\ flash.journal # <<>> => flash.journal[Len(flash.journal)].done \in BOOLEAN
  <2>1. flash.wipe \in BOOLEAN /\ flash.journal \in Seq(Entry)
    BY SaneParts
  <2>2. ASSUME flash.journal # <<>> PROVE flash.journal[Len(flash.journal)] \in Entry
    <3>1. Len(flash.journal) \in 1 .. Len(flash.journal)
      BY <2>1, <2>2, EmptySeq, LenProperties
    <3> QED
      BY <2>1, <3>1, ElementOfSeq
  <2> QED
    BY <2>1, <2>2, FloorTyped, LenProperties DEF Entry
<1>2. Closed \in RamSet
  BY StoreFacts DEF Closed, RamSet
<1>3. Cardinality(InUse(flash.index)) \in Nat /\ Cardinality(Marked(flash.index)) \in Nat
  BY CountsTyped
<1>4. (flash.journal = <<>> \/ flash.journal[Len(flash.journal)].done) \in BOOLEAN
  OBVIOUS
<1>5. NoneFound \in RamSet
  BY <1>1, <1>2, <1>3, <1>4 DEF NoneFound, RamSet
<1>6. NoneFound.liveSlots = 0 /\ NoneFound.marks = Cardinality(Marked(flash.index)) /\ NoneFound.usedSlots = Cardinality(InUse(flash.index))
  BY DEF NoneFound, Closed
<1>7. Cardinality(Marked(flash.index)) <= Cardinality(InUse(flash.index))
  <2>1. Marked(flash.index) \subseteq InUse(flash.index)
    BY SlotKinds DEF InUse, Marked
  <2> QED
    BY <2>1, CountsTyped, FS_Subset
<1>8. NoneFound.liveSlots + NoneFound.marks <= NoneFound.usedSlots
  BY <1>3, <1>6, <1>7
<1> QED
  BY <1>5, <1>8 DEF RamSane

LEMMA ReopenedSane ==
  ASSUME FlashSane(flash)
  PROVE  RamSane(Reopened)
<1>1. CASE LiveFound = 0
  BY <1>1, ReopenedIs, NoneFoundSane
<1>2. CASE LiveFound # 0
  <2>1. LiveHeaders # {}
    BY <1>2 DEF LiveFound
  <2>2. HeadFound \in Segments /\ LiveFound \in 1 .. SegmentCount
    BY <2>1, HeadFoundIs, LiveFoundIs
  <2>3. (HeadFound - LiveFound + 1 + SegmentCount) % SegmentCount \in Segments
    <3>1. HeadFound - LiveFound + 1 + SegmentCount \in Nat /\ SegmentCount \in Nat \ {0}
      BY <2>2, StoreFacts DEF Segments
    <3>2. (HeadFound - LiveFound + 1 + SegmentCount) % SegmentCount \in 0 .. SegmentCount - 1
      BY <3>1, ModIn
    <3> QED
      BY <3>2 DEF Segments
  <2>4. Resume(HeadFound) \in 0 .. Cap
    BY <2>2, ResumeIs, SaneParts, FillFacts
  <2>5. \A s \in Segments : flash.seg[s].epoch \in Nat
    BY SaneParts
  <2>6. flash.seg[HeadFound].epoch + 1 \in Nat \ {0}
    BY <2>2, <2>5
  <2>7. [s \in Segments |-> IF s \in RingFound THEN flash.seg[s].epoch ELSE 0] \in [Segments -> Nat]
    BY <2>5
  <2>8. Cardinality(NamedFound) \in Int /\ LiveFound \in 0 .. SegmentCount
    BY <2>2, NamedFoundFew, StoreFacts
  <2> DEFINE R == [NoneFound EXCEPT
               !.segEpoch = [s \in Segments |-> IF s \in RingFound THEN flash.seg[s].epoch ELSE 0],
               !.head = HeadFound, !.tail = (HeadFound - LiveFound + 1 + SegmentCount) % SegmentCount, !.live = LiveFound,
               !.used = Resume(HeadFound), !.next = flash.seg[HeadFound].epoch + 1, !.liveSlots = Cardinality(NamedFound)]
  <2>9. NoneFound \in RamSet
    BY NoneFoundSane DEF RamSane
  <2>10. R \in RamSet
    BY <2>2, <2>3, <2>4, <2>6, <2>7, <2>8, <2>9 DEF RamSet
  <2>11. R.liveSlots = Cardinality(NamedFound) /\ R.marks = Cardinality(Marked(flash.index)) /\ R.usedSlots = Cardinality(InUse(flash.index))
    BY DEF NoneFound, Closed
  <2>12. Reopened = R
    BY <1>2, ReopenedIs
  <2> HIDE DEF R
  <2> QED
    BY <2>10, <2>11, <2>12, NamedFoundFew DEF RamSane
<1> QED
  BY <1>1, <1>2

----------------------------------------------------------------------------
(* What the RAM keeps of the flash while the store may be written: the ring and *)
(* how far its head is filled, the journal, and the counts of slots.            *)

HasRing(seg) == \E t \in Segments : \E n \in 0 .. SegmentCount : RingOf(seg, t, n)

RingMirrored(f, r) ==
  /\ RingOf(f.seg, r.tail, r.live)
  /\ r.live = 0 => r.head = 0 /\ r.tail = 0 /\ r.used = 0 /\ r.next = 1
  /\ r.live > 0 => /\ Dist(r.tail, r.head) = r.live - 1
                   /\ r.next = f.seg[r.head].epoch + 1 /\ r.used = Fill(f.seg[r.head].recs)
  /\ r.segEpoch = [s \in Segments |-> IF Dist(r.tail, s) < r.live THEN f.seg[s].epoch ELSE 0]
JournalMirrored(f, r) ==
  /\ r.entries = Len(f.journal) /\ r.floor = FloorOf(f.journal)
  /\ r.done = (f.journal = <<>> \/ f.journal[Len(f.journal)].done)
CountsMirrored(f, r) ==
  r.usedSlots = Cardinality(InUse(f.index)) /\ r.marks = Cardinality(Marked(f.index))

LEMMA NoneFoundFields ==
  /\ NoneFound.open = TRUE /\ NoneFound.wipe = flash.wipe /\ NoneFound.stopped = flash.wipe
  /\ NoneFound.live = 0 /\ NoneFound.head = 0 /\ NoneFound.tail = 0 /\ NoneFound.used = 0 /\ NoneFound.next = 1
  /\ NoneFound.segEpoch = [s \in Segments |-> 0] /\ NoneFound.liveSlots = 0
  /\ NoneFound.usedSlots = Cardinality(InUse(flash.index)) /\ NoneFound.marks = Cardinality(Marked(flash.index))
  /\ NoneFound.entries = Len(flash.journal) /\ NoneFound.floor = FloorOf(flash.journal)
  /\ NoneFound.done = (flash.journal = <<>> \/ flash.journal[Len(flash.journal)].done)
  BY DEF NoneFound, Closed

LEMMA ReopenedFields ==
  /\ Reopened.open = TRUE /\ Reopened.wipe = flash.wipe /\ Reopened.stopped = flash.wipe
  /\ JournalMirrored(flash, Reopened) /\ CountsMirrored(flash, Reopened)
  /\ LiveFound = 0 => Reopened = NoneFound
  /\ LiveFound # 0 =>
       /\ Reopened.segEpoch = [s \in Segments |-> IF s \in RingFound THEN flash.seg[s].epoch ELSE 0]
       /\ Reopened.head = HeadFound /\ Reopened.tail = (HeadFound - LiveFound + 1 + SegmentCount) % SegmentCount
       /\ Reopened.live = LiveFound /\ Reopened.used = Resume(HeadFound) /\ Reopened.next = flash.seg[HeadFound].epoch + 1
<1>1. CASE LiveFound = 0
  BY <1>1, ReopenedIs, NoneFoundFields DEF JournalMirrored, CountsMirrored
<1>2. CASE LiveFound # 0
  <2> DEFINE R == [NoneFound EXCEPT
               !.segEpoch = [s \in Segments |-> IF s \in RingFound THEN flash.seg[s].epoch ELSE 0],
               !.head = HeadFound, !.tail = (HeadFound - LiveFound + 1 + SegmentCount) % SegmentCount, !.live = LiveFound,
               !.used = Resume(HeadFound), !.next = flash.seg[HeadFound].epoch + 1, !.liveSlots = Cardinality(NamedFound)]
  <2>1. Reopened = R
    BY <1>2, ReopenedIs
  <2>2. /\ R.open = NoneFound.open /\ R.wipe = NoneFound.wipe /\ R.stopped = NoneFound.stopped
        /\ R.entries = NoneFound.entries /\ R.floor = NoneFound.floor /\ R.done = NoneFound.done
        /\ R.usedSlots = NoneFound.usedSlots /\ R.marks = NoneFound.marks
        /\ R.segEpoch = [s \in Segments |-> IF s \in RingFound THEN flash.seg[s].epoch ELSE 0]
        /\ R.head = HeadFound /\ R.tail = (HeadFound - LiveFound + 1 + SegmentCount) % SegmentCount
        /\ R.live = LiveFound /\ R.used = Resume(HeadFound) /\ R.next = flash.seg[HeadFound].epoch + 1
    BY DEF NoneFound, Closed
  <2> HIDE DEF R
  <2> QED
    BY <1>2, <2>1, <2>2, NoneFoundFields DEF JournalMirrored, CountsMirrored
<1> QED
  BY <1>1, <1>2

\* When the flash has a ring, open() makes the RAM its mirror.
LEMMA ReopenedMirrors ==
  ASSUME FlashSane(flash), NEW t \in Segments, NEW n \in 0 .. SegmentCount, RingOf(flash.seg, t, n)
  PROVE  /\ RingMirrored(flash, Reopened)
         /\ Reopened.live = n /\ (n > 0 => Reopened.tail = t)
<1>0. n \in Nat
  BY StoreFacts
<1>1. CASE n = 0
  <2>1. Reopened = NoneFound
    BY <1>1, RingIsFound, ReopenedFields
  <2>2. \A s \in Segments : ~(Dist(t, s) < 0) /\ ~(Dist(0, s) < 0)
    BY DistFacts, StoreFacts
  <2>3. RingOf(flash.seg, 0, 0)
    <3>1. \A s \in Segments : flash.seg[s].header # "live"
      BY <1>1, <2>2 DEF RingOf
    <3> QED
      BY <3>1, NoRing
  <2>4. [s \in Segments |-> 0] = [s \in Segments |-> IF Dist(0, s) < 0 THEN flash.seg[s].epoch ELSE 0]
    BY <2>2
  <2> QED
    BY <1>1, <2>1, <2>3, <2>4, NoneFoundFields DEF RingMirrored
<1>2. CASE n > 0
  <2>1. LiveFound = n /\ LiveFound # 0
    BY <1>2, RingIsFound
  <2>2. /\ HeadFound \in Segments /\ Dist(t, HeadFound) = n - 1 /\ Back(HeadFound, n - 1) = t
        /\ RingFound = {s \in Segments : Dist(t, s) < n}
    BY <1>2, RingIsFound
  <2>3. (HeadFound - LiveFound + 1 + SegmentCount) % SegmentCount = t
    <3>1. HeadFound - LiveFound + 1 + SegmentCount = HeadFound - (n - 1) + SegmentCount
      BY <1>0, <2>1, <2>2, StoreFacts
    <3> QED
      BY <2>2, <3>1 DEF Back
  <2>4. /\ Reopened.segEpoch = [s \in Segments |-> IF s \in RingFound THEN flash.seg[s].epoch ELSE 0]
        /\ Reopened.head = HeadFound /\ Reopened.tail = t
        /\ Reopened.live = n /\ Reopened.used = Fill(flash.seg[HeadFound].recs) /\ Reopened.next = flash.seg[HeadFound].epoch + 1
    BY <2>1, <2>3, ReopenedFields, ResumeIs
  <2>5. Reopened.segEpoch = [s \in Segments |-> IF Dist(t, s) < n THEN flash.seg[s].epoch ELSE 0]
    BY <2>2, <2>4
  <2> QED
    BY <1>2, <2>2, <2>4, <2>5 DEF RingMirrored
<1> QED
  BY <1>0, <1>1, <1>2

----------------------------------------------------------------------------
(* The calls in progress. *)

RoomSet   == [call : {"room"}, budget : {"Idle", "Open"}, steps : Nat, tried : BOOLEAN]
CommitSet == [call : {"commit"}, todo : Seq(Glyphs), placed : Seq(WholeSlots), keys : SUBSET Glyphs]
ReclaimSet ==
  [call : {"reclaim"}, todo : Seq(Glyphs), counts : Seq(0 .. MaxCount), placed : Seq(WholeSlots),
   keys : SUBSET Glyphs, named : Nat, gone : SUBSET Segments, room : RoomSet]
PlanSet    == [slot : WholeSlots, count : 0 .. MaxCount]
RebuildSet ==
  [call : {"rebuild"}, stage : {"base", "erase", "insert"}, plan : Seq(PlanSet), inserted : Nat, room : RoomSet, base : Nat]
WipeTails  == {WipeSteps, <<"eraseIndex", "eraseLog", "eraseState">>, <<"eraseLog", "eraseState">>, <<"eraseState">>}
WipeSet    == [call : {"wipe"}, todo : WipeTails, then : {None} \cup RoomSet]

\* A batch is placed whole before its first slot.
CommitSane(o) == o.todo = <<>> => o.placed # <<>>
\* A copy gets its slot before the next; the tail is left for last, and is out of
\* the ring before its erase.
ReclaimSane(r, o) ==
  /\ Len(o.placed) <= 1 /\ Len(o.counts) = Len(o.todo) + Len(o.placed)
  /\ \/ o.gone = {} /\ r.live >= 2
     \/ /\ o.todo = <<>> /\ o.placed = <<>>
        /\ \E s \in Segments : o.gone = {s} /\ ~(Dist(r.tail, s) < r.live)
RebuildSane(f, o) ==
  /\ o.stage # "insert" => o.inserted = 0
  /\ o.stage # "base" => Len(f.journal) > 0 /\ f.journal[Len(f.journal)] = [base |-> o.base, done |-> FALSE]
\* A wipe is on record before it erases anything, and forgotten with the last of it.
WipeSane(f, o) ==
  /\ o.todo # WipeSteps => f.wipe
  /\ o.todo \in {<<"eraseLog", "eraseState">>, <<"eraseState">>} => f.index = BlankIndex
  /\ o.todo = <<"eraseState">> => f.seg = [s \in Segments |-> BlankSegment]

OpSane(f, r, o) ==
  \/ o = None
  \/ o \in RoomSet /\ r.open /\ ~r.wipe
  \/ o \in CommitSet /\ CommitSane(o) /\ r.open /\ ~r.stopped
  \/ o \in ReclaimSet /\ ReclaimSane(r, o) /\ r.open /\ ~r.wipe
  \/ o \in RebuildSet /\ RebuildSane(f, o) /\ r.open /\ ~r.wipe
  \/ o \in WipeSet /\ WipeSane(f, o) /\ r.open /\ r.wipe /\ r.stopped

Inserting(o)  == o.call = "rebuild" /\ o.stage = "insert"
\* While nothing has failed the RAM is the flash's mirror; a rebuild counts anew.
Trusted(r, o) == r.open /\ o.call # "wipe" /\ ~(r.wipe /\ r.stopped)
Mirrored(f, r, o) ==
  /\ RingMirrored(f, r) /\ JournalMirrored(f, r)
  /\ IF Inserting(o) THEN o.inserted = Cardinality(InUse(f.index)) /\ Marked(f.index) = {}
     ELSE CountsMirrored(f, r)

Sound(f, r, c, o) ==
  /\ FlashSane(f) /\ RamSane(r) /\ c \in [Slots -> 0 .. MaxCount] /\ OpSane(f, r, o)
  /\ ~f.wipe => HasRing(f.seg)
  /\ Trusted(r, o) => Mirrored(f, r, o)

SInv == Sound(flash, ram, count, op)

LEMMA OpCalls ==
  /\ None.call = "none"
  /\ \A o \in RoomSet : o.call = "room"
  /\ \A o \in CommitSet : o.call = "commit"
  /\ \A o \in ReclaimSet : o.call = "reclaim"
  /\ \A o \in RebuildSet : o.call = "rebuild"
  /\ \A o \in WipeSet : o.call = "wipe"
  BY DEF None, RoomSet, CommitSet, ReclaimSet, RebuildSet, WipeSet

\* Each call's form follows from its name.
LEMMA OpIs ==
  ASSUME NEW f, NEW r, NEW o, OpSane(f, r, o)
  PROVE  /\ o.call = "none" => o = None
         /\ o.call = "room" => o \in RoomSet /\ r.open /\ ~r.wipe
         /\ o.call = "commit" => o \in CommitSet /\ CommitSane(o) /\ r.open /\ ~r.stopped
         /\ o.call = "reclaim" => o \in ReclaimSet /\ ReclaimSane(r, o) /\ r.open /\ ~r.wipe
         /\ o.call = "rebuild" => o \in RebuildSet /\ RebuildSane(f, o) /\ r.open /\ ~r.wipe
         /\ o.call = "wipe" => o \in WipeSet /\ WipeSane(f, o) /\ r.open /\ r.wipe /\ r.stopped
<1> DEFINE A == o = None
           B == o \in RoomSet /\ r.open /\ ~r.wipe
           C == o \in CommitSet /\ CommitSane(o) /\ r.open /\ ~r.stopped
           D == o \in ReclaimSet /\ ReclaimSane(r, o) /\ r.open /\ ~r.wipe
           E == o \in RebuildSet /\ RebuildSane(f, o) /\ r.open /\ ~r.wipe
           F == o \in WipeSet /\ WipeSane(f, o) /\ r.open /\ r.wipe /\ r.stopped
<1>1. A \/ B \/ C \/ D \/ E \/ F
  BY DEF OpSane
<1>2. /\ A => o.call = "none"
      /\ B => o.call = "room"
      /\ C => o.call = "commit"
      /\ D => o.call = "reclaim"
      /\ E => o.call = "rebuild"
      /\ F => o.call = "wipe"
  BY OpCalls
<1> HIDE DEF A, B, C, D, E, F
<1>3. /\ (o.call = "none" => A) /\ (o.call = "room" => B) /\ (o.call = "commit" => C)
      /\ (o.call = "reclaim" => D) /\ (o.call = "rebuild" => E) /\ (o.call = "wipe" => F)
  BY <1>1, <1>2
<1> QED
  BY <1>3 DEF A, B, C, D, E, F

----------------------------------------------------------------------------
(* What each flash operation may leave, whole or stopped: a flash that is sound, *)
(* and that had nothing programmed twice.                                        *)

\* WriteOnce, of two states of the flash.
Kept(f, g) ==
  /\ \A s \in Segments : \A q \in f.seg[s].recs, r \in g.seg[s].recs :
       q \in g.seg[s].recs /\ q # r => q.end <= r.at \/ r.end <= q.at
  /\ \A i \in Slots : f.index[i] # Erased => g.index[i] \in {f.index[i], Erased}
  /\ \A s \in Segments :
       LET h == f.seg[s].header  h2 == g.seg[s].header
       IN /\ h # "blank" => h2 \in {h, "blank", "retired"}
          /\ h = "blank" /\ h2 # "blank" => f.seg[s].recs = {}

Intact(f) == FlashSane(f) /\ (~f.wipe => HasRing(f.seg))
Safe(p)   == \A f \in Torn(p) \cup {Written(p)} : Intact(f) /\ Kept(flash, f)

LEMMA KeptSeg ==
  ASSUME NEW f, NEW g, FlashSane(g),
         \A i \in Slots : f.index[i] # Erased => g.index[i] \in {f.index[i], Erased},
         \A s \in Segments :
           LET h == f.seg[s].header  h2 == g.seg[s].header
           IN /\ h # "blank" => h2 \in {h, "blank", "retired"}
              /\ h = "blank" /\ h2 # "blank" => f.seg[s].recs = {}
  PROVE  Kept(f, g)
<1>1. \A s \in Segments : \A q, r \in g.seg[s].recs : q # r => Apart(q, r)
  BY SaneParts
<1> QED
  BY <1>1 DEF Kept, Apart

LEMMA KeptSame == ASSUME FlashSane(flash) PROVE Kept(flash, flash)
<1>1. \A s \in Segments : flash.seg[s].header \in Headers
  BY SaneParts
<1> QED
  BY <1>1, KeptSeg

\* With the log untouched only the slots matter.
LEMMA LogUntouched ==
  ASSUME Intact(flash), NEW f, FlashSane(f), f.seg = flash.seg, f.wipe \in {TRUE, flash.wipe},
         \A i \in Slots : flash.index[i] # Erased => f.index[i] \in {flash.index[i], Erased}
  PROVE  Intact(f) /\ Kept(flash, f)
<1>1. Kept(flash, f)
  BY KeptSeg
<1> QED
  BY <1>1 DEF Intact

\* With the index untouched only a segment does.
LEMMA SegUntouched ==
  ASSUME Intact(flash), NEW s \in Segments, NEW x, NEW f, f = [flash EXCEPT !.seg[s] = x], FlashSane(f),
         ~flash.wipe => HasRing(f.seg),
         flash.seg[s].header # "blank" => x.header \in {flash.seg[s].header, "blank", "retired"},
         flash.seg[s].header = "blank" /\ x.header # "blank" => flash.seg[s].recs = {}
  PROVE  Intact(f) /\ Kept(flash, f)
<1>1. flash \in FlashSet /\ flash.seg \in [Segments -> SegmentSet]
  BY DEF Intact, FlashSane, FlashSet
<1>2. f.index = flash.index /\ f.wipe = flash.wipe /\ f.seg[s] = x /\ \A t \in Segments \ {s} : f.seg[t] = flash.seg[t]
  BY <1>1 DEF FlashSet
<1>3. \A i \in Slots : flash.index[i] # Erased => f.index[i] \in {flash.index[i], Erased}
  BY <1>2
<1>4. \A t \in Segments :
        LET h == flash.seg[t].header  h2 == f.seg[t].header
        IN /\ h # "blank" => h2 \in {h, "blank", "retired"}
           /\ h = "blank" /\ h2 # "blank" => flash.seg[t].recs = {}
  <2> TAKE t \in Segments
  <2>1. CASE t = s
    BY <1>2, <2>1
  <2>2. CASE t # s
    BY <1>2, <2>2
  <2> QED
    BY <2>1, <2>2
<1>5. Kept(flash, f)
  BY <1>3, <1>4, KeptSeg
<1> QED
  BY <1>2, <1>5 DEF Intact

LEMMA SafeIndex ==
  ASSUME Intact(flash)
  PROVE  /\ Safe(Do("wipe")) /\ Safe(Do("eraseIndex"))
         /\ Len(flash.journal) > 0 => Safe(Do("done"))
         /\ \A b \in Nat : Safe(Base(b))
<1>0. flash \in FlashSet /\ flash.seg \in [Segments -> SegmentSet] /\ flash.index \in [Slots -> SlotSet] /\ flash.journal \in Seq(Entry)
  BY DEF Intact, FlashSane, FlashSet
<1>1. Intact(flash) /\ Kept(flash, flash)
  BY KeptSame DEF Intact
<1>2. Safe(Do("wipe"))
  <2> DEFINE f == [flash EXCEPT !.wipe = TRUE]
  <2>1. FlashSane(f)
    BY WipeWordSane DEF Intact
  <2>2. f.seg = flash.seg /\ f.index = flash.index /\ f.wipe
    BY <1>0 DEF FlashSet
  <2>3. Intact(f) /\ Kept(flash, f)
    BY <2>1, <2>2, LogUntouched
  <2>4. Torn(Do("wipe")) = {flash, Written(Do("wipe"))} /\ Written(Do("wipe")) = f
    BY TornState, WrittenWipe
  <2> HIDE DEF f
  <2> QED
    BY <1>1, <2>3, <2>4 DEF Safe
<1>3. ASSUME Len(flash.journal) > 0 PROVE Safe(Do("done"))
  <2> DEFINE j == [flash.journal EXCEPT ![Len(flash.journal)].done = TRUE]
             f == [flash EXCEPT !.journal[Len(flash.journal)].done = TRUE]
  <2>1. f = [flash EXCEPT !.journal = j]
    BY <1>0 DEF FlashSet
  <2>2. j \in Seq(Entry)
    BY <1>0, <1>3, FloorDone
  <2>3. FlashSane(f)
    BY <2>1, <2>2, JournalSane DEF Intact
  <2>4. f.seg = flash.seg /\ f.index = flash.index /\ f.wipe = flash.wipe
    BY <1>0 DEF FlashSet
  <2>5. Intact(f) /\ Kept(flash, f)
    BY <2>3, <2>4, LogUntouched
  <2>6. Torn(Do("done")) = {flash, Written(Do("done"))} /\ Written(Do("done")) = f
    BY TornState, WrittenDone
  <2> HIDE DEF f
  <2> QED
    BY <1>1, <2>5, <2>6 DEF Safe
<1>4. Safe(Do("eraseIndex"))
  <2>1. ASSUME NEW x \in [Slots -> SlotSet], \A i \in Slots : x[i] \in {flash.index[i], Erased},
               NEW f, f = [flash EXCEPT !.index = x]
        PROVE  Intact(f) /\ Kept(flash, f)
    <3>1. FlashSane(f)
      BY <2>1, IndexSane DEF Intact
    <3>2. f.seg = flash.seg /\ f.index = x /\ f.wipe = flash.wipe
      BY <1>0, <2>1 DEF FlashSet
    <3> QED
      BY <2>1, <3>1, <3>2, LogUntouched
  <2>2. Intact([flash EXCEPT !.index = BlankIndex]) /\ Kept(flash, [flash EXCEPT !.index = BlankIndex])
    BY <2>1, ErasedIsSlot DEF BlankIndex
  <2>3. ASSUME NEW n \in Slots, NEW f, f = [flash EXCEPT !.index = [i \in Slots |-> IF i < n THEN Erased ELSE flash.index[i]]]
        PROVE  Intact(f) /\ Kept(flash, f)
    <3> DEFINE x == [i \in Slots |-> IF i < n THEN Erased ELSE flash.index[i]]
    <3>1. x \in [Slots -> SlotSet] /\ \A i \in Slots : x[i] \in {flash.index[i], Erased}
      BY <1>0, ErasedIsSlot
    <3>2. f = [flash EXCEPT !.index = x]
      BY <2>3
    <3> HIDE DEF x
    <3> QED
      BY <2>1, <3>1, <3>2
  <2>4. \A f \in Torn(Do("eraseIndex")) :
          f = flash \/ \E n \in Slots : f = [flash EXCEPT !.index = [i \in Slots |-> IF i < n THEN Erased ELSE flash.index[i]]]
    BY TornEraseIndex
  <2>5. \A f \in Torn(Do("eraseIndex")) : Intact(f) /\ Kept(flash, f)
    BY <1>1, <2>3, <2>4
  <2>6. Written(Do("eraseIndex")) = [flash EXCEPT !.index = BlankIndex]
    BY WrittenEraseIndex
  <2> QED
    BY <2>2, <2>5, <2>6 DEF Safe
<1>5. ASSUME NEW b \in Nat PROVE Safe(Base(b))
  <2>1. ASSUME NEW c \in Nat, NEW f, f = [flash EXCEPT !.journal = Append(@, [base |-> c, done |-> FALSE])]
        PROVE  Intact(f) /\ Kept(flash, f)
    <3>1. Append(flash.journal, [base |-> c, done |-> FALSE]) \in Seq(Entry)
      BY <1>0, FloorBegun
    <3>2. FlashSane(f)
      BY <2>1, <3>1, JournalSane DEF Intact
    <3>3. f.seg = flash.seg /\ f.index = flash.index /\ f.wipe = flash.wipe
      BY <1>0, <2>1 DEF FlashSet
    <3> QED
      BY <3>2, <3>3, LogUntouched
  <2>2. \A f \in Torn(Base(b)) : f = flash \/ f = [flash EXCEPT !.journal = Append(@, [base |-> 0, done |-> FALSE])]
    BY TornBase
  <2>3. \A f \in Torn(Base(b)) : Intact(f) /\ Kept(flash, f)
    BY <1>1, <2>1, <2>2
  <2>4. Written(Base(b)) = [flash EXCEPT !.journal = Append(@, [base |-> b, done |-> FALSE])]
    BY WrittenBase
  <2>5. Intact(Written(Base(b))) /\ Kept(flash, Written(Base(b)))
    BY <2>1, <2>4
  <2> QED
    BY <2>3, <2>5 DEF Safe
<1> QED
  BY <1>2, <1>3, <1>4, <1>5

\* A slot is written only where nothing is.
LEMMA SafeSlot ==
  ASSUME Intact(flash), NEW i \in Slots, flash.index[i] = Erased, NEW sl \in MarkSlots \cup WholeSlots
  PROVE  Safe(SlotAt(i, sl))
<1>0. flash \in FlashSet /\ flash.index \in [Slots -> SlotSet]
  BY DEF Intact, FlashSane, FlashSet
<1>1. Intact(flash) /\ Kept(flash, flash)
  BY KeptSame DEF Intact
<1>2. ASSUME NEW x \in SlotSet, NEW f, f = [flash EXCEPT !.index[i] = x]
      PROVE  Intact(f) /\ Kept(flash, f)
  <2>1. FlashSane(f)
    BY <1>2, SlotSane DEF Intact
  <2>2. f.seg = flash.seg /\ f.index = [flash.index EXCEPT ![i] = x] /\ f.wipe = flash.wipe
    BY <1>0, <1>2 DEF FlashSet
  <2>3. \A j \in Slots : flash.index[j] # Erased => f.index[j] = flash.index[j]
    BY <1>0, <2>2
  <2> QED
    BY <2>1, <2>2, <2>3, LogUntouched
<1>3. sl \in SlotSet
  BY DEF SlotSet, WholeSlots
<1>4. \A t \in TornSlots(sl) : t \in SlotSet
  BY TornSlotsAre DEF SlotSet
<1>5. \A f \in Torn(SlotAt(i, sl)) : f = flash \/ \E t \in TornSlots(sl) : f = [flash EXCEPT !.index[i] = t]
  BY TornSlot
<1>6. \A f \in Torn(SlotAt(i, sl)) : Intact(f) /\ Kept(flash, f)
  BY <1>1, <1>2, <1>4, <1>5
<1>7. Written(SlotAt(i, sl)) = [flash EXCEPT !.index[i] = sl]
  BY WrittenSlot
<1>8. Intact(Written(SlotAt(i, sl))) /\ Kept(flash, Written(SlotAt(i, sl)))
  BY <1>2, <1>3, <1>7
<1> QED
  BY <1>6, <1>8 DEF Safe

\* A record goes past all the others of its segment.
LEMMA SafeRecord ==
  ASSUME Intact(flash), NEW s \in Segments, NEW r \in RecordSet, \A q \in flash.seg[s].recs : q.end <= r.at
  PROVE  Safe(Record(s, r))
<1>0. flash \in FlashSet /\ flash.seg \in [Segments -> SegmentSet] /\ flash.seg[s] \in SegmentSet
  BY DEF Intact, FlashSane, FlashSet
<1>1. Intact(flash) /\ Kept(flash, flash)
  BY KeptSame DEF Intact
<1>2. ASSUME NEW t \in RecordSet, t.at = r.at, NEW f, f = [flash EXCEPT !.seg[s].recs = @ \cup {t}]
      PROVE  Intact(f) /\ Kept(flash, f)
  <2>1. FlashSane(f)
    BY <1>2, AddSane DEF Intact
  <2> DEFINE x == [flash.seg[s] EXCEPT !.recs = @ \cup {t}]
  <2>2. f = [flash EXCEPT !.seg[s] = x] /\ x.header = flash.seg[s].header /\ x.epoch = flash.seg[s].epoch
    BY <1>0, <1>2 DEF FlashSet, SegmentSet
  <2> HIDE DEF x
  <2>3. \A u \in Segments : f.seg[u].header = flash.seg[u].header /\ f.seg[u].epoch = flash.seg[u].epoch
    BY <1>0, <2>2 DEF FlashSet
  <2>4. ~flash.wipe => HasRing(f.seg)
    BY <2>3, RingSame DEF Intact, HasRing
  <2>5. flash.seg[s].header # "blank" \/ x.header = "blank"
    BY <2>2
  <2> QED
    BY <2>1, <2>2, <2>4, SegUntouched
<1>3. \A t \in Remains(r) : t \in RecordSet /\ t.at = r.at
  BY RemainsAre
<1>4. \A f \in Torn(Record(s, r)) : f = flash \/ \E t \in Remains(r) : f = [flash EXCEPT !.seg[s].recs = @ \cup {t}]
  BY TornRecord
<1>5. \A f \in Torn(Record(s, r)) : Intact(f) /\ Kept(flash, f)
  BY <1>1, <1>2, <1>3, <1>4
<1>6. Written(Record(s, r)) = [flash EXCEPT !.seg[s].recs = @ \cup {r}]
  BY WrittenRecord
<1>7. Intact(Written(Record(s, r))) /\ Kept(flash, Written(Record(s, r)))
  BY <1>2, <1>6
<1> QED
  BY <1>5, <1>7 DEF Safe

\* A header is written only over a blank segment, the one after the ring, with an
\* epoch above the ring's.
LEMMA SafeHeader ==
  ASSUME Intact(flash), NEW t \in Segments, NEW n \in 0 .. SegmentCount - 1, RingOf(flash.seg, t, n),
         NEW s \in Segments, flash.seg[s] = BlankSegment, n > 0 => Dist(t, s) = n,
         NEW e \in Nat, e > 0, \A u \in Segments : Dist(t, u) < n => flash.seg[u].epoch < e
  PROVE  /\ Safe(Header(s, e))
         /\ RingOf(Written(Header(s, e)).seg, IF n = 0 THEN s ELSE t, n + 1)
<1>0. /\ flash \in FlashSet /\ flash.seg \in [Segments -> SegmentSet] /\ flash.seg[s] \in SegmentSet
      /\ FlashSane(flash) /\ n \in Nat /\ n + 1 \in 0 .. SegmentCount
  BY StoreFacts DEF Intact, FlashSane, FlashSet
<1>1. Intact(flash) /\ Kept(flash, flash)
  BY KeptSame DEF Intact
<1>2. flash.seg[s].header = "blank" /\ flash.seg[s].recs = {}
  BY BlankIsSegment
<1>3. ~(Dist(t, s) < n)
  BY <1>0, DistFacts, StoreFacts
<1>4. Intact([flash EXCEPT !.seg[s].header = "torn"]) /\ Kept(flash, [flash EXCEPT !.seg[s].header = "torn"])
  <2> DEFINE x == [flash.seg[s] EXCEPT !.header = "torn"]
             f == [flash EXCEPT !.seg[s].header = "torn"]
  <2>1. FlashSane(f)
    BY <1>0, HeaderSane DEF Headers
  <2>2. f = [flash EXCEPT !.seg[s] = x] /\ x.header = "torn" /\ f.seg = [flash.seg EXCEPT ![s] = x]
    BY <1>0 DEF FlashSet, SegmentSet
  <2> HIDE DEF x, f
  <2>3. f.seg[s].header # "live" /\ \A u \in Segments \ {s} : f.seg[u] = flash.seg[u]
    BY <1>0, <2>2
  <2>4. RingOf(f.seg, t, n)
    BY <1>0, <1>3, <2>3, RingOutside
  <2>5. n \in 0 .. SegmentCount
    BY StoreFacts
  <2>6. HasRing(f.seg)
    BY <2>4, <2>5 DEF HasRing
  <2>7. Intact(f) /\ Kept(flash, f)
    BY <1>2, <2>1, <2>2, <2>6, SegUntouched
  <2> QED
    BY <2>7 DEF f
<1>5. /\ Intact([flash EXCEPT !.seg[s].header = "live", !.seg[s].epoch = e])
      /\ Kept(flash, [flash EXCEPT !.seg[s].header = "live", !.seg[s].epoch = e])
      /\ RingOf([flash EXCEPT !.seg[s].header = "live", !.seg[s].epoch = e].seg, IF n = 0 THEN s ELSE t, n + 1)
  <2> DEFINE x == [flash.seg[s] EXCEPT !.header = "live", !.epoch = e]
             f == [flash EXCEPT !.seg[s].header = "live", !.seg[s].epoch = e]
  <2>1. FlashSane(f)
    BY <1>0, HeaderSane DEF Headers
  <2>2. f = [flash EXCEPT !.seg[s] = x] /\ x.header = "live" /\ x.epoch = e /\ f.seg = [flash.seg EXCEPT ![s] = x]
    BY <1>0 DEF FlashSet, SegmentSet
  <2> HIDE DEF x, f
  <2>3. f.seg[s] = x /\ \A u \in Segments \ {s} : f.seg[u] = flash.seg[u]
    BY <1>0, <2>2
  <2>4. RingOf(f.seg, IF n = 0 THEN s ELSE t, n + 1)
    <3>1. f.seg[s].header = "live" /\ f.seg[s].epoch = e
      BY <2>2, <2>3
    <3>2. f.seg[s].epoch > 0 /\ \A u \in Segments : Dist(t, u) < n => flash.seg[u].epoch < f.seg[s].epoch
      BY <3>1
    <3> QED
      BY <2>3, <3>1, <3>2, RingGrows
  <2>5. HasRing(f.seg)
    BY <1>0, <2>4 DEF HasRing
  <2>6. Intact(f) /\ Kept(flash, f)
    BY <1>2, <2>1, <2>2, <2>5, SegUntouched
  <2> QED
    BY <2>4, <2>6 DEF f
<1>6. Torn(Header(s, e)) = {flash, [flash EXCEPT !.seg[s].header = "torn"]}
  BY TornHeader
<1>7. Written(Header(s, e)) = [flash EXCEPT !.seg[s].header = "live", !.seg[s].epoch = e]
  BY WrittenHeader
<1>8. Intact(Written(Header(s, e))) /\ Kept(flash, Written(Header(s, e)))
  BY <1>5, <1>7
<1>9. \A f \in Torn(Header(s, e)) : Intact(f) /\ Kept(flash, f)
  BY <1>1, <1>4, <1>6
<1>10. Safe(Header(s, e))
  BY <1>8, <1>9 DEF Safe
<1> QED
  BY <1>5, <1>7, <1>10

\* Only a segment outside the ring is erased.
LEMMA SafeErase ==
  ASSUME Intact(flash), NEW t \in Segments, NEW n \in 0 .. SegmentCount, RingOf(flash.seg, t, n),
         NEW s \in Segments, ~(Dist(t, s) < n)
  PROVE  Safe(EraseSeg(s)) /\ RingOf(Written(EraseSeg(s)).seg, t, n)
<1>0. /\ flash \in FlashSet /\ flash.seg \in [Segments -> SegmentSet] /\ flash.seg[s] \in SegmentSet
      /\ FlashSane(flash) /\ n \in Nat
  BY StoreFacts DEF Intact, FlashSane, FlashSet
<1>1. Intact(flash) /\ Kept(flash, flash)
  BY KeptSame DEF Intact
<1>2. ASSUME NEW x \in SegmentSet, x.header = "blank", x.recs \subseteq flash.seg[s].recs, NEW f, f = [flash EXCEPT !.seg[s] = x]
      PROVE  Intact(f) /\ Kept(flash, f) /\ RingOf(f.seg, t, n)
  <2>1. \A q, r \in x.recs : q # r => Apart(q, r)
    BY <1>0, <1>2, SaneParts
  <2>2. FlashSane(f)
    BY <1>0, <1>2, <2>1, SegSane
  <2>3. f.seg = [flash.seg EXCEPT ![s] = x]
    BY <1>0, <1>2 DEF FlashSet
  <2>4. f.seg[s].header # "live" /\ \A u \in Segments \ {s} : f.seg[u] = flash.seg[u]
    BY <1>0, <1>2, <2>3
  <2>5. RingOf(f.seg, t, n)
    BY <1>0, <2>4, RingOutside
  <2>6. HasRing(f.seg)
    BY <2>5 DEF HasRing
  <2> QED
    BY <1>2, <2>2, <2>5, <2>6, SegUntouched
<1>3. \A a \in 0 .. Cap : LET x == [BlankSegment EXCEPT !.recs = {r \in flash.seg[s].recs : r.at >= a}]
                         IN x \in SegmentSet /\ x.header = "blank" /\ x.recs \subseteq flash.seg[s].recs
  BY <1>0 DEF BlankSegment, SegmentSet, Headers
<1>4. \A f \in Torn(EraseSeg(s)) :
        f = flash \/ \E a \in 0 .. Cap : f = [flash EXCEPT !.seg[s] = [BlankSegment EXCEPT !.recs = {r \in flash.seg[s].recs : r.at >= a}]]
  BY TornErase
<1>5. \A f \in Torn(EraseSeg(s)) : Intact(f) /\ Kept(flash, f)
  <2>1. ASSUME NEW a \in 0 .. Cap, NEW f, f = [flash EXCEPT !.seg[s] = [BlankSegment EXCEPT !.recs = {r \in flash.seg[s].recs : r.at >= a}]]
        PROVE  Intact(f) /\ Kept(flash, f)
    <3> DEFINE x == [BlankSegment EXCEPT !.recs = {r \in flash.seg[s].recs : r.at >= a}]
    <3>1. x \in SegmentSet /\ x.header = "blank" /\ x.recs \subseteq flash.seg[s].recs /\ f = [flash EXCEPT !.seg[s] = x]
      BY <1>3, <2>1
    <3> HIDE DEF x
    <3> QED
      BY <1>2, <3>1
  <2> QED
    BY <1>1, <1>4, <2>1
<1>6. Written(EraseSeg(s)) = [flash EXCEPT !.seg[s] = BlankSegment]
  BY WrittenErase
<1>7. BlankSegment.recs \subseteq flash.seg[s].recs
  BY BlankIsSegment
<1>8. Intact(Written(EraseSeg(s))) /\ Kept(flash, Written(EraseSeg(s))) /\ RingOf(Written(EraseSeg(s)).seg, t, n)
  BY <1>2, <1>6, <1>7, BlankIsSegment
<1> QED
  BY <1>5, <1>8 DEF Safe

\* The tail alone is retired.
LEMMA SafeRetire ==
  ASSUME Intact(flash), NEW t \in Segments, NEW n \in 1 .. SegmentCount, RingOf(flash.seg, t, n)
  PROVE  Safe(Retire(t)) /\ RingOf(Written(Retire(t)).seg, Following(t), n - 1)
<1>0. /\ flash \in FlashSet /\ flash.seg \in [Segments -> SegmentSet] /\ flash.seg[t] \in SegmentSet
      /\ FlashSane(flash) /\ n - 1 \in 0 .. SegmentCount /\ Following(t) \in Segments
  BY StoreFacts, DistFacts DEF Intact, FlashSane, FlashSet
<1>1. Intact(flash) /\ Kept(flash, flash)
  BY KeptSame DEF Intact
<1> DEFINE x == [flash.seg[t] EXCEPT !.header = "retired"]
           f == [flash EXCEPT !.seg[t].header = "retired"]
<1>2. FlashSane(f)
  BY <1>0, HeaderSane DEF Headers
<1>3. f = [flash EXCEPT !.seg[t] = x] /\ x.header = "retired" /\ f.seg = [flash.seg EXCEPT ![t] = x]
  BY <1>0 DEF FlashSet, SegmentSet
<1>4. Written(Retire(t)) = f
  BY WrittenRetire
<1>5. Torn(Retire(t)) = {flash, Written(Retire(t))}
  BY TornRetire
<1> HIDE DEF x, f
<1>6. f.seg[t].header # "live" /\ \A u \in Segments \ {t} : f.seg[u] = flash.seg[u]
  BY <1>0, <1>3
<1>7. RingOf(f.seg, Following(t), n - 1)
  BY <1>0, <1>6, RingShrinks
<1>8. HasRing(f.seg)
  BY <1>0, <1>7 DEF HasRing
<1>9. flash.seg[t].header = "live"
  <2>1. Dist(t, t) < n
    BY DistFacts
  <2> QED
    BY <2>1 DEF RingOf
<1>10. Intact(f) /\ Kept(flash, f)
  BY <1>2, <1>3, <1>8, <1>9, SegUntouched
<1> QED
  BY <1>1, <1>4, <1>5, <1>7, <1>10 DEF Safe

\* A wipe erases the log and then forgets itself.
LEMMA SafeWipe ==
  ASSUME Intact(flash), flash.wipe
  PROVE  /\ Safe(Do("eraseLog"))
         /\ flash.seg = [s \in Segments |-> BlankSegment] => Safe(Do("eraseState"))
<1>0. flash \in FlashSet /\ flash.seg \in [Segments -> SegmentSet] /\ FlashSane(flash)
  BY DEF Intact, FlashSane, FlashSet
<1>1. Intact(flash) /\ Kept(flash, flash)
  BY KeptSame DEF Intact
<1>2. Safe(Do("eraseLog"))
  <2>1. ASSUME NEW seg \in [Segments -> SegmentSet], \A s \in Segments : seg[s] \in {BlankSegment, flash.seg[s]},
               NEW f, f = [flash EXCEPT !.seg = seg]
        PROVE  Intact(f) /\ Kept(flash, f)
    <3>1. f \in FlashSet /\ f.seg = seg /\ f.index = flash.index /\ f.wipe
      BY <1>0, <2>1 DEF FlashSet
    <3>2. ASSUME NEW s \in Segments, NEW q \in seg[s].recs, NEW r \in seg[s].recs, q # r PROVE Apart(q, r)
      <4>1. seg[s] = flash.seg[s]
        BY <2>1, <3>2, BlankIsSegment
      <4> QED
        BY <1>0, <3>2, <4>1, SaneParts
    <3>3. FlashSane(f)
      BY <3>1, <3>2 DEF FlashSane, Disjoint
    <3>4. \A s \in Segments : f.seg[s].header \in {"blank", flash.seg[s].header}
      BY <2>1, <3>1, BlankIsSegment
    <3>5. \A s \in Segments :
            LET h == flash.seg[s].header  h2 == f.seg[s].header
            IN /\ h # "blank" => h2 \in {h, "blank", "retired"}
               /\ h = "blank" /\ h2 # "blank" => flash.seg[s].recs = {}
      BY <3>4
    <3>6. Kept(flash, f)
      BY <3>1, <3>3, <3>5, KeptSeg
    <3> QED
      BY <3>1, <3>3, <3>6 DEF Intact
  <2>2. [s \in Segments |-> BlankSegment] \in [Segments -> SegmentSet]
    BY BlankIsSegment
  <2>3. Written(Do("eraseLog")) = [flash EXCEPT !.seg = [s \in Segments |-> BlankSegment]]
    BY WrittenEraseLog
  <2>4. Intact(Written(Do("eraseLog"))) /\ Kept(flash, Written(Do("eraseLog")))
    BY <2>1, <2>2, <2>3
  <2>5. ASSUME NEW n \in Segments, NEW f, f = [flash EXCEPT !.seg = [s \in Segments |-> IF s < n THEN BlankSegment ELSE flash.seg[s]]]
        PROVE  Intact(f) /\ Kept(flash, f)
    <3> DEFINE seg == [s \in Segments |-> IF s < n THEN BlankSegment ELSE flash.seg[s]]
    <3>1. seg \in [Segments -> SegmentSet] /\ \A s \in Segments : seg[s] \in {BlankSegment, flash.seg[s]}
      BY <1>0, BlankIsSegment
    <3>2. f = [flash EXCEPT !.seg = seg]
      BY <2>5
    <3> HIDE DEF seg
    <3> QED
      BY <2>1, <3>1, <3>2
  <2>6. \A f \in Torn(Do("eraseLog")) :
          f = flash \/ \E n \in Segments : f = [flash EXCEPT !.seg = [s \in Segments |-> IF s < n THEN BlankSegment ELSE flash.seg[s]]]
    BY TornEraseLog
  <2>7. \A f \in Torn(Do("eraseLog")) : Intact(f) /\ Kept(flash, f)
    BY <1>1, <2>5, <2>6
  <2> QED
    BY <2>4, <2>7 DEF Safe
<1>3. ASSUME flash.seg = [s \in Segments |-> BlankSegment] PROVE Safe(Do("eraseState"))
  <2> DEFINE f == [flash EXCEPT !.journal = <<>>, !.wipe = FALSE]
  <2>1. f \in FlashSet /\ f.seg = flash.seg /\ f.index = flash.index
    <3>1. <<>> \in Seq(Entry)
      OBVIOUS
    <3> QED
      BY <1>0, <3>1, Zenon DEF FlashSet
  <2>2. Written(Do("eraseState")) = f /\ Torn(Do("eraseState")) = {flash, Written(Do("eraseState"))}
    BY WrittenEraseState, TornState
  <2> HIDE DEF f
  <2>3. FlashSane(f)
    BY <1>0, <2>1 DEF FlashSane
  <2>4. HasRing(f.seg)
    <3>1. \A s \in Segments : f.seg[s].header # "live"
      BY <1>3, <2>1, BlankIsSegment
    <3> QED
      BY <3>1, NoRing, StoreFacts DEF HasRing
  <2>5. \A s \in Segments : flash.seg[s].header = "blank"
    BY <1>3, BlankIsSegment
  <2>6. Kept(flash, f)
    BY <2>1, <2>3, <2>5, KeptSeg
  <2> QED
    BY <1>1, <2>2, <2>3, <2>4, <2>6 DEF Intact, Safe
<1> QED
  BY <1>2, <1>3

----------------------------------------------------------------------------
(* What a reclaim and a rebuild find to copy. *)

\* Records that start at different units can be listed in their order.
LEMMA InOrderExists ==
  ASSUME NEW R \in SUBSET RecordSet, IsFiniteSet(R), \A q, r \in R : q.at = r.at => q = r
  PROVE  \E q \in [1 .. Cardinality(R) -> R] : \A i, j \in DOMAIN q : i < j => q[i].at < q[j].at
<1> DEFINE Single(T) == \A q, r \in T : q.at = r.at => q = r
           Listed(T, n) == \E q \in [1 .. n -> T] : \A i, j \in 1 .. n : i < j => q[i].at < q[j].at
           P == {n \in Nat : \A T \in SUBSET RecordSet : IsFiniteSet(T) /\ Single(T) /\ Cardinality(T) = n => Listed(T, n)}
<1>1. 0 \in P
  <2>1. \A T : Listed(T, 0)
    <3> TAKE T
    <3>1. <<>> \in [1 .. 0 -> T] /\ \A i, j \in 1 .. 0 : i < j => <<>>[i].at < <<>>[j].at
      OBVIOUS
    <3> QED
      BY <3>1
  <2> QED
    BY <2>1
<1>2. ASSUME NEW n \in P PROVE n + 1 \in P
  <2> SUFFICES ASSUME NEW T \in SUBSET RecordSet, IsFiniteSet(T), Single(T), Cardinality(T) = n + 1
               PROVE  Listed(T, n + 1)
    BY <1>2
  <2>0. n \in Nat
    OBVIOUS
  <2>1. T # {}
    BY <2>0, FS_EmptySet
  <2> DEFINE A == {r.at : r \in T}
  <2>2. A \in SUBSET (0 .. Cap) /\ A # {}
    BY <2>1, RecordParts, StoreFacts
  <2>3. Max(A) \in A /\ \A y \in A : y <= Max(A)
    BY <2>2, MaxOfNat, StoreFacts
  <2>4. PICK m \in T : m.at = Max(A)
    BY <2>3
  <2>5. \A r \in T : r.at <= m.at
    BY <2>3, <2>4
  <2> DEFINE U == T \ {m}
  <2>6. IsFiniteSet(U) /\ Cardinality(U) = n
    <3>1. IsFiniteSet(U) /\ Cardinality(U) = Cardinality(T) - 1
      BY <2>4, FS_RemoveElement
    <3>2. Cardinality(T) = n + 1
      OBVIOUS
    <3> HIDE DEF U, P
    <3>3. \A c, d : n \in Nat /\ d = n + 1 /\ c = d - 1 => c = n
      OBVIOUS
    <3> QED
      BY <2>0, <3>1, <3>2, <3>3
  <2>7. Single(U) /\ U \in SUBSET RecordSet
    OBVIOUS
  <2>8. Listed(U, n)
    BY <2>6, <2>7
  <2>9. PICK q \in [1 .. n -> U] : \A i, j \in 1 .. n : i < j => q[i].at < q[j].at
    BY <2>8
  <2>10. \A r \in U : r.at < m.at
    <3> TAKE r \in U
    <3>1. r.at <= m.at /\ r.at # m.at
      BY <2>4, <2>5
    <3>2. r.at \in Nat /\ m.at \in Nat
      BY <2>4, RecordParts
    <3> QED
      BY <3>1, <3>2
  <2> DEFINE z == [i \in 1 .. n + 1 |-> IF i <= n THEN q[i] ELSE m]
  <2>11. \A i \in 1 .. n + 1 : i <= n => i \in 1 .. n
    BY <2>0
  <2>12. z \in [1 .. n + 1 -> T]
    BY <2>4, <2>9, <2>11
  <2>13. \A i, j \in 1 .. n + 1 : i < j => i \in 1 .. n /\ (j \in 1 .. n \/ ~(j <= n))
    BY <2>0
  <2>14. \A i, j \in 1 .. n + 1 : i < j => z[i].at < z[j].at
    <3> TAKE i \in 1 .. n + 1, j \in 1 .. n + 1
    <3> HAVE i < j
    <3>1. i \in 1 .. n /\ i <= n /\ z[i] = q[i] /\ q[i] \in U
      BY <2>9, <2>11, <2>13
    <3>2. CASE j \in 1 .. n
      <4>1. j <= n
        BY <3>2
      <4>2. z[j] = q[j]
        BY <4>1
      <4> QED
        BY <2>9, <3>1, <3>2, <4>2
    <3>3. CASE ~(j <= n)
      <4>1. z[j] = m
        BY <3>3
      <4> QED
        BY <2>10, <3>1, <4>1
    <3> QED
      BY <2>13, <3>2, <3>3
  <2> QED
    BY <2>12, <2>14
<1> HIDE DEF P
<1>3. P = Nat
  <2>1. P \in SUBSET Nat
    BY DEF P
  <2> QED
    BY <1>1, <1>2, <2>1, Induct
<1>4. Cardinality(R) \in Nat
  BY FS_CardinalityType
<1>5. Listed(R, Cardinality(R))
  BY <1>3, <1>4 DEF P
<1> QED
  BY <1>5

LEMMA InOrderIs ==
  ASSUME NEW R \in SUBSET RecordSet, IsFiniteSet(R), \A q, r \in R : q.at = r.at => q = r
  PROVE  /\ InOrder(R) \in [1 .. Cardinality(R) -> R] /\ Cardinality(R) \in Nat
         /\ \A i, j \in DOMAIN InOrder(R) : i < j => InOrder(R)[i].at < InOrder(R)[j].at
  BY InOrderExists, FS_CardinalityType DEF InOrder

\* The records of a segment, few and apart.
LEMMA RecordsFew ==
  ASSUME FlashSane(flash), NEW s \in Segments, NEW R \in SUBSET Records(s)
  PROVE  /\ R \in SUBSET RecordSet /\ IsFiniteSet(R) /\ Cardinality(R) \in Nat
         /\ \A q, r \in R : q.at = r.at => q = r
         /\ \A r \in R : r.key \in Glyphs /\ r \in flash.seg[s].recs
<1>1. flash.seg[s].recs \in SUBSET RecordSet /\ \A q, r \in flash.seg[s].recs : q # r => Apart(q, r)
  BY SaneParts
<1>2. IsFiniteSet(flash.seg[s].recs) /\ \A q, r \in flash.seg[s].recs : q.at = r.at => q = r
  BY <1>1, OneAt
<1>3. R \subseteq flash.seg[s].recs
  BY DEF Records
<1>4. IsFiniteSet(R) /\ Cardinality(R) \in Nat
  BY <1>2, <1>3, FS_Subset, FS_CardinalityType
<1> QED
  BY <1>1, <1>2, <1>3, <1>4, RecordsAre

LEMMA CountOfTyped ==
  ASSUME count \in [Slots -> 0 .. MaxCount], NEW epoch, NEW s, NEW r
  PROVE  CountOf(epoch, s, r) \in 0 .. MaxCount
<1> DEFINE C == {0} \cup {count[i] : i \in NamedBy(epoch, s, r)}
<1>1. C \in SUBSET (0 .. MaxCount) /\ C # {}
  BY StoreFacts DEF NamedBy
<1>2. Max(C) \in C
  BY <1>1, MaxOfNat, StoreFacts
<1> HIDE DEF C
<1>3. Max(C) \in 0 .. MaxCount
  BY <1>1, <1>2
<1> QED
  BY <1>3 DEF C, CountOf

\* Lists joined from the first to the last.
Joinable(X, m, of) ==
  \E f \in [0 .. m -> Seq(X)] : \A n \in 0 .. m : f[n] = IF n = 0 THEN <<>> ELSE f[n - 1] \o of[n]

LEMMA JoinExists == ASSUME NEW X, NEW m \in Nat, NEW of \in [1 .. m -> Seq(X)] PROVE Joinable(X, m, of)
<1> DEFINE Joined(k) == \E f \in [0 .. k -> Seq(X)] : \A n \in 0 .. k : f[n] = IF n = 0 THEN <<>> ELSE f[n - 1] \o of[n]
           P == {k \in Nat : k <= m => Joined(k)}
<1>1. 0 \in P
  <2> DEFINE f == [n \in 0 .. 0 |-> <<>>]
  <2>1. \A n \in 0 .. 0 : n = 0
    OBVIOUS
  <2>2. f \in [0 .. 0 -> Seq(X)] /\ \A n \in 0 .. 0 : f[n] = IF n = 0 THEN <<>> ELSE f[n - 1] \o of[n]
    BY <2>1
  <2>3. Joined(0)
    BY <2>2
  <2> QED
    BY <2>3
<1>2. ASSUME NEW k \in P PROVE k + 1 \in P
  <2>0. k \in Nat /\ k + 1 \in Nat
    OBVIOUS
  <2> HIDE DEF Joined
  <2> SUFFICES ASSUME k + 1 <= m PROVE Joined(k + 1)
    BY <2>0
  <2> USE DEF Joined
  <2>1. k <= m /\ k + 1 \in 1 .. m
    BY <2>0
  <2>2. PICK f \in [0 .. k -> Seq(X)] : \A n \in 0 .. k : f[n] = IF n = 0 THEN <<>> ELSE f[n - 1] \o of[n]
    BY <2>1
  <2> DEFINE x == f[k] \o of[k + 1]
             g == [n \in 0 .. k + 1 |-> IF n <= k THEN f[n] ELSE x]
  <2>3. x \in Seq(X)
    <3>1. f[k] \in Seq(X) /\ of[k + 1] \in Seq(X)
      BY <2>0, <2>1, <2>2
    <3> QED
      BY <3>1
  <2>4. \A n \in 0 .. k + 1 : IF n <= k THEN n \in 0 .. k ELSE n = k + 1
    BY <2>0
  <2> HIDE DEF x
  <2>5. g \in [0 .. k + 1 -> Seq(X)]
    BY <2>2, <2>3, <2>4
  <2>6. \A n \in 0 .. k + 1 : n # 0 => n - 1 \in 0 .. k /\ n - 1 <= k /\ n - 1 \in 0 .. k + 1
    BY <2>0
  <2>7. \A n \in 0 .. k + 1 : n # 0 => g[n - 1] = f[n - 1]
    BY <2>6
  <2>8. \A n \in 0 .. k + 1 : g[n] = IF n = 0 THEN <<>> ELSE g[n - 1] \o of[n]
    <3> TAKE n \in 0 .. k + 1
    <3>1. CASE n <= k
      <4>1. g[n] = f[n] /\ n \in 0 .. k
        BY <2>4, <3>1
      <4> QED
        BY <2>2, <2>7, <4>1
    <3>2. CASE ~(n <= k)
      <4>1. n = k + 1 /\ n # 0 /\ n - 1 = k
        BY <2>0, <2>4, <3>2
      <4>2. g[n] = x /\ g[n - 1] = f[k]
        BY <2>7, <3>2, <4>1
      <4> QED
        BY <4>1, <4>2 DEF x
    <3> QED
      BY <3>1, <3>2
  <2> QED
    BY <2>5, <2>8
<1> HIDE DEF P
<1>3. P = Nat
  <2>1. P \in SUBSET Nat
    BY DEF P
  <2> QED
    BY <1>1, <1>2, <2>1, Induct
<1>4. m \in P
  BY <1>3
<1>5. Joined(m)
  BY <1>4 DEF P
<1> QED
  BY <1>5 DEF Joinable

LEMMA LiveInOrderIs ==
  ASSUME RamSane(ram), NEW n \in 1 .. ram.live
  PROVE  LiveInOrder[n] \in Segments /\ Dist(ram.tail, LiveInOrder[n]) = n - 1
<1>1. ram.tail \in Segments /\ ram.live \in 0 .. SegmentCount
  BY DEF RamSane, RamSet
<1> DEFINE x == ram.tail + n - 1
<1>2. /\ x \in 0 .. 2 * SegmentCount - 1 /\ x - ram.tail = n - 1 /\ n - 1 \in 0 .. SegmentCount - 1 /\ ram.tail \in 0 .. SegmentCount - 1
      /\ SegmentCount \in Nat \ {0} /\ x >= ram.tail
  BY <1>1, StoreFacts DEF Segments
<1>3. LiveInOrder[n] = x % SegmentCount
  BY DEF LiveInOrder
<1> HIDE DEF x
<1>4. x % SegmentCount = IF x < SegmentCount THEN x ELSE x - SegmentCount
  BY <1>2, ModOnce
<1>5. CASE x < SegmentCount
  <2>1. x \in Segments /\ x >= ram.tail
    BY <1>2, <1>5 DEF Segments
  <2> QED
    BY <1>2, <1>3, <1>4, <1>5, <2>1 DEF Dist
<1>6. CASE ~(x < SegmentCount)
  <2>1. x - SegmentCount \in Segments /\ ~(x - SegmentCount >= ram.tail) /\ (x - SegmentCount) - ram.tail + SegmentCount = n - 1
    BY <1>2, <1>6 DEF Segments
  <2> QED
    BY <1>3, <1>4, <1>6, <2>1 DEF Dist
<1> QED
  BY <1>5, <1>6

\* The live segments have epochs of their own in RAM.
LEMMA LiveEpochs ==
  ASSUME FlashSane(flash), RamSane(ram), RingMirrored(flash, ram), NEW s \in Segments, Dist(ram.tail, s) < ram.live
  PROVE  ram.segEpoch[s] = flash.seg[s].epoch /\ ram.segEpoch[s] \in Nat \ {0} /\ flash.seg[s].header = "live"
<1>1. ram.segEpoch[s] = flash.seg[s].epoch
  BY DEF RingMirrored
<1>2. flash.seg[s].epoch > 0 /\ flash.seg[s].header = "live"
  BY DEF RingMirrored, RingOf
<1>3. flash.seg[s].epoch \in Nat
  BY SaneParts
<1> QED
  BY <1>1, <1>2, <1>3

\* What a plan holds: slots for the records of the ring that a slot named.
Planned ==
  {e \in PlanSet :
     \E s \in Segments : /\ Dist(ram.tail, s) < ram.live
       /\ \E r \in Records(s) : /\ NamedBy(ram.segEpoch[s], s, r) # {}
                                /\ e.slot = Slot(r.key, Place(s, r.at, ram.segEpoch[s]))}

LEMMA PlanIs ==
  ASSUME FlashSane(flash), RamSane(ram), count \in [Slots -> 0 .. MaxCount], RingMirrored(flash, ram)
  PROVE  Plan \in Seq(Planned)
<1> DEFINE R(s) == {r \in Records(s) : NamedBy(ram.segEpoch[s], s, r) # {}}
           Of(s) == [i \in DOMAIN InOrder(R(s)) |->
                      [slot |-> Slot(InOrder(R(s))[i].key, Place(s, InOrder(R(s))[i].at, ram.segEpoch[s])),
                       count |-> CountOf(ram.segEpoch[s], s, InOrder(R(s))[i])]]
           m == ram.live
           F == CHOOSE f : f = [n \in 0 .. m |-> IF n = 0 THEN <<>> ELSE f[n - 1] \o Of(LiveInOrder[n])]
<1>0. m \in Nat
  BY StoreFacts DEF RamSane, RamSet
<1>1. Plan = F[m]
  BY DEF Plan
<1>2. ASSUME NEW n \in 1 .. m PROVE Of(LiveInOrder[n]) \in Seq(Planned)
  <2> DEFINE s == LiveInOrder[n]
  <2>1. s \in Segments /\ Dist(ram.tail, s) = n - 1
    BY LiveInOrderIs
  <2>2. Dist(ram.tail, s) < ram.live
    BY <1>0, <2>1
  <2>3. ram.segEpoch[s] \in Nat \ {0}
    BY <2>1, <2>2, LiveEpochs
  <2> HIDE DEF s
  <2> DEFINE S == R(s)
  <2>4. S \in SUBSET Records(s)
    OBVIOUS
  <2> HIDE DEF S
  <2>5. /\ S \in SUBSET RecordSet /\ IsFiniteSet(S) /\ \A q, r \in S : q.at = r.at => q = r
        /\ \A r \in S : r.key \in Glyphs
    BY <2>1, <2>4, RecordsFew
  <2>6. InOrder(S) \in [1 .. Cardinality(S) -> S] /\ Cardinality(S) \in Nat
    BY <2>5, InOrderIs
  <2> DEFINE E(r) == [slot |-> Slot(r.key, Place(s, r.at, ram.segEpoch[s])), count |-> CountOf(ram.segEpoch[s], s, r)]
  <2>7. \A r \in S : E(r) \in Planned
    <3> TAKE r \in S
    <3>1. r.key \in Glyphs /\ r.at \in 0 .. Cap
      BY <2>5 DEF RecordSet
    <3>2. Place(s, r.at, ram.segEpoch[s]) \in PlaceSet
      BY <2>1, <2>3, <3>1 DEF Place, PlaceSet
    <3>3. Slot(r.key, Place(s, r.at, ram.segEpoch[s])) \in WholeSlots
      BY <3>1, <3>2 DEF Slot, WholeSlots, GlyphSlots
    <3>4. CountOf(ram.segEpoch[s], s, r) \in 0 .. MaxCount
      BY CountOfTyped
    <3>5. r \in Records(s) /\ NamedBy(ram.segEpoch[s], s, r) # {}
      BY DEF S
    <3>6. E(r) \in PlanSet /\ E(r).slot = Slot(r.key, Place(s, r.at, ram.segEpoch[s]))
      BY <3>3, <3>4 DEF PlanSet
    <3> HIDE DEF E
    <3> QED
      BY <2>1, <2>2, <3>5, <3>6 DEF Planned
  <2>8. DOMAIN InOrder(S) = 1 .. Cardinality(S) /\ \A i \in 1 .. Cardinality(S) : InOrder(S)[i] \in S
    BY <2>6
  <2>9. Of(s) = [i \in 1 .. Cardinality(S) |-> E(InOrder(S)[i])]
    BY <2>8 DEF S
  <2> HIDE DEF E
  <2>10. [i \in 1 .. Cardinality(S) |-> E(InOrder(S)[i])] \in [1 .. Cardinality(S) -> Planned]
    BY <2>7, <2>8
  <2>11. \A f : f \in [1 .. Cardinality(S) -> Planned] => f \in Seq(Planned)
    BY <2>6
  <2>12. Of(s) \in Seq(Planned)
    BY <2>9, <2>10, <2>11
  <2> QED
    BY <2>12 DEF s
<1> HIDE DEF Of
<1>3. \E f : f = [n \in 0 .. m |-> IF n = 0 THEN <<>> ELSE f[n - 1] \o Of(LiveInOrder[n])]
  <2> DEFINE of == [n \in 1 .. m |-> Of(LiveInOrder[n])]
  <2>1. of \in [1 .. m -> Seq(Planned)]
    BY <1>2
  <2>6. \A n \in 1 .. m : of[n] = Of(LiveInOrder[n])
    OBVIOUS
  <2> HIDE DEF m, of
  <2>7. Joinable(Planned, m, of)
    BY <1>0, <2>1, JoinExists
  <2>2. PICK f \in [0 .. m -> Seq(Planned)] : \A n \in 0 .. m : f[n] = IF n = 0 THEN <<>> ELSE f[n - 1] \o of[n]
    BY <2>7 DEF Joinable
  <2>3. \A n \in 0 .. m : n # 0 => n \in 1 .. m
    BY <1>0
  <2>4. \A n \in 0 .. m : f[n] = IF n = 0 THEN <<>> ELSE f[n - 1] \o Of(LiveInOrder[n])
    BY <2>2, <2>3, <2>6
  <2>5. f = [n \in 0 .. m |-> IF n = 0 THEN <<>> ELSE f[n - 1] \o Of(LiveInOrder[n])]
    BY <2>2, <2>4
  <2> QED
    BY <2>5
<1>4. F = [n \in 0 .. m |-> IF n = 0 THEN <<>> ELSE F[n - 1] \o Of(LiveInOrder[n])]
  BY <1>3
<1> HIDE DEF F, m
<1> DEFINE P == {n \in Nat : n <= m => F[n] \in Seq(Planned)}
<1>5. 0 \in P
  <2>1. F[0] = <<>>
    BY <1>0, <1>4
  <2>2. <<>> \in Seq(Planned)
    OBVIOUS
  <2> QED
    BY <2>1, <2>2
<1>6. ASSUME NEW n \in P PROVE n + 1 \in P
  <2>1. n \in Nat /\ n + 1 \in Nat /\ (n + 1) - 1 = n /\ n + 1 # 0
    OBVIOUS
  <2> SUFFICES ASSUME n + 1 <= m PROVE F[n + 1] \in Seq(Planned)
    BY <2>1
  <2>2. n <= m /\ n + 1 \in 0 .. m /\ n + 1 \in 1 .. m
    BY <1>0, <2>1
  <2>3. F[n] \in Seq(Planned)
    BY <2>2
  <2>4. F[n + 1] = F[(n + 1) - 1] \o Of(LiveInOrder[n + 1])
    BY <1>4, <2>1, <2>2
  <2>5. Of(LiveInOrder[n + 1]) \in Seq(Planned)
    BY <1>2, <2>2
  <2> QED
    BY <2>1, <2>3, <2>4, <2>5
<1> HIDE DEF P
<1>7. P = Nat
  <2>1. P \in SUBSET Nat
    BY DEF P
  <2> QED
    BY <1>5, <1>6, <2>1, Induct
<1>8. F[m] \in Seq(Planned)
  BY <1>0, <1>7 DEF P
<1> QED
  BY <1>1, <1>8

LEMMA PlanTyped ==
  ASSUME FlashSane(flash), RamSane(ram), count \in [Slots -> 0 .. MaxCount], RingMirrored(flash, ram)
  PROVE  Plan \in Seq(PlanSet)
<1>1. Planned \subseteq PlanSet
  BY DEF Planned
<1> QED
  BY <1>1, PlanIs

\* What a reclaim lists: glyphs, as many counts, and every one a record of the tail.
LEMMA KeptTyped ==
  ASSUME FlashSane(flash), count \in [Slots -> 0 .. MaxCount], NEW t \in Segments, NEW epoch,
         NEW R \in SUBSET Records(t), NEW kept \in {InOrder(R), <<>>}
  PROVE  /\ KeysOf(kept) \in Seq(Glyphs)
         /\ [i \in DOMAIN kept |-> CountOf(epoch, t, kept[i])] \in Seq(0 .. MaxCount)
         /\ Len([i \in DOMAIN kept |-> CountOf(epoch, t, kept[i])]) = Len(KeysOf(kept))
         /\ {kept[i].key : i \in DOMAIN kept} \subseteq Glyphs
<1>1. /\ R \in SUBSET RecordSet /\ IsFiniteSet(R) /\ \A q, r \in R : q.at = r.at => q = r
      /\ \A r \in R : r.key \in Glyphs
  BY RecordsFew
<1>2. InOrder(R) \in [1 .. Cardinality(R) -> R] /\ Cardinality(R) \in Nat
  BY <1>1, InOrderIs
<1>3. \E n \in Nat : kept \in [1 .. n -> R]
  <2>1. <<>> \in [1 .. 0 -> R]
    OBVIOUS
  <2> QED
    BY <1>2, <2>1
<1>4. PICK n \in Nat : kept \in [1 .. n -> R]
  BY <1>3
<1>5. DOMAIN kept = 1 .. n /\ \A i \in 1 .. n : kept[i] \in R /\ kept[i].key \in Glyphs
  BY <1>1, <1>4
<1> DEFINE a == [i \in 1 .. n |-> kept[i].key]
           b == [i \in 1 .. n |-> CountOf(epoch, t, kept[i])]
<1>6. KeysOf(kept) = a /\ [i \in DOMAIN kept |-> CountOf(epoch, t, kept[i])] = b
  BY <1>5 DEF KeysOf
<1>7. a \in [1 .. n -> Glyphs] /\ b \in [1 .. n -> 0 .. MaxCount]
  BY <1>5, CountOfTyped
<1> HIDE DEF a, b
<1>8. a \in Seq(Glyphs) /\ b \in Seq(0 .. MaxCount) /\ Len(a) = n /\ Len(b) = n
  <2>1. \A X : \A x \in [1 .. n -> X] : x \in Seq(X) /\ Len(x) = n
    OBVIOUS
  <2> QED
    BY <1>7, <2>1
<1> QED
  BY <1>5, <1>6, <1>8

----------------------------------------------------------------------------
(* How a step keeps the invariant. *)

LEMMA SInvParts ==
  ASSUME SInv
  PROVE  /\ Intact(flash) /\ FlashSane(flash) /\ RamSane(ram) /\ ram \in RamSet
         /\ count \in [Slots -> 0 .. MaxCount] /\ OpSane(flash, ram, op)
         /\ Trusted(ram, op) => Mirrored(flash, ram, op)
  BY DEF SInv, Sound, Intact, RamSane

\* A step that leaves the flash alone.
LEMMA Quiet ==
  ASSUME SInv, flash' = flash, count' \in [Slots -> 0 .. MaxCount], RamSane(ram'), OpSane(flash, ram', op'),
         Trusted(ram', op') => Mirrored(flash, ram', op')
  PROVE  Sound(flash', ram', count', op') /\ Kept(flash, flash')
  BY SInvParts, KeptSame DEF Sound, Intact

LEMMA Noted ==
  ASSUME SInv, NEW r, NEW o, Notes(r, o), RamSane(r), OpSane(flash, r, o), Trusted(r, o) => Mirrored(flash, r, o)
  PROVE  Sound(flash', ram', count', op') /\ Kept(flash, flash')
<1>1. ram' = r /\ op' = o /\ flash' = flash /\ count' = count
  BY DEF Notes
<1> QED
  BY <1>1, SInvParts, Quiet

\* What a failure leaves of the RAM.
Failed == [ram EXCEPT !.wipe = TRUE, !.stopped = TRUE]

LEMMA FailedSane ==
  ASSUME RamSane(ram)
  PROVE  RamSane(Failed) /\ Failed.wipe /\ Failed.stopped /\ RamSane(Closed) /\ ~Closed.open
<1>1. RamSane(Failed) /\ Failed.wipe /\ Failed.stopped
  BY DEF RamSane, RamSet, Failed
<1>2. Closed \in RamSet
  BY StoreFacts DEF Closed, RamSet
<1>3. Closed.liveSlots = 0 /\ Closed.marks = 0 /\ Closed.usedSlots = 0 /\ ~Closed.open
  BY DEF Closed
<1> QED
  BY <1>1, <1>2, <1>3 DEF RamSane

\* A flash operation, whole or stopped.
LEMMA DoesKeep ==
  ASSUME SInv, NEW p, NEW r, NEW c, NEW o, Does(p, r, c, o), Safe(p), RamSane(r), c \in [Slots -> 0 .. MaxCount],
         OpSane(Written(p), r, o), Trusted(r, o) => Mirrored(Written(p), r, o)
  PROVE  Sound(flash', ram', count', op') /\ Kept(flash, flash')
<1>1. CASE flash' = Written(p) /\ ram' = r /\ count' = c /\ op' = o
  <2>1. Intact(Written(p)) /\ Kept(flash, Written(p))
    BY DEF Safe
  <2> QED
    BY <1>1, <2>1 DEF Sound, Intact
<1>2. ASSUME op' = None, NEW f \in Torn(p), flash' = f, ram' = Closed, count' = NoCounts
      PROVE  Sound(flash', ram', count', op') /\ Kept(flash, flash')
  <2>1. Intact(f) /\ Kept(flash, f)
    BY DEF Safe
  <2>2. NoCounts \in [Slots -> 0 .. MaxCount]
    BY StoreFacts DEF NoCounts
  <2>3. RamSane(Closed) /\ ~Trusted(Closed, None)
    BY SInvParts, FailedSane DEF Trusted
  <2>4. OpSane(f, Closed, None)
    BY DEF OpSane
  <2> QED
    BY <1>2, <2>1, <2>2, <2>3, <2>4 DEF Sound, Intact
<1>3. ASSUME op' = None, NEW f \in Torn(p), flash' \in {f, [f EXCEPT !.wipe = TRUE]}, ram' = Failed, count' = count
      PROVE  Sound(flash', ram', count', op') /\ Kept(flash, flash')
  <2>1. Intact(f) /\ Kept(flash, f)
    BY DEF Safe
  <2> DEFINE g == [f EXCEPT !.wipe = TRUE]
  <2>2. FlashSane(g) /\ g.wipe /\ g.seg = f.seg /\ g.index = f.index
    <3>1. f \in FlashSet
      BY <2>1 DEF Intact, FlashSane
    <3>2. g.wipe /\ g.seg = f.seg /\ g.index = f.index
      BY <3>1 DEF FlashSet
    <3>3. FlashSane(g)
      BY <2>1, WipeWordSane DEF Intact
    <3> QED
      BY <3>2, <3>3
  <2> HIDE DEF g
  <2>3. Intact(g) /\ Kept(flash, g)
    BY <2>1, <2>2 DEF Intact, Kept
  <2>4. Intact(flash') /\ Kept(flash, flash')
    BY <1>3, <2>1, <2>3 DEF g
  <2>5. RamSane(Failed) /\ ~Trusted(Failed, None)
    BY SInvParts, FailedSane DEF Trusted
  <2>6. OpSane(flash', Failed, None)
    BY DEF OpSane
  <2> QED
    BY <1>3, <2>4, <2>5, <2>6, SInvParts DEF Sound, Intact
<1>4. \/ flash' = Written(p) /\ ram' = r /\ count' = c /\ op' = o
      \/ /\ op' = None
         /\ \E f \in Torn(p) : \/ flash' = f /\ ram' = Closed /\ count' = NoCounts
                               \/ flash' \in {f, [f EXCEPT !.wipe = TRUE]} /\ ram' = Failed /\ count' = count
  BY DEF Does, Failed
<1> QED
  BY <1>1, <1>2, <1>3, <1>4

LEMMA StopWritesKeep ==
  ASSUME SInv, StopWrites
  PROVE  Sound(flash', ram', count', op') /\ Kept(flash, flash')
<1>1. Does(Do("wipe"), Failed, count, None)
  BY DEF StopWrites, Failed
<1>2. Safe(Do("wipe")) /\ RamSane(Failed) /\ count \in [Slots -> 0 .. MaxCount] /\ ~Trusted(Failed, None)
  BY SInvParts, SafeIndex, FailedSane DEF Trusted
<1>3. OpSane(Written(Do("wipe")), Failed, None)
  BY DEF OpSane
<1> QED
  BY <1>1, <1>2, <1>3, DoesKeep

\* The fields the flash mirrors.
SameMirror(r, q) ==
  /\ q.segEpoch = r.segEpoch /\ q.head = r.head /\ q.tail = r.tail /\ q.live = r.live /\ q.used = r.used /\ q.next = r.next
  /\ q.usedSlots = r.usedSlots /\ q.marks = r.marks /\ q.entries = r.entries /\ q.done = r.done /\ q.floor = r.floor

LEMMA MirrorKept ==
  ASSUME NEW f, NEW r, NEW q, NEW o, NEW u, Mirrored(f, r, o), SameMirror(r, q), ~Inserting(o), ~Inserting(u)
  PROVE  Mirrored(f, q, u)
  BY DEF Mirrored, SameMirror, RingMirrored, JournalMirrored, CountsMirrored

LEMMA NotInserting ==
  /\ ~Inserting(None)
  /\ \A o \in RoomSet \cup CommitSet \cup ReclaimSet \cup WipeSet : ~Inserting(o)
  /\ \A o : o.call \in {"none", "room", "commit", "reclaim", "wipe"} => ~Inserting(o)
  BY OpCalls DEF Inserting

\* While a call places, copies or rebuilds, the RAM is the flash's mirror.
LEMMA InCall ==
  ASSUME SInv, op.call \in {"room", "commit", "reclaim", "rebuild"}
  PROVE  /\ Trusted(ram, op) /\ Mirrored(flash, ram, op) /\ RingMirrored(flash, ram) /\ JournalMirrored(flash, ram)
         /\ op.call # "rebuild" => CountsMirrored(flash, ram)
<1>1. Trusted(ram, op)
  BY SInvParts, OpIs DEF Trusted
<1>2. Mirrored(flash, ram, op)
  BY <1>1, SInvParts
<1> QED
  BY <1>1, <1>2 DEF Mirrored, Inserting

LEMMA WhenReady ==
  ASSUME SInv, Ready, ~ram.wipe \/ ~ram.stopped
  PROVE  /\ Trusted(ram, op) /\ Mirrored(flash, ram, None) /\ RingMirrored(flash, ram) /\ JournalMirrored(flash, ram)
         /\ CountsMirrored(flash, ram) /\ op = None /\ ram.open
<1>1. op = None /\ ram.open
  BY DEF Ready
<1>2. Trusted(ram, op)
  BY <1>1, OpCalls DEF Trusted
<1>3. Mirrored(flash, ram, None)
  BY <1>1, <1>2, SInvParts
<1> QED
  BY <1>1, <1>2, <1>3, NotInserting DEF Mirrored

LEMMA HeadTail ==
  ASSUME NEW X, NEW s \in Seq(X), s # <<>>
  PROVE  /\ Head(s) \in X /\ Tail(s) \in Seq(X) /\ Len(s) \in Nat /\ Len(s) >= 1 /\ Len(Tail(s)) = Len(s) - 1
         /\ Len(s) # 1 => Tail(s) # <<>>
<1>1. Len(s) \in Nat /\ Len(s) # 0
  BY EmptySeq
<1>2. Head(s) \in X /\ Tail(s) \in Seq(X) /\ Len(Tail(s)) = Len(s) - 1
  BY HeadTailProperties
<1>3. Len(s) >= 1
  <2>1. \A n \in Nat : n # 0 => n >= 1
    OBVIOUS
  <2> QED
    BY <1>1, <2>1
<1>4. Len(s) # 1 => Len(Tail(s)) # 0
  <2>1. \A n \in Nat : n # 1 => n - 1 # 0
    OBVIOUS
  <2> QED
    BY <1>1, <1>2, <2>1
<1>5. Len(<<>>) = 0
  OBVIOUS
<1>6. Len(s) # 1 => Tail(s) # <<>>
  BY <1>4, <1>5
<1> QED
  BY <1>1, <1>2, <1>3, <1>6

LEMMA ReclaimRing ==
  ASSUME ram.live \in Nat, NEW b, NEW t, NextStep(b, t) = "Reclaim"
  PROVE  ram.live >= 2
<1> DEFINE A == ~t /\ (b = "Open" \/ (~ram.starved /\ ram.entries < JournalEntries)) /\ NeedsRebuild
           B == \/ ram.chainFull \/ EpochsLeft(ram) = 0 \/ ram.live < 2
                \/ Crowds(ram.usedSlots - ram.liveSlots)
           C == ~A /\ ram.live >= 2 /\ (ram.roomAsked \/ Free(ram) < FreeTarget)
           D == ~t /\ (b = "Open" \/ (~ram.starved /\ ram.entries < JournalEntries)) /\ b = "Open" /\ WaitsForOpen
<1>1. NextStep(b, t) = CASE A -> (IF B THEN "Rebuild" ELSE "Reclaim") [] C -> "Reclaim" [] OTHER -> IF D THEN "Rebuild" ELSE "None"
  BY DEF NextStep
<1>2. C => ram.live >= 2
  OBVIOUS
<1>3. ~B => ~(ram.live < 2)
  OBVIOUS
<1> HIDE DEF A, B, C, D
<1>4. ~B \/ C
  BY <1>1
<1> QED
  BY <1>2, <1>3, <1>4

----------------------------------------------------------------------------
(* The steps that write nothing. *)

LEMMA OpenKeeps ==
  ASSUME SInv, Open
  PROVE  Sound(flash', ram', count', op') /\ Kept(flash, flash')
<1>1. ram' = Reopened /\ count' = NoCounts /\ flash' = flash /\ op' = op /\ op = None
  BY DEF Open
<1>2. NoCounts \in [Slots -> 0 .. MaxCount]
  BY StoreFacts DEF NoCounts
<1>3. RamSane(Reopened)
  BY SInvParts, ReopenedSane
<1>4. OpSane(flash, Reopened, None)
  BY DEF OpSane
<1>5. ASSUME Trusted(Reopened, None) PROVE Mirrored(flash, Reopened, None)
  <2>1. ~flash.wipe
    BY <1>5, ReopenedFields DEF Trusted
  <2>2. PICK t \in Segments : \E n \in 0 .. SegmentCount : RingOf(flash.seg, t, n)
    BY <2>1, SInvParts DEF Intact, HasRing
  <2>3. PICK n \in 0 .. SegmentCount : RingOf(flash.seg, t, n)
    BY <2>2
  <2>4. RingMirrored(flash, Reopened)
    BY <2>3, SInvParts, ReopenedMirrors
  <2> QED
    BY <2>4, ReopenedFields, NotInserting DEF Mirrored
<1> QED
  BY <1>1, <1>2, <1>3, <1>4, <1>5, Quiet

\* A change of the RAM's flags, with no call in progress then.
LEMMA FlagsKeep ==
  ASSUME SInv, NEW r, NEW u, Notes(r, u), r \in RamSet, SameMirror(ram, r), r.liveSlots = ram.liveSlots,
         u = None \/ (u \in RoomSet \cup CommitSet /\ OpSane(flash, r, u)),
         Trusted(r, u) => Trusted(ram, op) /\ ~Inserting(op)
  PROVE  Sound(flash', ram', count', op') /\ Kept(flash, flash')
<1>1. RamSane(r)
  BY SInvParts DEF RamSane, SameMirror
<1>2. OpSane(flash, r, u)
  BY DEF OpSane
<1>3. ~Inserting(u)
  BY NotInserting
<1>4. ASSUME Trusted(r, u) PROVE Mirrored(flash, r, u)
  BY <1>3, <1>4, MirrorKept, SInvParts
<1> QED
  BY <1>1, <1>2, <1>4, Noted

LEMMA MarkFullKeeps ==
  ASSUME SInv, MarkFull
  PROVE  Sound(flash', ram', count', op') /\ Kept(flash, flash')
<1> DEFINE r == [ram EXCEPT !.stopped = TRUE, !.roomAsked = TRUE]
<1>1. Notes(r, None) /\ op = None /\ ram.open
  BY DEF MarkFull, Ready
<1>2. ram \in RamSet
  BY SInvParts
<1>3. r \in RamSet /\ SameMirror(ram, r) /\ r.liveSlots = ram.liveSlots /\ r.open = ram.open /\ r.wipe = ram.wipe /\ r.stopped
  BY <1>2 DEF RamSet, SameMirror
<1> HIDE DEF r
<1>4. Trusted(r, None) => Trusted(ram, op) /\ ~Inserting(op)
  BY <1>1, <1>3, NotInserting DEF Trusted
<1> QED
  BY <1>1, <1>3, <1>4, FlagsKeep

\* A batch is a list of glyphs.
LEMMA BatchTyped ==
  ASSUME NEW b \in Batches
  PROVE  b \in Seq(Glyphs) /\ b # <<>> /\ {b[i] : i \in DOMAIN b} \subseteq Glyphs
<1>1. PICK n \in 1 .. MaxBatch : b \in [1 .. n -> Glyphs]
  <2> DEFINE new == {g \in Glyphs : Find(g) = "NotStored"}
  <2>1. PICK n \in 1 .. MaxBatch : b \in [1 .. n -> new]
    BY DEF Batches
  <2>2. b \in [1 .. n -> Glyphs]
    BY <2>1
  <2> QED
    BY <2>2
<1>2. n \in Nat /\ n >= 1
  BY <1>1, StoreAssumption
<1>3. b \in Seq(Glyphs) /\ Len(b) = n
  BY <1>1, <1>2
<1>4. b # <<>>
  BY <1>2, <1>3
<1>5. {b[i] : i \in DOMAIN b} \subseteq Glyphs
  BY <1>1
<1> QED
  BY <1>3, <1>4, <1>5

LEMMA CommitKeeps ==
  ASSUME SInv, NEW b \in Batches, Commit(b)
  PROVE  Sound(flash', ram', count', op') /\ Kept(flash, flash')
<1>1. op = None /\ ram.open /\ ~ram.stopped
  BY DEF Commit, Ready
<1> DEFINE o == [call |-> "commit", todo |-> b, placed |-> <<>>, keys |-> {b[i] : i \in DOMAIN b}]
           full == [ram EXCEPT !.indexFull = TRUE, !.stopped = TRUE]
           asks == [ram EXCEPT !.roomAsked = TRUE, !.stopped = TRUE]
           stop == [ram EXCEPT !.stopped = TRUE]
<1>2. \/ Notes(full, None) \/ Notes(asks, None) \/ Notes(stop, None) \/ Notes(ram, o)
  BY DEF Commit
<1>3. ram \in RamSet /\ Trusted(ram, op) /\ ~Inserting(op)
  BY <1>1, SInvParts, OpCalls, NotInserting DEF Trusted
<1>4. /\ full \in RamSet /\ SameMirror(ram, full) /\ full.liveSlots = ram.liveSlots
      /\ asks \in RamSet /\ SameMirror(ram, asks) /\ asks.liveSlots = ram.liveSlots
      /\ stop \in RamSet /\ SameMirror(ram, stop) /\ stop.liveSlots = ram.liveSlots
      /\ SameMirror(ram, ram)
  BY <1>3 DEF RamSet, SameMirror
<1>5. o \in CommitSet /\ CommitSane(o)
  <2>1. <<>> \in Seq(WholeSlots)
    OBVIOUS
  <2> QED
    BY <2>1, BatchTyped DEF CommitSet, CommitSane
<1> HIDE DEF o, full, asks, stop
<1>6. OpSane(flash, ram, o)
  BY <1>1, <1>5 DEF OpSane
<1> QED
  BY <1>2, <1>3, <1>4, <1>5, <1>6, FlagsKeep

LEMMA MakeRoomKeeps ==
  ASSUME SInv, NEW budget \in {"Idle", "Open"}, MakeRoom(budget)
  PROVE  Sound(flash', ram', count', op') /\ Kept(flash, flash')
<1> DEFINE o == Room(budget, IF budget = "Idle" THEN 1 ELSE SegmentCount + 1, FALSE)
<1>1. op = None /\ ram.open /\ ~ram.wipe /\ Notes(ram, o)
  BY DEF MakeRoom, Ready
<1>2. ram \in RamSet /\ SameMirror(ram, ram) /\ Trusted(ram, op) /\ ~Inserting(op)
  BY <1>1, SInvParts, OpCalls, NotInserting DEF Trusted, SameMirror
<1>3. o \in RoomSet
  <2>1. (IF budget = "Idle" THEN 1 ELSE SegmentCount + 1) \in Nat
    BY StoreFacts
  <2> QED
    BY <2>1 DEF Room, RoomSet
<1> HIDE DEF o
<1>4. OpSane(flash, ram, o)
  BY <1>1, <1>3 DEF OpSane
<1> QED
  BY <1>1, <1>2, <1>3, <1>4, FlagsKeep

LEMMA RoomMadeKeeps ==
  ASSUME SInv, RoomMade
  PROVE  Sound(flash', ram', count', op') /\ Kept(flash, flash')
<1> DEFINE asked == ram.live >= 2 /\ ram.roomAsked
           r == [ram EXCEPT !.roomAsked = asked, !.stopped = asked \/ NeedsRebuild]
<1>1. op.call = "room" /\ Notes(r, None)
  BY DEF RoomMade
<1>2. ram \in RamSet /\ Trusted(ram, op) /\ ~Inserting(op)
  BY <1>1, SInvParts, InCall, NotInserting
<1>3. asked \in BOOLEAN /\ (asked \/ NeedsRebuild) \in BOOLEAN
  BY DEF NeedsRebuild
<1> HIDE DEF asked
<1>4. r \in RamSet /\ SameMirror(ram, r) /\ r.liveSlots = ram.liveSlots
  BY <1>2, <1>3 DEF RamSet, SameMirror
<1> HIDE DEF r
<1> QED
  BY <1>1, <1>2, <1>4, FlagsKeep

LEMMA NoteDrawnKeeps ==
  ASSUME SInv, NEW k, NoteDrawn(k)
  PROVE  Sound(flash', ram', count', op') /\ Kept(flash, flash')
<1>1. flash' = flash /\ ram' = ram /\ op' = op
  BY DEF NoteDrawn
<1>2. PICK i \in Slots : count[i] < MaxCount /\ count' = [count EXCEPT ![i] = @ + 1]
  BY DEF NoteDrawn
<1>3. count \in [Slots -> 0 .. MaxCount]
  BY SInvParts
<1>4. count[i] + 1 \in 0 .. MaxCount
  BY <1>2, <1>3, StoreFacts
<1>5. count' \in [Slots -> 0 .. MaxCount]
  BY <1>2, <1>3, <1>4
<1> QED
  BY <1>1, <1>5, SInvParts, Quiet

LEMMA WipeCallKeeps ==
  ASSUME SInv, Wipe
  PROVE  Sound(flash', ram', count', op') /\ Kept(flash, flash')
<1> DEFINE r == [ram EXCEPT !.stopped = TRUE]
           o == [call |-> "wipe", todo |-> WipeSteps, then |-> None]
<1>1. op = None /\ ram.open /\ ram.wipe /\ Notes(r, o)
  BY DEF Wipe, Ready
<1>2. RamSane(r) /\ r.open /\ r.wipe /\ r.stopped
  BY <1>1, SInvParts DEF RamSane, RamSet
<1>3. o \in WipeSet
  BY DEF WipeSet, WipeTails
<1>4. o.todo = WipeSteps /\ o.call = "wipe"
  OBVIOUS
<1>5. WipeSane(flash, o)
  <2>1. WipeSteps # <<"eraseLog", "eraseState">> /\ WipeSteps # <<"eraseState">>
    BY DEF WipeSteps
  <2> QED
    BY <1>4, <2>1 DEF WipeSane
<1> HIDE DEF r, o
<1>6. OpSane(flash, r, o) /\ ~Trusted(r, o)
  BY <1>2, <1>3, <1>4, <1>5 DEF OpSane, Trusted
<1> QED
  BY <1>1, <1>2, <1>6, Noted

LEMMA LastFaceKeeps ==
  ASSUME SInv, LastFace
  PROVE  Sound(flash', ram', count', op') /\ Kept(flash, flash')
<1> DEFINE r == [ram EXCEPT !.wipe = TRUE]
           g == Written(Do("wipe"))
<1>1. Ready /\ op = None /\ ram.open /\ ~ram.wipe /\ Does(Do("wipe"), r, count, None)
  BY DEF LastFace, Ready
<1>2. ram \in RamSet /\ flash \in FlashSet
  BY SInvParts DEF FlashSane
<1>3. RamSane(r) /\ SameMirror(ram, r)
  BY <1>2, SInvParts DEF RamSane, RamSet, SameMirror
<1>4. g.seg = flash.seg /\ g.journal = flash.journal /\ g.index = flash.index
  BY <1>2, WrittenWipe DEF FlashSet
<1> HIDE DEF r, g
<1>5. Mirrored(flash, r, None)
  BY <1>1, <1>3, WhenReady, MirrorKept, NotInserting
<1>6. Mirrored(g, r, None)
  BY <1>4, <1>5 DEF Mirrored, RingMirrored, JournalMirrored, CountsMirrored
<1>7. OpSane(Written(Do("wipe")), r, None)
  BY DEF OpSane
<1>8. Safe(Do("wipe")) /\ count \in [Slots -> 0 .. MaxCount]
  BY SInvParts, SafeIndex
<1> QED
  BY <1>1, <1>3, <1>6, <1>7, <1>8, DoesKeep DEF g

----------------------------------------------------------------------------
(* Placing records. *)

LEMMA PlacingIs ==
  ASSUME SInv, Placing
  PROVE  /\ op.todo \in Seq(Glyphs) /\ op.todo # <<>> /\ op.call # "rebuild" /\ ~Inserting(op)
         /\ Head(op.todo) \in Glyphs /\ Tail(op.todo) \in Seq(Glyphs)
         /\ \/ op \in CommitSet /\ CommitSane(op) /\ ram.open /\ ~ram.stopped
            \/ op \in ReclaimSet /\ ReclaimSane(ram, op) /\ ram.open /\ ~ram.wipe /\ op.placed = <<>> /\ op.gone = {} /\ ram.live >= 2
<1>1. op.call \in {"commit", "reclaim"} /\ op.todo # <<>> /\ (op.call = "reclaim" => op.placed = <<>>)
  BY DEF Placing
<1>2. \/ op \in CommitSet /\ CommitSane(op) /\ ram.open /\ ~ram.stopped
      \/ op \in ReclaimSet /\ ReclaimSane(ram, op) /\ ram.open /\ ~ram.wipe /\ op.placed = <<>>
  BY <1>1, SInvParts, OpIs
<1>3. op.todo \in Seq(Glyphs)
  BY <1>2 DEF CommitSet, ReclaimSet
<1>4. Head(op.todo) \in Glyphs /\ Tail(op.todo) \in Seq(Glyphs)
  BY <1>1, <1>3
<1>5. ReclaimSane(ram, op) => op.gone = {} /\ ram.live >= 2
  BY <1>1 DEF ReclaimSane
<1> QED
  BY <1>1, <1>2, <1>3, <1>4, <1>5, NotInserting

\* The segment after the ring is not in it.
LEMMA NextHeadIs ==
  ASSUME FlashSane(flash), RamSane(ram), RingMirrored(flash, ram), ToOpen(ram) # 0
  PROVE  /\ ram.live \in 0 .. SegmentCount - 1 /\ NextHead \in Segments
         /\ ram.live > 0 => Dist(ram.tail, NextHead) = ram.live
         /\ ~(Dist(ram.tail, NextHead) < ram.live)
<1>1. ram.live \in 0 .. SegmentCount /\ ram.head \in Segments /\ ram.tail \in Segments /\ ram.next \in Nat /\ ram.floor \in Nat
  BY DEF RamSane, RamSet
<1>2. ram.live # SegmentCount
  <2> SUFFICES ASSUME ram.live = SegmentCount PROVE FALSE
    OBVIOUS
  <2>1. Free(ram) = 0
    BY StoreFacts DEF Free
  <2>2. EpochsLeft(ram) \in Nat
    <3>1. RebuildLimit \in Nat
      BY StoreAssumption
    <3> QED
      BY <1>1, <3>1 DEF EpochsLeft
  <2>3. {0, EpochsLeft(ram)} \in SUBSET Nat
    BY <2>2
  <2>4. Min({0, EpochsLeft(ram)}) \in Nat /\ Min({0, EpochsLeft(ram)}) <= 0
    BY <2>3, MinOfNat
  <2>5. ToOpen(ram) = Min({0, EpochsLeft(ram)})
    BY <2>1 DEF ToOpen
  <2> QED
    BY <2>4, <2>5
<1>3. ram.live \in 0 .. SegmentCount - 1
  BY <1>1, <1>2, StoreFacts
<1>4. NextHead \in Segments
  BY <1>1, DistFacts DEF NextHead
<1>5. ASSUME ram.live > 0 PROVE Dist(ram.tail, NextHead) = ram.live
  <2>1. Dist(ram.tail, ram.head) = ram.live - 1 /\ NextHead = Following(ram.head)
    BY <1>5 DEF RingMirrored, NextHead
  <2>2. Dist(ram.tail, ram.head) + 1 < SegmentCount
    BY <1>3, <2>1, StoreFacts
  <2>3. Dist(ram.tail, NextHead) = (ram.live - 1) + 1
    BY <1>1, <2>1, <2>2, DistFacts
  <2> QED
    BY <1>3, <2>3
<1>6. ~(Dist(ram.tail, NextHead) < ram.live)
  BY <1>1, <1>3, <1>4, <1>5, DistFacts
<1> QED
  BY <1>3, <1>4, <1>5, <1>6

LEMMA EraseMirrors ==
  ASSUME SInv, RingMirrored(flash, ram), JournalMirrored(flash, ram), CountsMirrored(flash, ram),
         NEW s \in Segments, ~(Dist(ram.tail, s) < ram.live)
  PROVE  /\ Safe(EraseSeg(s))
         /\ RingMirrored(Written(EraseSeg(s)), ram) /\ JournalMirrored(Written(EraseSeg(s)), ram)
         /\ CountsMirrored(Written(EraseSeg(s)), ram)
<1> DEFINE g == Written(EraseSeg(s))
<1>1. ram.tail \in Segments /\ ram.head \in Segments /\ ram.live \in 0 .. SegmentCount /\ ram.live \in Nat
  BY SInvParts, StoreFacts DEF RamSet
<1>2. RingOf(flash.seg, ram.tail, ram.live)
  BY DEF RingMirrored
<1>3. Safe(EraseSeg(s)) /\ RingOf(g.seg, ram.tail, ram.live)
  BY <1>1, <1>2, SInvParts, SafeErase
<1>4. flash \in FlashSet /\ flash.seg \in [Segments -> SegmentSet]
  BY SInvParts, SaneParts DEF FlashSane
<1>5. g.seg = [flash.seg EXCEPT ![s] = BlankSegment] /\ g.index = flash.index /\ g.journal = flash.journal
  <2>1. g = [flash EXCEPT !.seg[s] = BlankSegment]
    BY WrittenErase
  <2> HIDE DEF g
  <2> QED
    BY <1>4, <2>1 DEF FlashSet
<1> HIDE DEF g
<1>6. \A u \in Segments : Dist(ram.tail, u) < ram.live => u # s /\ g.seg[u] = flash.seg[u]
  BY <1>4, <1>5
<1>7. ram.live > 0 => g.seg[ram.head] = flash.seg[ram.head]
  <2>1. ram.live > 0 => Dist(ram.tail, ram.head) < ram.live
    BY <1>1 DEF RingMirrored
  <2> QED
    BY <1>1, <1>6, <2>1
<1>8. ram.segEpoch = [u \in Segments |-> IF Dist(ram.tail, u) < ram.live THEN g.seg[u].epoch ELSE 0]
  BY <1>6 DEF RingMirrored
<1>9. RingMirrored(g, ram)
  BY <1>3, <1>7, <1>8 DEF RingMirrored
<1>10. JournalMirrored(g, ram) /\ CountsMirrored(g, ram)
  BY <1>5 DEF JournalMirrored, CountsMirrored
<1> QED
  BY <1>3, <1>9, <1>10 DEF g

LEMMA HeaderMirrors ==
  ASSUME SInv, RingMirrored(flash, ram), JournalMirrored(flash, ram), CountsMirrored(flash, ram), ToOpen(ram) # 0,
         flash.seg[NextHead] = BlankSegment
  PROVE  LET g == Written(Header(NextHead, ram.next))
         IN /\ Safe(Header(NextHead, ram.next)) /\ RamSane(Moved)
            /\ Moved.open = ram.open /\ Moved.wipe = ram.wipe /\ Moved.stopped = ram.stopped /\ Moved.live = ram.live + 1
            /\ RingMirrored(g, Moved) /\ JournalMirrored(g, Moved) /\ CountsMirrored(g, Moved)
<1> DEFINE g == Written(Header(NextHead, ram.next))
           x == NextHead  n == ram.live  t == ram.tail  e == ram.next
           u == IF n = 0 THEN x ELSE t
<1>1. /\ t \in Segments /\ ram.head \in Segments /\ n \in 0 .. SegmentCount - 1 /\ n \in Nat /\ e \in Nat /\ e > 0 /\ x \in Segments
      /\ (n > 0 => Dist(t, x) = n) /\ ~(Dist(t, x) < n)
      /\ ram.segEpoch \in [Segments -> Nat]
  BY SInvParts, StoreFacts, NextHeadIs DEF RamSet
<1>2. RingOf(flash.seg, t, n) /\ ram.segEpoch = [s \in Segments |-> IF Dist(t, s) < n THEN flash.seg[s].epoch ELSE 0]
  BY DEF RingMirrored
<1>3. flash \in FlashSet /\ flash.seg \in [Segments -> SegmentSet] /\ flash.seg[x] \in SegmentSet /\ \A s \in Segments : flash.seg[s].epoch \in Nat
  BY <1>1, SInvParts, SaneParts DEF FlashSane
<1>4. /\ Moved.open = ram.open /\ Moved.wipe = ram.wipe /\ Moved.stopped = ram.stopped /\ Moved.live = n + 1
      /\ Moved.head = x /\ Moved.tail = u /\ Moved.used = 0 /\ Moved.next = e + 1
      /\ Moved.segEpoch = [ram.segEpoch EXCEPT ![x] = e]
      /\ Moved.usedSlots = ram.usedSlots /\ Moved.marks = ram.marks /\ Moved.liveSlots = ram.liveSlots
      /\ Moved.entries = ram.entries /\ Moved.done = ram.done /\ Moved.floor = ram.floor
  BY SInvParts DEF RamSet, Moved
<1>5. /\ g.seg = [flash.seg EXCEPT ![x] = [flash.seg[x] EXCEPT !.header = "live", !.epoch = e]]
      /\ g.index = flash.index /\ g.journal = flash.journal
      /\ g.seg[x].epoch = e /\ g.seg[x].recs = flash.seg[x].recs
  <2>1. g = [flash EXCEPT !.seg[x].header = "live", !.seg[x].epoch = e]
    BY WrittenHeader
  <2> HIDE DEF x, e, g
  <2>2. /\ g.seg = [flash.seg EXCEPT ![x] = [flash.seg[x] EXCEPT !.header = "live", !.epoch = e]]
        /\ g.index = flash.index /\ g.journal = flash.journal
    BY <1>1, <1>3, <2>1 DEF FlashSet, SegmentSet
  <2>3. g.seg[x] = [flash.seg[x] EXCEPT !.header = "live", !.epoch = e]
    BY <1>1, <1>3, <2>2
  <2> QED
    BY <1>3, <2>2, <2>3 DEF SegmentSet
<1>6. \A s \in Segments : Dist(t, s) < n => flash.seg[s].epoch < e
  <2> TAKE s \in Segments
  <2> HAVE Dist(t, s) < n
  <2>1. n > 0 /\ Dist(t, s) \in Nat
    <3>1. Dist(t, s) \in Nat
      BY <1>1, DistNat
    <3> HIDE DEF n, t
    <3> QED
      BY <1>1, <3>1
  <2>2. Dist(t, ram.head) = n - 1 /\ e = flash.seg[ram.head].epoch + 1
    BY <2>1 DEF RingMirrored
  <2>3. CASE Dist(t, s) = n - 1
    <3>1. s = ram.head
      BY <1>1, <2>2, <2>3, DistFacts
    <3> QED
      BY <1>1, <1>3, <2>2, <3>1
  <2>4. CASE Dist(t, s) # n - 1
    <3>1. Dist(t, s) < Dist(t, ram.head) /\ Dist(t, ram.head) < n
      BY <1>1, <2>1, <2>2, <2>4
    <3>2. flash.seg[s].epoch < flash.seg[ram.head].epoch
      BY <1>1, <1>2, <3>1 DEF RingOf
    <3> QED
      BY <1>1, <1>3, <2>2, <3>2
  <2> QED
    BY <2>3, <2>4
<1>7. Safe(Header(x, e)) /\ RingOf(g.seg, u, n + 1)
  <2> HIDE DEF x, e, n, t
  <2>1. flash.seg[x] = BlankSegment
    BY DEF x
  <2> QED
    BY <1>1, <1>2, <1>6, <2>1, SInvParts, SafeHeader DEF x, e
<1>8. RamSane(Moved)
  <2>1. Moved.segEpoch \in [Segments -> Nat]
    BY <1>1, <1>4
  <2>2. u \in Segments /\ n + 1 \in 0 .. SegmentCount /\ e + 1 \in Nat \ {0} /\ 0 \in 0 .. Cap
    BY <1>1, StoreFacts
  <2>3. ram \in RamSet /\ RamSane(ram)
    BY SInvParts
  <2>4. Moved \in RamSet
    BY <1>1, <2>2, <2>3, Zenon DEF Moved, RamSet
  <2> QED
    BY <1>4, <2>3, <2>4 DEF RamSane
<1> HIDE DEF x, e, n, t, g
<1>9. Moved.segEpoch = [s \in Segments |-> IF Dist(u, s) < n + 1 THEN g.seg[s].epoch ELSE 0]
  <2>1. \A s \in Segments : Moved.segEpoch[s] = IF Dist(u, s) < n + 1 THEN g.seg[s].epoch ELSE 0
    <3> TAKE s \in Segments
    <3>1. CASE s = x
      <4>1. Moved.segEpoch[s] = e
        BY <1>1, <1>4, <3>1
      <4>2. Dist(u, x) < n + 1
        BY <1>1, DistFacts
      <4> QED
        BY <1>5, <3>1, <4>1, <4>2
    <3>2. CASE s # x
      <4>1. Moved.segEpoch[s] = IF Dist(t, s) < n THEN flash.seg[s].epoch ELSE 0
        BY <1>1, <1>2, <1>4, <3>2
      <4>2. g.seg[s] = flash.seg[s]
        BY <1>3, <1>5, <3>2
      <4>3. CASE n = 0
        <5>1. u = x /\ Dist(x, x) = 0 /\ Dist(x, s) # 0 /\ Dist(x, s) \in Nat /\ Dist(t, s) \in Nat
          BY <1>1, <3>2, <4>3, DistFacts, StoreFacts
        <5> QED
          BY <4>1, <4>3, <5>1
      <4>4. CASE n # 0
        <5>1. u = t /\ Dist(t, s) # n /\ Dist(t, s) \in Nat
          BY <1>1, <3>2, <4>4, DistFacts, StoreFacts
        <5>2. Dist(t, s) < n + 1 <=> Dist(t, s) < n
          BY <1>1, <5>1
        <5> QED
          BY <4>1, <4>2, <5>1, <5>2
      <4> QED
        BY <4>3, <4>4
    <3> QED
      BY <3>1, <3>2
  <2>2. Moved.segEpoch \in [Segments -> Nat]
    BY <1>8 DEF RamSane, RamSet
  <2> QED
    BY <2>1, <2>2
<1>10. Dist(u, x) = n
  BY <1>1, DistFacts
<1>11. g.seg[x].epoch = e /\ Fill(g.seg[x].recs) = 0
  <2>1. g.seg[x].recs = {}
    BY <1>5, BlankIsSegment DEF x
  <2> QED
    BY <1>5, <2>1, FillFacts
<1>12. RingMirrored(g, Moved)
  <2>1. n + 1 # 0 /\ n + 1 > 0 /\ (n + 1) - 1 = n
    BY <1>1
  <2> QED
    BY <1>4, <1>7, <1>9, <1>10, <1>11, <2>1 DEF RingMirrored
<1>13. JournalMirrored(g, Moved) /\ CountsMirrored(g, Moved)
  BY <1>4, <1>5 DEF JournalMirrored, CountsMirrored
<1> QED
  BY <1>4, <1>7, <1>8, <1>12, <1>13 DEF g, x, e, n

LEMMA MoveHeadKeeps ==
  ASSUME SInv, MoveHead
  PROVE  Sound(flash', ram', count', op') /\ Kept(flash, flash')
<1>0. Placing /\ NeedsHead
  BY DEF MoveHead
<1>1. /\ RingMirrored(flash, ram) /\ JournalMirrored(flash, ram) /\ CountsMirrored(flash, ram)
      /\ Trusted(ram, op) /\ ~Inserting(op)
  BY <1>0, PlacingIs, InCall DEF Placing
<1>2. FlashSane(flash) /\ RamSane(ram) /\ count \in [Slots -> 0 .. MaxCount] /\ ram.live \in Nat
  BY SInvParts, StoreFacts DEF RamSet
<1>3. CASE ToOpen(ram) = 0
  BY <1>3, StopWritesKeep DEF MoveHead
<1>4. ASSUME ToOpen(ram) # 0, flash.seg[NextHead] # BlankSegment, Does(EraseSeg(NextHead), ram, count, op)
      PROVE  Sound(flash', ram', count', op') /\ Kept(flash, flash')
  <2>1. NextHead \in Segments /\ ~(Dist(ram.tail, NextHead) < ram.live)
    BY <1>1, <1>2, <1>4, NextHeadIs
  <2> DEFINE g == Written(EraseSeg(NextHead))
  <2>2. Safe(EraseSeg(NextHead)) /\ RingMirrored(g, ram) /\ JournalMirrored(g, ram) /\ CountsMirrored(g, ram)
    BY <1>1, <2>1, EraseMirrors
  <2> HIDE DEF g
  <2>3. Mirrored(g, ram, op)
    BY <1>1, <2>2 DEF Mirrored
  <2>4. OpSane(g, ram, op)
    BY <1>0, PlacingIs DEF OpSane
  <2> QED
    BY <1>2, <1>4, <2>2, <2>3, <2>4, DoesKeep DEF g
<1>5. ASSUME ToOpen(ram) # 0, flash.seg[NextHead] = BlankSegment, Does(Header(NextHead, ram.next), Moved, count, op)
      PROVE  Sound(flash', ram', count', op') /\ Kept(flash, flash')
  <2> DEFINE g == Written(Header(NextHead, ram.next))
  <2>1. /\ Safe(Header(NextHead, ram.next)) /\ RamSane(Moved)
        /\ Moved.open = ram.open /\ Moved.wipe = ram.wipe /\ Moved.stopped = ram.stopped /\ Moved.live = ram.live + 1
        /\ RingMirrored(g, Moved) /\ JournalMirrored(g, Moved) /\ CountsMirrored(g, Moved)
    BY <1>1, <1>5, HeaderMirrors
  <2> HIDE DEF g
  <2>2. Mirrored(g, Moved, op)
    BY <1>1, <2>1 DEF Mirrored
  <2>3. OpSane(g, Moved, op)
    <3>1. op \in ReclaimSet /\ ReclaimSane(ram, op) /\ op.gone = {} /\ ram.live >= 2 => ReclaimSane(Moved, op)
      BY <1>2, <2>1 DEF ReclaimSane
    <3> QED
      BY <1>0, <2>1, <3>1, PlacingIs DEF OpSane
  <2> QED
    BY <1>2, <1>5, <2>1, <2>2, <2>3, DoesKeep DEF g
<1> QED
  BY <1>3, <1>4, <1>5 DEF MoveHead

LEMMA PlaceRecordKeeps ==
  ASSUME SInv, PlaceRecord
  PROVE  Sound(flash', ram', count', op') /\ Kept(flash, flash')
<1> DEFINE k == Head(op.todo)
           a == ram.used
           end == a + Size[k]
           h == ram.head
           rec == [key |-> k, whole |-> TRUE, at |-> a, end |-> end]
           sl == Slot(k, Place(h, a, ram.segEpoch[h]))
           r == [ram EXCEPT !.used = end]
           o == [op EXCEPT !.todo = Tail(@), !.placed = Append(@, sl)]
           g == Written(Record(h, rec))
<1>1. Placing /\ ~NeedsHead /\ Does(Record(h, rec), r, count, o)
  BY DEF PlaceRecord
<1>2. /\ RingMirrored(flash, ram) /\ JournalMirrored(flash, ram) /\ CountsMirrored(flash, ram)
      /\ Trusted(ram, op) /\ ~Inserting(op)
  BY <1>1, PlacingIs, InCall DEF Placing
<1>3. /\ op.todo \in Seq(Glyphs) /\ op.todo # <<>> /\ k \in Glyphs /\ Tail(op.todo) \in Seq(Glyphs)
      /\ \/ op \in CommitSet /\ CommitSane(op) /\ ram.open /\ ~ram.stopped
         \/ op \in ReclaimSet /\ ReclaimSane(ram, op) /\ ram.open /\ ~ram.wipe /\ op.placed = <<>> /\ op.gone = {} /\ ram.live >= 2
  BY <1>1, PlacingIs
<1>4. /\ ram \in RamSet /\ RamSane(ram) /\ FlashSane(flash) /\ Intact(flash) /\ h \in Segments /\ ram.tail \in Segments
      /\ ram.live \in 0 .. SegmentCount /\ ram.live \in Nat /\ a \in 0 .. Cap /\ a \in Nat
  BY SInvParts, StoreFacts DEF RamSet
<1>5. ram.live > 0 /\ Fits(a, Size[k])
  BY <1>1, <1>4 DEF NeedsHead
<1>6. Size[k] \in Nat /\ Size[k] >= 1 /\ a + Size[k] <= Cap
  <2>1. Size[k] \in 1 .. Cap
    BY <1>3, StoreAssumption
  <2> QED
    BY <1>4, <1>5, <2>1, StoreFacts DEF Fits
<1>7. end \in 1 .. Cap /\ a < end
  BY <1>4, <1>6, StoreFacts
<1>8. rec \in RecordSet /\ rec.at = a /\ rec.end = end
  BY <1>3, <1>4, <1>7 DEF RecordSet
<1>9. Dist(ram.tail, h) = ram.live - 1 /\ Dist(ram.tail, h) < ram.live /\ a = Fill(flash.seg[h].recs)
  <2>1. Dist(ram.tail, h) = ram.live - 1 /\ a = Fill(flash.seg[h].recs)
    BY <1>2, <1>5 DEF RingMirrored
  <2> QED
    BY <1>4, <2>1
<1>10. sl \in WholeSlots
  <2>1. ram.segEpoch[h] \in Nat \ {0}
    BY <1>2, <1>4, <1>9, LiveEpochs
  <2>2. Place(h, a, ram.segEpoch[h]) \in PlaceSet
    BY <1>4, <2>1 DEF Place, PlaceSet
  <2> QED
    BY <1>3, <2>2 DEF Slot, WholeSlots, GlyphSlots
<1>11. r \in RamSet /\ RamSane(r) /\ r.used = end /\ SameMirror([ram EXCEPT !.used = end], r)
  BY <1>4, <1>7 DEF RamSet, RamSane, SameMirror
<1>12. /\ r.open = ram.open /\ r.wipe = ram.wipe /\ r.stopped = ram.stopped
       /\ r.live = ram.live /\ r.head = ram.head /\ r.tail = ram.tail /\ r.next = ram.next /\ r.segEpoch = ram.segEpoch
       /\ r.entries = ram.entries /\ r.done = ram.done /\ r.floor = ram.floor /\ r.usedSlots = ram.usedSlots /\ r.marks = ram.marks
  BY <1>4 DEF RamSet
<1> HIDE DEF rec, end, sl, r
<1>13. OpSane(g, r, o) /\ ~Inserting(o)
  <2>1. CASE op \in CommitSet /\ CommitSane(op) /\ ram.open /\ ~ram.stopped
    <3>1. op.placed \in Seq(WholeSlots)
      BY <2>1 DEF CommitSet
    <3>2. Append(op.placed, sl) \in Seq(WholeSlots) /\ Append(op.placed, sl) # <<>>
      BY <1>10, <3>1
    <3>3. o \in CommitSet /\ o.placed = Append(op.placed, sl)
      BY <1>3, <2>1, <3>2 DEF CommitSet
    <3>4. CommitSane(o)
      BY <3>2, <3>3 DEF CommitSane
    <3> QED
      BY <1>12, <2>1, <3>3, <3>4, NotInserting DEF OpSane
  <2>2. CASE op \in ReclaimSet /\ ReclaimSane(ram, op) /\ ram.open /\ ~ram.wipe /\ op.placed = <<>> /\ op.gone = {} /\ ram.live >= 2
    <3>1. Append(op.placed, sl) = <<sl>> /\ <<sl>> \in Seq(WholeSlots) /\ Len(<<sl>>) = 1
      BY <1>10, <2>2
    <3>2. /\ o \in ReclaimSet /\ o.placed = <<sl>> /\ o.todo = Tail(op.todo) /\ o.counts = op.counts /\ o.gone = {}
      BY <1>3, <2>2, <3>1 DEF ReclaimSet
    <3>3. Len(op.counts) = Len(op.todo) + Len(op.placed)
      BY <2>2 DEF ReclaimSane
    <3>4. Len(op.counts) = Len(Tail(op.todo)) + 1
      <4>1. Len(op.placed) = 0 /\ Len(op.todo) \in Nat /\ Len(Tail(op.todo)) = Len(op.todo) - 1
        BY <1>3, <2>2
      <4> QED
        BY <3>3, <4>1
    <3>5. ReclaimSane(r, o)
      BY <1>12, <2>2, <3>1, <3>2, <3>4 DEF ReclaimSane
    <3> QED
      BY <1>12, <2>2, <3>2, <3>5, NotInserting DEF OpSane
  <2> QED
    BY <1>3, <2>1, <2>2
<1>14. flash \in FlashSet /\ flash.seg \in [Segments -> SegmentSet] /\ flash.seg[h] \in SegmentSet /\ flash.seg[h].recs \in SUBSET RecordSet
  BY <1>4, SaneParts DEF FlashSane
<1>15. \A q \in flash.seg[h].recs : q.end <= rec.at
  BY <1>8, <1>9, <1>14, FillFacts
<1>16. Safe(Record(h, rec))
  BY <1>4, <1>8, <1>15, SafeRecord
<1>17. /\ g.index = flash.index /\ g.journal = flash.journal
       /\ g.seg = [flash.seg EXCEPT ![h] = [flash.seg[h] EXCEPT !.recs = flash.seg[h].recs \cup {rec}]]
  <2>1. g = [flash EXCEPT !.seg[h].recs = @ \cup {rec}]
    BY WrittenRecord
  <2> HIDE DEF g
  <2> QED
    BY <1>4, <1>14, <2>1 DEF FlashSet
<1> HIDE DEF g, o
<1>18. /\ g.seg[h].recs = flash.seg[h].recs \cup {rec}
       /\ \A s \in Segments : g.seg[s].header = flash.seg[s].header /\ g.seg[s].epoch = flash.seg[s].epoch
  BY <1>4, <1>14, <1>17 DEF SegmentSet
<1>19. Fill(g.seg[h].recs) = end
  BY <1>8, <1>14, <1>15, <1>18, FillGrows
<1>20. RingMirrored(g, r)
  <2>1. RingOf(g.seg, ram.tail, ram.live)
    BY <1>2, <1>18, RingSame DEF RingMirrored
  <2>2. r.segEpoch = [s \in Segments |-> IF Dist(ram.tail, s) < ram.live THEN g.seg[s].epoch ELSE 0]
    BY <1>2, <1>12, <1>18 DEF RingMirrored
  <2>3. r.next = g.seg[h].epoch + 1
    BY <1>2, <1>4, <1>5, <1>12, <1>18 DEF RingMirrored
  <2>4. ram.live # 0
    BY <1>4, <1>5
  <2> QED
    BY <1>9, <1>11, <1>12, <1>19, <2>1, <2>2, <2>3, <2>4 DEF RingMirrored
<1>21. JournalMirrored(g, r) /\ CountsMirrored(g, r)
  BY <1>2, <1>12, <1>17 DEF JournalMirrored, CountsMirrored
<1>22. Mirrored(g, r, o)
  BY <1>13, <1>20, <1>21 DEF Mirrored
<1> QED
  BY <1>1, <1>11, <1>13, <1>16, <1>22, SInvParts, DoesKeep DEF g

LEMMA FirstFreeIs ==
  ASSUME NEW k \in Keys, FreeProbes(k) # {}
  PROVE  /\ FirstFree(k) \in Slots /\ flash.index[FirstFree(k)] = Erased
         /\ Min(FreeProbes(k)) \in Probes /\ \A q \in FreeProbes(k) : Min(FreeProbes(k)) <= q
<1>1. FreeProbes(k) \in SUBSET Nat
  BY StoreFacts DEF FreeProbes, Probes
<1>2. Min(FreeProbes(k)) \in FreeProbes(k) /\ \A q \in FreeProbes(k) : Min(FreeProbes(k)) <= q
  BY <1>1, MinOfNat
<1>3. Min(FreeProbes(k)) \in Probes /\ Min(FreeProbes(k)) \in Nat /\ SlotErased(flash.index[FirstFree(k)])
  BY <1>1, <1>2 DEF FreeProbes, FirstFree
<1>4. Home[k] \in Nat /\ SlotCount \in Nat \ {0}
  BY StoreAssumption, StoreFacts
<1>5. FirstFree(k) \in 0 .. SlotCount - 1
  <2>1. \A h, p \in Nat : h + p \in Nat
    OBVIOUS
  <2>2. Home[k] + Min(FreeProbes(k)) \in Nat
    BY <1>3, <1>4, <2>1
  <2> QED
    BY <1>4, <2>2, ModIn DEF FirstFree, Probe
<1> QED
  BY <1>2, <1>3, <1>5 DEF Slots, SlotErased

\* A slot written where none was: the ring and the journal stay, the counts grow.
LEMMA SlotMirrors ==
  ASSUME SInv, NEW i \in Slots, flash.index[i] = Erased, NEW sl \in MarkSlots \cup WholeSlots,
         RingMirrored(flash, ram), JournalMirrored(flash, ram)
  PROVE  LET g == Written(SlotAt(i, sl))
         IN /\ Safe(SlotAt(i, sl)) /\ RingMirrored(g, ram) /\ JournalMirrored(g, ram)
            /\ g.index = [flash.index EXCEPT ![i] = sl] /\ g.seg = flash.seg /\ g.journal = flash.journal
            /\ Cardinality(InUse(g.index)) = Cardinality(InUse(flash.index)) + 1
            /\ sl \in WholeSlots => sl.value # NoGlyph /\ Marked(g.index) = Marked(flash.index)
            /\ sl \in MarkSlots => sl.value = NoGlyph /\ Cardinality(Marked(g.index)) = Cardinality(Marked(flash.index)) + 1
<1> DEFINE g == Written(SlotAt(i, sl))
<1>1. flash \in FlashSet /\ flash.index \in [Slots -> SlotSet]
  BY SInvParts, SaneParts DEF FlashSane
<1>2. g.index = [flash.index EXCEPT ![i] = sl] /\ g.seg = flash.seg /\ g.journal = flash.journal
  <2>1. g = [flash EXCEPT !.index[i] = sl]
    BY WrittenSlot
  <2> HIDE DEF g
  <2> QED
    BY <1>1, <2>1 DEF FlashSet
<1> HIDE DEF g
<1>3. Safe(SlotAt(i, sl))
  BY SInvParts, SafeSlot
<1>4. RingMirrored(g, ram) /\ JournalMirrored(g, ram)
  BY <1>2 DEF RingMirrored, JournalMirrored
<1>5. sl \in MarkSlots \cup GlyphSlots /\ (sl \in WholeSlots => sl \in GlyphSlots)
  BY DEF WholeSlots
<1>6. /\ Cardinality(InUse(g.index)) = Cardinality(InUse(flash.index)) + 1
      /\ sl \in GlyphSlots => Marked(g.index) = Marked(flash.index)
      /\ sl \in MarkSlots => Cardinality(Marked(g.index)) = Cardinality(Marked(flash.index)) + 1
  BY <1>1, <1>2, <1>5, InsertCounts
<1> QED
  BY <1>2, <1>3, <1>4, <1>5, <1>6, SlotKinds DEF g

\* insert(): a mark or a whole slot, with the counters of slots.
LEMMA InsertKeeps ==
  ASSUME SInv, NEW k \in Keys, NEW sl \in MarkSlots \cup WholeSlots, FreeProbes(k) # {}, Trusted(ram, op), ~Inserting(op),
         NEW c \in [Slots -> 0 .. MaxCount], NEW o, Does(SlotAt(FirstFree(k), sl), Inserted(sl), c, o),
         OpSane(Written(SlotAt(FirstFree(k), sl)), ram, o), o.call \in {"none", "commit", "reclaim"}
  PROVE  Sound(flash', ram', count', op') /\ Kept(flash, flash')
<1> DEFINE r == Inserted(sl)
           i == FirstFree(k)
           g == Written(SlotAt(i, sl))
<1>1. /\ RingMirrored(flash, ram) /\ JournalMirrored(flash, ram) /\ CountsMirrored(flash, ram) /\ ram \in RamSet /\ RamSane(ram)
  BY SInvParts DEF Mirrored
<1>2. i \in Slots /\ flash.index[i] = Erased
  BY FirstFreeIs
<1>3. /\ Safe(SlotAt(i, sl)) /\ RingMirrored(g, ram) /\ JournalMirrored(g, ram)
      /\ Cardinality(InUse(g.index)) = Cardinality(InUse(flash.index)) + 1
      /\ sl \in WholeSlots => sl.value # NoGlyph /\ Marked(g.index) = Marked(flash.index)
      /\ sl \in MarkSlots => sl.value = NoGlyph /\ Cardinality(Marked(g.index)) = Cardinality(Marked(flash.index)) + 1
  BY <1>1, <1>2, SlotMirrors
<1> HIDE DEF i, g
<1>4. /\ ram.usedSlots \in Nat /\ ram.marks \in Nat /\ ram.liveSlots \in Int /\ ram.liveSlots + ram.marks <= ram.usedSlots
  BY <1>1 DEF RamSet, RamSane
<1>5. /\ r.usedSlots = ram.usedSlots + 1
      /\ r.marks = ram.marks + (IF sl.value = NoGlyph THEN 1 ELSE 0)
      /\ r.liveSlots = ram.liveSlots + (IF sl.value = NoGlyph THEN 0 ELSE 1)
      /\ r.segEpoch = ram.segEpoch /\ r.head = ram.head /\ r.tail = ram.tail /\ r.live = ram.live /\ r.used = ram.used /\ r.next = ram.next
      /\ r.entries = ram.entries /\ r.done = ram.done /\ r.floor = ram.floor
      /\ r.open = ram.open /\ r.wipe = ram.wipe /\ r.stopped = ram.stopped
  BY <1>1 DEF RamSet, Inserted
<1>6. r \in RamSet
  <2>1. /\ ram.usedSlots + 1 \in Nat /\ ram.marks + (IF sl.value = NoGlyph THEN 1 ELSE 0) \in Nat
        /\ ram.liveSlots + (IF sl.value = NoGlyph THEN 0 ELSE 1) \in Int
    BY <1>4
  <2> QED
    BY <1>1, <2>1, Zenon DEF Inserted, RamSet
<1> HIDE DEF r
<1>7. RamSane(r)
  <2>1. r.liveSlots + r.marks <= r.usedSlots
    BY <1>4, <1>5
  <2> QED
    BY <1>6, <2>1 DEF RamSane
<1>8. CountsMirrored(g, r)
  <2>1. CASE sl \in WholeSlots
    BY <1>1, <1>3, <1>4, <1>5, <2>1 DEF CountsMirrored
  <2>2. CASE sl \in MarkSlots
    BY <1>1, <1>3, <1>4, <1>5, <2>2 DEF CountsMirrored
  <2> QED
    BY <2>1, <2>2
<1>9. RingMirrored(g, r) /\ JournalMirrored(g, r)
  BY <1>3, <1>5 DEF RingMirrored, JournalMirrored
<1>10. Mirrored(g, r, o)
  BY <1>8, <1>9, NotInserting DEF Mirrored
<1>11. OpSane(g, r, o)
  BY <1>5 DEF OpSane, ReclaimSane, g, i
<1> QED
  BY <1>3, <1>7, <1>10, <1>11, DoesKeep DEF g, i, r

LEMMA CommitSlotKeeps ==
  ASSUME SInv, CommitSlot
  PROVE  Sound(flash', ram', count', op') /\ Kept(flash, flash')
<1> DEFINE sl == Head(op.placed)
           rest == IF Len(op.placed) = 1 THEN None ELSE [op EXCEPT !.placed = Tail(@)]
<1>1. op.call = "commit" /\ op.todo = <<>>
  BY DEF CommitSlot
<1>2. /\ op \in CommitSet /\ CommitSane(op) /\ ram.open /\ ~ram.stopped /\ Trusted(ram, op) /\ ~Inserting(op)
      /\ ram \in RamSet
  BY <1>1, SInvParts, OpIs, InCall, NotInserting
<1>3. op.placed \in Seq(WholeSlots) /\ op.placed # <<>>
  BY <1>1, <1>2 DEF CommitSet, CommitSane
<1>4. sl \in WholeSlots /\ Tail(op.placed) \in Seq(WholeSlots) /\ (Len(op.placed) # 1 => Tail(op.placed) # <<>>)
  BY <1>3, HeadTail
<1>5. sl.key \in Keys
  BY <1>4 DEF WholeSlots, GlyphSlots, Keys
<1>6. rest.call \in {"none", "commit"} /\ \A f : OpSane(f, ram, rest)
  <2>1. CASE Len(op.placed) = 1
    BY <2>1, OpCalls DEF OpSane
  <2>2. CASE Len(op.placed) # 1
    <3>1. rest \in CommitSet /\ rest.placed = Tail(op.placed) /\ rest.todo = <<>>
      BY <1>1, <1>2, <1>4, <2>2 DEF CommitSet
    <3>2. CommitSane(rest)
      BY <1>4, <2>2, <3>1 DEF CommitSane
    <3> QED
      BY <1>2, <3>1, <3>2, OpCalls DEF OpSane
  <2> QED
    BY <2>1, <2>2
<1>7. CASE FreeProbes(sl.key) = {}
  <2>1. Notes(ChainFull, None)
    BY <1>1, <1>7 DEF CommitSlot
  <2>2. ChainFull \in RamSet /\ SameMirror(ram, ChainFull) /\ ChainFull.liveSlots = ram.liveSlots
    BY <1>2 DEF ChainFull, RamSet, SameMirror
  <2> QED
    BY <1>2, <2>1, <2>2, FlagsKeep
<1>8. CASE FreeProbes(sl.key) # {}
  <2>1. Does(SlotAt(FirstFree(sl.key), sl), Inserted(sl), count, rest)
    BY <1>1, <1>8 DEF CommitSlot
  <2> HIDE DEF sl, rest
  <2> QED
    BY <1>2, <1>4, <1>5, <1>6, <1>8, <2>1, SInvParts, InsertKeeps
<1> QED
  BY <1>7, <1>8

LEMMA MarkNoGlyphKeeps ==
  ASSUME SInv, NEW k \in Blanks, MarkNoGlyph(k)
  PROVE  Sound(flash', ram', count', op') /\ Kept(flash, flash')
<1> DEFINE full == [ram EXCEPT !.indexFull = TRUE, !.stopped = TRUE]
           sl == Slot(k, NoGlyph)
<1>1. op = None /\ ram.open /\ ~ram.stopped
  BY DEF MarkNoGlyph, Ready
<1>2. Trusted(ram, op) /\ ~Inserting(op) /\ ram \in RamSet
  BY <1>1, SInvParts, OpCalls, NotInserting DEF Trusted
<1>3. \/ Notes(full, None) \/ Notes(ChainFull, None)
      \/ FreeProbes(k) # {} /\ Does(SlotAt(FirstFree(k), sl), Inserted(sl), count, None)
  BY DEF MarkNoGlyph
<1>4. /\ full \in RamSet /\ SameMirror(ram, full) /\ full.liveSlots = ram.liveSlots
      /\ ChainFull \in RamSet /\ SameMirror(ram, ChainFull) /\ ChainFull.liveSlots = ram.liveSlots
  BY <1>2 DEF ChainFull, RamSet, SameMirror
<1>5. sl \in MarkSlots /\ k \in Keys /\ None.call = "none" /\ OpSane(Written(SlotAt(FirstFree(k), sl)), ram, None)
  BY OpCalls DEF MarkSlots, Keys, OpSane
<1> HIDE DEF full, sl
<1> QED
  BY <1>2, <1>3, <1>4, <1>5, SInvParts, FlagsKeep, InsertKeeps

----------------------------------------------------------------------------
(* Reclaiming the tail. *)

LEMMA ReclaimKeeps ==
  ASSUME SInv, Reclaim
  PROVE  Sound(flash', ram', count', op') /\ Kept(flash, flash')
<1> DEFINE t == ram.tail
           epoch == ram.segEpoch[t]
           named == {r \in Records(t) : NamedBy(epoch, t, r) # {}}
           drawn == {r \in named : CountOf(epoch, t, r) > 0}
           Before(r) == {q \in drawn : \/ CountOf(epoch, t, q) > CountOf(epoch, t, r)
                                       \/ CountOf(epoch, t, q) = CountOf(epoch, t, r) /\ q.at >= r.at}
           best  == {r \in drawn : SumSize(Before(r)) <= Cap \div 2}
           kept  == IF Opens(ram.used, KeysOf(InOrder(best))) <= ToOpen(ram) THEN InOrder(best) ELSE <<>>
           o == [call |-> "reclaim", todo |-> KeysOf(kept), counts |-> [i \in DOMAIN kept |-> CountOf(epoch, t, kept[i])],
                 placed |-> <<>>, keys |-> {kept[i].key : i \in DOMAIN kept}, named |-> Cardinality(named),
                 gone |-> {}, room |-> [op EXCEPT !.steps = @ - 1]]
<1>1. op.call = "room" /\ op.steps > 0 /\ NextStep(op.budget, op.tried) = "Reclaim" /\ Notes(ram, o)
  BY DEF Reclaim
<1>2. op \in RoomSet /\ ram.open /\ ~ram.wipe /\ Mirrored(flash, ram, op) /\ ~Inserting(op)
  BY <1>1, SInvParts, OpIs, InCall, NotInserting
<1>3. FlashSane(flash) /\ RamSane(ram) /\ ram \in RamSet /\ t \in Segments /\ count \in [Slots -> 0 .. MaxCount]
  BY SInvParts DEF RamSet
<1>4. ram.live >= 2
  <2>1. NextStep(op.budget, op.tried) = "Reclaim"
    BY DEF Reclaim
  <2>2. ram.live \in Nat
    BY SInvParts, StoreFacts DEF RamSet
  <2> HIDE DEF o
  <2> QED
    BY <2>1, <2>2, ReclaimRing
<1>5. named \in SUBSET Records(t) /\ best \in SUBSET Records(t) /\ kept \in {InOrder(best), <<>>}
  OBVIOUS
<1>6. [op EXCEPT !.steps = @ - 1] \in RoomSet
  <2>1. op.steps \in Nat /\ op.steps > 0
    BY <1>1, <1>2 DEF RoomSet
  <2>2. \A n \in Nat : n > 0 => n - 1 \in Nat
    OBVIOUS
  <2>3. op.steps - 1 \in Nat
    BY <2>1, <2>2
  <2> QED
    BY <1>2, <2>3 DEF RoomSet
<1> HIDE DEF best, kept, drawn, Before
<1>7. Cardinality(named) \in Nat
  BY <1>3, <1>5, RecordsFew
<1> HIDE DEF named
<1>8. /\ KeysOf(kept) \in Seq(Glyphs)
      /\ [i \in DOMAIN kept |-> CountOf(epoch, t, kept[i])] \in Seq(0 .. MaxCount)
      /\ Len([i \in DOMAIN kept |-> CountOf(epoch, t, kept[i])]) = Len(KeysOf(kept))
      /\ {kept[i].key : i \in DOMAIN kept} \subseteq Glyphs
  BY <1>3, <1>5, KeptTyped
<1> HIDE DEF epoch, t
<1>9. o \in ReclaimSet
  BY <1>6, <1>7, <1>8 DEF ReclaimSet
<1>10. ReclaimSane(ram, o)
  <2>1. o.placed = <<>> /\ Len(o.placed) = 0 /\ o.gone = {} /\ Len(o.counts) = Len(o.todo)
    BY <1>8
  <2>2. Len(o.todo) \in Nat
    BY <1>8
  <2> HIDE DEF o
  <2> QED
    BY <1>4, <2>1, <2>2 DEF ReclaimSane
<1> HIDE DEF o
<1>11. OpSane(flash, ram, o) /\ ~Inserting(o)
  BY <1>2, <1>9, <1>10, NotInserting DEF OpSane
<1>12. Mirrored(flash, ram, o)
  BY <1>2, <1>11, MirrorKept DEF SameMirror
<1> QED
  BY <1>1, <1>3, <1>11, <1>12, Noted

LEMMA CopySlotKeeps ==
  ASSUME SInv, CopySlot
  PROVE  Sound(flash', ram', count', op') /\ Kept(flash, flash')
<1> DEFINE sl == Head(op.placed)
           rest == [op EXCEPT !.placed = <<>>, !.counts = Tail(@)]
           c == [count EXCEPT ![FirstFree(sl.key)] = Head(op.counts) \div 2]
<1>1. op.call = "reclaim" /\ op.placed # <<>>
  BY DEF CopySlot
<1>2. /\ op \in ReclaimSet /\ ReclaimSane(ram, op) /\ ram.open /\ ~ram.wipe /\ Trusted(ram, op) /\ Mirrored(flash, ram, op) /\ ~Inserting(op)
      /\ ram \in RamSet /\ RamSane(ram) /\ count \in [Slots -> 0 .. MaxCount]
  BY <1>1, SInvParts, OpIs, InCall, NotInserting
<1>3. op.placed \in Seq(WholeSlots) /\ op.counts \in Seq(0 .. MaxCount) /\ op.todo \in Seq(Glyphs)
  BY <1>2 DEF ReclaimSet
<1>4. Len(op.placed) = 1 /\ Len(op.counts) = Len(op.todo) + 1 /\ op.gone = {} /\ ram.live >= 2
  <2>1. Len(op.placed) <= 1 /\ Len(op.counts) = Len(op.todo) + Len(op.placed) /\ op.gone = {} /\ ram.live >= 2
    BY <1>1, <1>2 DEF ReclaimSane
  <2>2. Len(op.placed) \in Nat /\ Len(op.placed) >= 1
    BY <1>1, <1>3, HeadTail
  <2>3. Len(op.placed) = 1
    <3>1. \A n \in Nat : n <= 1 /\ n >= 1 => n = 1
      OBVIOUS
    <3> QED
      BY <2>1, <2>2, <3>1
  <2> QED
    BY <2>1, <2>3
<1>5. sl \in WholeSlots
  BY <1>1, <1>3
<1>6. sl.key \in Keys
  BY <1>5 DEF WholeSlots, GlyphSlots, Keys
<1>7. op.counts # <<>> /\ Head(op.counts) \in 0 .. MaxCount /\ Tail(op.counts) \in Seq(0 .. MaxCount) /\ Len(Tail(op.counts)) = Len(op.todo)
  <2>1. Len(op.todo) \in Nat
    BY <1>3
  <2>2. Len(op.counts) # 0 /\ Len(op.counts) - 1 = Len(op.todo)
    BY <1>4, <2>1
  <2>3. op.counts # <<>>
    BY <2>2
  <2> QED
    BY <1>3, <2>2, <2>3, HeadTail
<1>8. Head(op.counts) \div 2 \in 0 .. MaxCount
  <2>1. \A n, m \in Nat : n <= m => n \div 2 \in 0 .. m
    OBVIOUS
  <2> QED
    BY <1>7, <2>1, StoreFacts
<1>9. c \in [Slots -> 0 .. MaxCount]
  BY <1>2, <1>8
<1>10. rest \in ReclaimSet /\ rest.placed = <<>> /\ rest.counts = Tail(op.counts) /\ rest.todo = op.todo /\ rest.gone = {} /\ rest.call = "reclaim"
  <2>1. <<>> \in Seq(WholeSlots)
    OBVIOUS
  <2> QED
    BY <1>1, <1>2, <1>4, <1>7, <2>1 DEF ReclaimSet
<1> HIDE DEF rest, c
<1>11. \A r : r.live >= 2 => ReclaimSane(r, rest)
  <2>1. Len(rest.placed) = 0 /\ Len(rest.todo) \in Nat /\ Len(rest.counts) = Len(rest.todo)
    BY <1>3, <1>7, <1>10
  <2>2. Len(rest.counts) = Len(rest.todo) + Len(rest.placed) /\ Len(rest.placed) <= 1
    BY <2>1
  <2> QED
    BY <1>10, <2>2 DEF ReclaimSane
<1>12. CASE FreeProbes(sl.key) = {}
  <2>1. Notes(ChainFull, rest)
    BY <1>1, <1>12 DEF CopySlot, rest
  <2>2. /\ ChainFull \in RamSet /\ SameMirror(ram, ChainFull) /\ ChainFull.liveSlots = ram.liveSlots
        /\ ChainFull.open = ram.open /\ ChainFull.wipe = ram.wipe /\ ChainFull.live = ram.live
    BY <1>2 DEF ChainFull, RamSet, SameMirror
  <2>3. RamSane(ChainFull)
    BY <1>2, <2>2 DEF RamSane, SameMirror
  <2>4. OpSane(flash, ChainFull, rest) /\ ~Inserting(rest)
    BY <1>2, <1>4, <1>10, <1>11, <2>2, NotInserting DEF OpSane
  <2>5. Mirrored(flash, ChainFull, rest)
    BY <1>2, <2>2, <2>4, MirrorKept
  <2> QED
    BY <2>1, <2>3, <2>4, <2>5, Noted
<1>13. CASE FreeProbes(sl.key) # {}
  <2>1. Does(SlotAt(FirstFree(sl.key), sl), Inserted(sl), c, rest)
    BY <1>1, <1>13 DEF CopySlot, rest, c
  <2>2. OpSane(Written(SlotAt(FirstFree(sl.key), sl)), ram, rest)
    BY <1>2, <1>4, <1>10, <1>11 DEF OpSane
  <2> HIDE DEF sl
  <2> QED
    BY <1>2, <1>5, <1>6, <1>9, <1>10, <1>13, <2>1, <2>2, InsertKeeps
<1> QED
  BY <1>12, <1>13

----------------------------------------------------------------------------
(* Retiring and erasing the tail. *)

RetiredRam == [ram EXCEPT !.segEpoch[ram.tail] = 0, !.tail = Following(@), !.live = @ - 1, !.liveSlots = @ - op.named]

LEMMA RetireMirrors ==
  ASSUME SInv, RingMirrored(flash, ram), JournalMirrored(flash, ram), CountsMirrored(flash, ram), ram.live >= 2,
         op.named \in Nat
  PROVE  LET g == Written(Retire(ram.tail))
         IN /\ Safe(Retire(ram.tail)) /\ RamSane(RetiredRam)
            /\ RetiredRam.open = ram.open /\ RetiredRam.wipe = ram.wipe /\ RetiredRam.stopped = ram.stopped
            /\ ~(Dist(RetiredRam.tail, ram.tail) < RetiredRam.live)
            /\ RingMirrored(g, RetiredRam) /\ JournalMirrored(g, RetiredRam) /\ CountsMirrored(g, RetiredRam)
<1> DEFINE g == Written(Retire(ram.tail))
           t == ram.tail  n == ram.live  h == ram.head  u == Following(ram.tail)
<1>1. /\ t \in Segments /\ h \in Segments /\ u \in Segments /\ n \in 1 .. SegmentCount /\ n \in Nat /\ n >= 2
      /\ ram.segEpoch \in [Segments -> Nat] /\ ram.liveSlots \in Int
  <2>1. t \in Segments /\ h \in Segments /\ n \in 0 .. SegmentCount /\ ram.segEpoch \in [Segments -> Nat] /\ ram.liveSlots \in Int
    BY SInvParts DEF RamSet
  <2>2. \A m \in 0 .. SegmentCount : m >= 2 => m \in 1 .. SegmentCount /\ m \in Nat
    BY StoreFacts
  <2> QED
    BY <2>1, <2>2, DistFacts
<1>2. RingOf(flash.seg, t, n) /\ ram.segEpoch = [s \in Segments |-> IF Dist(t, s) < n THEN flash.seg[s].epoch ELSE 0]
  BY DEF RingMirrored
<1>3. Dist(t, h) = n - 1 /\ ram.next = flash.seg[h].epoch + 1 /\ ram.used = Fill(flash.seg[h].recs)
  BY <1>1 DEF RingMirrored
<1>4. flash \in FlashSet /\ flash.seg \in [Segments -> SegmentSet]
  BY SInvParts, SaneParts DEF FlashSane
<1>5. /\ RetiredRam.open = ram.open /\ RetiredRam.wipe = ram.wipe /\ RetiredRam.stopped = ram.stopped
      /\ RetiredRam.live = n - 1 /\ RetiredRam.head = h /\ RetiredRam.tail = u
      /\ RetiredRam.used = ram.used /\ RetiredRam.next = ram.next
      /\ RetiredRam.segEpoch = [ram.segEpoch EXCEPT ![t] = 0]
      /\ RetiredRam.usedSlots = ram.usedSlots /\ RetiredRam.marks = ram.marks /\ RetiredRam.liveSlots = ram.liveSlots - op.named
      /\ RetiredRam.entries = ram.entries /\ RetiredRam.done = ram.done /\ RetiredRam.floor = ram.floor
  BY SInvParts DEF RamSet, RetiredRam
<1>6. /\ g.seg = [flash.seg EXCEPT ![t] = [flash.seg[t] EXCEPT !.header = "retired"]]
      /\ g.index = flash.index /\ g.journal = flash.journal
  <2>1. g = [flash EXCEPT !.seg[t].header = "retired"]
    BY WrittenRetire
  <2> HIDE DEF t, g
  <2> QED
    BY <1>1, <1>4, <2>1 DEF FlashSet
<1>7. Safe(Retire(t)) /\ RingOf(g.seg, u, n - 1)
  BY <1>1, <1>2, SInvParts, SafeRetire
<1>8. RamSane(RetiredRam)
  <2>1. n - 1 \in 0 .. SegmentCount /\ ram.liveSlots - op.named \in Int /\ 0 \in Nat /\ n - 1 \in Nat
    <3>1. \A m \in 1 .. SegmentCount : m - 1 \in 0 .. SegmentCount /\ m - 1 \in Nat
      BY StoreFacts
    <3>2. \A a \in Int, b \in Nat : a - b \in Int
      OBVIOUS
    <3> QED
      BY <1>1, <3>1, <3>2
  <2>2. ram \in RamSet /\ RamSane(ram)
    BY SInvParts
  <2>3. RetiredRam \in RamSet
    BY <1>1, <2>1, <2>2, Zenon DEF RetiredRam, RamSet
  <2>4. ram.liveSlots + ram.marks <= ram.usedSlots /\ ram.marks \in Nat /\ ram.usedSlots \in Nat
    BY <2>2 DEF RamSane, RamSet
  <2>5. \A a \in Int, b, c, d \in Nat : a + b <= c => (a - d) + b <= c
    OBVIOUS
  <2>6. (ram.liveSlots - op.named) + ram.marks <= ram.usedSlots
    BY <1>1, <2>4, <2>5
  <2> QED
    BY <1>5, <2>3, <2>6 DEF RamSane
<1> HIDE DEF g, t, n, h, u
<1>9. \A s \in Segments \ {t} : Dist(u, s) = Dist(t, s) - 1 /\ Dist(t, s) \in Nat
  BY <1>1, DistFacts, DistNat DEF u, t
<1>10. Dist(u, t) = SegmentCount - 1
  BY <1>1, DistFacts DEF u, t
<1>11. h # t /\ Dist(u, h) = (n - 1) - 1
  <2>1. Dist(t, t) = 0 /\ n - 1 # 0
    BY <1>1, DistFacts
  <2>2. h # t
    BY <1>3, <2>1
  <2> QED
    BY <1>1, <1>3, <1>9, <2>2
<1>12. ~(Dist(u, t) < n - 1)
  BY <1>1, <1>10, StoreFacts
<1>13. RetiredRam.segEpoch = [s \in Segments |-> IF Dist(u, s) < n - 1 THEN g.seg[s].epoch ELSE 0]
  <2>1. \A s \in Segments : RetiredRam.segEpoch[s] = IF Dist(u, s) < n - 1 THEN g.seg[s].epoch ELSE 0
    <3> TAKE s \in Segments
    <3>1. CASE s = t
      BY <1>1, <1>5, <1>12, <3>1
    <3>2. CASE s # t
      <4>1. RetiredRam.segEpoch[s] = IF Dist(t, s) < n THEN flash.seg[s].epoch ELSE 0
        BY <1>1, <1>2, <1>5, <3>2
      <4>2. g.seg[s] = flash.seg[s]
        BY <1>4, <1>6, <3>2
      <4>3. \A d \in Nat : d - 1 < n - 1 <=> d < n
        BY <1>1
      <4> QED
        BY <1>9, <3>2, <4>1, <4>2, <4>3
    <3> QED
      BY <3>1, <3>2
  <2>2. RetiredRam.segEpoch \in [Segments -> Nat]
    BY <1>8 DEF RamSane, RamSet
  <2> QED
    BY <2>1, <2>2
<1>14. g.seg[h] = flash.seg[h]
  BY <1>1, <1>4, <1>6, <1>11
<1>15. n - 1 # 0 /\ n - 1 > 0
  BY <1>1
<1>16. RingMirrored(g, RetiredRam)
  BY <1>3, <1>5, <1>7, <1>11, <1>13, <1>14, <1>15 DEF RingMirrored
<1>17. JournalMirrored(g, RetiredRam) /\ CountsMirrored(g, RetiredRam)
  BY <1>5, <1>6 DEF JournalMirrored, CountsMirrored
<1> QED
  BY <1>5, <1>7, <1>8, <1>12, <1>16, <1>17 DEF g, t

LEMMA RetireTailKeeps ==
  ASSUME SInv, RetireTail
  PROVE  Sound(flash', ram', count', op') /\ Kept(flash, flash')
<1> DEFINE o == [op EXCEPT !.gone = {ram.tail}]
           g == Written(Retire(ram.tail))
<1>1. op.call = "reclaim" /\ op.todo = <<>> /\ op.placed = <<>> /\ op.gone = {} /\ Does(Retire(ram.tail), RetiredRam, count, o)
  BY DEF RetireTail, RetiredRam
<1>2. /\ op \in ReclaimSet /\ ReclaimSane(ram, op) /\ ram.open /\ ~ram.wipe /\ Trusted(ram, op)
      /\ RingMirrored(flash, ram) /\ JournalMirrored(flash, ram) /\ CountsMirrored(flash, ram) /\ ram.tail \in Segments
      /\ count \in [Slots -> 0 .. MaxCount]
  BY <1>1, SInvParts, OpIs, InCall DEF RamSet
<1>3. ram.live >= 2 /\ op.named \in Nat /\ Len(op.counts) = Len(op.todo) + Len(op.placed) /\ Len(op.placed) <= 1
  <2>1. ~\E s \in Segments : op.gone = {s} /\ ~(Dist(ram.tail, s) < ram.live)
    BY <1>1
  <2>2. op.named \in Nat
    BY <1>2 DEF ReclaimSet
  <2> QED
    BY <1>2, <2>1, <2>2 DEF ReclaimSane
<1>4. /\ Safe(Retire(ram.tail)) /\ RamSane(RetiredRam)
      /\ RetiredRam.open = ram.open /\ RetiredRam.wipe = ram.wipe /\ RetiredRam.stopped = ram.stopped
      /\ ~(Dist(RetiredRam.tail, ram.tail) < RetiredRam.live)
      /\ RingMirrored(g, RetiredRam) /\ JournalMirrored(g, RetiredRam) /\ CountsMirrored(g, RetiredRam)
  BY <1>2, <1>3, RetireMirrors
<1>5. /\ o \in ReclaimSet /\ o.todo = <<>> /\ o.placed = <<>> /\ o.counts = op.counts /\ o.gone = {ram.tail}
  BY <1>1, <1>2 DEF ReclaimSet
<1> HIDE DEF o, g
<1>6. ReclaimSane(RetiredRam, o)
  BY <1>1, <1>2, <1>3, <1>4, <1>5 DEF ReclaimSane
<1>7. OpSane(g, RetiredRam, o) /\ ~Inserting(o)
  BY <1>2, <1>4, <1>5, <1>6, NotInserting DEF OpSane
<1>8. Mirrored(g, RetiredRam, o)
  BY <1>4, <1>7 DEF Mirrored
<1> QED
  BY <1>1, <1>2, <1>4, <1>7, <1>8, DoesKeep DEF g

LEMMA EraseTailKeeps ==
  ASSUME SInv, EraseTail
  PROVE  Sound(flash', ram', count', op') /\ Kept(flash, flash')
<1> DEFINE r == [ram EXCEPT !.roomAsked = FALSE]
<1>1. op.call = "reclaim" /\ op.gone # {}
  BY DEF EraseTail
<1>2. /\ op \in ReclaimSet /\ ReclaimSane(ram, op) /\ ram.open /\ ~ram.wipe /\ Trusted(ram, op)
      /\ RingMirrored(flash, ram) /\ JournalMirrored(flash, ram) /\ CountsMirrored(flash, ram)
      /\ count \in [Slots -> 0 .. MaxCount] /\ ram \in RamSet /\ RamSane(ram)
  BY <1>1, SInvParts, OpIs, InCall
<1>3. PICK s \in Segments : op.gone = {s} /\ ~(Dist(ram.tail, s) < ram.live)
  BY <1>1, <1>2 DEF ReclaimSane
<1>4. Does(EraseSeg(s), r, count, op.room)
  BY <1>3 DEF EraseTail
<1> DEFINE g == Written(EraseSeg(s))
<1>5. Safe(EraseSeg(s)) /\ RingMirrored(g, ram) /\ JournalMirrored(g, ram) /\ CountsMirrored(g, ram)
  BY <1>2, <1>3, EraseMirrors
<1>6. r \in RamSet /\ SameMirror(ram, r) /\ r.liveSlots = ram.liveSlots /\ r.open = ram.open /\ r.wipe = ram.wipe
  BY <1>2 DEF RamSet, SameMirror
<1> HIDE DEF r, g
<1>7. RamSane(r)
  BY <1>2, <1>6 DEF RamSane, SameMirror
<1>8. op.room \in RoomSet
  BY <1>2 DEF ReclaimSet
<1>9. OpSane(g, r, op.room) /\ ~Inserting(op.room)
  BY <1>2, <1>6, <1>8, NotInserting DEF OpSane
<1>10. Mirrored(g, r, op.room)
  BY <1>5, <1>6, <1>9 DEF Mirrored, SameMirror, RingMirrored, JournalMirrored, CountsMirrored
<1> QED
  BY <1>2, <1>4, <1>5, <1>7, <1>9, <1>10, DoesKeep DEF g

----------------------------------------------------------------------------
(* Rebuilding the index. *)

\* What a rebuild in progress is known by.
LEMMA RebuildIs ==
  ASSUME SInv, op.call = "rebuild"
  PROVE  /\ op \in RebuildSet /\ RebuildSane(flash, op) /\ ram.open /\ ~ram.wipe /\ Trusted(ram, op)
         /\ Mirrored(flash, ram, op) /\ RingMirrored(flash, ram) /\ JournalMirrored(flash, ram)
         /\ ram \in RamSet /\ RamSane(ram) /\ count \in [Slots -> 0 .. MaxCount]
         /\ op.plan \in Seq(PlanSet) /\ op.inserted \in Nat /\ op.room \in RoomSet /\ op.base \in Nat
<1>1. op \in RebuildSet /\ RebuildSane(flash, op) /\ ram.open /\ ~ram.wipe
  BY SInvParts, OpIs
<1>2. op.plan \in Seq(PlanSet) /\ op.inserted \in Nat /\ op.room \in RoomSet /\ op.base \in Nat
  BY <1>1 DEF RebuildSet
<1> QED
  BY <1>1, <1>2, SInvParts, InCall

LEMMA RebuildKeeps ==
  ASSUME SInv, Rebuild
  PROVE  Sound(flash', ram', count', op') /\ Kept(flash, flash')
<1> DEFINE then == Room(op.budget, op.steps - 1, TRUE)
           last == [then EXCEPT !.steps = 0]
           wipe == [call |-> "wipe", todo |-> WipeSteps, then |-> last]
           eats == [ram EXCEPT !.starved = FALSE]
           base == IF ram.live = 0 THEN ram.next ELSE ram.segEpoch[ram.tail]
           o == [call |-> "rebuild", stage |-> "base", plan |-> Plan, inserted |-> 0, room |-> then, base |-> base]
           starves == [ram EXCEPT !.starved = TRUE]
<1>1. /\ op.call = "room" /\ op.steps > 0
      /\ \/ Notes(Failed, wipe)
         \/ Notes(eats, o)
         \/ ram' = starves /\ op' = then /\ UNCHANGED <<flash, count>>
  BY DEF Rebuild, Failed
<1>2. /\ op \in RoomSet /\ ram.open /\ ~ram.wipe /\ Trusted(ram, op) /\ Mirrored(flash, ram, op) /\ ~Inserting(op)
      /\ RingMirrored(flash, ram) /\ FlashSane(flash) /\ ram \in RamSet /\ RamSane(ram)
      /\ count \in [Slots -> 0 .. MaxCount]
  BY <1>1, SInvParts, OpIs, InCall, NotInserting
<1>3. then \in RoomSet /\ last \in RoomSet
  <2>1. op.steps \in Nat /\ op.budget \in {"Idle", "Open"}
    BY <1>2 DEF RoomSet
  <2>2. \A n \in Nat : n > 0 => n - 1 \in Nat
    OBVIOUS
  <2>3. op.steps - 1 \in Nat
    BY <1>1, <2>1, <2>2
  <2>4. then \in RoomSet
    BY <2>1, <2>3 DEF RoomSet, Room
  <2> HIDE DEF then
  <2>5. last \in RoomSet
    BY <2>4 DEF RoomSet
  <2> QED
    BY <2>4, <2>5
<1> HIDE DEF then, last
<1>4. /\ eats \in RamSet /\ SameMirror(ram, eats) /\ eats.liveSlots = ram.liveSlots /\ eats.open /\ ~eats.wipe
      /\ starves \in RamSet /\ SameMirror(ram, starves) /\ starves.liveSlots = ram.liveSlots /\ starves.open /\ ~starves.wipe
  BY <1>2 DEF RamSet, SameMirror
<1> HIDE DEF eats, starves
<1>5. RamSane(eats) /\ RamSane(starves)
  BY <1>2, <1>4 DEF RamSane, SameMirror
<1>6. CASE Notes(Failed, wipe)
  <2>1. wipe \in WipeSet /\ wipe.todo = WipeSteps /\ wipe.call = "wipe"
    BY <1>3 DEF WipeSet, WipeTails
  <2>2. WipeSane(flash, wipe)
    BY <2>1 DEF WipeSane, WipeSteps
  <2>3. RamSane(Failed) /\ Failed.wipe /\ Failed.stopped /\ Failed.open
    BY <1>2, FailedSane DEF Failed, RamSet
  <2> HIDE DEF wipe
  <2>4. OpSane(flash, Failed, wipe) /\ ~Trusted(Failed, wipe)
    BY <2>1, <2>2, <2>3 DEF OpSane, Trusted
  <2> QED
    BY <1>6, <2>3, <2>4, Noted
<1>7. CASE Notes(eats, o)
  <2>1. Plan \in Seq(PlanSet)
    BY <1>2, PlanTyped
  <2>2. base \in Nat
    BY <1>2 DEF RamSet
  <2>3. o \in RebuildSet /\ o.stage = "base" /\ o.inserted = 0 /\ o.call = "rebuild"
    BY <1>3, <2>1, <2>2 DEF RebuildSet
  <2> HIDE DEF o
  <2>4. RebuildSane(flash, o) /\ ~Inserting(o)
    BY <2>3 DEF RebuildSane, Inserting
  <2>5. OpSane(flash, eats, o)
    BY <1>4, <2>3, <2>4 DEF OpSane
  <2>6. Mirrored(flash, eats, o)
    BY <1>2, <1>4, <2>4, MirrorKept
  <2> QED
    BY <1>5, <1>7, <2>5, <2>6, Noted
<1>8. CASE ram' = starves /\ op' = then /\ UNCHANGED <<flash, count>>
  <2>1. OpSane(flash, starves, then) /\ ~Inserting(then)
    BY <1>3, <1>4, NotInserting DEF OpSane
  <2>2. Mirrored(flash, starves, then)
    BY <1>2, <1>4, <2>1, MirrorKept
  <2>3. RamSane(ram') /\ OpSane(flash, ram', op') /\ Mirrored(flash, ram', op') /\ flash' = flash /\ count' = count
    BY <1>5, <1>8, <2>1, <2>2
  <2> QED
    BY <1>2, <2>3, Quiet
<1> QED
  BY <1>1, <1>6, <1>7, <1>8

LEMMA RebuildBaseKeeps ==
  ASSUME SInv, RebuildBase
  PROVE  Sound(flash', ram', count', op') /\ Kept(flash, flash')
<1> DEFINE r == [ram EXCEPT !.entries = @ + 1, !.done = FALSE]
           o == [op EXCEPT !.stage = "erase"]
           g == Written(Base(op.base))
<1>1. op.call = "rebuild" /\ op.stage = "base" /\ Does(Base(op.base), r, count, o)
  BY DEF RebuildBase
<1>2. /\ op \in RebuildSet /\ RebuildSane(flash, op) /\ ram.open /\ ~ram.wipe /\ Mirrored(flash, ram, op)
      /\ RingMirrored(flash, ram) /\ JournalMirrored(flash, ram)
      /\ ram \in RamSet /\ RamSane(ram) /\ count \in [Slots -> 0 .. MaxCount] /\ op.base \in Nat
  BY <1>1, RebuildIs
<1>3. CountsMirrored(flash, ram)
  BY <1>1, <1>2 DEF Mirrored, Inserting
<1>4. Safe(Base(op.base)) /\ flash \in FlashSet /\ flash.journal \in Seq(Entry)
  BY <1>2, SInvParts, SafeIndex, SaneParts DEF FlashSane
<1>5. /\ g.seg = flash.seg /\ g.index = flash.index
      /\ g.journal = Append(flash.journal, [base |-> op.base, done |-> FALSE])
  <2>1. g = [flash EXCEPT !.journal = Append(@, [base |-> op.base, done |-> FALSE])]
    BY WrittenBase
  <2> HIDE DEF g
  <2> QED
    BY <1>4, <2>1 DEF FlashSet
<1> HIDE DEF g
<1>6. /\ Len(g.journal) = Len(flash.journal) + 1 /\ g.journal # <<>>
      /\ g.journal[Len(g.journal)] = [base |-> op.base, done |-> FALSE] /\ FloorOf(g.journal) = FloorOf(flash.journal)
      /\ Len(flash.journal) \in Nat
  <2>1. Len(flash.journal) \in Nat
    BY <1>4
  <2> DEFINE k == g.journal
  <2>2. k = Append(flash.journal, [base |-> op.base, done |-> FALSE])
    BY <1>5
  <2> HIDE DEF k
  <2>3. op.base \in Nat /\ flash.journal \in Seq(Entry)
    BY <1>2, <1>4
  <2>4. /\ Len(k) = Len(flash.journal) + 1 /\ k # <<>>
        /\ k[Len(k)] = [base |-> op.base, done |-> FALSE] /\ FloorOf(k) = FloorOf(flash.journal)
    BY <2>2, <2>3, FloorBegun
  <2> QED
    BY <2>1, <2>4 DEF k
<1>7. o \in RebuildSet /\ o.stage = "erase" /\ o.base = op.base /\ o.inserted = op.inserted /\ o.call = "rebuild"
  BY <1>1, <1>2 DEF RebuildSet
<1>8. r \in RamSet
  <2>1. ram.entries + 1 \in Nat
    BY <1>2 DEF RamSet
  <2> QED
    BY <1>2, <2>1, Zenon DEF RamSet
<1>9. /\ r.segEpoch = ram.segEpoch /\ r.head = ram.head /\ r.tail = ram.tail /\ r.live = ram.live /\ r.used = ram.used /\ r.next = ram.next
      /\ r.entries = ram.entries + 1 /\ r.done = FALSE /\ r.floor = ram.floor /\ r.usedSlots = ram.usedSlots /\ r.marks = ram.marks
      /\ r.liveSlots = ram.liveSlots /\ r.open = ram.open /\ r.wipe = ram.wipe
  BY <1>2 DEF RamSet
<1> HIDE DEF r, o
<1>10. RamSane(r)
  BY <1>2, <1>8, <1>9 DEF RamSane
<1>11. RebuildSane(g, o)
  <2>1. Len(g.journal) > 0
    BY <1>6
  <2>2. op.inserted = 0
    BY <1>1, <1>2 DEF RebuildSane
  <2> QED
    BY <1>6, <1>7, <2>1, <2>2 DEF RebuildSane
<1>12. OpSane(g, r, o) /\ ~Inserting(o)
  BY <1>2, <1>7, <1>9, <1>11 DEF OpSane, Inserting
<1>13. RingMirrored(g, r) /\ CountsMirrored(g, r)
  BY <1>2, <1>3, <1>5, <1>9 DEF RingMirrored, CountsMirrored
<1>14. JournalMirrored(g, r)
  <2>1. \A b : [base |-> b, done |-> FALSE].done = FALSE
    OBVIOUS
  <2>2. g.journal[Len(g.journal)].done = FALSE /\ r.done = FALSE
    BY <1>6, <1>9, <2>1
  <2> QED
    BY <1>2, <1>5, <1>6, <1>9, <2>2 DEF JournalMirrored
<1>15. Mirrored(g, r, o)
  BY <1>12, <1>13, <1>14 DEF Mirrored
<1> QED
  BY <1>1, <1>2, <1>4, <1>10, <1>12, <1>15, DoesKeep DEF g

LEMMA RebuildEraseKeeps ==
  ASSUME SInv, RebuildErase
  PROVE  Sound(flash', ram', count', op') /\ Kept(flash, flash')
<1> DEFINE o == [op EXCEPT !.stage = "insert"]
           g == Written(Do("eraseIndex"))
<1>1. op.call = "rebuild" /\ op.stage = "erase" /\ Does(Do("eraseIndex"), ram, NoCounts, o)
  BY DEF RebuildErase
<1>2. /\ op \in RebuildSet /\ RebuildSane(flash, op) /\ ram.open /\ ~ram.wipe
      /\ RingMirrored(flash, ram) /\ JournalMirrored(flash, ram) /\ RamSane(ram)
  BY <1>1, RebuildIs
<1>3. Safe(Do("eraseIndex")) /\ flash \in FlashSet /\ NoCounts \in [Slots -> 0 .. MaxCount]
  BY SInvParts, SafeIndex, StoreFacts DEF FlashSane, NoCounts
<1>4. g.seg = flash.seg /\ g.journal = flash.journal /\ g.index = BlankIndex
  <2>1. g = [flash EXCEPT !.index = BlankIndex]
    BY WrittenEraseIndex
  <2> HIDE DEF g
  <2> QED
    BY <1>3, <2>1 DEF FlashSet
<1> HIDE DEF g
<1>5. o \in RebuildSet /\ o.stage = "insert" /\ o.base = op.base /\ o.inserted = op.inserted /\ o.call = "rebuild"
  BY <1>1, <1>2 DEF RebuildSet
<1> HIDE DEF o
<1>6. RebuildSane(g, o) /\ Inserting(o) /\ o.inserted = 0
  BY <1>1, <1>2, <1>4, <1>5 DEF RebuildSane, Inserting
<1>7. OpSane(g, ram, o)
  BY <1>2, <1>5, <1>6 DEF OpSane
<1>8. RingMirrored(g, ram) /\ JournalMirrored(g, ram)
  BY <1>2, <1>4 DEF RingMirrored, JournalMirrored
<1>9. Mirrored(g, ram, o)
  BY <1>4, <1>6, <1>8, BlankCounts DEF Mirrored
<1> QED
  BY <1>1, <1>2, <1>3, <1>7, <1>9, DoesKeep DEF g

LEMMA RebuildInsertKeeps ==
  ASSUME SInv, RebuildInsert
  PROVE  Sound(flash', ram', count', op') /\ Kept(flash, flash')
<1> DEFINE sl == Head(op.plan).slot
           i == FirstFree(sl.key)
           rest == [op EXCEPT !.plan = Tail(@)]
           more == [rest EXCEPT !.inserted = @ + 1]
           c == [count EXCEPT ![i] = Head(op.plan).count]
           g == Written(SlotAt(i, sl))
<1>1. /\ op.call = "rebuild" /\ op.stage = "insert" /\ op.plan # <<>>
      /\ \/ Notes(ram, rest)
         \/ StopWrites
         \/ FreeProbes(sl.key) # {} /\ Does(SlotAt(i, sl), ram, c, more)
  BY DEF RebuildInsert
<1>2. /\ op \in RebuildSet /\ RebuildSane(flash, op) /\ ram.open /\ ~ram.wipe /\ Mirrored(flash, ram, op)
      /\ RingMirrored(flash, ram) /\ JournalMirrored(flash, ram)
      /\ RamSane(ram) /\ count \in [Slots -> 0 .. MaxCount] /\ op.plan \in Seq(PlanSet) /\ op.inserted \in Nat
  BY <1>1, RebuildIs
<1>3. Head(op.plan) \in PlanSet /\ Tail(op.plan) \in Seq(PlanSet)
  BY <1>1, <1>2, HeadTail
<1>4. sl \in WholeSlots /\ Head(op.plan).count \in 0 .. MaxCount /\ sl.key \in Keys
  BY <1>3 DEF PlanSet, WholeSlots, GlyphSlots, Keys
<1>5. /\ rest \in RebuildSet /\ rest.stage = "insert" /\ rest.base = op.base /\ rest.inserted = op.inserted
      /\ rest.call = "rebuild"
  BY <1>1, <1>2, <1>3 DEF RebuildSet
<1> HIDE DEF sl, rest
<1>6. CASE Notes(ram, rest)
  <2>1. RebuildSane(flash, rest) /\ Inserting(rest)
    BY <1>1, <1>2, <1>5 DEF RebuildSane, Inserting
  <2>2. OpSane(flash, ram, rest)
    BY <1>2, <1>5, <2>1 DEF OpSane
  <2>3. Mirrored(flash, ram, rest)
    BY <1>1, <1>2, <1>5, <2>1 DEF Mirrored, Inserting
  <2> QED
    BY <1>2, <1>6, <2>2, <2>3, Noted
<1>7. CASE FreeProbes(sl.key) # {} /\ Does(SlotAt(i, sl), ram, c, more)
  <2>1. i \in Slots /\ flash.index[i] = Erased
    BY <1>4, <1>7, FirstFreeIs
  <2>2. /\ Safe(SlotAt(i, sl)) /\ RingMirrored(g, ram) /\ JournalMirrored(g, ram) /\ g.journal = flash.journal
        /\ Cardinality(InUse(g.index)) = Cardinality(InUse(flash.index)) + 1
        /\ Marked(g.index) = Marked(flash.index)
    BY <1>2, <1>4, <2>1, SlotMirrors
  <2>3. c \in [Slots -> 0 .. MaxCount]
    BY <1>2, <1>4
  <2>4. more \in RebuildSet /\ more.stage = "insert" /\ more.base = op.base /\ more.inserted = op.inserted + 1 /\ more.call = "rebuild"
    <3>1. rest.inserted + 1 \in Nat
      BY <1>2, <1>5
    <3> QED
      BY <1>5, <3>1 DEF RebuildSet
  <2> HIDE DEF more, g, c, i
  <2>5. RebuildSane(g, more) /\ Inserting(more)
    BY <1>1, <1>2, <2>2, <2>4 DEF RebuildSane, Inserting
  <2>6. OpSane(g, ram, more)
    BY <1>2, <2>4, <2>5 DEF OpSane
  <2>7. op.inserted = Cardinality(InUse(flash.index)) /\ Marked(flash.index) = {}
    BY <1>1, <1>2 DEF Mirrored, Inserting
  <2>8. Mirrored(g, ram, more)
    BY <2>2, <2>4, <2>5, <2>7 DEF Mirrored
  <2> QED
    BY <1>2, <1>7, <2>2, <2>3, <2>6, <2>8, DoesKeep DEF g
<1> QED
  BY <1>1, <1>6, <1>7, StopWritesKeep

LEMMA RebuildDoneKeeps ==
  ASSUME SInv, RebuildDone
  PROVE  Sound(flash', ram', count', op') /\ Kept(flash, flash')
<1> DEFINE r == [ram EXCEPT !.done = TRUE, !.floor = op.base, !.usedSlots = op.inserted, !.liveSlots = op.inserted,
                            !.marks = 0, !.indexFull = FALSE, !.chainFull = FALSE]
           g == Written(Do("done"))
<1>1. op.call = "rebuild" /\ op.stage = "insert" /\ Does(Do("done"), r, count, op.room)
  BY DEF RebuildDone
<1>2. /\ op \in RebuildSet /\ RebuildSane(flash, op) /\ ram.open /\ ~ram.wipe /\ Mirrored(flash, ram, op)
      /\ RingMirrored(flash, ram) /\ JournalMirrored(flash, ram)
      /\ ram \in RamSet /\ RamSane(ram) /\ count \in [Slots -> 0 .. MaxCount]
      /\ op.inserted \in Nat /\ op.room \in RoomSet /\ op.base \in Nat
  BY <1>1, RebuildIs
<1>3. Len(flash.journal) > 0 /\ flash.journal[Len(flash.journal)] = [base |-> op.base, done |-> FALSE]
  BY <1>1, <1>2 DEF RebuildSane
<1>4. op.inserted = Cardinality(InUse(flash.index)) /\ Marked(flash.index) = {}
  BY <1>1, <1>2 DEF Mirrored, Inserting
<1>5. Safe(Do("done")) /\ flash \in FlashSet /\ flash.journal \in Seq(Entry)
  BY <1>3, SInvParts, SafeIndex, SaneParts DEF FlashSane
<1>6. g.seg = flash.seg /\ g.index = flash.index /\ g.journal = [flash.journal EXCEPT ![Len(flash.journal)].done = TRUE]
  <2>1. g = [flash EXCEPT !.journal[Len(flash.journal)].done = TRUE]
    BY WrittenDone
  <2> HIDE DEF g
  <2> QED
    BY <1>5, <2>1 DEF FlashSet
<1>7. /\ Len(g.journal) = Len(flash.journal) /\ g.journal # <<>> /\ g.journal[Len(g.journal)].done
      /\ FloorOf(g.journal) = op.base
  BY <1>3, <1>5, <1>6, FloorDone
<1> HIDE DEF g
<1>8. r \in RamSet
  <2>1. 0 \in Nat /\ op.inserted \in Int
    BY <1>2
  <2> QED
    BY <1>2, <2>1, Zenon DEF RamSet
<1>9. /\ r.segEpoch = ram.segEpoch /\ r.head = ram.head /\ r.tail = ram.tail /\ r.live = ram.live /\ r.used = ram.used /\ r.next = ram.next
      /\ r.entries = ram.entries /\ r.done = TRUE /\ r.floor = op.base /\ r.usedSlots = op.inserted /\ r.marks = 0
      /\ r.liveSlots = op.inserted /\ r.open = ram.open /\ r.wipe = ram.wipe
  BY <1>2 DEF RamSet
<1> HIDE DEF r
<1>10. RamSane(r)
  BY <1>2, <1>8, <1>9 DEF RamSane
<1>11. OpSane(g, r, op.room) /\ ~Inserting(op.room)
  BY <1>2, <1>9, NotInserting DEF OpSane
<1>12. RingMirrored(g, r)
  BY <1>2, <1>6, <1>9 DEF RingMirrored
<1>13. JournalMirrored(g, r)
  <2>1. g.journal[Len(g.journal)].done = TRUE
    <3>1. g.journal[Len(g.journal)] \in Entry
      <4>1. g.journal \in Seq(Entry) /\ Len(g.journal) > 0
        BY <1>3, <1>5, <1>6, <1>7, FloorDone
      <4> QED
        BY <4>1
    <3> QED
      BY <1>7, <3>1 DEF Entry
  <2> QED
    BY <1>2, <1>7, <1>9, <2>1 DEF JournalMirrored
<1>14. CountsMirrored(g, r)
  <2>1. Cardinality(Marked(g.index)) = 0
    BY <1>4, <1>6, FS_EmptySet
  <2> QED
    BY <1>4, <1>6, <1>9, <2>1 DEF CountsMirrored
<1>15. Mirrored(g, r, op.room)
  BY <1>11, <1>12, <1>13, <1>14 DEF Mirrored
<1> QED
  BY <1>1, <1>2, <1>5, <1>10, <1>11, <1>15, DoesKeep DEF g

----------------------------------------------------------------------------
(* Wiping. *)

Fresh == [Closed EXCEPT !.open = TRUE]

LEMMA FreshIs ==
  /\ Fresh.open = TRUE /\ Fresh.wipe = FALSE /\ Fresh.stopped = FALSE /\ RamSane(Fresh)
  /\ Fresh.segEpoch = [s \in Segments |-> 0] /\ Fresh.head = 0 /\ Fresh.tail = 0 /\ Fresh.live = 0
  /\ Fresh.used = 0 /\ Fresh.next = 1 /\ Fresh.usedSlots = 0 /\ Fresh.marks = 0
  /\ Fresh.entries = 0 /\ Fresh.done = TRUE /\ Fresh.floor = 0
<1>1. /\ Fresh.open = TRUE /\ Fresh.wipe = FALSE /\ Fresh.stopped = FALSE
      /\ Fresh.segEpoch = [s \in Segments |-> 0] /\ Fresh.head = 0 /\ Fresh.tail = 0 /\ Fresh.live = 0
      /\ Fresh.used = 0 /\ Fresh.next = 1 /\ Fresh.usedSlots = 0 /\ Fresh.marks = 0 /\ Fresh.liveSlots = 0
      /\ Fresh.entries = 0 /\ Fresh.done = TRUE /\ Fresh.floor = 0
  BY DEF Fresh, Closed
<1>2. Fresh \in RamSet
  <2>1. Closed \in RamSet
    BY StoreFacts DEF Closed, RamSet
  <2> QED
    BY <2>1, Zenon DEF Fresh, RamSet
<1>3. 0 + 0 <= 0
  OBVIOUS
<1> QED
  BY <1>1, <1>2, <1>3 DEF RamSane

\* An empty store, just made or just wiped.
LEMMA FreshMirrors ==
  ASSUME NEW f, f.seg = [s \in Segments |-> BlankSegment], f.index = BlankIndex, f.journal = <<>>
  PROVE  RingMirrored(f, Fresh) /\ JournalMirrored(f, Fresh) /\ CountsMirrored(f, Fresh) /\ HasRing(f.seg)
<1>1. \A s \in Segments : f.seg[s].header # "live"
  BY BlankIsSegment
<1>2. RingOf(f.seg, 0, 0)
  BY <1>1, NoRing
<1>3. \A s \in Segments : ~(Dist(0, s) < 0)
  BY StoreFacts, DistFacts
<1>4. Fresh.segEpoch = [s \in Segments |-> IF Dist(0, s) < 0 THEN f.seg[s].epoch ELSE 0]
  BY <1>3, FreshIs
<1>5. ~(0 > 0)
  OBVIOUS
<1>6. RingMirrored(f, Fresh)
  BY <1>2, <1>4, <1>5, FreshIs DEF RingMirrored
<1>7. Len(<<>>) = 0
  OBVIOUS
<1>8. JournalMirrored(f, Fresh)
  BY <1>7, FreshIs, FloorEmpty DEF JournalMirrored
<1>9. CountsMirrored(f, Fresh)
  BY FreshIs, BlankCounts DEF CountsMirrored
<1>10. HasRing(f.seg)
  <2>1. 0 \in 0 .. SegmentCount
    BY StoreFacts
  <2> QED
    BY <1>2, <2>1, StoreFacts DEF HasRing
<1> QED
  BY <1>6, <1>8, <1>9, <1>10

LEMMA WipeTailsAre ==
  /\ WipeSteps # <<>> /\ Head(WipeSteps) = "wipe" /\ Len(WipeSteps) # 1
  /\ Tail(WipeSteps) = <<"eraseIndex", "eraseLog", "eraseState">>
  /\ Head(<<"eraseIndex", "eraseLog", "eraseState">>) = "eraseIndex" /\ Len(<<"eraseIndex", "eraseLog", "eraseState">>) # 1
  /\ Tail(<<"eraseIndex", "eraseLog", "eraseState">>) = <<"eraseLog", "eraseState">>
  /\ Head(<<"eraseLog", "eraseState">>) = "eraseLog" /\ Len(<<"eraseLog", "eraseState">>) # 1
  /\ Tail(<<"eraseLog", "eraseState">>) = <<"eraseState">>
  /\ Head(<<"eraseState">>) = "eraseState" /\ Len(<<"eraseState">>) = 1
  /\ <<"eraseIndex", "eraseLog", "eraseState">> \notin {<<"eraseLog", "eraseState">>, <<"eraseState">>}
  /\ <<"eraseLog", "eraseState">> # <<"eraseState">>
  /\ <<"eraseIndex", "eraseLog", "eraseState">> # WipeSteps /\ <<"eraseLog", "eraseState">> # WipeSteps
  /\ <<"eraseState">> # WipeSteps
<1>1. Len(<<"eraseIndex", "eraseLog", "eraseState">>) = 3 /\ Len(<<"eraseLog", "eraseState">>) = 2 /\ Len(<<"eraseState">>) = 1
  OBVIOUS
<1>2. Len(WipeSteps) = 4 /\ Head(WipeSteps) = "wipe" /\ Tail(WipeSteps) = <<"eraseIndex", "eraseLog", "eraseState">>
  BY DEF WipeSteps
<1>3. Len(<<>>) = 0
  OBVIOUS
<1>4. /\ Head(<<"eraseIndex", "eraseLog", "eraseState">>) = "eraseIndex"
      /\ Tail(<<"eraseIndex", "eraseLog", "eraseState">>) = <<"eraseLog", "eraseState">>
      /\ Head(<<"eraseLog", "eraseState">>) = "eraseLog" /\ Tail(<<"eraseLog", "eraseState">>) = <<"eraseState">>
      /\ Head(<<"eraseState">>) = "eraseState"
  OBVIOUS
<1>5. 4 # 0 /\ 4 # 1 /\ 3 # 1 /\ 2 # 1 /\ 3 # 2 /\ 3 # 4 /\ 2 # 4 /\ 1 # 4
  OBVIOUS
<1> QED
  BY <1>1, <1>2, <1>3, <1>4, <1>5

\* A part of a wipe, but the last.
LEMMA WipePartKeeps ==
  ASSUME SInv, NEW what, Safe(Do(what)), op \in WipeSet, ram.open, ram.wipe, ram.stopped,
         NEW rest \in WipeTails, NEW o, o = [op EXCEPT !.todo = rest], WipeSane(Written(Do(what)), o),
         Does(Do(what), ram, count, o)
  PROVE  Sound(flash', ram', count', op') /\ Kept(flash, flash')
<1>1. o \in WipeSet /\ o.call = "wipe"
  BY OpCalls DEF WipeSet
<1>2. OpSane(Written(Do(what)), ram, o) /\ ~Trusted(ram, o)
  BY <1>1 DEF OpSane, Trusted
<1> QED
  BY <1>2, SInvParts, DoesKeep

LEMMA WipeStepKeeps ==
  ASSUME SInv, WipeStep
  PROVE  Sound(flash', ram', count', op') /\ Kept(flash, flash')
<1> DEFINE T3 == <<"eraseIndex", "eraseLog", "eraseState">>
           T2 == <<"eraseLog", "eraseState">>
           T1 == <<"eraseState">>
<1>1. op.call = "wipe"
  BY DEF WipeStep
<1>2. op \in WipeSet /\ WipeSane(flash, op) /\ ram.open /\ ram.wipe /\ ram.stopped
  BY <1>1, SInvParts, OpIs
<1>3. op.todo \in {WipeSteps, T3, T2, T1} /\ op.then \in {None} \cup RoomSet
  BY <1>2 DEF WipeSet, WipeTails
<1>4. Intact(flash) /\ flash \in FlashSet
  BY SInvParts DEF FlashSane
<1>5. /\ Len(op.todo) = 1 => Does(Do(Head(op.todo)), Fresh, NoCounts, op.then)
      /\ Len(op.todo) # 1 => Does(Do(Head(op.todo)), ram, count, [op EXCEPT !.todo = Tail(@)])
  BY DEF WipeStep, Fresh
<1>6. CASE op.todo = WipeSteps
  <2> DEFINE g == Written(Do("wipe"))
             o == [op EXCEPT !.todo = T3]
  <2>1. Does(Do("wipe"), ram, count, o)
    BY <1>5, <1>6, WipeTailsAre
  <2>2. Safe(Do("wipe"))
    BY <1>4, SafeIndex
  <2>3. g.wipe
    <3>1. g = [flash EXCEPT !.wipe = TRUE]
      BY WrittenWipe
    <3> HIDE DEF g
    <3> QED
      BY <1>4, <3>1 DEF FlashSet
  <2>4. o.todo = T3 /\ T3 \in WipeTails
    BY <1>2 DEF WipeSet, WipeTails
  <2> HIDE DEF g, o
  <2>5. WipeSane(g, o)
    BY <2>3, <2>4, WipeTailsAre DEF WipeSane
  <2> QED
    BY <1>2, <2>1, <2>2, <2>4, <2>5, WipePartKeeps DEF g, o
<1>7. CASE op.todo = T3
  <2> DEFINE g == Written(Do("eraseIndex"))
             o == [op EXCEPT !.todo = T2]
  <2>1. Does(Do("eraseIndex"), ram, count, o)
    BY <1>5, <1>7, WipeTailsAre
  <2>2. Safe(Do("eraseIndex")) /\ flash.wipe
    BY <1>2, <1>4, <1>7, SafeIndex, WipeTailsAre DEF WipeSane
  <2>3. g.wipe = flash.wipe /\ g.index = BlankIndex
    <3>1. g = [flash EXCEPT !.index = BlankIndex]
      BY WrittenEraseIndex
    <3> HIDE DEF g
    <3> QED
      BY <1>4, <3>1 DEF FlashSet
  <2>4. o.todo = T2 /\ T2 \in WipeTails
    BY <1>2 DEF WipeSet, WipeTails
  <2> HIDE DEF g, o
  <2>5. WipeSane(g, o)
    BY <2>2, <2>3, <2>4, WipeTailsAre DEF WipeSane
  <2> QED
    BY <1>2, <2>1, <2>2, <2>4, <2>5, WipePartKeeps DEF g, o
<1>8. CASE op.todo = T2
  <2> DEFINE g == Written(Do("eraseLog"))
             o == [op EXCEPT !.todo = T1]
  <2>1. Does(Do("eraseLog"), ram, count, o)
    BY <1>5, <1>8, WipeTailsAre
  <2>2. flash.wipe /\ flash.index = BlankIndex
    BY <1>2, <1>8, WipeTailsAre DEF WipeSane
  <2>3. Safe(Do("eraseLog"))
    BY <1>4, <2>2, SafeWipe
  <2>4. g.wipe = flash.wipe /\ g.index = flash.index /\ g.seg = [s \in Segments |-> BlankSegment]
    <3>1. g = [flash EXCEPT !.seg = [s \in Segments |-> BlankSegment]]
      BY WrittenEraseLog
    <3> HIDE DEF g
    <3> QED
      BY <1>4, <3>1 DEF FlashSet
  <2>5. o.todo = T1 /\ T1 \in WipeTails
    BY <1>2 DEF WipeSet, WipeTails
  <2> HIDE DEF g, o
  <2>6. WipeSane(g, o)
    BY <2>2, <2>4, <2>5, WipeTailsAre DEF WipeSane
  <2> QED
    BY <1>2, <2>1, <2>3, <2>5, <2>6, WipePartKeeps DEF g, o
<1>9. CASE op.todo = T1
  <2> DEFINE g == Written(Do("eraseState"))
  <2>1. Does(Do("eraseState"), Fresh, NoCounts, op.then)
    BY <1>5, <1>9, WipeTailsAre
  <2>2. flash.wipe /\ flash.index = BlankIndex /\ flash.seg = [s \in Segments |-> BlankSegment]
    BY <1>2, <1>9, WipeTailsAre DEF WipeSane
  <2>3. Safe(Do("eraseState"))
    BY <1>4, <2>2, SafeWipe
  <2>4. g.index = flash.index /\ g.seg = flash.seg /\ g.journal = <<>>
    <3>1. g = [flash EXCEPT !.journal = <<>>, !.wipe = FALSE]
      BY WrittenEraseState
    <3> HIDE DEF g
    <3> QED
      BY <1>4, <3>1 DEF FlashSet
  <2> HIDE DEF g
  <2>5. RingMirrored(g, Fresh) /\ JournalMirrored(g, Fresh) /\ CountsMirrored(g, Fresh)
    BY <2>2, <2>4, FreshMirrors
  <2>6. ~Inserting(op.then)
    BY <1>3, NotInserting
  <2>7. Mirrored(g, Fresh, op.then)
    BY <2>5, <2>6 DEF Mirrored
  <2>8. OpSane(g, Fresh, op.then)
    BY <1>3, FreshIs DEF OpSane
  <2>9. NoCounts \in [Slots -> 0 .. MaxCount]
    BY StoreFacts DEF NoCounts
  <2> QED
    BY <2>1, <2>3, <2>7, <2>8, <2>9, FreshIs, DoesKeep DEF g
<1> QED
  BY <1>3, <1>6, <1>7, <1>8, <1>9

----------------------------------------------------------------------------
(* Every step, and every behaviour. *)

LEMMA InitSound ==
  ASSUME Init
  PROVE  SInv
<1>1. flash = Blank /\ ram = Fresh /\ count = NoCounts /\ op = None
  BY DEF Init, Fresh
<1>2. /\ Blank.seg = [s \in Segments |-> BlankSegment] /\ Blank.index = BlankIndex /\ Blank.journal = <<>>
      /\ Blank.wipe = FALSE
  BY DEF Blank
<1>3. FlashSane(Blank)
  <2>1. Blank \in FlashSet
    BY BlankIsSegment, ErasedIsSlot DEF Blank, FlashSet
  <2>2. \A s \in Segments : Blank.seg[s].recs = {}
    BY <1>2, BlankIsSegment
  <2> QED
    BY <2>1, <2>2 DEF FlashSane, Disjoint
<1>4. RingMirrored(Blank, Fresh) /\ JournalMirrored(Blank, Fresh) /\ CountsMirrored(Blank, Fresh) /\ HasRing(Blank.seg)
  BY <1>2, FreshMirrors
<1>5. Mirrored(Blank, Fresh, None) /\ OpSane(Blank, Fresh, None)
  BY <1>4, NotInserting DEF Mirrored, OpSane
<1>6. NoCounts \in [Slots -> 0 .. MaxCount]
  BY StoreFacts DEF NoCounts
<1> QED
  BY <1>1, <1>3, <1>4, <1>5, <1>6, FreshIs DEF SInv, Sound

LEMMA StepKeeps ==
  ASSUME SInv, [Next]_vars
  PROVE  SInv' /\ Kept(flash, flash')
<1>1. CASE Open
  BY <1>1, OpenKeeps DEF SInv
<1>2. CASE MoveHead
  BY <1>2, MoveHeadKeeps DEF SInv
<1>3. CASE PlaceRecord
  BY <1>3, PlaceRecordKeeps DEF SInv
<1>4. CASE CommitSlot
  BY <1>4, CommitSlotKeeps DEF SInv
<1>5. CASE Reclaim
  BY <1>5, ReclaimKeeps DEF SInv
<1>6. CASE CopySlot
  BY <1>6, CopySlotKeeps DEF SInv
<1>7. CASE RetireTail
  BY <1>7, RetireTailKeeps DEF SInv
<1>8. CASE EraseTail
  BY <1>8, EraseTailKeeps DEF SInv
<1>9. CASE Rebuild
  BY <1>9, RebuildKeeps DEF SInv
<1>10. CASE RebuildBase
  BY <1>10, RebuildBaseKeeps DEF SInv
<1>11. CASE RebuildErase
  BY <1>11, RebuildEraseKeeps DEF SInv
<1>12. CASE RebuildInsert
  BY <1>12, RebuildInsertKeeps DEF SInv
<1>13. CASE RebuildDone
  BY <1>13, RebuildDoneKeeps DEF SInv
<1>14. CASE WipeStep
  BY <1>14, WipeStepKeeps DEF SInv
<1>15. CASE RoomMade
  BY <1>15, RoomMadeKeeps DEF SInv
<1>16. CASE Wipe
  BY <1>16, WipeCallKeeps DEF SInv
<1>17. CASE LastFace
  BY <1>17, LastFaceKeeps DEF SInv
<1>18. CASE MarkFull
  BY <1>18, MarkFullKeeps DEF SInv
<1>19. ASSUME NEW b \in Batches, Commit(b) PROVE SInv' /\ Kept(flash, flash')
  BY <1>19, CommitKeeps DEF SInv
<1>20. ASSUME NEW k \in Blanks, MarkNoGlyph(k) PROVE SInv' /\ Kept(flash, flash')
  BY <1>20, MarkNoGlyphKeeps DEF SInv
<1>21. ASSUME NEW k \in Glyphs, NoteDrawn(k) PROVE SInv' /\ Kept(flash, flash')
  BY <1>21, NoteDrawnKeeps DEF SInv
<1>22. ASSUME NEW budget \in {"Idle", "Open"}, MakeRoom(budget) PROVE SInv' /\ Kept(flash, flash')
  BY <1>22, MakeRoomKeeps DEF SInv
<1>23. CASE UNCHANGED vars
  <2>1. flash' = flash /\ ram' = ram /\ count' = count /\ op' = op
    BY <1>23 DEF vars
  <2> QED
    BY <2>1, SInvParts, KeptSame DEF SInv
<1> QED
  BY <1>1, <1>2, <1>3, <1>4, <1>5, <1>6, <1>7, <1>8, <1>9, <1>10, <1>11, <1>12, <1>13, <1>14, <1>15, <1>16,
     <1>17, <1>18, <1>19, <1>20, <1>21, <1>22, <1>23 DEF Next, Proceed

\* The flash, what the RAM knows of it and the call in progress fit together, in
\* every behaviour and whatever power cut or failed write has struck.
THEOREM SoundAlways == Spec => []SInv
<1>1. Init => SInv
  BY InitSound
<1>2. SInv /\ [Next]_vars => SInv'
  BY StepKeeps
<1> QED
  BY <1>1, <1>2, PTL DEF Spec

LEMMA SlotTyped ==
  SlotSet \subseteq [key : Keys \cup {Scrap}, torn : BOOLEAN,
                     value : [seg : Segments, at : 0 .. Cap, epoch : Nat]]
<1> DEFINE P == [seg : Segments, at : 0 .. Cap, epoch : Nat]
           T == [key : Keys \cup {Scrap}, torn : BOOLEAN, value : P]
<1>1. NoGlyph \in P
  BY StoreFacts DEF NoGlyph, Place
<1>2. PlaceSet \subseteq P
  BY DEF PlaceSet
<1> HIDE DEF P
<1>3. Erased \in T /\ Junk \in T /\ MarkSlots \subseteq T
  <2>1. \A k \in Keys \cup {Scrap} : Slot(k, NoGlyph) \in T
    BY <1>1 DEF Slot
  <2>2. Erased \in T
    BY <2>1 DEF Erased
  <2>3. \A sl \in T : [sl EXCEPT !.torn = TRUE] \in T
    BY Zenon
  <2> HIDE DEF T
  <2> QED
    BY <2>1, <2>2, <2>3 DEF Junk, MarkSlots, Keys
<1>4. GlyphSlots \subseteq T
  BY <1>2 DEF GlyphSlots, Keys
<1> HIDE DEF T
<1>5. SlotSet \subseteq T
  BY <1>3, <1>4 DEF SlotSet
<1> QED
  BY <1>5 DEF T, P

LEMMA SoundTyped ==
  ASSUME SInv
  PROVE  FlashTypeOK
<1>1. /\ flash.seg \in [Segments -> SegmentSet] /\ flash.index \in [Slots -> SlotSet]
      /\ count \in [Slots -> 0 .. MaxCount] /\ RamSane(ram)
  BY SInvParts, SaneParts
<1>2. SegmentSet \subseteq [header : {"blank", "live", "torn", "retired"}, epoch : Nat,
                            recs : SUBSET [key : Keys \cup {Scrap}, whole : BOOLEAN, at : 0 .. Cap, end : 1 .. Cap]]
  <2>1. RecordSet \subseteq [key : Keys \cup {Scrap}, whole : BOOLEAN, at : 0 .. Cap, end : 1 .. Cap]
    BY StoreFacts DEF RecordSet, Keys
  <2> QED
    BY <2>1 DEF SegmentSet, Headers
<1>3. SlotSet \subseteq [key : Keys \cup {Scrap}, torn : BOOLEAN,
                         value : [seg : Segments, at : 0 .. Cap, epoch : Nat]]
  BY SlotTyped
<1>4. flash.seg \in [Segments -> [header : {"blank", "live", "torn", "retired"}, epoch : Nat,
                                 recs : SUBSET [key : Keys \cup {Scrap}, whole : BOOLEAN, at : 0 .. Cap, end : 1 .. Cap]]]
  BY <1>1, <1>2
<1>5. flash.index \in [Slots -> [key : Keys \cup {Scrap}, torn : BOOLEAN,
                                value : [seg : Segments, at : 0 .. Cap, epoch : Nat]]]
  BY <1>1, <1>3
<1> QED
  BY <1>1, <1>4, <1>5 DEF FlashTypeOK, RamSane

\* The flash, the counters and the counts keep their shape, and the slots that name
\* live records and the marks never outnumber the slots in use, in every behaviour.
THEOREM FlashTyped == Spec => []FlashTypeOK
<1>1. SInv => FlashTypeOK
  BY SoundTyped
<1> QED
  BY <1>1, SoundAlways, PTL

\* No byte is programmed twice between erases, in every behaviour and at every cut.
THEOREM NothingWrittenTwice == Spec => WriteOnce
<1>1. Init => SInv
  BY InitSound
<1>2. SInv /\ [Next]_vars => SInv'
  BY StepKeeps
<1>3. SInv /\ [Next]_vars =>
        [/\ \A s \in Segments : \A q \in flash.seg[s].recs, r \in flash'.seg[s].recs :
              q \in flash'.seg[s].recs /\ q # r => q.end <= r.at \/ r.end <= q.at
         /\ \A i \in Slots : flash.index[i] # Erased => flash'.index[i] \in {flash.index[i], Erased}
         /\ \A s \in Segments :
              LET h == flash.seg[s].header  h2 == flash'.seg[s].header
              IN /\ h # "blank" => h2 \in {h, "blank", "retired"}
                 /\ h = "blank" /\ h2 # "blank" => flash.seg[s].recs = {}]_vars
  BY StepKeeps DEF Kept
<1> QED
  BY <1>1, <1>2, <1>3, PTL DEF Spec, WriteOnce

----------------------------------------------------------------------------
(* What the slots say of the log.  A slot that names a segment by the epoch the *)
(* segment has now names a record in it, a whole one as long as no second fault  *)
(* has struck; every epoch in use lies in the window that a slot's bits tell     *)
(* apart; and one fault leaves torn records or torn slots, not both.             *)

Live(f, s)   == f.seg[s].header = "live"
Exact(f, sl) == sl.value.epoch = f.seg[sl.value.seg].epoch
Backed(f, sl, whole) ==
  \E r \in f.seg[sl.value.seg].recs : r.key = sl.key /\ r.at = sl.value.at /\ (whole => r.whole)
\* A slot of a live segment, and of a record in it.
Names(f, sl, whole) == Live(f, sl.value.seg) /\ Exact(f, sl) /\ Backed(f, sl, whole)

InWindow(f, e) == FloorOf(f.journal) <= e /\ e < FloorOf(f.journal) + RebuildLimit
AllWhole(f) == \A s \in Segments : \A r \in f.seg[s].recs : r.whole
NoTorn(f)   == \A i \in Slots : f.index[i] \in GlyphSlots => ~f.index[i].torn

Backs(f, n) == \A i \in Slots : f.index[i] \in WholeSlots /\ Exact(f, f.index[i]) => Backed(f, f.index[i], n <= 1)
Dated(f) ==
  \A i \in Slots : f.index[i] \in GlyphSlots =>
    /\ FloorOf(f.journal) <= f.index[i].value.epoch
    /\ \E s \in Segments : Live(f, s) /\ f.index[i].value.epoch <= f.seg[s].epoch
Within(f)     == \A s \in Segments : Live(f, s) => InWindow(f, f.seg[s].epoch)
Lasting(f, n) == (n = 0 => AllWhole(f) /\ NoTorn(f)) /\ (n <= 1 => AllWhole(f) \/ NoTorn(f))
Begun(f)      == ~f.wipe /\ (\A s \in Segments : ~Live(f, s)) => FloorOf(f.journal) <= 1
Books(f, n)   == Backs(f, n) /\ Dated(f) /\ Within(f) /\ Lasting(f, n) /\ Begun(f)

\* The epochs the RAM has are those of the segments that still hold records.
Sees(f, r) ==
  \A s \in Segments : r.segEpoch[s] # 0 /\ f.seg[s].recs # {} =>
    r.segEpoch[s] = f.seg[s].epoch /\ InWindow(f, f.seg[s].epoch)

LEMMA Worse ==
  ASSUME NEW f, NEW n \in Nat, Books(f, n)
  PROVE  Books(f, n + 1)
<1>1. (n + 1 # 0) /\ (n + 1 <= 1 => n <= 1 /\ n = 0)
  OBVIOUS
<1>2. Backs(f, n + 1)
  <2>1. \A i \in Slots : Backed(f, f.index[i], n <= 1) => Backed(f, f.index[i], n + 1 <= 1)
    BY <1>1 DEF Backed
  <2> QED
    BY <2>1 DEF Books, Backs
<1>3. Lasting(f, n + 1)
  BY <1>1 DEF Books, Lasting
<1> QED
  BY <1>2, <1>3 DEF Books

\* Slots that go, with the log as it was.
LEMMA LogSame ==
  ASSUME NEW f, NEW g, NEW n \in Nat, Books(f, n), g.seg = f.seg, FloorOf(g.journal) = FloorOf(f.journal),
         f.wipe => g.wipe, \A i \in Slots : g.index[i] \in GlyphSlots => g.index[i] = f.index[i]
  PROVE  /\ Books(g, n)
         /\ \A r : Sees(f, r) => Sees(g, r)
         /\ \A sl, w : Names(f, sl, w) => Names(g, sl, w)
<1>1. \A i \in Slots : g.index[i] \in WholeSlots => g.index[i] = f.index[i]
  BY DEF WholeSlots
<1>2. \A sl : (Exact(g, sl) <=> Exact(f, sl))
  BY DEF Exact
<1>3. \A sl, w : (Backed(g, sl, w) <=> Backed(f, sl, w))
  BY DEF Backed
<1>4. \A s : (Live(g, s) <=> Live(f, s))
  BY DEF Live
<1>5. \A e : (InWindow(g, e) <=> InWindow(f, e))
  BY DEF InWindow
<1>6. Backs(g, n)
  BY <1>1, <1>2, <1>3 DEF Books, Backs
<1>7. Dated(g)
  BY <1>4 DEF Books, Dated
<1>8. Within(g)
  BY <1>4, <1>5 DEF Books, Within
<1>9. Lasting(g, n)
  <2>1. AllWhole(f) => AllWhole(g)
    BY DEF AllWhole
  <2>2. NoTorn(f) => NoTorn(g)
    BY DEF NoTorn
  <2> QED
    BY <2>1, <2>2 DEF Books, Lasting
<1>10. Begun(g)
  BY <1>4 DEF Books, Begun
<1>11. \A r : Sees(f, r) => Sees(g, r)
  BY <1>5 DEF Sees
<1> QED
  BY <1>2, <1>3, <1>4, <1>6, <1>7, <1>8, <1>9, <1>10, <1>11 DEF Books, Names

\* A slot that comes, whole or torn.
LEMMA SlotComes ==
  ASSUME NEW f, NEW g, NEW n \in Nat, NEW m \in {n, n + 1}, Books(f, n), g.seg = f.seg, g.journal = f.journal, g.wipe = f.wipe,
         f.index \in [Slots -> SlotSet], NEW i \in Slots, NEW x, g.index = [f.index EXCEPT ![i] = x],
         x \in GlyphSlots => /\ Live(f, x.value.seg) /\ Exact(f, x)
                             /\ x.torn \/ Backed(f, x, n <= 1)
                             /\ ~x.torn \/ m = n + 1
  PROVE  /\ Books(g, m)
         /\ \A r : Sees(f, r) => Sees(g, r)
         /\ \A sl, w : Names(f, sl, w) => Names(g, sl, w)
<1>0. /\ \A j \in Slots \ {i} : g.index[j] = f.index[j]
      /\ g.index[i] = x
  OBVIOUS
<1>1. /\ m = 0 => n = 0 /\ m = n
      /\ m <= 1 => n <= 1
      /\ m = n + 1 /\ m <= 1 => n = 0
  OBVIOUS
<1>2. \A sl : (Exact(g, sl) <=> Exact(f, sl))
  BY DEF Exact
<1>3. \A sl, w : (Backed(g, sl, w) <=> Backed(f, sl, w))
  BY DEF Backed
<1>4. \A s : (Live(g, s) <=> Live(f, s))
  BY DEF Live
<1>5. \A e : (InWindow(g, e) <=> InWindow(f, e))
  BY DEF InWindow
<1>6. Backs(g, m)
  <2> SUFFICES ASSUME NEW j \in Slots, g.index[j] \in WholeSlots, Exact(g, g.index[j])
               PROVE  Backed(g, g.index[j], m <= 1)
    BY DEF Backs
  <2>1. Backed(f, g.index[j], n <= 1)
    <3>1. CASE j = i
      BY <1>0, <3>1 DEF WholeSlots
    <3>2. CASE j # i
      BY <1>0, <1>2, <3>2 DEF Books, Backs
    <3> QED
      BY <3>1, <3>2
  <2> QED
    BY <1>1, <2>1 DEF Backed
<1>7. Within(g)
  BY <1>4, <1>5 DEF Books, Within
<1>8. Dated(g)
  <2> SUFFICES ASSUME NEW j \in Slots, g.index[j] \in GlyphSlots
               PROVE  /\ FloorOf(g.journal) <= g.index[j].value.epoch
                      /\ \E s \in Segments : Live(g, s) /\ g.index[j].value.epoch <= g.seg[s].epoch
    BY DEF Dated
  <2>1. CASE j = i
    <3>1. x \in GlyphSlots /\ Live(f, x.value.seg) /\ Exact(f, x) /\ x.value.seg \in Segments /\ x.value.epoch \in Nat
      BY <1>0, <2>1, SlotKinds
    <3>2. FloorOf(g.journal) <= x.value.epoch
      BY <3>1 DEF Books, Within, InWindow, Exact
    <3>3. x.value.epoch <= g.seg[x.value.seg].epoch
      <4>1. \A k \in Nat : k <= k
        OBVIOUS
      <4> QED
        BY <3>1, <4>1 DEF Exact
    <3> QED
      BY <1>0, <1>4, <2>1, <3>1, <3>2, <3>3
  <2>2. CASE j # i
    BY <1>0, <1>4, <2>2 DEF Books, Dated
  <2> QED
    BY <2>1, <2>2
<1>9. Lasting(g, m)
  <2>1. AllWhole(f) => AllWhole(g)
    BY DEF AllWhole
  <2>2. m = n /\ NoTorn(f) => NoTorn(g)
    <3> SUFFICES ASSUME m = n, NoTorn(f), NEW j \in Slots, g.index[j] \in GlyphSlots
                 PROVE  ~g.index[j].torn
      BY DEF NoTorn
    <3>1. n # n + 1
      OBVIOUS
    <3> QED
      BY <1>0, <3>1 DEF NoTorn
  <2>3. CASE m = n
    BY <2>1, <2>2, <2>3 DEF Books, Lasting
  <2>4. CASE m = n + 1
    <3>1. m # 0
      BY <2>4
    <3> QED
      BY <1>1, <2>1, <2>4, <3>1 DEF Books, Lasting
  <2> QED
    BY <2>3, <2>4
<1>10. Begun(g)
  BY <1>4 DEF Books, Begun
<1>11. \A r : Sees(f, r) => Sees(g, r)
  BY <1>5 DEF Sees
<1> QED
  BY <1>2, <1>3, <1>4, <1>6, <1>7, <1>8, <1>9, <1>10, <1>11 DEF Books, Names

(* The calls in progress: what is placed has its record, whole; what a rebuild is *)
(* to insert has one too, no older than the base it begins from.                  *)

\* Where a rebuild begins from: the tail's epoch, the least of the ring, or the next.
BaseOf(r) == IF r.live = 0 THEN r.next ELSE r.segEpoch[r.tail]
PlacedTrue(f, o) == o.call \in {"commit", "reclaim"} => \A sl \in Range(o.placed) : Names(f, sl, TRUE)
PlanTrue(f, r, o, n) ==
  o.call = "rebuild" =>
    /\ o.base = BaseOf(r)
    /\ \A e \in Range(o.plan) : Names(f, e.slot, n <= 1) /\ o.base <= e.slot.value.epoch
    /\ o.stage = "insert" => \A i \in Slots : f.index[i] \in GlyphSlots => o.base <= f.index[i].value.epoch
\* The next epoch is past the floor.
Ahead(r, o) == Trusted(r, o) => r.floor <= r.next
Good(f, r, o, n) == Books(f, n) /\ Sees(f, r) /\ PlacedTrue(f, o) /\ PlanTrue(f, r, o, n) /\ Ahead(r, o)
JInv == faults \in Nat /\ Good(flash, ram, op, faults)

LEMMA JInvParts ==
  ASSUME JInv
  PROVE  /\ faults \in Nat /\ faults + 1 \in Nat /\ Books(flash, faults) /\ Books(flash, faults + 1) /\ Sees(flash, ram)
         /\ PlacedTrue(flash, op) /\ PlanTrue(flash, ram, op, faults) /\ Ahead(ram, op)
<1>1. faults \in Nat /\ Books(flash, faults)
  BY DEF JInv, Good
<1>2. faults + 1 \in Nat
  BY <1>1
<1>3. Books(flash, faults + 1)
  BY <1>1, Worse
<1> QED
  BY <1>1, <1>2, <1>3 DEF JInv, Good

LEMMA QuietOps ==
  \A o : o.call \notin {"commit", "reclaim", "rebuild"} =>
           \A f, r, n : PlacedTrue(f, o) /\ PlanTrue(f, r, o, n)
  BY DEF PlacedTrue, PlanTrue

LEMMA WipeTrue ==
  ASSUME NEW f, NEW n \in Nat, Books(f, n), NEW r, Sees(f, r), NEW g \in {f, [f EXCEPT !.wipe = TRUE]}, FlashSane(f)
  PROVE  Books(g, n) /\ Sees(g, r)
<1>1. g.seg = f.seg /\ g.index = f.index /\ g.journal = f.journal /\ (f.wipe => g.wipe)
  BY DEF FlashSane, FlashSet
<1> HIDE DEF FlashSane
<1>2. FloorOf(g.journal) = FloorOf(f.journal) /\ \A i \in Slots : g.index[i] \in GlyphSlots => g.index[i] = f.index[i]
  BY <1>1
<1> QED
  BY <1>1, <1>2, LogSame

\* A flash operation bears a fault when what a cut of it may leave is still in order.
Bears(p) == \A f \in Torn(p) : Books(f, faults + 1) /\ Sees(f, ram)

LEMMA DoesTrue ==
  ASSUME SInv, JInv, NEW p, NEW r, NEW c, NEW o, Does(p, r, c, o), Safe(p), Bears(p), Good(Written(p), r, o, faults)
  PROVE  JInv'
<1>1. CASE flash' = Written(p) /\ ram' = r /\ count' = c /\ op' = o /\ UNCHANGED faults
  BY <1>1, JInvParts DEF JInv
<1>2. ASSUME Failing, op' = None, NEW f \in Torn(p),
             \/ flash' = f /\ ram' = Closed
             \/ flash' \in {f, [f EXCEPT !.wipe = TRUE]} /\ ram' = Failed
      PROVE  JInv'
  <2>1. faults' = faults + 1 /\ faults' \in Nat
    BY <1>2, JInvParts DEF Failing
  <2>2. Books(f, faults') /\ Sees(f, ram)
    BY <1>2, <2>1 DEF Bears
  <2>3. FlashSane(f)
    BY <1>2 DEF Safe, Intact
  <2>4. PlacedTrue(flash', op') /\ PlanTrue(flash', ram', op', faults')
    BY <1>2, QuietOps, OpCalls
  <2>5. CASE flash' = f /\ ram' = Closed
    <3>1. Sees(f, Closed)
      BY DEF Sees, Closed
    <3>2. Ahead(Closed, None)
      BY DEF Ahead, Trusted, Closed
    <3> QED
      BY <1>2, <2>1, <2>2, <2>4, <2>5, <3>1, <3>2 DEF JInv, Good
  <2>6. CASE flash' \in {f, [f EXCEPT !.wipe = TRUE]} /\ ram' = Failed
    <3>1. Failed.segEpoch = ram.segEpoch /\ Failed.wipe /\ Failed.stopped
      BY SInvParts DEF Failed, RamSet
    <3>2. Sees(f, Failed)
      BY <2>2, <3>1 DEF Sees
    <3>3. Books(flash', faults') /\ Sees(flash', Failed)
      BY <2>1, <2>2, <2>3, <2>6, <3>2, WipeTrue
    <3>4. Ahead(Failed, None)
      BY <3>1 DEF Ahead, Trusted
    <3> QED
      BY <1>2, <2>1, <2>4, <2>6, <3>3, <3>4 DEF JInv, Good
  <2> QED
    BY <1>2, <2>5, <2>6
<1> QED
  BY <1>1, <1>2 DEF Does, Failed

LEMMA QuietTrue ==
  ASSUME JInv, flash' = flash, faults' = faults, Sees(flash, ram'), PlacedTrue(flash, op'),
         PlanTrue(flash, ram', op', faults), Ahead(ram', op')
  PROVE  JInv'
  BY JInvParts DEF JInv, Good

\* Flags set, with no flash operation and no list of slots.
LEMMA NotedTrue ==
  ASSUME SInv, JInv, NEW r, NEW o, Notes(r, o), SameMirror(ram, r), o.call \notin {"commit", "reclaim", "rebuild"},
         Trusted(r, o) => Trusted(ram, op)
  PROVE  JInv'
<1>1. flash' = flash /\ faults' = faults /\ ram' = r /\ op' = o
  BY DEF Notes
<1>2. PlacedTrue(flash, o) /\ PlanTrue(flash, r, o, faults)
  BY QuietOps
<1>3. Sees(flash, r)
  BY JInvParts DEF Sees, SameMirror
<1>4. Ahead(r, o)
  BY JInvParts DEF Ahead, SameMirror
<1> QED
  BY <1>1, <1>2, <1>3, <1>4, QuietTrue

LEMMA LogTyped ==
  ASSUME SInv
  PROVE  /\ flash \in FlashSet /\ flash.seg \in [Segments -> SegmentSet] /\ flash.index \in [Slots -> SlotSet]
         /\ flash.journal \in Seq(Entry) /\ FloorOf(flash.journal) \in Nat
         /\ \A s \in Segments : /\ flash.seg[s] \in SegmentSet /\ flash.seg[s].epoch \in Nat
                                /\ flash.seg[s].recs \in SUBSET RecordSet
         /\ \A i \in Slots : flash.index[i] \in WholeSlots =>
              /\ flash.index[i] \in GlyphSlots /\ flash.index[i].value.epoch \in Nat \ {0}
              /\ flash.index[i].value.seg \in Segments
<1>1. FlashSane(flash)
  BY SInvParts
<1>2. flash \in FlashSet /\ flash.seg \in [Segments -> SegmentSet] /\ flash.index \in [Slots -> SlotSet] /\ flash.journal \in Seq(Entry)
  BY <1>1, SaneParts DEF FlashSane
<1>3. \A i \in Slots : flash.index[i] \in WholeSlots =>
              /\ flash.index[i] \in GlyphSlots /\ flash.index[i].value.epoch \in Nat \ {0}
              /\ flash.index[i].value.seg \in Segments
  BY SlotKinds DEF WholeSlots
<1> QED
  BY <1>1, <1>2, <1>3, SaneParts, FloorTyped

LEMMA RingLive ==
  ASSUME SInv, RingMirrored(flash, ram)
  PROVE  /\ ram.tail \in Segments /\ ram.head \in Segments /\ ram.live \in 0 .. SegmentCount /\ ram.live \in Nat
         /\ ram.segEpoch \in [Segments -> Nat] /\ ram.next \in Nat \ {0} /\ ram.floor \in Nat /\ ram.used \in 0 .. Cap
         /\ \A s \in Segments : Live(flash, s) <=> Dist(ram.tail, s) < ram.live
         /\ \A s \in Segments : ~Live(flash, s) => ram.segEpoch[s] = 0
         /\ \A s \in Segments : Live(flash, s) => ram.segEpoch[s] = flash.seg[s].epoch
<1>1. /\ ram.tail \in Segments /\ ram.head \in Segments /\ ram.live \in 0 .. SegmentCount /\ ram.live \in Nat
      /\ ram.segEpoch \in [Segments -> Nat] /\ ram.next \in Nat \ {0} /\ ram.floor \in Nat /\ ram.used \in 0 .. Cap
  BY SInvParts, StoreFacts DEF RamSet
<1>2. \A s \in Segments : Live(flash, s) <=> Dist(ram.tail, s) < ram.live
  BY DEF RingMirrored, RingOf, Live
<1>3. ram.segEpoch = [s \in Segments |-> IF Dist(ram.tail, s) < ram.live THEN flash.seg[s].epoch ELSE 0]
  BY DEF RingMirrored
<1> QED
  BY <1>1, <1>2, <1>3

\* What a flash operation that changes one segment has to see to.
May(s, x, torn) ==
  /\ \A i \in Slots : flash.index[i] \in WholeSlots /\ flash.index[i].value.seg = s /\ flash.index[i].value.epoch = x.epoch
       => x.epoch = flash.seg[s].epoch /\ flash.seg[s].recs \subseteq x.recs
  /\ Live(flash, s) => \/ x.header = "live" /\ flash.seg[s].epoch = x.epoch
                       \/ \E u \in Segments \ {s} : Live(flash, u) /\ flash.seg[s].epoch <= flash.seg[u].epoch
  /\ x.header = "live" => InWindow(flash, x.epoch)
  /\ \A r \in x.recs : r \in flash.seg[s].recs \/ r.whole \/ torn
Shows(s, x, r) ==
  \/ r.segEpoch[s] = 0 \/ x.recs = {}
  \/ flash.seg[s].recs # {} /\ x.epoch = flash.seg[s].epoch
  \/ r.segEpoch[s] = x.epoch /\ InWindow(flash, x.epoch)
Grows(s, x) == x.header = "live" /\ x.epoch = flash.seg[s].epoch /\ flash.seg[s].recs \subseteq x.recs

LEMMA SegChange ==
  ASSUME SInv, JInv, NEW s \in Segments, NEW x \in SegmentSet, NEW g, g = [flash EXCEPT !.seg[s] = x],
         NEW m \in {faults, faults + 1}, May(s, x, m = faults + 1)
  PROVE  /\ Books(g, m)
         /\ \A r : Sees(flash, r) /\ Shows(s, x, r) => Sees(g, r)
         /\ \A sl, w : Names(flash, sl, w) /\ (sl.value.seg \in Segments \ {s} \/ (sl.value.seg = s /\ Grows(s, x)))
                         => Names(g, sl, w)
<1>a. /\ flash \in FlashSet /\ flash.seg \in [Segments -> SegmentSet] /\ flash.index \in [Slots -> SlotSet]
      /\ FloorOf(flash.journal) \in Nat /\ \A u \in Segments : flash.seg[u].epoch \in Nat
  BY LogTyped
<1>b. g.seg = [flash.seg EXCEPT ![s] = x] /\ g.index = flash.index /\ g.journal = flash.journal /\ g.wipe = flash.wipe
  BY <1>a DEF FlashSet
<1>0. g.seg[s] = x /\ \A u \in Segments \ {s} : g.seg[u] = flash.seg[u]
  BY <1>a, <1>b
<1>c. \A u \in Segments : g.seg[u].epoch \in Nat
  BY <1>0, <1>a DEF SegmentSet
<1>d. faults \in Nat /\ Books(flash, faults)
  BY JInvParts
<1>e. Live(flash, s) => \E u \in Segments : Live(g, u) /\ flash.seg[s].epoch <= g.seg[u].epoch
  <2> SUFFICES ASSUME Live(flash, s) PROVE \E u \in Segments : Live(g, u) /\ flash.seg[s].epoch <= g.seg[u].epoch
    OBVIOUS
  <2>1. \A k \in Nat : k <= k
    OBVIOUS
  <2>2. CASE x.header = "live" /\ flash.seg[s].epoch = x.epoch
    BY <1>0, <1>a, <2>1, <2>2 DEF Live
  <2>3. ASSUME NEW u \in Segments \ {s}, Live(flash, u), flash.seg[s].epoch <= flash.seg[u].epoch
        PROVE  Live(g, u) /\ flash.seg[s].epoch <= g.seg[u].epoch
    BY <1>0, <2>3 DEF Live
  <2> QED
    BY <2>2, <2>3 DEF May
<1>f. \A i \in Slots : flash.index[i] \in WholeSlots /\ flash.index[i].value.seg = s /\ flash.index[i].value.epoch = x.epoch
        => x.epoch = flash.seg[s].epoch /\ flash.seg[s].recs \subseteq x.recs
  BY DEF May
<1>g. x.header = "live" => InWindow(flash, x.epoch)
  BY DEF May
<1>h. \A r \in x.recs : r \in flash.seg[s].recs \/ r.whole \/ m = faults + 1
  BY DEF May
<1>1. /\ m = 0 => faults = 0 /\ m = faults
      /\ m <= 1 => faults <= 1
      /\ m = faults + 1 /\ m <= 1 => faults = 0
      /\ m # faults => m = faults + 1
      /\ faults + 1 # 0
  BY <1>d
<1>2. \A i \in Slots : flash.index[i] \in GlyphSlots => flash.index[i].value.seg \in Segments /\ flash.index[i].value.epoch \in Nat
  BY SlotKinds
<1>3. Backs(g, m)
  <2> SUFFICES ASSUME NEW i \in Slots, flash.index[i] \in WholeSlots, Exact(g, flash.index[i])
               PROVE  Backed(g, flash.index[i], m <= 1)
    BY <1>b DEF Backs
  <2> DEFINE sl == flash.index[i]
  <2>0. sl.value.seg \in Segments /\ sl \in GlyphSlots
    BY <1>2 DEF WholeSlots
  <2>1. CASE sl.value.seg = s
    <3>1. sl.value.epoch = x.epoch
      BY <1>0, <2>1 DEF Exact
    <3>2. x.epoch = flash.seg[s].epoch /\ flash.seg[s].recs \subseteq x.recs
      BY <1>f, <2>1, <3>1
    <3>3. Exact(flash, sl)
      BY <2>1, <3>1, <3>2 DEF Exact
    <3>4. Backed(flash, sl, faults <= 1)
      BY <1>d, <3>3 DEF Books, Backs
    <3> QED
      BY <1>0, <1>1, <2>1, <3>2, <3>4 DEF Backed
  <2>2. CASE sl.value.seg # s
    <3>1. g.seg[sl.value.seg] = flash.seg[sl.value.seg]
      BY <1>0, <2>0, <2>2
    <3>2. Backed(flash, sl, faults <= 1)
      BY <1>d, <3>1 DEF Books, Backs, Exact
    <3> QED
      BY <1>1, <3>1, <3>2 DEF Backed
  <2> QED
    BY <2>1, <2>2
<1>4. \A u \in Segments : Live(flash, u) => \E v \in Segments : Live(g, v) /\ flash.seg[u].epoch <= g.seg[v].epoch
  <2> TAKE u \in Segments
  <2>1. CASE u = s
    BY <1>e, <2>1
  <2>2. CASE u # s
    <3>1. g.seg[u] = flash.seg[u] /\ \A k \in Nat : k <= k
      BY <1>0, <2>2
    <3> QED
      BY <1>a, <3>1 DEF Live
  <2> QED
    BY <2>1, <2>2
<1>5. Dated(g)
  <2> SUFFICES ASSUME NEW i \in Slots, flash.index[i] \in GlyphSlots
               PROVE  /\ FloorOf(flash.journal) <= flash.index[i].value.epoch
                      /\ \E u \in Segments : Live(g, u) /\ flash.index[i].value.epoch <= g.seg[u].epoch
    BY <1>b DEF Dated
  <2>1. FloorOf(flash.journal) <= flash.index[i].value.epoch
    BY <1>d DEF Books, Dated
  <2>2. PICK u \in Segments : Live(flash, u) /\ flash.index[i].value.epoch <= flash.seg[u].epoch
    BY <1>d DEF Books, Dated
  <2>3. PICK v \in Segments : Live(g, v) /\ flash.seg[u].epoch <= g.seg[v].epoch
    BY <1>4, <2>2
  <2>4. flash.seg[u].epoch \in Nat /\ g.seg[v].epoch \in Nat /\ flash.index[i].value.epoch \in Nat
    BY <1>2, <1>a, <1>c
  <2>5. flash.index[i].value.epoch <= g.seg[v].epoch
    BY <2>2, <2>3, <2>4
  <2> QED
    BY <2>1, <2>3, <2>5
<1>6. Within(g)
  <2> SUFFICES ASSUME NEW u \in Segments, Live(g, u)
               PROVE  InWindow(g, g.seg[u].epoch)
    BY DEF Within
  <2>1. InWindow(flash, g.seg[u].epoch)
    BY <1>0, <1>d, <1>g DEF Books, Within, Live
  <2> QED
    BY <1>b, <2>1 DEF InWindow
<1>7. Lasting(g, m)
  <2>1. m = faults /\ AllWhole(flash) => AllWhole(g)
    <3> SUFFICES ASSUME m = faults, AllWhole(flash), NEW u \in Segments, NEW r \in g.seg[u].recs
                 PROVE  r.whole
      BY DEF AllWhole
    <3>1. faults # faults + 1
      BY <1>d
    <3>2. CASE u = s
      BY <1>0, <1>h, <3>1, <3>2 DEF AllWhole
    <3>3. CASE u # s
      BY <1>0, <3>3 DEF AllWhole
    <3> QED
      BY <3>2, <3>3
  <2>2. NoTorn(flash) => NoTorn(g)
    BY <1>b DEF NoTorn
  <2>3. CASE m = faults
    BY <1>d, <2>1, <2>2, <2>3 DEF Books, Lasting
  <2>4. CASE m # faults
    BY <1>1, <1>d, <2>2, <2>4 DEF Books, Lasting
  <2> QED
    BY <2>3, <2>4
<1>8. Begun(g)
  BY <1>4, <1>b, <1>d DEF Books, Begun
<1>9. ASSUME NEW r, Sees(flash, r), Shows(s, x, r)
      PROVE  Sees(g, r)
  <2> SUFFICES ASSUME NEW u \in Segments, r.segEpoch[u] # 0, g.seg[u].recs # {}
               PROVE  r.segEpoch[u] = g.seg[u].epoch /\ InWindow(flash, g.seg[u].epoch)
    BY <1>b DEF Sees, InWindow
  <2>1. CASE u = s
    BY <1>0, <1>9, <2>1 DEF Sees, Shows
  <2>2. CASE u # s
    BY <1>0, <1>9, <2>2 DEF Sees
  <2> QED
    BY <2>1, <2>2
<1>10. ASSUME NEW sl, NEW w, Names(flash, sl, w),
              sl.value.seg \in Segments \ {s} \/ (sl.value.seg = s /\ Grows(s, x))
       PROVE  Names(g, sl, w)
  BY <1>0, <1>10 DEF Names, Live, Exact, Backed, Grows
<1> QED
  BY <1>3, <1>5, <1>6, <1>7, <1>8, <1>9, <1>10 DEF Books

LEMMA SegTrue ==
  ASSUME SInv, JInv, NEW s \in Segments, NEW x \in SegmentSet, NEW g, g = [flash EXCEPT !.seg[s] = x]
  PROVE  /\ May(s, x, FALSE) => Books(g, faults)
         /\ May(s, x, TRUE) => Books(g, faults + 1)
         /\ May(s, x, TRUE) => \A r : Sees(flash, r) /\ Shows(s, x, r) => Sees(g, r)
         /\ May(s, x, TRUE) => \A sl, w : Names(flash, sl, w) /\ (sl.value.seg \in Segments \ {s} \/ (sl.value.seg = s /\ Grows(s, x)))
                                         => Names(g, sl, w)
<1>1. ASSUME May(s, x, FALSE) PROVE Books(g, faults)
  <2>1. May(s, x, faults = faults + 1)
    BY <1>1 DEF May
  <2> QED
    BY <2>1, SegChange
<1>2. ASSUME May(s, x, TRUE)
      PROVE  /\ Books(g, faults + 1)
             /\ \A r : Sees(flash, r) /\ Shows(s, x, r) => Sees(g, r)
             /\ \A sl, w : Names(flash, sl, w) /\ (sl.value.seg \in Segments \ {s} \/ (sl.value.seg = s /\ Grows(s, x)))
                             => Names(g, sl, w)
  <2>1. May(s, x, faults + 1 = faults + 1)
    BY <1>2 DEF May
  <2> QED
    BY <2>1, SegChange
<1> QED
  BY <1>1, <1>2

LEMMA EraseTrue ==
  ASSUME SInv, JInv, RingMirrored(flash, ram), NEW s \in Segments, ~(Dist(ram.tail, s) < ram.live)
  PROVE  LET g == Written(EraseSeg(s))
         IN /\ Bears(EraseSeg(s)) /\ Books(g, faults) /\ Sees(g, ram)
            /\ \A sl, w : Names(flash, sl, w) /\ sl.value.seg \in Segments => Names(g, sl, w)
<1>0. ~Live(flash, s) /\ ram.segEpoch[s] = 0
  BY RingLive
<1>1. ASSUME NEW x \in SegmentSet, x.header = "blank", x.epoch = 0, x.recs \subseteq flash.seg[s].recs
      PROVE  May(s, x, FALSE) /\ May(s, x, TRUE) /\ Shows(s, x, ram)
  <2>2. \A i \in Slots : flash.index[i] \in WholeSlots => flash.index[i].value.epoch # x.epoch
    BY <1>1, LogTyped
  <2> QED
    BY <1>0, <1>1, <2>2 DEF May, Shows
<1>2. ASSUME NEW x \in SegmentSet, x.header = "blank", x.epoch = 0, x.recs \subseteq flash.seg[s].recs,
             NEW g, g = [flash EXCEPT !.seg[s] = x]
      PROVE  /\ Books(g, faults) /\ Books(g, faults + 1) /\ Sees(g, ram)
             /\ \A sl, w : Names(flash, sl, w) /\ sl.value.seg \in Segments => Names(g, sl, w)
  <2>1. May(s, x, FALSE) /\ May(s, x, TRUE) /\ Shows(s, x, ram)
    BY <1>1, <1>2
  <2>2. Sees(flash, ram)
    BY JInvParts
  <2>3. \A sl, w : Names(flash, sl, w) /\ sl.value.seg \in Segments => sl.value.seg \in Segments \ {s}
    BY <1>0 DEF Names
  <2> QED
    BY <1>2, <2>1, <2>2, <2>3, SegTrue
<1>3. Written(EraseSeg(s)) = [flash EXCEPT !.seg[s] = BlankSegment]
  BY WrittenErase
<1>4. /\ BlankSegment \in SegmentSet /\ BlankSegment.header = "blank" /\ BlankSegment.epoch = 0
      /\ BlankSegment.recs \subseteq flash.seg[s].recs
  BY BlankIsSegment
<1>5. /\ Books(Written(EraseSeg(s)), faults) /\ Sees(Written(EraseSeg(s)), ram)
      /\ \A sl, w : Names(flash, sl, w) /\ sl.value.seg \in Segments => Names(Written(EraseSeg(s)), sl, w)
  BY <1>2, <1>3, <1>4
<1>6. \A a \in 0 .. Cap : LET x == [BlankSegment EXCEPT !.recs = {r \in flash.seg[s].recs : r.at >= a}]
                         IN x \in SegmentSet /\ x.header = "blank" /\ x.epoch = 0 /\ x.recs \subseteq flash.seg[s].recs
  BY LogTyped DEF BlankSegment, SegmentSet, Headers
<1>7. ASSUME NEW f \in Torn(EraseSeg(s)) PROVE Books(f, faults + 1) /\ Sees(f, ram)
  <2>1. CASE f = flash
    BY <2>1, JInvParts
  <2>2. ASSUME NEW a \in 0 .. Cap, f = [flash EXCEPT !.seg[s] = [BlankSegment EXCEPT !.recs = {r \in flash.seg[s].recs : r.at >= a}]]
        PROVE  Books(f, faults + 1) /\ Sees(f, ram)
    <3> DEFINE x == [BlankSegment EXCEPT !.recs = {r \in flash.seg[s].recs : r.at >= a}]
    <3>1. x \in SegmentSet /\ x.header = "blank" /\ x.epoch = 0 /\ x.recs \subseteq flash.seg[s].recs /\ f = [flash EXCEPT !.seg[s] = x]
      BY <1>6, <2>2
    <3> HIDE DEF x
    <3> QED
      BY <1>2, <3>1
  <2> QED
    BY <2>1, <2>2, TornErase
<1> QED
  BY <1>5, <1>7 DEF Bears

\* The epochs of the ring are below the next one.
LEMMA RingBelow ==
  ASSUME SInv, RingMirrored(flash, ram), NEW s \in Segments, Live(flash, s)
  PROVE  flash.seg[s].epoch < ram.next /\ flash.seg[s].epoch <= flash.seg[ram.head].epoch
<1> DEFINE n == ram.live  t == ram.tail  h == ram.head
<1>1. /\ t \in Segments /\ h \in Segments /\ n \in Nat /\ Dist(t, s) < n
      /\ Dist(t, s) \in Nat
  BY RingLive, DistNat
<1>2. flash.seg[s].epoch \in Nat /\ flash.seg[h].epoch \in Nat
  BY <1>1, LogTyped
<1>3. RingOf(flash.seg, t, n) /\ (n > 0 => Dist(t, h) = n - 1 /\ ram.next = flash.seg[h].epoch + 1)
  BY DEF RingMirrored
<1> HIDE DEF n, t, h
<1>4. n > 0
  BY <1>1
<1>5. CASE Dist(t, s) = n - 1
  <2>1. s = h
    BY <1>1, <1>3, <1>4, <1>5, DistFacts
  <2> QED
    BY <1>2, <1>3, <1>4, <2>1 DEF h
<1>6. CASE Dist(t, s) # n - 1
  <2>1. Dist(t, s) < Dist(t, h) /\ Dist(t, h) < n
    BY <1>1, <1>3, <1>4, <1>6
  <2>2. flash.seg[s].epoch < flash.seg[h].epoch
    BY <1>1, <1>3, <2>1 DEF RingOf
  <2> QED
    BY <1>2, <1>3, <1>4, <2>2 DEF h
<1> QED
  BY <1>5, <1>6

LEMMA WindowOpen ==
  ASSUME SInv, JInv, RingMirrored(flash, ram), JournalMirrored(flash, ram), Trusted(ram, op), ToOpen(ram) # 0
  PROVE  InWindow(flash, ram.next)
<1>1. ram.floor = FloorOf(flash.journal) /\ ram.floor <= ram.next /\ ram.floor \in Nat /\ ram.next \in Nat /\ ram.live \in 0 .. SegmentCount
  BY JInvParts, RingLive DEF JournalMirrored, Ahead
<1>2. RebuildLimit \in Nat
  BY StoreAssumption
<1>3. EpochsLeft(ram) # 0
  <2> SUFFICES ASSUME EpochsLeft(ram) = 0 PROVE FALSE
    OBVIOUS
  <2>1. Free(ram) \in Nat
    BY <1>1, StoreFacts DEF Free
  <2>2. {Free(ram), 0} \in SUBSET Nat
    BY <2>1
  <2>3. Min({Free(ram), 0}) \in Nat /\ Min({Free(ram), 0}) <= 0
    BY <2>2, MinOfNat
  <2> QED
    BY <2>3 DEF ToOpen
<1>4. ram.next - ram.floor < RebuildLimit
  BY <1>1, <1>2, <1>3 DEF EpochsLeft
<1> QED
  BY <1>1, <1>2, <1>4 DEF InWindow

LEMMA HeaderTrue ==
  ASSUME SInv, JInv, RingMirrored(flash, ram), JournalMirrored(flash, ram), Trusted(ram, op), ToOpen(ram) # 0,
         flash.seg[NextHead] = BlankSegment
  PROVE  LET g == Written(Header(NextHead, ram.next))
         IN /\ Bears(Header(NextHead, ram.next)) /\ Books(g, faults) /\ Sees(g, Moved)
            /\ \A sl, w : Names(flash, sl, w) /\ sl.value.seg \in Segments => Names(g, sl, w)
<1> DEFINE s == NextHead  e == ram.next
           g == Written(Header(s, e))
           x == [flash.seg[s] EXCEPT !.header = "live", !.epoch = e]
           y == [flash.seg[s] EXCEPT !.header = "torn"]
<1>1. s \in Segments /\ ~(Dist(ram.tail, s) < ram.live) /\ e \in Nat
  BY SInvParts, NextHeadIs, RingLive
<1>2. ~Live(flash, s) /\ ram.segEpoch[s] = 0
  BY <1>1, RingLive
<1>3. /\ flash.seg[s].recs = {} /\ flash.seg[s].epoch = 0 /\ flash.seg[s] \in SegmentSet
      /\ flash.seg[s] = BlankSegment
  BY <1>1, BlankIsSegment, LogTyped
<1>4. x \in SegmentSet /\ x.header = "live" /\ x.epoch = e /\ x.recs = {}
  BY <1>1, <1>3 DEF SegmentSet, Headers
<1>5. y \in SegmentSet /\ y.header = "torn" /\ y.epoch = 0 /\ y.recs = {}
  BY <1>1, <1>3 DEF SegmentSet, Headers
<1>6. InWindow(flash, e)
  BY WindowOpen
<1>7. \A i \in Slots : flash.index[i] \in WholeSlots => flash.index[i].value.epoch # e
  <2> SUFFICES ASSUME NEW i \in Slots, flash.index[i] \in WholeSlots PROVE flash.index[i].value.epoch # e
    OBVIOUS
  <2>1. flash.index[i] \in GlyphSlots /\ flash.index[i].value.epoch \in Nat
    BY LogTyped
  <2>2. PICK u \in Segments : Live(flash, u) /\ flash.index[i].value.epoch <= flash.seg[u].epoch
    BY <2>1, JInvParts DEF Books, Dated
  <2>3. flash.seg[u].epoch < e /\ flash.seg[u].epoch \in Nat
    BY <2>2, RingBelow, LogTyped
  <2> QED
    BY <1>1, <2>1, <2>2, <2>3
<1>8. \A i \in Slots : flash.index[i] \in WholeSlots => flash.index[i].value.epoch # 0
  BY LogTyped
<1> HIDE DEF x, y, s, e
<1>9. May(s, x, FALSE) /\ May(s, x, TRUE)
  BY <1>2, <1>4, <1>6, <1>7 DEF May
<1>10. May(s, y, TRUE) /\ Shows(s, y, ram)
  BY <1>2, <1>5, <1>8 DEF May, Shows
<1>11. g = [flash EXCEPT !.seg[s] = x]
  <2>1. g = [flash EXCEPT !.seg[s].header = "live", !.seg[s].epoch = e]
    BY WrittenHeader
  <2> HIDE DEF g
  <2>2. [flash EXCEPT !.seg[s].header = "live", !.seg[s].epoch = e] = [flash EXCEPT !.seg[s] = x]
    BY <1>1, LogTyped DEF FlashSet, x
  <2> QED
    BY <2>1, <2>2
<1> HIDE DEF g
<1>12. Sees(flash, Moved)
  <2>1. Moved.segEpoch = [ram.segEpoch EXCEPT ![s] = e]
    BY SInvParts DEF RamSet, Moved, s, e
  <2>2. \A u \in Segments \ {s} : Moved.segEpoch[u] = ram.segEpoch[u]
    BY <2>1, RingLive
  <2>3. Sees(flash, ram)
    BY JInvParts
  <2> QED
    BY <1>3, <2>2, <2>3 DEF Sees
<1>13. Shows(s, x, Moved)
  BY <1>4 DEF Shows
<1>14. Books(g, faults) /\ Sees(g, Moved)
  BY <1>1, <1>4, <1>9, <1>11, <1>12, <1>13, SegTrue
<1>15. \A sl, w : Names(flash, sl, w) /\ sl.value.seg \in Segments => Names(g, sl, w)
  <2>1. \A sl, w : Names(flash, sl, w) /\ sl.value.seg \in Segments => sl.value.seg \in Segments \ {s}
    BY <1>2 DEF Names
  <2> QED
    BY <1>1, <1>4, <1>9, <1>11, <2>1, SegTrue
<1>16. ASSUME NEW f \in Torn(Header(s, e)) PROVE Books(f, faults + 1) /\ Sees(f, ram)
  <2>1. CASE f = flash
    BY <2>1, JInvParts
  <2>2. CASE f = [flash EXCEPT !.seg[s].header = "torn"]
    <3>1. f = [flash EXCEPT !.seg[s] = y]
      BY <1>1, <2>2, LogTyped DEF FlashSet, y
    <3>2. Sees(flash, ram)
      BY JInvParts
    <3> QED
      BY <1>1, <1>5, <1>10, <3>1, <3>2, SegTrue
  <2> QED
    BY <2>1, <2>2, TornHeader
<1> QED
  BY <1>14, <1>15, <1>16 DEF Bears, g, s, e

\* A record added to the head, past all the others.
LEMMA RecordTrue ==
  ASSUME SInv, JInv, RingMirrored(flash, ram), ram.live > 0, NEW r \in RecordSet, r.whole
  PROVE  LET g == Written(Record(ram.head, r))
         IN /\ Bears(Record(ram.head, r)) /\ Books(g, faults)
            /\ \A q : q.segEpoch = ram.segEpoch => Sees(g, q)
            /\ \A sl, w : Names(flash, sl, w) /\ sl.value.seg \in Segments => Names(g, sl, w)
            /\ Names(g, Slot(r.key, Place(ram.head, r.at, ram.segEpoch[ram.head])), TRUE)
<1> DEFINE s == ram.head
           g == Written(Record(s, r))
           X(t) == [flash.seg[s] EXCEPT !.recs = @ \cup {t}]
<1>1. s \in Segments /\ Live(flash, s) /\ ram.segEpoch[s] = flash.seg[s].epoch
  <2>1. Dist(ram.tail, s) < ram.live
    BY RingLive DEF RingMirrored
  <2> QED
    BY <2>1, RingLive
<1>2. InWindow(flash, flash.seg[s].epoch)
  BY <1>1, JInvParts DEF Books, Within
<1>3. Sees(flash, ram)
  BY JInvParts
<1> HIDE DEF s
<1>4. \A t \in RecordSet : /\ X(t) \in SegmentSet /\ X(t).header = "live" /\ X(t).epoch = flash.seg[s].epoch
                           /\ X(t).recs = flash.seg[s].recs \cup {t}
  BY <1>1, LogTyped DEF SegmentSet, Live
<1>5. \A t : [flash EXCEPT !.seg[s].recs = @ \cup {t}] = [flash EXCEPT !.seg[s] = X(t)]
  BY <1>1, LogTyped DEF FlashSet
<1> HIDE DEF X
<1>6. ASSUME NEW t \in RecordSet
      PROVE  /\ t.whole => May(s, X(t), FALSE)
             /\ May(s, X(t), TRUE) /\ Grows(s, X(t))
             /\ \A q : q.segEpoch = ram.segEpoch => Shows(s, X(t), q)
  BY <1>1, <1>2, <1>4 DEF May, Grows, Shows
<1>7. g = [flash EXCEPT !.seg[s] = X(r)]
  <2>1. g = [flash EXCEPT !.seg[s].recs = @ \cup {r}]
    BY WrittenRecord
  <2> HIDE DEF g
  <2>2. [flash EXCEPT !.seg[s].recs = @ \cup {r}] = [flash EXCEPT !.seg[s] = X(r)]
    BY <1>5
  <2> QED
    BY <2>1, <2>2
<1> HIDE DEF g
<1>8. \A q : q.segEpoch = ram.segEpoch => Sees(flash, q)
  BY <1>3 DEF Sees
<1>9. Books(g, faults)
  BY <1>1, <1>4, <1>6, <1>7, SegTrue
<1>10. \A q : q.segEpoch = ram.segEpoch => Sees(g, q)
  BY <1>1, <1>4, <1>6, <1>7, <1>8, SegTrue
<1>11. \A sl, w : Names(flash, sl, w) /\ sl.value.seg \in Segments => Names(g, sl, w)
  BY <1>1, <1>4, <1>6, <1>7, SegTrue
<1>12. Names(g, Slot(r.key, Place(s, r.at, ram.segEpoch[s])), TRUE)
  <2>1. g.seg[s] = X(r)
    BY <1>1, <1>7, LogTyped DEF FlashSet
  <2>2. /\ r \in g.seg[s].recs /\ g.seg[s].header = "live" /\ g.seg[s].epoch = ram.segEpoch[s]
    BY <1>1, <1>4, <2>1
  <2> DEFINE sl == Slot(r.key, Place(s, r.at, ram.segEpoch[s]))
  <2>3. sl.key = r.key /\ sl.value.seg = s /\ sl.value.at = r.at /\ sl.value.epoch = ram.segEpoch[s]
    BY DEF Slot, Place
  <2> HIDE DEF sl
  <2>4. Names(g, sl, TRUE)
    BY <2>2, <2>3 DEF Names, Live, Exact, Backed
  <2> QED
    BY <2>4 DEF sl
<1>13. ASSUME NEW f \in Torn(Record(s, r)) PROVE Books(f, faults + 1) /\ Sees(f, ram)
  <2>1. CASE f = flash
    BY <2>1, JInvParts
  <2>2. ASSUME NEW t \in Remains(r), f = [flash EXCEPT !.seg[s].recs = @ \cup {t}]
        PROVE  Books(f, faults + 1) /\ Sees(f, ram)
    <3>1. t \in RecordSet
      BY RemainsAre
    <3>2. f = [flash EXCEPT !.seg[s] = X(t)]
      BY <1>5, <2>2
    <3> QED
      BY <1>1, <1>3, <1>4, <1>6, <3>1, <3>2, SegTrue
  <2> QED
    BY <2>1, <2>2, TornRecord
<1> QED
  BY <1>9, <1>10, <1>11, <1>12, <1>13 DEF Bears, g, s

\* The tail retired, its records left for now.
LEMMA RetireTrue ==
  ASSUME SInv, JInv, RingMirrored(flash, ram), ram.live >= 2
  PROVE  LET g == Written(Retire(ram.tail))
         IN /\ Bears(Retire(ram.tail)) /\ Books(g, faults)
            /\ \A q : (\A u \in Segments : q.segEpoch[u] \in {0, ram.segEpoch[u]}) => Sees(g, q)
<1> DEFINE s == ram.tail  h == ram.head
           g == Written(Retire(s))
           x == [flash.seg[s] EXCEPT !.header = "retired"]
<1>0. s \in Segments /\ h \in Segments /\ flash.seg[s] \in SegmentSet
  BY RingLive, LogTyped
<1>1. h # s /\ Live(flash, h) /\ Live(flash, s)
  <2>1. ram.live \in Nat /\ Dist(s, h) = ram.live - 1 /\ Dist(s, s) = 0
    BY <1>0, RingLive, DistFacts DEF RingMirrored
  <2> HIDE DEF s, h
  <2>2. Dist(s, h) # 0 /\ Dist(s, h) < ram.live /\ Dist(s, s) < ram.live
    BY <2>1
  <2> QED
    BY <1>0, <2>1, <2>2, RingLive DEF s
<1>2. flash.seg[s].epoch <= flash.seg[h].epoch
  BY <1>0, <1>1, RingBelow
<1>3. x \in SegmentSet /\ x.header = "retired" /\ x.epoch = flash.seg[s].epoch /\ x.recs = flash.seg[s].recs
  BY <1>0 DEF SegmentSet, Headers
<1>4. g = [flash EXCEPT !.seg[s] = x]
  <2>1. g = [flash EXCEPT !.seg[s].header = "retired"]
    BY WrittenRetire
  <2> HIDE DEF g
  <2> QED
    BY <1>0, <2>1, LogTyped DEF FlashSet, x
<1> HIDE DEF x, g, s, h
<1>5. May(s, x, FALSE) /\ May(s, x, TRUE)
  BY <1>0, <1>1, <1>2, <1>3 DEF May
<1>6. \A q : Shows(s, x, q)
  BY <1>3 DEF Shows
<1>7. Sees(flash, ram)
  BY JInvParts
<1>8. \A q : (\A u \in Segments : q.segEpoch[u] \in {0, ram.segEpoch[u]}) => Sees(flash, q)
  BY <1>7 DEF Sees
<1>9. Books(g, faults) /\ Books(g, faults + 1) /\ \A q : Sees(flash, q) => Sees(g, q)
  BY <1>0, <1>3, <1>4, <1>5, <1>6, SegTrue
<1>10. Torn(Retire(s)) = {flash, g}
  BY TornRetire DEF g
<1>11. Bears(Retire(s))
  BY <1>7, <1>9, <1>10, JInvParts DEF Bears
<1> QED
  BY <1>8, <1>9, <1>11 DEF g, s

LEMMA SlotTrue ==
  ASSUME SInv, JInv, NEW i \in Slots, NEW sl \in MarkSlots \cup WholeSlots,
         sl \in WholeSlots => Names(flash, sl, faults <= 1)
  PROVE  LET g == Written(SlotAt(i, sl))
         IN /\ Bears(SlotAt(i, sl)) /\ Books(g, faults)
            /\ \A q : q.segEpoch = ram.segEpoch => Sees(g, q)
            /\ \A t, w : Names(flash, t, w) => Names(g, t, w)
            /\ g.index = [flash.index EXCEPT ![i] = sl]
<1> DEFINE g == Written(SlotAt(i, sl))
<1>0. flash \in FlashSet /\ flash.index \in [Slots -> SlotSet] /\ faults \in Nat /\ Books(flash, faults) /\ Sees(flash, ram)
  BY LogTyped, JInvParts
<1>1. ASSUME NEW f, NEW t, f = [flash EXCEPT !.index[i] = t]
      PROVE  f.seg = flash.seg /\ f.journal = flash.journal /\ f.wipe = flash.wipe /\ f.index = [flash.index EXCEPT ![i] = t]
  BY <1>0, <1>1 DEF FlashSet
<1>2. g = [flash EXCEPT !.index[i] = sl]
  BY WrittenSlot
<1> HIDE DEF g
<1>3. g.seg = flash.seg /\ g.journal = flash.journal /\ g.wipe = flash.wipe /\ g.index = [flash.index EXCEPT ![i] = sl]
  BY <1>1, <1>2
<1>4. sl \in GlyphSlots => sl \in WholeSlots /\ Live(flash, sl.value.seg) /\ Exact(flash, sl) /\ Backed(flash, sl, faults <= 1) /\ ~sl.torn
  BY SlotKinds DEF Names, WholeSlots
<1>5. faults \in {faults, faults + 1} /\ faults + 1 \in {faults, faults + 1}
  OBVIOUS
<1>6. /\ Books(g, faults) /\ (\A r : Sees(flash, r) => Sees(g, r))
      /\ \A t, w : Names(flash, t, w) => Names(g, t, w)
  BY <1>0, <1>3, <1>4, <1>5, SlotComes
<1>7. \A q : q.segEpoch = ram.segEpoch => Sees(flash, q)
  BY <1>0 DEF Sees
<1>8. ASSUME NEW f \in Torn(SlotAt(i, sl)) PROVE Books(f, faults + 1) /\ Sees(f, ram)
  <2>1. CASE f = flash
    BY <2>1, JInvParts
  <2>2. ASSUME NEW t \in TornSlots(sl), f = [flash EXCEPT !.index[i] = t]
        PROVE  Books(f, faults + 1) /\ Sees(f, ram)
    <3>1. f.seg = flash.seg /\ f.journal = flash.journal /\ f.wipe = flash.wipe /\ f.index = [flash.index EXCEPT ![i] = t]
      BY <1>1, <2>2
    <3>2. t \in GlyphSlots => /\ sl \in WholeSlots /\ t.torn /\ t.value.seg = sl.value.seg /\ t.value.epoch = sl.value.epoch
      BY TornSlotsAre, SlotKinds
    <3>3. t \in GlyphSlots => Live(flash, t.value.seg) /\ Exact(flash, t) /\ t.torn
      BY <3>2 DEF Names, Exact
    <3> QED
      BY <1>0, <1>5, <3>1, <3>3, SlotComes
  <2> QED
    BY <2>1, <2>2, TornSlot
<1> QED
  BY <1>3, <1>6, <1>7, <1>8 DEF Bears, g

LEMMA LogSameTrue ==
  ASSUME SInv, JInv, NEW g, g.seg = flash.seg, FloorOf(g.journal) = FloorOf(flash.journal), flash.wipe => g.wipe,
         \A i \in Slots : g.index[i] \in GlyphSlots => g.index[i] = flash.index[i]
  PROVE  /\ Books(g, faults) /\ Books(g, faults + 1)
         /\ \A q : q.segEpoch = ram.segEpoch => Sees(g, q)
         /\ \A sl, w : Names(flash, sl, w) => Names(g, sl, w)
<1>1. \A q : q.segEpoch = ram.segEpoch => Sees(flash, q)
  BY JInvParts DEF Sees
<1>2. faults \in Nat /\ faults + 1 \in Nat /\ Books(flash, faults) /\ Books(flash, faults + 1)
  BY JInvParts
<1>3. /\ Books(g, faults) /\ (\A r : Sees(flash, r) => Sees(g, r))
      /\ \A sl, w : Names(flash, sl, w) => Names(g, sl, w)
  BY <1>2, LogSame
<1>4. Books(g, faults + 1)
  BY <1>2, LogSame
<1> QED
  BY <1>1, <1>3, <1>4

LEMMA WipeWordTrue ==
  ASSUME SInv, JInv
  PROVE  LET g == Written(Do("wipe"))
         IN /\ Bears(Do("wipe")) /\ Books(g, faults)
            /\ \A q : q.segEpoch = ram.segEpoch => Sees(g, q)
<1> DEFINE g == Written(Do("wipe"))
<1>1. g.seg = flash.seg /\ g.journal = flash.journal /\ g.index = flash.index /\ g.wipe
  <2>1. g = [flash EXCEPT !.wipe = TRUE]
    BY WrittenWipe
  <2> HIDE DEF g
  <2> QED
    BY <2>1, LogTyped DEF FlashSet
<1>2. Torn(Do("wipe")) = {flash, g}
  BY TornState
<1> HIDE DEF g
<1>3. Books(g, faults) /\ Books(g, faults + 1) /\ \A q : q.segEpoch = ram.segEpoch => Sees(g, q)
  BY <1>1, LogSameTrue
<1>4. Bears(Do("wipe"))
  BY <1>2, <1>3, JInvParts DEF Bears
<1> QED
  BY <1>3, <1>4 DEF g

LEMMA BaseTrue ==
  ASSUME SInv, JInv, NEW b \in Nat
  PROVE  LET g == Written(Base(b))
         IN /\ Bears(Base(b)) /\ Books(g, faults)
            /\ \A q : q.segEpoch = ram.segEpoch => Sees(g, q)
            /\ \A sl, w : Names(flash, sl, w) => Names(g, sl, w)
<1> DEFINE g == Written(Base(b))
<1>1. ASSUME NEW c \in Nat, NEW f, f = [flash EXCEPT !.journal = Append(@, [base |-> c, done |-> FALSE])]
      PROVE  /\ Books(f, faults) /\ Books(f, faults + 1)
             /\ \A q : q.segEpoch = ram.segEpoch => Sees(f, q)
             /\ \A sl, w : Names(flash, sl, w) => Names(f, sl, w)
  <2>1. /\ f.seg = flash.seg /\ f.index = flash.index /\ f.wipe = flash.wipe
        /\ f.journal = Append(flash.journal, [base |-> c, done |-> FALSE])
    BY <1>1, LogTyped DEF FlashSet
  <2>2. FloorOf(f.journal) = FloorOf(flash.journal)
    BY <2>1, LogTyped, FloorBegun
  <2> QED
    BY <2>1, <2>2, LogSameTrue
<1>2. g = [flash EXCEPT !.journal = Append(@, [base |-> b, done |-> FALSE])]
  BY WrittenBase
<1> HIDE DEF g
<1>3. /\ Books(g, faults)
      /\ \A q : q.segEpoch = ram.segEpoch => Sees(g, q)
      /\ \A sl, w : Names(flash, sl, w) => Names(g, sl, w)
  BY <1>1, <1>2
<1>4. \A f \in Torn(Base(b)) : Books(f, faults + 1) /\ Sees(f, ram)
  <2> TAKE f \in Torn(Base(b))
  <2>1. CASE f = flash
    BY <2>1, JInvParts
  <2>2. CASE f = [flash EXCEPT !.journal = Append(@, [base |-> 0, done |-> FALSE])]
    BY <1>1, <2>2
  <2> QED
    BY <2>1, <2>2, TornBase
<1> QED
  BY <1>3, <1>4 DEF Bears, g

LEMMA EraseIndexTrue ==
  ASSUME SInv, JInv
  PROVE  LET g == Written(Do("eraseIndex"))
         IN /\ Bears(Do("eraseIndex")) /\ Books(g, faults)
            /\ \A q : q.segEpoch = ram.segEpoch => Sees(g, q)
            /\ \A sl, w : Names(flash, sl, w) => Names(g, sl, w)
            /\ g.index = BlankIndex
<1> DEFINE g == Written(Do("eraseIndex"))
<1>1. ASSUME NEW idx, NEW f, f = [flash EXCEPT !.index = idx], \A i \in Slots : idx[i] \in {Erased, flash.index[i]}
      PROVE  /\ Books(f, faults) /\ Books(f, faults + 1)
             /\ \A q : q.segEpoch = ram.segEpoch => Sees(f, q)
             /\ \A sl, w : Names(flash, sl, w) => Names(f, sl, w)
             /\ f.index = idx
  <2>1. f.seg = flash.seg /\ f.journal = flash.journal /\ f.wipe = flash.wipe /\ f.index = idx
    BY <1>1, LogTyped DEF FlashSet
  <2>2. \A i \in Slots : f.index[i] \in GlyphSlots => f.index[i] = flash.index[i]
    BY <1>1, <2>1, SlotKinds
  <2> QED
    BY <2>1, <2>2, LogSameTrue
<1>2. g = [flash EXCEPT !.index = BlankIndex]
  BY WrittenEraseIndex
<1>3. \A i \in Slots : BlankIndex[i] = Erased
  BY DEF BlankIndex
<1> HIDE DEF g
<1>4. /\ Books(g, faults) /\ g.index = BlankIndex
      /\ \A q : q.segEpoch = ram.segEpoch => Sees(g, q)
      /\ \A sl, w : Names(flash, sl, w) => Names(g, sl, w)
  BY <1>1, <1>2, <1>3
<1>5. \A f \in Torn(Do("eraseIndex")) : Books(f, faults + 1) /\ Sees(f, ram)
  <2> TAKE f \in Torn(Do("eraseIndex"))
  <2>1. CASE f = flash
    BY <2>1, JInvParts
  <2>2. ASSUME NEW n \in Slots, f = [flash EXCEPT !.index = [i \in Slots |-> IF i < n THEN Erased ELSE flash.index[i]]]
        PROVE  Books(f, faults + 1) /\ Sees(f, ram)
    <3> DEFINE idx == [i \in Slots |-> IF i < n THEN Erased ELSE flash.index[i]]
    <3>1. f = [flash EXCEPT !.index = idx] /\ \A i \in Slots : idx[i] \in {Erased, flash.index[i]}
      BY <2>2
    <3> HIDE DEF idx
    <3> QED
      BY <1>1, <3>1
  <2> QED
    BY <2>1, <2>2, TornEraseIndex
<1> QED
  BY <1>4, <1>5 DEF Bears, g

\* A rebuild done: the floor rises to its base.
LEMMA FloorRises ==
  ASSUME SInv, JInv, NEW g, g.seg = flash.seg, g.index = flash.index, g.wipe = flash.wipe, NEW b \in Nat, FloorOf(g.journal) = b,
         FloorOf(flash.journal) <= b, \A s \in Segments : Live(flash, s) => b <= flash.seg[s].epoch,
         \A i \in Slots : flash.index[i] \in GlyphSlots => b <= flash.index[i].value.epoch,
         (\A s \in Segments : ~Live(flash, s)) => b <= 1,
         \A s \in Segments : ram.segEpoch[s] # 0 => Live(flash, s)
  PROVE  Books(g, faults) /\ \A q : q.segEpoch = ram.segEpoch => Sees(g, q)
<1>0. /\ FloorOf(flash.journal) \in Nat /\ \A s \in Segments : flash.seg[s].epoch \in Nat
      /\ RebuildLimit \in Nat /\ Books(flash, faults) /\ Sees(flash, ram)
  BY LogTyped, JInvParts, StoreAssumption
<1>1. \A s : Live(g, s) <=> Live(flash, s)
  BY DEF Live
<1>2. \A s \in Segments : Live(flash, s) => InWindow(g, flash.seg[s].epoch)
  <2> TAKE s \in Segments
  <2> HAVE Live(flash, s)
  <2>1. InWindow(flash, flash.seg[s].epoch)
    BY <1>0 DEF Books, Within
  <2>2. flash.seg[s].epoch < b + RebuildLimit
    BY <1>0, <2>1 DEF InWindow
  <2> QED
    BY <2>2 DEF InWindow
<1>3. Within(g)
  BY <1>1, <1>2 DEF Within
<1>4. Backs(g, faults)
  BY <1>0 DEF Books, Backs, Exact, Backed
<1>5. Dated(g)
  BY <1>0, <1>1 DEF Books, Dated
<1>6. Lasting(g, faults)
  BY <1>0 DEF Books, Lasting, AllWhole, NoTorn
<1>7. Begun(g)
  BY <1>1 DEF Begun
<1>8. \A q : q.segEpoch = ram.segEpoch => Sees(g, q)
  BY <1>0, <1>2 DEF Sees
<1> QED
  BY <1>3, <1>4, <1>5, <1>6, <1>7, <1>8 DEF Books

LEMMA BaseLeast ==
  ASSUME SInv, JInv, RingMirrored(flash, ram), JournalMirrored(flash, ram), Trusted(ram, op)
  PROVE  /\ BaseOf(ram) \in Nat /\ FloorOf(flash.journal) <= BaseOf(ram) /\ BaseOf(ram) <= ram.next
         /\ \A s \in Segments : Live(flash, s) => BaseOf(ram) <= flash.seg[s].epoch
         /\ (\A s \in Segments : ~Live(flash, s)) => BaseOf(ram) <= 1
<1> DEFINE t == ram.tail
<1>1. ram.live \in Nat /\ ram.next \in Nat /\ t \in Segments /\ FloorOf(flash.journal) \in Nat /\ \A s \in Segments : flash.seg[s].epoch \in Nat
  BY RingLive, LogTyped
<1>2. ram.floor = FloorOf(flash.journal) /\ ram.floor <= ram.next
  BY JInvParts DEF JournalMirrored, Ahead
<1>3. CASE ram.live = 0
  <2>1. ram.next = 1
    BY <1>3 DEF RingMirrored
  <2>2. \A s \in Segments : ~Live(flash, s)
    <3>1. \A s \in Segments : ~(Dist(t, s) < 0)
      BY <1>1, DistFacts
    <3> QED
      BY <1>3, <3>1, RingLive
  <2> QED
    BY <1>1, <1>2, <1>3, <2>1, <2>2 DEF BaseOf
<1>4. CASE ram.live # 0
  <2>1. Dist(t, t) = 0 /\ ram.live > 0
    BY <1>1, <1>4, DistFacts
  <2>2. Live(flash, t) /\ BaseOf(ram) = flash.seg[t].epoch
    <3>1. Live(flash, t)
      BY <1>1, <2>1, RingLive
    <3> QED
      BY <1>1, <1>4, <3>1, RingLive DEF BaseOf
  <2>3. FloorOf(flash.journal) <= flash.seg[t].epoch
    BY <1>1, <2>2, JInvParts DEF Books, Within, InWindow
  <2>4. flash.seg[t].epoch <= ram.next
    BY <1>1, <2>2, RingBelow
  <2>5. ASSUME NEW s \in Segments, Live(flash, s) PROVE flash.seg[t].epoch <= flash.seg[s].epoch
    <3>1. Dist(t, s) \in Nat /\ Dist(t, s) < ram.live
      BY <1>1, <2>5, RingLive, DistNat
    <3>2. CASE s = t
      BY <1>1, <3>2
    <3>3. CASE s # t
      <4>1. Dist(t, s) # 0
        BY <1>1, <2>1, <3>3, DistFacts
      <4>2. Dist(t, t) < Dist(t, s)
        BY <2>1, <3>1, <4>1
      <4>3. flash.seg[t].epoch < flash.seg[s].epoch
        BY <1>1, <3>1, <4>2 DEF RingMirrored, RingOf
      <4> QED
        BY <1>1, <4>3
    <3> QED
      BY <3>2, <3>3
  <2> QED
    BY <1>1, <2>2, <2>3, <2>4, <2>5
<1> QED
  BY <1>3, <1>4

LEMMA DoneTrue ==
  ASSUME SInv, JInv, op.call = "rebuild", op.stage = "insert"
  PROVE  LET g == Written(Do("done"))
         IN /\ Bears(Do("done")) /\ Books(g, faults)
            /\ \A q : q.segEpoch = ram.segEpoch => Sees(g, q)
            /\ op.base = BaseOf(ram) /\ op.base <= ram.next
<1> DEFINE g == Written(Do("done"))  j == flash.journal
<1>1. /\ RingMirrored(flash, ram) /\ JournalMirrored(flash, ram) /\ Trusted(ram, op)
      /\ Len(j) > 0 /\ j[Len(j)] = [base |-> op.base, done |-> FALSE]
  BY RebuildIs DEF RebuildSane
<1>2. op.base = BaseOf(ram) /\ \A i \in Slots : flash.index[i] \in GlyphSlots => op.base <= flash.index[i].value.epoch
  BY JInvParts DEF PlanTrue, BaseOf
<1>3. /\ op.base \in Nat /\ FloorOf(j) <= op.base /\ op.base <= ram.next
      /\ \A s \in Segments : Live(flash, s) => op.base <= flash.seg[s].epoch
      /\ (\A s \in Segments : ~Live(flash, s)) => op.base <= 1
  BY <1>1, <1>2, BaseLeast
<1>4. g.seg = flash.seg /\ g.index = flash.index /\ g.wipe = flash.wipe /\ g.journal = [j EXCEPT ![Len(j)].done = TRUE]
  <2>1. g = [flash EXCEPT !.journal[Len(flash.journal)].done = TRUE]
    BY WrittenDone
  <2> HIDE DEF g
  <2> QED
    BY <2>1, LogTyped DEF FlashSet
<1> HIDE DEF g
<1>5. FloorOf(g.journal) = op.base
  <2>1. FloorOf(g.journal) = j[Len(j)].base
    BY <1>1, <1>4, LogTyped, FloorDone
  <2> QED
    BY <1>1, <2>1
<1>6. \A s \in Segments : ram.segEpoch[s] # 0 => Live(flash, s)
  BY <1>1, RingLive
<1>7. Books(g, faults) /\ \A q : q.segEpoch = ram.segEpoch => Sees(g, q)
  BY <1>2, <1>3, <1>4, <1>5, <1>6, FloorRises
<1>8. Books(g, faults + 1)
  BY <1>7, JInvParts, Worse
<1>9. Torn(Do("done")) = {flash, g}
  BY TornState DEF g
<1>10. Bears(Do("done"))
  BY <1>7, <1>8, <1>9, JInvParts DEF Bears
<1> QED
  BY <1>2, <1>3, <1>7, <1>10 DEF g

\* The log of a wipe, with the index gone.
LEMMA BlankNamesNone == \A i \in Slots : BlankIndex[i] \notin GlyphSlots
<1>1. \A i \in Slots : BlankIndex[i] = Erased
  BY DEF BlankIndex
<1> QED
  BY <1>1, SlotKinds

LEMMA ShrinkTrue ==
  ASSUME SInv, JInv, NEW g, \A s \in Segments : g.seg[s] \in {flash.seg[s], BlankSegment}, g.index = BlankIndex,
         g.journal = flash.journal, g.wipe, NEW n \in {faults, faults + 1}
  PROVE  Books(g, n) /\ Sees(g, ram)
<1>1. \A i \in Slots : g.index[i] \notin GlyphSlots /\ g.index[i] \notin WholeSlots
  BY BlankNamesNone DEF WholeSlots
<1>2. BlankSegment.recs = {} /\ BlankSegment.header # "live"
  BY BlankIsSegment
<1>3. Books(flash, n) /\ Sees(flash, ram)
  BY JInvParts
<1>4. \A s \in Segments : Live(g, s) => g.seg[s] = flash.seg[s] /\ Live(flash, s)
  BY <1>2 DEF Live
<1>5. \A s \in Segments : g.seg[s].recs # {} => g.seg[s] = flash.seg[s]
  BY <1>2
<1>6. Within(g)
  BY <1>3, <1>4 DEF Books, Within, InWindow
<1>7. AllWhole(flash) => AllWhole(g)
  BY <1>2 DEF AllWhole
<1>8. Lasting(g, n)
  BY <1>1, <1>3, <1>7 DEF Books, Lasting, NoTorn
<1>9. Sees(g, ram)
  BY <1>3, <1>5 DEF Sees, InWindow
<1> QED
  BY <1>1, <1>6, <1>8, <1>9 DEF Books, Backs, Dated, Begun

LEMMA EraseLogTrue ==
  ASSUME SInv, JInv, flash.wipe, flash.index = BlankIndex
  PROVE  Bears(Do("eraseLog")) /\ Books(Written(Do("eraseLog")), faults) /\ Sees(Written(Do("eraseLog")), ram)
<1>1. ASSUME NEW seg, NEW f, f = [flash EXCEPT !.seg = seg], \A s \in Segments : seg[s] \in {flash.seg[s], BlankSegment}
      PROVE  Books(f, faults) /\ Books(f, faults + 1) /\ Sees(f, ram)
  <2>1. f.seg = seg /\ f.index = flash.index /\ f.journal = flash.journal /\ f.wipe = flash.wipe
    BY <1>1, LogTyped DEF FlashSet
  <2> QED
    BY <1>1, <2>1, ShrinkTrue
<1> DEFINE none == [s \in Segments |-> BlankSegment]
<1>2. Written(Do("eraseLog")) = [flash EXCEPT !.seg = none]
  BY WrittenEraseLog
<1>3. \A s \in Segments : none[s] \in {flash.seg[s], BlankSegment}
  OBVIOUS
<1> HIDE DEF none
<1>4. Books(Written(Do("eraseLog")), faults) /\ Sees(Written(Do("eraseLog")), ram)
  BY <1>1, <1>2, <1>3
<1>5. \A f \in Torn(Do("eraseLog")) : Books(f, faults + 1) /\ Sees(f, ram)
  <2> TAKE f \in Torn(Do("eraseLog"))
  <2>1. CASE f = flash
    BY <2>1, JInvParts
  <2>2. ASSUME NEW n \in Segments, f = [flash EXCEPT !.seg = [s \in Segments |-> IF s < n THEN BlankSegment ELSE flash.seg[s]]]
        PROVE  Books(f, faults + 1) /\ Sees(f, ram)
    <3> DEFINE seg == [s \in Segments |-> IF s < n THEN BlankSegment ELSE flash.seg[s]]
    <3>1. f = [flash EXCEPT !.seg = seg] /\ \A s \in Segments : seg[s] \in {flash.seg[s], BlankSegment}
      BY <2>2
    <3> HIDE DEF seg
    <3> QED
      BY <1>1, <3>1
  <2> QED
    BY <2>1, <2>2, TornEraseLog
<1> QED
  BY <1>4, <1>5 DEF Bears

\* A store without records or slots has nothing to be wrong about.
LEMMA NothingWrong ==
  ASSUME NEW f, f.seg = [s \in Segments |-> BlankSegment], f.index = BlankIndex, f.journal = <<>>, NEW n
  PROVE  Books(f, n) /\ \A r : Sees(f, r)
<1>1. \A i \in Slots : f.index[i] \notin GlyphSlots /\ f.index[i] \notin WholeSlots
  BY BlankNamesNone DEF WholeSlots
<1>2. \A s \in Segments : f.seg[s].recs = {} /\ ~Live(f, s)
  BY BlankIsSegment DEF Live
<1>3. FloorOf(f.journal) = 0 /\ 0 <= 1
  BY FloorEmpty
<1> QED
  BY <1>1, <1>2, <1>3 DEF Books, Backs, Dated, Within, Lasting, AllWhole, NoTorn, Begun, Sees

LEMMA EraseStateTrue ==
  ASSUME SInv, JInv, flash.index = BlankIndex, flash.seg = [s \in Segments |-> BlankSegment]
  PROVE  LET g == Written(Do("eraseState"))
         IN Bears(Do("eraseState")) /\ Books(g, faults) /\ \A r : Sees(g, r)
<1> DEFINE g == Written(Do("eraseState"))
<1>1. g.seg = flash.seg /\ g.index = flash.index /\ g.journal = <<>>
  <2>1. g = [flash EXCEPT !.journal = <<>>, !.wipe = FALSE]
    BY WrittenEraseState
  <2> HIDE DEF g
  <2> QED
    BY <2>1, LogTyped DEF FlashSet
<1>2. Torn(Do("eraseState")) = {flash, g}
  BY TornState
<1> HIDE DEF g
<1>3. \A n : Books(g, n) /\ \A r : Sees(g, r)
  BY <1>1, NothingWrong
<1> QED
  BY <1>2, <1>3, JInvParts DEF Bears, g

----------------------------------------------------------------------------
(* Every step keeps what the slots say true. *)

\* What a list holds.
LEMMA RangeFacts ==
  ASSUME NEW X, NEW s \in Seq(X)
  PROVE  /\ \A e \in Range(s) : e \in X
         /\ s = <<>> => Range(s) = {}
         /\ s # <<>> => Head(s) \in Range(s) /\ Range(Tail(s)) \subseteq Range(s)
         /\ \A x \in X : Range(Append(s, x)) = Range(s) \cup {x}
<1>1. Range(s) = {s[i] : i \in 1 .. Len(s)}
  BY RangeEquality
<1>2. \A e \in Range(s) : e \in X
  BY <1>1
<1>3. s = <<>> => Range(s) = {}
  BY <1>1
<1>4. ASSUME s # <<>> PROVE Head(s) \in Range(s) /\ Range(Tail(s)) \subseteq Range(s)
  <2>1. 1 \in 1 .. Len(s) /\ Head(s) = s[1]
    BY <1>4
  <2>2. Tail(s) \in Seq(X)
    BY <1>4
  <2>3. Range(Tail(s)) = {Tail(s)[i] : i \in 1 .. Len(Tail(s))}
    BY <2>2, RangeEquality
  <2>4. \A i \in 1 .. Len(Tail(s)) : Tail(s)[i] = s[i + 1] /\ i + 1 \in 1 .. Len(s)
    BY <1>4
  <2> QED
    BY <1>1, <2>1, <2>3, <2>4
<1>5. ASSUME NEW x \in X PROVE Range(Append(s, x)) = Range(s) \cup {x}
  <2>1. Append(s, x) \in Seq(X) /\ Len(Append(s, x)) = Len(s) + 1 /\ Len(s) \in Nat
    OBVIOUS
  <2>2. Range(Append(s, x)) = {Append(s, x)[i] : i \in 1 .. Len(Append(s, x))}
    BY <2>1, RangeEquality
  <2>3. \A i \in 1 .. Len(s) : Append(s, x)[i] = s[i]
    OBVIOUS
  <2>4. Append(s, x)[Len(s) + 1] = x
    OBVIOUS
  <2>5. \A i \in 1 .. Len(s) + 1 : i \in 1 .. Len(s) \/ i = Len(s) + 1
    BY <2>1
  <2>6. Len(s) + 1 \in 1 .. Len(s) + 1 /\ \A i \in 1 .. Len(s) : i \in 1 .. Len(s) + 1
    BY <2>1
  <2> QED
    BY <1>1, <2>1, <2>2, <2>3, <2>4, <2>5, <2>6
<1> QED
  BY <1>2, <1>3, <1>4, <1>5

\* open() takes only live segments for its ring.
LEMMA FoundLive ==
  ASSUME FlashSane(flash)
  PROVE  RingFound \subseteq LiveHeaders
<1> SUFFICES ASSUME NEW i \in 0 .. LiveFound - 1 PROVE Back(HeadFound, i) \in LiveHeaders
  BY DEF RingFound, Back
<1>1. LiveHeaders # {}
  BY DEF LiveFound
<1>2. HeadFound \in LiveHeaders /\ HeadFound \in Segments /\ LiveFound \in 1 .. SegmentCount /\ Run(HeadFound, LiveFound)
  BY <1>1, HeadFoundIs, LiveFoundIs
<1>3. CASE i = 0
  <2>1. 0 \in 0 .. SegmentCount - 1 /\ HeadFound \in Nat /\ 0 <= HeadFound /\ HeadFound - 0 = HeadFound
    BY <1>2, StoreFacts
  <2>2. Back(HeadFound, 0) = HeadFound
    BY <1>2, <2>1, BackFacts
  <2> QED
    BY <1>2, <1>3, <2>2
<1>4. CASE i # 0
  <2>1. i \in 1 .. LiveFound - 1
    BY <1>2, <1>4
  <2> QED
    BY <1>2, <2>1 DEF Run, Back
<1> QED
  BY <1>3, <1>4

LEMMA ReopenedSees ==
  ASSUME SInv, JInv
  PROVE  Sees(flash, Reopened)
<1> SUFFICES ASSUME NEW s \in Segments, Reopened.segEpoch[s] # 0
             PROVE  Reopened.segEpoch[s] = flash.seg[s].epoch /\ InWindow(flash, flash.seg[s].epoch)
  BY DEF Sees
<1>1. LiveFound # 0
  <2> SUFFICES ASSUME LiveFound = 0 PROVE FALSE
    OBVIOUS
  <2>1. Reopened.segEpoch = [u \in Segments |-> 0]
    BY ReopenedFields, NoneFoundFields
  <2> QED
    BY <2>1
<1>2. Reopened.segEpoch = [u \in Segments |-> IF u \in RingFound THEN flash.seg[u].epoch ELSE 0]
  BY <1>1, ReopenedFields
<1>3. s \in RingFound /\ Reopened.segEpoch[s] = flash.seg[s].epoch
  BY <1>2
<1>4. Live(flash, s)
  BY <1>3, SInvParts, FoundLive DEF LiveHeaders, Live
<1> QED
  BY <1>3, <1>4, JInvParts DEF Books, Within

LEMMA OpenTrue ==
  ASSUME SInv, JInv, Open
  PROVE  JInv'
<1>1. ram' = Reopened /\ flash' = flash /\ op' = op /\ op = None /\ faults' = faults
  BY DEF Open
<1>2. ASSUME Trusted(Reopened, None) PROVE Reopened.floor <= Reopened.next
  <2>1. ~flash.wipe
    BY <1>2, ReopenedFields DEF Trusted
  <2>2. PICK t \in Segments : \E n \in 0 .. SegmentCount : RingOf(flash.seg, t, n)
    BY <2>1, SInvParts DEF Intact, HasRing
  <2>3. PICK n \in 0 .. SegmentCount : RingOf(flash.seg, t, n)
    BY <2>2
  <2>4. RingMirrored(flash, Reopened) /\ Reopened.floor = FloorOf(flash.journal)
    BY <2>3, SInvParts, ReopenedMirrors, ReopenedFields DEF JournalMirrored
  <2>5. RamSane(Reopened) /\ Reopened.tail \in Segments /\ Reopened.head \in Segments /\ Reopened.live \in Nat
    BY SInvParts, ReopenedSane, StoreFacts DEF RamSane, RamSet
  <2>6. CASE Reopened.live = 0
    <3>1. \A s \in Segments : ~(Dist(Reopened.tail, s) < 0)
      BY <2>5, DistFacts
    <3>2. \A s \in Segments : ~Live(flash, s)
      BY <2>4, <2>6, <3>1 DEF RingMirrored, RingOf, Live
    <3>3. FloorOf(flash.journal) <= 1 /\ Reopened.next = 1
      BY <2>1, <2>4, <2>6, <3>2, JInvParts DEF Books, Begun, RingMirrored
    <3> QED
      BY <2>4, <3>3
  <2>7. CASE Reopened.live # 0
    <3>1. Reopened.live > 0 /\ Reopened.live - 1 < Reopened.live
      BY <2>5, <2>7
    <3>2. Live(flash, Reopened.head) /\ Reopened.next = flash.seg[Reopened.head].epoch + 1
      BY <2>4, <2>5, <3>1 DEF RingMirrored, RingOf, Live
    <3>3. FloorOf(flash.journal) <= flash.seg[Reopened.head].epoch
      BY <2>5, <3>2, JInvParts DEF Books, Within, InWindow
    <3>4. \A a, b \in Nat : a <= b => a <= b + 1
      OBVIOUS
    <3> QED
      BY <2>4, <2>5, <3>2, <3>3, <3>4, LogTyped
  <2> QED
    BY <2>6, <2>7
<1>3. PlacedTrue(flash, None) /\ PlanTrue(flash, Reopened, None, faults)
  BY QuietOps, OpCalls
<1> QED
  BY <1>1, <1>2, <1>3, ReopenedSees, QuietTrue DEF Ahead

LEMMA CommitTrue ==
  ASSUME SInv, JInv, NEW b \in Batches, Commit(b)
  PROVE  JInv'
<1>1. op = None /\ ram.open /\ ~ram.stopped /\ ram \in RamSet
  BY SInvParts DEF Commit, Ready
<1> DEFINE o == [call |-> "commit", todo |-> b, placed |-> <<>>, keys |-> {b[i] : i \in DOMAIN b}]
           full == [ram EXCEPT !.indexFull = TRUE, !.stopped = TRUE]
           asks == [ram EXCEPT !.roomAsked = TRUE, !.stopped = TRUE]
           stop == [ram EXCEPT !.stopped = TRUE]
<1>2. \/ Notes(full, None) \/ Notes(asks, None) \/ Notes(stop, None) \/ Notes(ram, o)
  BY DEF Commit
<1>3. Trusted(ram, op) /\ None.call = "none"
  BY <1>1, OpCalls DEF Trusted
<1>4. SameMirror(ram, full) /\ SameMirror(ram, asks) /\ SameMirror(ram, stop)
  BY <1>1 DEF RamSet, SameMirror
<1>5. o.call = "commit" /\ o.placed = <<>>
  OBVIOUS
<1> HIDE DEF o, full, asks, stop
<1>6. CASE Notes(ram, o)
  <2>1. flash' = flash /\ ram' = ram /\ op' = o /\ faults' = faults
    BY <1>6 DEF Notes
  <2>2. Range(o.placed) = {}
    <3>1. <<>> \in Seq(Nat)
      OBVIOUS
    <3> QED
      BY <1>5, <3>1, RangeFacts
  <2>3. PlacedTrue(flash, o) /\ PlanTrue(flash, ram, o, faults)
    BY <1>5, <2>2 DEF PlacedTrue, PlanTrue
  <2>4. Ahead(ram, o)
    BY <1>3, JInvParts DEF Ahead
  <2> QED
    BY <2>1, <2>3, <2>4, JInvParts, QuietTrue
<1> QED
  BY <1>2, <1>3, <1>4, <1>6, NotedTrue

LEMMA FlagsTrue ==
  ASSUME SInv, JInv, \/ MarkFull \/ Wipe \/ RoomMade
                     \/ \E budget \in {"Idle", "Open"} : MakeRoom(budget)
  PROVE  JInv'
<1>0. ram \in RamSet /\ None.call = "none"
  BY SInvParts, OpCalls
<1>1. CASE MarkFull
  <2> DEFINE r == [ram EXCEPT !.stopped = TRUE, !.roomAsked = TRUE]
  <2>1. Notes(r, None) /\ op = None /\ SameMirror(ram, r) /\ r.open = ram.open /\ r.wipe = ram.wipe /\ r.stopped
    BY <1>0, <1>1 DEF MarkFull, Ready, RamSet, SameMirror
  <2> HIDE DEF r
  <2> QED
    BY <1>0, <2>1, NotedTrue DEF Trusted
<1>2. CASE Wipe
  <2> DEFINE r == [ram EXCEPT !.stopped = TRUE]
             o == [call |-> "wipe", todo |-> WipeSteps, then |-> None]
  <2>1. Notes(r, o) /\ SameMirror(ram, r) /\ o.call = "wipe"
    BY <1>0, <1>2 DEF Wipe, RamSet, SameMirror
  <2> HIDE DEF r, o
  <2> QED
    BY <2>1, NotedTrue DEF Trusted
<1>3. CASE RoomMade
  <2> DEFINE asked == ram.live >= 2 /\ ram.roomAsked
             r == [ram EXCEPT !.roomAsked = asked, !.stopped = asked \/ NeedsRebuild]
  <2>1. op.call = "room" /\ Notes(r, None)
    BY <1>3 DEF RoomMade
  <2> HIDE DEF asked
  <2>2. SameMirror(ram, r)
    BY <1>0 DEF RamSet, SameMirror
  <2> HIDE DEF r
  <2>3. Trusted(ram, op)
    BY <2>1, InCall
  <2> QED
    BY <1>0, <2>1, <2>2, <2>3, NotedTrue
<1>4. ASSUME NEW budget \in {"Idle", "Open"}, MakeRoom(budget) PROVE JInv'
  <2> DEFINE o == Room(budget, IF budget = "Idle" THEN 1 ELSE SegmentCount + 1, FALSE)
  <2>1. Notes(ram, o) /\ o.call = "room" /\ op = None /\ ~ram.wipe /\ SameMirror(ram, ram)
    BY <1>4 DEF MakeRoom, Ready, Room, SameMirror
  <2> HIDE DEF o
  <2>2. Trusted(ram, o) => Trusted(ram, op)
    BY <1>0, <2>1 DEF Trusted
  <2> QED
    BY <2>1, <2>2, NotedTrue
<1> QED
  BY <1>1, <1>2, <1>3, <1>4

LEMMA SameTrue ==
  ASSUME JInv, flash' = flash, ram' = ram, op' = op, faults' = faults
  PROVE  JInv'
  BY DEF JInv

LEMMA StopWritesTrue ==
  ASSUME SInv, JInv, StopWrites
  PROVE  JInv'
<1> DEFINE g == Written(Do("wipe"))
<1>1. Does(Do("wipe"), Failed, count, None)
  BY DEF StopWrites, Failed
<1>2. Failed.segEpoch = ram.segEpoch /\ Failed.wipe /\ Failed.stopped
  BY SInvParts DEF Failed, RamSet
<1>3. Bears(Do("wipe")) /\ Books(g, faults) /\ Sees(g, Failed)
  BY <1>2, WipeWordTrue
<1>4. PlacedTrue(g, None) /\ PlanTrue(g, Failed, None, faults) /\ Ahead(Failed, None)
  BY <1>2, QuietOps, OpCalls DEF Ahead, Trusted
<1>5. Safe(Do("wipe"))
  BY SInvParts, SafeIndex
<1> HIDE DEF g
<1>6. Good(g, Failed, None, faults)
  BY <1>3, <1>4 DEF Good
<1> QED
  BY <1>1, <1>3, <1>5, <1>6, DoesTrue DEF g

LEMMA LastFaceTrue ==
  ASSUME SInv, JInv, LastFace
  PROVE  JInv'
<1> DEFINE g == Written(Do("wipe"))
           r == [ram EXCEPT !.wipe = TRUE]
<1>1. Does(Do("wipe"), r, count, None) /\ op = None /\ ram.open /\ ~ram.wipe
  BY DEF LastFace, Ready
<1>2. r.segEpoch = ram.segEpoch /\ r.floor = ram.floor /\ r.next = ram.next
  BY SInvParts DEF RamSet
<1> HIDE DEF r
<1>3. Bears(Do("wipe")) /\ Books(g, faults) /\ Sees(g, r)
  BY <1>2, WipeWordTrue
<1>4. PlacedTrue(g, None) /\ PlanTrue(g, r, None, faults)
  BY QuietOps, OpCalls
<1>5. Trusted(ram, op)
  BY <1>1, OpCalls DEF Trusted
<1>6. Ahead(r, None)
  BY <1>2, <1>5, JInvParts DEF Ahead
<1>7. Safe(Do("wipe"))
  BY SInvParts, SafeIndex
<1> HIDE DEF g
<1>8. Good(g, r, None, faults)
  BY <1>3, <1>4, <1>6 DEF Good
<1> QED
  BY <1>1, <1>3, <1>7, <1>8, DoesTrue DEF g

\* What is placed stays so when the log grows or a segment outside the ring goes.
LEMMA PlacedStays ==
  ASSUME JInv, NEW o, o.call \in {"commit", "reclaim"} => op.call \in {"commit", "reclaim"},
         o.call # "rebuild", NEW g, NEW r, NEW n,
         o.call \in {"commit", "reclaim"} => \A sl \in Range(o.placed) : sl \in Range(op.placed) /\ sl.value.seg \in Segments,
         \A sl, w : Names(flash, sl, w) /\ sl.value.seg \in Segments => Names(g, sl, w)
  PROVE  PlacedTrue(g, o) /\ PlanTrue(g, r, o, n)
  BY JInvParts DEF PlacedTrue, PlanTrue

LEMMA PlacedIn ==
  ASSUME SInv, op.call \in {"commit", "reclaim"}
  PROVE  op.placed \in Seq(WholeSlots) /\ \A sl \in Range(op.placed) : sl \in WholeSlots /\ sl.value.seg \in Segments
<1>1. op.placed \in Seq(WholeSlots)
  BY SInvParts, OpIs DEF CommitSet, ReclaimSet
<1>2. \A sl \in Range(op.placed) : sl \in WholeSlots
  BY <1>1, RangeFacts
<1> QED
  BY <1>1, <1>2, SlotKinds DEF WholeSlots

LEMMA MoveHeadTrue ==
  ASSUME SInv, JInv, MoveHead
  PROVE  JInv'
<1>0. Placing /\ NeedsHead
  BY DEF MoveHead
<1>1. /\ RingMirrored(flash, ram) /\ JournalMirrored(flash, ram) /\ Trusted(ram, op) /\ op.call \in {"commit", "reclaim"} /\ op.call # "rebuild"
      /\ CountsMirrored(flash, ram)
  BY <1>0, PlacingIs, InCall DEF Placing
<1>2. \A sl \in Range(op.placed) : sl.value.seg \in Segments
  BY <1>1, PlacedIn
<1>3. FlashSane(flash) /\ RamSane(ram) /\ ram \in RamSet
  BY SInvParts
<1>4. CASE ToOpen(ram) = 0
  BY <1>4, StopWritesTrue DEF MoveHead
<1>5. ASSUME ToOpen(ram) # 0, flash.seg[NextHead] # BlankSegment, Does(EraseSeg(NextHead), ram, count, op)
      PROVE  JInv'
  <2> DEFINE g == Written(EraseSeg(NextHead))
  <2>1. NextHead \in Segments /\ ~(Dist(ram.tail, NextHead) < ram.live)
    BY <1>1, <1>3, <1>5, NextHeadIs
  <2>2. /\ Bears(EraseSeg(NextHead)) /\ Books(g, faults) /\ Sees(g, ram)
        /\ \A sl, w : Names(flash, sl, w) /\ sl.value.seg \in Segments => Names(g, sl, w)
    BY <1>1, <2>1, EraseTrue
  <2>3. Safe(EraseSeg(NextHead))
    BY <1>1, <2>1, EraseMirrors
  <2> HIDE DEF g
  <2>4. PlacedTrue(g, op) /\ PlanTrue(g, ram, op, faults)
    BY <1>1, <1>2, <2>2, PlacedStays
  <2>5. Good(g, ram, op, faults)
    BY <2>2, <2>4, JInvParts DEF Good
  <2> QED
    BY <1>5, <2>2, <2>3, <2>5, DoesTrue DEF g
<1>6. ASSUME ToOpen(ram) # 0, flash.seg[NextHead] = BlankSegment, Does(Header(NextHead, ram.next), Moved, count, op)
      PROVE  JInv'
  <2> DEFINE g == Written(Header(NextHead, ram.next))
  <2>1. /\ Bears(Header(NextHead, ram.next)) /\ Books(g, faults) /\ Sees(g, Moved)
        /\ \A sl, w : Names(flash, sl, w) /\ sl.value.seg \in Segments => Names(g, sl, w)
    BY <1>1, <1>6, HeaderTrue
  <2>2. Safe(Header(NextHead, ram.next))
    BY <1>1, <1>6, HeaderMirrors
  <2> HIDE DEF g
  <2>3. PlacedTrue(g, op) /\ PlanTrue(g, Moved, op, faults)
    BY <1>1, <1>2, <2>1, PlacedStays
  <2>4. Moved.floor = ram.floor /\ Moved.next = ram.next + 1 /\ ram.floor \in Nat /\ ram.next \in Nat
    BY <1>3 DEF RamSet, Moved
  <2>5. ram.floor <= ram.next
    BY <1>1, JInvParts DEF Ahead
  <2>6. Moved.floor <= Moved.next
    BY <2>4, <2>5
  <2>7. Good(g, Moved, op, faults)
    BY <2>1, <2>3, <2>6 DEF Good, Ahead
  <2> QED
    BY <1>6, <2>1, <2>2, <2>7, DoesTrue DEF g
<1> QED
  BY <1>4, <1>5, <1>6 DEF MoveHead

LEMMA PlaceRecordTrue ==
  ASSUME SInv, JInv, PlaceRecord
  PROVE  JInv'
<1> DEFINE k == Head(op.todo)
           a == ram.used
           end == a + Size[k]
           h == ram.head
           rec == [key |-> k, whole |-> TRUE, at |-> a, end |-> end]
           sl == Slot(k, Place(h, a, ram.segEpoch[h]))
           r == [ram EXCEPT !.used = end]
           o == [op EXCEPT !.todo = Tail(@), !.placed = Append(@, sl)]
           g == Written(Record(h, rec))
<1>1. Placing /\ ~NeedsHead /\ Does(Record(h, rec), r, count, o)
  BY DEF PlaceRecord
<1>2. RingMirrored(flash, ram) /\ Trusted(ram, op) /\ op.call \in {"commit", "reclaim"}
  BY <1>1, PlacingIs, InCall DEF Placing
<1>3. /\ k \in Glyphs
      /\ op \in CommitSet \/ op \in ReclaimSet
  BY <1>1, PlacingIs
<1>4. /\ ram \in RamSet /\ RamSane(ram) /\ FlashSane(flash) /\ Intact(flash) /\ h \in Segments
      /\ ram.live \in 0 .. SegmentCount /\ ram.live \in Nat /\ a \in 0 .. Cap /\ a \in Nat
  BY SInvParts, StoreFacts DEF RamSet
<1>5. ram.live > 0 /\ Fits(a, Size[k])
  BY <1>1, <1>4 DEF NeedsHead
<1>6. Size[k] \in Nat /\ Size[k] >= 1 /\ a + Size[k] <= Cap
  <2>1. Size[k] \in 1 .. Cap
    BY <1>3, StoreAssumption
  <2> QED
    BY <1>4, <1>5, <2>1, StoreFacts DEF Fits
<1>7. end \in 1 .. Cap /\ a < end
  BY <1>4, <1>6, StoreFacts
<1>8. rec \in RecordSet /\ rec.at = a /\ rec.end = end /\ rec.key = k /\ rec.whole
  BY <1>3, <1>4, <1>7 DEF RecordSet
<1>9. a = Fill(flash.seg[h].recs) /\ flash.seg[h].recs \in SUBSET RecordSet
  BY <1>2, <1>4, <1>5, LogTyped DEF RingMirrored
<1>10. \A q \in flash.seg[h].recs : q.end <= rec.at
  BY <1>8, <1>9, FillFacts
<1>11. Safe(Record(h, rec))
  BY <1>4, <1>8, <1>10, SafeRecord
<1>12. r.segEpoch = ram.segEpoch /\ r.floor = ram.floor /\ r.next = ram.next
  BY <1>4 DEF RamSet
<1>13. o.placed = Append(op.placed, sl) /\ o.call = op.call
  BY <1>3 DEF CommitSet, ReclaimSet
<1> HIDE DEF rec, r, o
<1>14. /\ Bears(Record(h, rec)) /\ Books(g, faults)
       /\ \A q : q.segEpoch = ram.segEpoch => Sees(g, q)
       /\ \A t, w : Names(flash, t, w) /\ t.value.seg \in Segments => Names(g, t, w)
       /\ Names(g, Slot(rec.key, Place(h, rec.at, ram.segEpoch[h])), TRUE)
  BY <1>2, <1>5, <1>8, RecordTrue
<1>15. Names(g, sl, TRUE)
  BY <1>8, <1>14
<1> HIDE DEF g, sl
<1>16. PlacedTrue(g, o) /\ PlanTrue(g, r, o, faults)
  <2>1. op.placed \in Seq(WholeSlots) /\ \A t \in Range(op.placed) : t.value.seg \in Segments /\ Names(flash, t, TRUE)
    BY <1>2, PlacedIn, JInvParts DEF PlacedTrue
  <2>2. sl \in WholeSlots
    <3>1. ram.segEpoch[h] \in Nat \ {0}
      <4>1. Dist(ram.tail, h) < ram.live
        BY <1>2, <1>4, <1>5 DEF RingMirrored
      <4> QED
        BY <1>2, <1>4, <4>1, LiveEpochs
    <3>2. Place(h, a, ram.segEpoch[h]) \in PlaceSet
      BY <1>4, <3>1 DEF Place, PlaceSet
    <3> QED
      BY <1>3, <3>2 DEF sl, Slot, WholeSlots, GlyphSlots
  <2>3. Range(o.placed) = Range(op.placed) \cup {sl}
    BY <1>13, <2>1, <2>2, RangeFacts
  <2> QED
    BY <1>2, <1>13, <1>14, <1>15, <2>1, <2>3 DEF PlacedTrue, PlanTrue
<1>17. Good(g, r, o, faults)
  BY <1>2, <1>12, <1>14, <1>16, JInvParts DEF Good, Ahead
<1> QED
  BY <1>1, <1>11, <1>14, <1>17, DoesTrue DEF g

\* insert(), of a mark or of a slot for a record in place.
LEMMA InsertTrue ==
  ASSUME SInv, JInv, NEW k \in Keys, NEW sl \in MarkSlots \cup WholeSlots, FreeProbes(k) # {}, Trusted(ram, op),
         sl \in WholeSlots => Names(flash, sl, TRUE), NEW c, NEW o,
         o.call \in {"commit", "reclaim"} => op.call \in {"commit", "reclaim"} /\ Range(o.placed) \subseteq Range(op.placed),
         o.call # "rebuild", Does(SlotAt(FirstFree(k), sl), Inserted(sl), c, o)
  PROVE  JInv'
<1> DEFINE i == FirstFree(k)
           r == Inserted(sl)
           g == Written(SlotAt(i, sl))
<1>1. i \in Slots /\ flash.index[i] = Erased
  BY FirstFreeIs
<1>2. sl \in WholeSlots => Names(flash, sl, faults <= 1)
  BY DEF Names, Backed
<1>3. r.segEpoch = ram.segEpoch /\ r.floor = ram.floor /\ r.next = ram.next
  BY SInvParts DEF RamSet, Inserted
<1> HIDE DEF i, r
<1>4. /\ Bears(SlotAt(i, sl)) /\ Books(g, faults) /\ Sees(g, r)
      /\ \A t, w : Names(flash, t, w) => Names(g, t, w)
  BY <1>1, <1>2, <1>3, SlotTrue
<1>5. Safe(SlotAt(i, sl))
  BY <1>1, SInvParts, SafeSlot
<1> HIDE DEF g
<1>6. PlacedTrue(g, o) /\ PlanTrue(g, r, o, faults)
  BY <1>4, JInvParts DEF PlacedTrue, PlanTrue
<1>7. Ahead(r, o)
  BY <1>3, JInvParts DEF Ahead
<1>8. Good(g, r, o, faults)
  BY <1>4, <1>6, <1>7 DEF Good
<1> QED
  BY <1>4, <1>5, <1>8, DoesTrue DEF g, i, r

LEMMA CommitSlotTrue ==
  ASSUME SInv, JInv, CommitSlot
  PROVE  JInv'
<1> DEFINE sl == Head(op.placed)
           rest == IF Len(op.placed) = 1 THEN None ELSE [op EXCEPT !.placed = Tail(@)]
<1>1. op.call = "commit" /\ op.todo = <<>>
  BY DEF CommitSlot
<1>2. op \in CommitSet /\ CommitSane(op) /\ ram.open /\ ~ram.stopped /\ Trusted(ram, op) /\ ram \in RamSet
  BY <1>1, SInvParts, OpIs, InCall
<1>3. op.placed \in Seq(WholeSlots) /\ op.placed # <<>>
  BY <1>1, <1>2 DEF CommitSet, CommitSane
<1>4. sl \in WholeSlots /\ sl \in Range(op.placed) /\ Range(Tail(op.placed)) \subseteq Range(op.placed)
  BY <1>3, RangeFacts
<1>5. sl.key \in Keys /\ Names(flash, sl, TRUE)
  <2>1. Names(flash, sl, TRUE)
    BY <1>1, <1>4, JInvParts DEF PlacedTrue
  <2> QED
    BY <1>4, <2>1 DEF WholeSlots, GlyphSlots, Keys
<1>6. /\ rest.call \in {"none", "commit"}
      /\ rest.call \in {"commit", "reclaim"} => Range(rest.placed) \subseteq Range(op.placed)
  <2>1. CASE Len(op.placed) = 1
    BY <2>1, OpCalls
  <2>2. CASE Len(op.placed) # 1
    <3>1. rest.placed = Tail(op.placed) /\ rest.call = "commit"
      BY <1>1, <1>2, <2>2 DEF CommitSet
    <3> QED
      BY <1>4, <3>1
  <2> QED
    BY <2>1, <2>2
<1>7. CASE FreeProbes(sl.key) = {}
  <2>1. Notes(ChainFull, None)
    BY <1>1, <1>7 DEF CommitSlot
  <2>2. SameMirror(ram, ChainFull)
    BY <1>2 DEF ChainFull, RamSet, SameMirror
  <2> QED
    BY <1>2, <2>1, <2>2, OpCalls, NotedTrue
<1>8. CASE FreeProbes(sl.key) # {}
  <2>1. Does(SlotAt(FirstFree(sl.key), sl), Inserted(sl), count, rest)
    BY <1>1, <1>8 DEF CommitSlot
  <2> HIDE DEF sl, rest
  <2>2. /\ rest.call \in {"commit", "reclaim"} => op.call \in {"commit", "reclaim"} /\ Range(rest.placed) \subseteq Range(op.placed)
        /\ rest.call # "rebuild" /\ sl \in MarkSlots \cup WholeSlots
    BY <1>1, <1>4, <1>6
  <2> QED
    BY <1>2, <1>5, <1>8, <2>1, <2>2, InsertTrue
<1> QED
  BY <1>7, <1>8

LEMMA MarkNoGlyphTrue ==
  ASSUME SInv, JInv, NEW k \in Blanks, MarkNoGlyph(k)
  PROVE  JInv'
<1> DEFINE full == [ram EXCEPT !.indexFull = TRUE, !.stopped = TRUE]
           sl == Slot(k, NoGlyph)
<1>1. op = None /\ ram.open /\ ~ram.stopped
  BY DEF MarkNoGlyph, Ready
<1>2. Trusted(ram, op) /\ ram \in RamSet /\ None.call = "none"
  BY <1>1, SInvParts, OpCalls DEF Trusted
<1>3. \/ Notes(full, None) \/ Notes(ChainFull, None)
      \/ FreeProbes(k) # {} /\ Does(SlotAt(FirstFree(k), sl), Inserted(sl), count, None)
  BY DEF MarkNoGlyph
<1>4. SameMirror(ram, full) /\ SameMirror(ram, ChainFull)
  BY <1>2 DEF ChainFull, RamSet, SameMirror
<1>5. sl \in MarkSlots /\ k \in Keys
  BY DEF MarkSlots, Keys
<1>6. sl \notin WholeSlots
  BY <1>5, SlotKinds DEF WholeSlots
<1> HIDE DEF full, sl
<1> QED
  BY <1>2, <1>3, <1>4, <1>5, <1>6, NotedTrue, InsertTrue

LEMMA ReclaimTrue ==
  ASSUME SInv, JInv, Reclaim
  PROVE  JInv'
<1>1. op.call = "room" /\ ram' = ram /\ flash' = flash /\ faults' = faults
  BY DEF Reclaim, Notes
<1>2. op'.call = "reclaim" /\ op'.placed = <<>>
  BY DEF Reclaim, Notes
<1>3. Trusted(ram, op)
  BY <1>1, InCall
<1>4. Range(op'.placed) = {}
  <2>1. <<>> \in Seq(Nat)
    OBVIOUS
  <2> QED
    BY <1>2, <2>1, RangeFacts
<1>5. PlacedTrue(flash, op') /\ PlanTrue(flash, ram', op', faults)
  BY <1>2, <1>4 DEF PlacedTrue, PlanTrue
<1>6. Ahead(ram', op')
  BY <1>1, <1>3, JInvParts DEF Ahead
<1> QED
  BY <1>1, <1>5, <1>6, JInvParts, QuietTrue

LEMMA CopySlotTrue ==
  ASSUME SInv, JInv, CopySlot
  PROVE  JInv'
<1> DEFINE sl == Head(op.placed)
           rest == [op EXCEPT !.placed = <<>>, !.counts = Tail(@)]
           c == [count EXCEPT ![FirstFree(sl.key)] = Head(op.counts) \div 2]
<1>1. op.call = "reclaim" /\ op.placed # <<>>
  BY DEF CopySlot
<1>2. op \in ReclaimSet /\ Trusted(ram, op) /\ ram \in RamSet
  BY <1>1, SInvParts, OpIs, InCall
<1>3. op.placed \in Seq(WholeSlots)
  BY <1>2 DEF ReclaimSet
<1>4. sl \in WholeSlots /\ sl \in Range(op.placed)
  BY <1>1, <1>3, RangeFacts
<1>5. sl.key \in Keys /\ Names(flash, sl, TRUE)
  <2>1. Names(flash, sl, TRUE)
    BY <1>1, <1>4, JInvParts DEF PlacedTrue
  <2> QED
    BY <1>4, <2>1 DEF WholeSlots, GlyphSlots, Keys
<1>6. rest.call = "reclaim" /\ rest.placed = <<>>
  BY <1>1, <1>2 DEF ReclaimSet
<1>7. Range(rest.placed) = {}
  <2>1. <<>> \in Seq(Nat)
    OBVIOUS
  <2> QED
    BY <1>6, <2>1, RangeFacts
<1> HIDE DEF rest
<1>8. CASE FreeProbes(sl.key) = {}
  <2>1. Notes(ChainFull, rest)
    BY <1>1, <1>8 DEF CopySlot, rest
  <2>2. ChainFull.segEpoch = ram.segEpoch /\ ChainFull.floor = ram.floor /\ ChainFull.next = ram.next
    BY <1>2 DEF ChainFull, RamSet
  <2>3. flash' = flash /\ faults' = faults /\ ram' = ChainFull /\ op' = rest
    BY <2>1 DEF Notes
  <2>4. PlacedTrue(flash, rest) /\ PlanTrue(flash, ChainFull, rest, faults)
    BY <1>6, <1>7 DEF PlacedTrue, PlanTrue
  <2>5. Sees(flash, ChainFull) /\ Ahead(ChainFull, rest)
    BY <1>2, <2>2, JInvParts DEF Sees, Ahead
  <2> QED
    BY <2>3, <2>4, <2>5, QuietTrue
<1>9. CASE FreeProbes(sl.key) # {}
  <2>1. Does(SlotAt(FirstFree(sl.key), sl), Inserted(sl), c, rest)
    BY <1>1, <1>9 DEF CopySlot, rest
  <2> HIDE DEF sl, c
  <2>2. sl \in MarkSlots \cup WholeSlots /\ Range(rest.placed) \subseteq Range(op.placed)
    BY <1>4, <1>7
  <2> QED
    BY <1>1, <1>2, <1>5, <1>6, <1>9, <2>1, <2>2, InsertTrue
<1> QED
  BY <1>8, <1>9

LEMMA RetireTailTrue ==
  ASSUME SInv, JInv, RetireTail
  PROVE  JInv'
<1> DEFINE o == [op EXCEPT !.gone = {ram.tail}]
           g == Written(Retire(ram.tail))
<1>1. op.call = "reclaim" /\ op.todo = <<>> /\ op.placed = <<>> /\ op.gone = {} /\ Does(Retire(ram.tail), RetiredRam, count, o)
  BY DEF RetireTail, RetiredRam
<1>2. /\ op \in ReclaimSet /\ ReclaimSane(ram, op) /\ Trusted(ram, op)
      /\ RingMirrored(flash, ram) /\ JournalMirrored(flash, ram) /\ CountsMirrored(flash, ram) /\ ram.tail \in Segments /\ ram \in RamSet
  BY <1>1, SInvParts, OpIs, InCall DEF RamSet
<1>3. ram.live >= 2 /\ op.named \in Nat
  <2>1. ~\E s \in Segments : op.gone = {s} /\ ~(Dist(ram.tail, s) < ram.live)
    BY <1>1
  <2>2. op.named \in Nat
    BY <1>2 DEF ReclaimSet
  <2> QED
    BY <1>2, <2>1, <2>2 DEF ReclaimSane
<1>4. Safe(Retire(ram.tail))
  BY <1>2, <1>3, RetireMirrors
<1>5. /\ RetiredRam.segEpoch = [ram.segEpoch EXCEPT ![ram.tail] = 0] /\ ram.segEpoch \in [Segments -> Nat]
      /\ RetiredRam.floor = ram.floor /\ RetiredRam.next = ram.next
  BY <1>2 DEF RamSet, RetiredRam
<1>6. \A u \in Segments : RetiredRam.segEpoch[u] \in {0, ram.segEpoch[u]}
  BY <1>5
<1>7. o.call = "reclaim" /\ o.placed = <<>>
  BY <1>1, <1>2 DEF ReclaimSet
<1> HIDE DEF o
<1>8. Bears(Retire(ram.tail)) /\ Books(g, faults) /\ Sees(g, RetiredRam)
  BY <1>2, <1>3, <1>6, RetireTrue
<1> HIDE DEF g
<1>9. Range(o.placed) = {}
  <2>1. <<>> \in Seq(Nat)
    OBVIOUS
  <2> QED
    BY <1>7, <2>1, RangeFacts
<1>10. PlacedTrue(g, o) /\ PlanTrue(g, RetiredRam, o, faults)
  BY <1>7, <1>9 DEF PlacedTrue, PlanTrue
<1>11. Ahead(RetiredRam, o)
  BY <1>2, <1>5, JInvParts DEF Ahead
<1>12. Good(g, RetiredRam, o, faults)
  BY <1>8, <1>10, <1>11 DEF Good
<1> QED
  BY <1>1, <1>4, <1>8, <1>12, DoesTrue DEF g

LEMMA EraseTailTrue ==
  ASSUME SInv, JInv, EraseTail
  PROVE  JInv'
<1> DEFINE r == [ram EXCEPT !.roomAsked = FALSE]
<1>1. op.call = "reclaim" /\ op.gone # {}
  BY DEF EraseTail
<1>2. /\ op \in ReclaimSet /\ ReclaimSane(ram, op) /\ Trusted(ram, op)
      /\ RingMirrored(flash, ram) /\ JournalMirrored(flash, ram) /\ CountsMirrored(flash, ram)
      /\ ram \in RamSet
  BY <1>1, SInvParts, OpIs, InCall
<1>3. PICK s \in Segments : op.gone = {s} /\ ~(Dist(ram.tail, s) < ram.live)
  BY <1>1, <1>2 DEF ReclaimSane
<1>4. Does(EraseSeg(s), r, count, op.room)
  BY <1>3 DEF EraseTail
<1> DEFINE g == Written(EraseSeg(s))
<1>5. Safe(EraseSeg(s))
  BY <1>2, <1>3, EraseMirrors
<1>6. r.segEpoch = ram.segEpoch /\ r.floor = ram.floor /\ r.next = ram.next
  BY <1>2 DEF RamSet
<1>7. op.room.call = "room"
  BY <1>2, OpCalls DEF ReclaimSet
<1>8. Bears(EraseSeg(s)) /\ Books(g, faults) /\ Sees(g, ram)
  BY <1>2, <1>3, EraseTrue
<1> HIDE DEF g, r
<1>9. Sees(g, r) /\ Ahead(r, op.room)
  BY <1>2, <1>6, <1>8, JInvParts DEF Sees, Ahead
<1>10. PlacedTrue(g, op.room) /\ PlanTrue(g, r, op.room, faults)
  BY <1>7, QuietOps
<1>11. Good(g, r, op.room, faults)
  BY <1>8, <1>9, <1>10 DEF Good
<1> QED
  BY <1>4, <1>5, <1>8, <1>11, DoesTrue DEF g

\* Numbers with the same remainder are equal or the divisor apart.
LEMMA ModApart ==
  ASSUME NEW m \in Nat \ {0}, NEW a \in Nat, NEW b \in Nat, a % m = b % m, a < b
  PROVE  a + m <= b
<1>1. /\ a = m * (a \div m) + (a % m) /\ a \div m \in Int /\ a % m \in Int
      /\ b = m * (b \div m) + (b % m) /\ b \div m \in Int /\ b % m \in Int
  OBVIOUS
<1> DEFINE p == a \div m
           q == b \div m
           r == a % m
<1>2. a = m * p + r /\ b = m * q + r /\ p \in Int /\ q \in Int /\ r \in Int
  BY <1>1
<1> HIDE DEF p, q, r
<1>3. p < q
  BY <1>2
<1>4. q - p - 1 \in Nat
  BY <1>2, <1>3
<1>5. m * (q - p - 1) >= 0 /\ m * (q - p - 1) = m * q - m * p - m
  BY <1>2, <1>4
<1>6. m * q \in Int /\ m * p \in Int
  BY <1>2
<1> QED
  BY <1>2, <1>5, <1>6

\* In a window no wider than the divisor, they are equal.
LEMMA ModWindow ==
  ASSUME NEW d \in Nat \ {0}, NEW w \in Nat, w <= d, NEW m \in Nat, NEW a \in Nat, NEW b \in Nat,
         m <= a, a < m + w, m <= b, b < m + w, a % d = b % d
  PROVE  a = b
<1>1. ~(a < b)
  <2> SUFFICES ASSUME a < b PROVE FALSE
    OBVIOUS
  <2>1. a + d <= b
    BY ModApart
  <2>2. \A x, y, z, u, v \in Nat : x <= y /\ y + z <= u /\ u < x + v => v > z
    OBVIOUS
  <2> QED
    BY <2>1, <2>2
<1>2. ~(b < a)
  <2> SUFFICES ASSUME b < a PROVE FALSE
    OBVIOUS
  <2>1. b + d <= a
    BY ModApart
  <2>2. \A x, y, z, u, v \in Nat : x <= y /\ y + z <= u /\ u < x + v => v > z
    OBVIOUS
  <2> QED
    BY <2>1, <2>2
<1> QED
  BY <1>1, <1>2

LEMMA BelowWindow == \A x, y, z, w \in Nat : x <= y /\ y < z + w => x < z + w
  OBVIOUS

LEMMA EpochNumbers == RebuildLimit \in Nat /\ EpochMod \in Nat /\ RebuildLimit <= EpochMod /\ EpochMod # 0
<1>1. RebuildLimit \in Nat /\ EpochMod \in Nat /\ RebuildLimit <= EpochMod /\ SegmentCount < RebuildLimit /\ SegmentCount \in Nat
  BY StoreAssumption
<1> QED
  BY <1>1

\* The bits a slot has of its epoch tell apart all the epochs in use.
LEMMA TrulyNames ==
  ASSUME SInv, JInv, NEW i \in Slots, flash.index[i] \in GlyphSlots, ~flash.index[i].torn,
         InWindow(flash, flash.seg[flash.index[i].value.seg].epoch),
         flash.index[i].value.epoch % EpochMod = flash.seg[flash.index[i].value.seg].epoch % EpochMod
  PROVE  Exact(flash, flash.index[i]) /\ Backed(flash, flash.index[i], faults <= 1)
<1> DEFINE a == flash.index[i].value.epoch
           b == flash.seg[flash.index[i].value.seg].epoch
           m == FloorOf(flash.journal)
<1>1. m \in Nat /\ a \in Nat /\ b \in Nat /\ flash.index[i].value.seg \in Segments
  BY LogTyped, SlotKinds
<1>2. m <= b /\ b < m + RebuildLimit
  BY DEF InWindow
<1>3. m <= a /\ a < m + RebuildLimit
  <2>1. m <= a
    BY JInvParts DEF Books, Dated
  <2>2. PICK s \in Segments : Live(flash, s) /\ a <= flash.seg[s].epoch
    BY JInvParts DEF Books, Dated
  <2>3. flash.seg[s].epoch \in Nat /\ flash.seg[s].epoch < m + RebuildLimit
    BY <2>2, LogTyped, JInvParts DEF Books, Within, InWindow
  <2>4. RebuildLimit \in Nat
    BY StoreAssumption
  <2> QED
    BY <1>1, <2>1, <2>2, <2>3, <2>4, BelowWindow
<1>4. RebuildLimit \in Nat /\ EpochMod \in Nat /\ RebuildLimit <= EpochMod /\ EpochMod # 0
  BY ONLY EpochNumbers
<1>5. a % EpochMod = b % EpochMod
  OBVIOUS
<1> HIDE DEF a, b, m
<1>6. a = b
  BY <1>1, <1>2, <1>3, <1>4, <1>5, ModWindow
<1>7. Exact(flash, flash.index[i])
  BY <1>6 DEF Exact, a, b
<1>8. flash.index[i] \in WholeSlots
  BY DEF WholeSlots
<1> QED
  BY <1>7, <1>8, JInvParts DEF Books, Backs

\* What a rebuild lists is in the log, and no older than its base.
LEMMA PlannedNames ==
  ASSUME SInv, JInv, RingMirrored(flash, ram), JournalMirrored(flash, ram), Trusted(ram, op), NEW e \in Planned
  PROVE  Names(flash, e.slot, faults <= 1) /\ BaseOf(ram) <= e.slot.value.epoch
<1>1. PICK s \in Segments : /\ Dist(ram.tail, s) < ram.live
                            /\ \E r \in Records(s) : /\ NamedBy(ram.segEpoch[s], s, r) # {}
                                                     /\ e.slot = Slot(r.key, Place(s, r.at, ram.segEpoch[s]))
  BY DEF Planned
<1>2. PICK r \in Records(s) : /\ NamedBy(ram.segEpoch[s], s, r) # {}
                              /\ e.slot = Slot(r.key, Place(s, r.at, ram.segEpoch[s]))
  BY <1>1
<1>3. e.slot.key = r.key /\ e.slot.value.seg = s /\ e.slot.value.at = r.at /\ e.slot.value.epoch = ram.segEpoch[s]
  BY <1>2 DEF Slot, Place
<1>4. Live(flash, s) /\ ram.segEpoch[s] = flash.seg[s].epoch /\ BaseOf(ram) <= flash.seg[s].epoch
  BY <1>1, RingLive, BaseLeast
<1>5. Exact(flash, e.slot)
  BY <1>3, <1>4 DEF Exact
<1>6. r \in flash.seg[s].recs
  BY SInvParts, RecordsAre
<1>7. Backed(flash, e.slot, faults <= 1)
  <2>1. CASE ~(faults <= 1) \/ AllWhole(flash)
    BY <1>3, <1>6, <2>1 DEF Backed, AllWhole
  <2>2. CASE faults <= 1 /\ NoTorn(flash)
    <3>1. PICK i : i \in NamedBy(ram.segEpoch[s], s, r)
      BY <1>2
    <3>2. /\ i \in Slots /\ flash.index[i] \in GlyphSlots
          /\ flash.index[i].key = r.key /\ flash.index[i].value.seg = s /\ flash.index[i].value.at = r.at
      BY <3>1, SInvParts, NamedByAre
    <3>3. flash.index[i].value.epoch % EpochMod = flash.seg[s].epoch % EpochMod
      BY <1>4, <3>1 DEF NamedBy
    <3>4. InWindow(flash, flash.seg[s].epoch)
      BY <1>4, JInvParts DEF Books, Within
    <3>5. Backed(flash, flash.index[i], faults <= 1)
      BY <2>2, <3>2, <3>3, <3>4, TrulyNames DEF NoTorn
    <3> QED
      BY <1>3, <3>2, <3>5 DEF Backed
  <2> QED
    BY <2>1, <2>2, JInvParts DEF Books, Lasting
<1> QED
  BY <1>3, <1>4, <1>5, <1>7 DEF Names

LEMMA RebuildTrue ==
  ASSUME SInv, JInv, Rebuild
  PROVE  JInv'
<1> DEFINE then == Room(op.budget, op.steps - 1, TRUE)
           wipe == [call |-> "wipe", todo |-> WipeSteps, then |-> [then EXCEPT !.steps = 0]]
           eats == [ram EXCEPT !.starved = FALSE]
           o == [call |-> "rebuild", stage |-> "base", plan |-> Plan, inserted |-> 0, room |-> then, base |-> BaseOf(ram)]
           starves == [ram EXCEPT !.starved = TRUE]
<1>1. /\ op.call = "room"
      /\ \/ Notes(Failed, wipe)
         \/ Notes(eats, o)
         \/ Failing /\ ram' = starves /\ op' = then /\ UNCHANGED <<flash, count>>
  BY DEF Rebuild, Failed, BaseOf
<1>2. /\ Trusted(ram, op) /\ RingMirrored(flash, ram) /\ JournalMirrored(flash, ram) /\ FlashSane(flash)
      /\ ram \in RamSet /\ RamSane(ram) /\ count \in [Slots -> 0 .. MaxCount]
  BY <1>1, SInvParts, InCall
<1>3. then.call = "room" /\ wipe.call = "wipe"
  BY DEF Room
<1>4. /\ SameMirror(ram, Failed) /\ SameMirror(ram, eats) /\ SameMirror(ram, starves)
      /\ eats.live = ram.live /\ eats.tail = ram.tail
  BY <1>2 DEF RamSet, SameMirror, Failed
<1>5. CASE Notes(Failed, wipe)
  <2> HIDE DEF wipe
  <2> QED
    BY <1>2, <1>3, <1>4, <1>5, NotedTrue
<1>6. CASE Notes(eats, o)
  <2>1. o.call = "rebuild" /\ o.plan = Plan /\ o.base = BaseOf(ram) /\ o.stage = "base"
    OBVIOUS
  <2> HIDE DEF o, eats
  <2>2. flash' = flash /\ ram' = eats /\ op' = o /\ faults' = faults
    BY <1>6 DEF Notes
  <2>3. \A e \in Range(Plan) : e \in Planned
    BY <1>2, PlanIs, RangeFacts
  <2>4. BaseOf(eats) = BaseOf(ram)
    BY <1>4 DEF BaseOf, SameMirror
  <2>5. PlacedTrue(flash, o) /\ PlanTrue(flash, eats, o, faults)
    BY <1>2, <2>1, <2>3, <2>4, PlannedNames DEF PlacedTrue, PlanTrue
  <2>6. Sees(flash, eats) /\ Ahead(eats, o)
    BY <1>2, <1>4, JInvParts DEF Sees, Ahead, SameMirror
  <2> QED
    BY <2>2, <2>5, <2>6, QuietTrue
<1>7. CASE Failing /\ ram' = starves /\ op' = then /\ UNCHANGED <<flash, count>>
  <2> HIDE DEF then, starves
  <2>1. faults' = faults + 1 /\ faults' \in Nat /\ flash' = flash
    BY <1>7, JInvParts DEF Failing
  <2>2. Sees(flash, starves) /\ Ahead(starves, then)
    BY <1>2, <1>4, JInvParts DEF Sees, Ahead, SameMirror
  <2>3. PlacedTrue(flash, then) /\ PlanTrue(flash, starves, then, faults')
    BY <1>3, QuietOps
  <2>4. Good(flash, starves, then, faults')
    BY <2>1, <2>2, <2>3, JInvParts DEF Good
  <2> QED
    BY <1>7, <2>1, <2>4 DEF JInv
<1> QED
  BY <1>1, <1>5, <1>6, <1>7

LEMMA RebuildBaseTrue ==
  ASSUME SInv, JInv, RebuildBase
  PROVE  JInv'
<1> DEFINE r == [ram EXCEPT !.entries = @ + 1, !.done = FALSE]
           o == [op EXCEPT !.stage = "erase"]
           g == Written(Base(op.base))
<1>1. op.call = "rebuild" /\ op.stage = "base" /\ Does(Base(op.base), r, count, o)
  BY DEF RebuildBase
<1>2. op \in RebuildSet /\ Trusted(ram, op) /\ ram \in RamSet /\ op.base \in Nat
  BY <1>1, RebuildIs
<1>3. Safe(Base(op.base))
  BY <1>2, SInvParts, SafeIndex
<1>4. /\ Bears(Base(op.base)) /\ Books(g, faults)
      /\ \A q : q.segEpoch = ram.segEpoch => Sees(g, q)
      /\ \A sl, w : Names(flash, sl, w) => Names(g, sl, w)
  BY <1>2, BaseTrue
<1>5. /\ r.segEpoch = ram.segEpoch /\ r.floor = ram.floor /\ r.next = ram.next /\ r.live = ram.live /\ r.tail = ram.tail
  BY <1>2 DEF RamSet
<1>6. o.call = "rebuild" /\ o.stage = "erase" /\ o.base = op.base /\ o.plan = op.plan
  BY <1>1, <1>2 DEF RebuildSet
<1> HIDE DEF r, o, g
<1>7. PlacedTrue(g, o) /\ PlanTrue(g, r, o, faults)
  <2>1. BaseOf(r) = BaseOf(ram)
    BY <1>5 DEF BaseOf
  <2>2. /\ op.base = BaseOf(ram)
        /\ \A e \in Range(op.plan) : Names(flash, e.slot, faults <= 1) /\ op.base <= e.slot.value.epoch
    BY <1>1, JInvParts DEF PlanTrue
  <2> QED
    BY <1>4, <1>6, <2>1, <2>2 DEF PlacedTrue, PlanTrue
<1>8. Good(g, r, o, faults)
  BY <1>2, <1>4, <1>5, <1>7, JInvParts DEF Good, Ahead
<1> QED
  BY <1>1, <1>3, <1>4, <1>8, DoesTrue DEF g

LEMMA RebuildEraseTrue ==
  ASSUME SInv, JInv, RebuildErase
  PROVE  JInv'
<1> DEFINE o == [op EXCEPT !.stage = "insert"]
           g == Written(Do("eraseIndex"))
<1>1. op.call = "rebuild" /\ op.stage = "erase" /\ Does(Do("eraseIndex"), ram, NoCounts, o)
  BY DEF RebuildErase
<1>2. op \in RebuildSet /\ Trusted(ram, op)
  BY <1>1, RebuildIs
<1>3. Safe(Do("eraseIndex"))
  BY SInvParts, SafeIndex
<1>4. /\ Bears(Do("eraseIndex")) /\ Books(g, faults) /\ Sees(g, ram)
      /\ \A sl, w : Names(flash, sl, w) => Names(g, sl, w)
      /\ g.index = BlankIndex
  BY EraseIndexTrue
<1>5. o.call = "rebuild" /\ o.base = op.base /\ o.plan = op.plan
  BY <1>1, <1>2 DEF RebuildSet
<1> HIDE DEF o, g
<1>6. PlacedTrue(g, o) /\ PlanTrue(g, ram, o, faults)
  <2>1. /\ op.base = BaseOf(ram)
        /\ \A e \in Range(op.plan) : Names(flash, e.slot, faults <= 1) /\ op.base <= e.slot.value.epoch
    BY <1>1, JInvParts DEF PlanTrue
  <2> QED
    BY <1>4, <1>5, <2>1, BlankNamesNone DEF PlacedTrue, PlanTrue
<1>7. Good(g, ram, o, faults)
  BY <1>2, <1>4, <1>6, JInvParts DEF Good, Ahead
<1> QED
  BY <1>1, <1>3, <1>4, <1>7, DoesTrue DEF g

LEMMA RebuildInsertTrue ==
  ASSUME SInv, JInv, RebuildInsert
  PROVE  JInv'
<1> DEFINE sl == Head(op.plan).slot
           i == FirstFree(sl.key)
           rest == [op EXCEPT !.plan = Tail(@)]
           more == [rest EXCEPT !.inserted = @ + 1]
           c == [count EXCEPT ![i] = Head(op.plan).count]
           g == Written(SlotAt(i, sl))
<1>1. /\ op.call = "rebuild" /\ op.stage = "insert" /\ op.plan # <<>>
      /\ \/ Notes(ram, rest)
         \/ StopWrites
         \/ FreeProbes(sl.key) # {} /\ Does(SlotAt(i, sl), ram, c, more)
  BY DEF RebuildInsert
<1>2. op \in RebuildSet /\ Trusted(ram, op) /\ op.plan \in Seq(PlanSet)
  BY <1>1, RebuildIs
<1>3. Head(op.plan) \in PlanSet /\ Head(op.plan) \in Range(op.plan) /\ Range(Tail(op.plan)) \subseteq Range(op.plan)
  BY <1>1, <1>2, HeadTail, RangeFacts
<1>4. sl \in WholeSlots /\ sl.key \in Keys
  BY <1>3 DEF PlanSet, WholeSlots, GlyphSlots, Keys
<1>5. /\ op.base = BaseOf(ram)
      /\ \A e \in Range(op.plan) : Names(flash, e.slot, faults <= 1) /\ op.base <= e.slot.value.epoch
      /\ \A j \in Slots : flash.index[j] \in GlyphSlots => op.base <= flash.index[j].value.epoch
  BY <1>1, JInvParts DEF PlanTrue
<1>6. Names(flash, sl, faults <= 1) /\ op.base <= sl.value.epoch
  BY <1>3, <1>5
<1>7. /\ rest.call = "rebuild" /\ rest.plan = Tail(op.plan) /\ rest.base = op.base /\ rest.stage = "insert"
      /\ more.call = "rebuild" /\ more.plan = Tail(op.plan) /\ more.base = op.base /\ more.stage = "insert"
  BY <1>1, <1>2 DEF RebuildSet
<1> HIDE DEF sl, rest, more
<1>8. CASE Notes(ram, rest)
  <2>1. flash' = flash /\ ram' = ram /\ op' = rest /\ faults' = faults
    BY <1>8 DEF Notes
  <2>2. PlacedTrue(flash, rest) /\ PlanTrue(flash, ram, rest, faults)
    BY <1>3, <1>5, <1>7 DEF PlacedTrue, PlanTrue
  <2>3. Ahead(ram, rest)
    BY <1>2, JInvParts DEF Ahead
  <2> QED
    BY <2>1, <2>2, <2>3, JInvParts, QuietTrue
<1>9. CASE FreeProbes(sl.key) # {} /\ Does(SlotAt(i, sl), ram, c, more)
  <2>1. i \in Slots /\ flash.index[i] = Erased
    BY <1>4, <1>9, FirstFreeIs
  <2>2. Safe(SlotAt(i, sl))
    BY <1>4, <2>1, SInvParts, SafeSlot
  <2> HIDE DEF c, i
  <2>3. /\ Bears(SlotAt(i, sl)) /\ Books(g, faults) /\ Sees(g, ram)
        /\ \A t, w : Names(flash, t, w) => Names(g, t, w)
        /\ g.index = [flash.index EXCEPT ![i] = sl]
    BY <1>4, <1>6, <2>1, SlotTrue
  <2> HIDE DEF g
  <2>4. \A j \in Slots : g.index[j] \in GlyphSlots => op.base <= g.index[j].value.epoch
    <3>1. \A j \in Slots : g.index[j] = IF j = i THEN sl ELSE flash.index[j]
      BY <2>1, <2>3, LogTyped
    <3> QED
      BY <1>5, <1>6, <3>1
  <2>5. PlacedTrue(g, more) /\ PlanTrue(g, ram, more, faults)
    BY <1>3, <1>5, <1>7, <2>3, <2>4 DEF PlacedTrue, PlanTrue
  <2>6. Good(g, ram, more, faults)
    BY <1>2, <2>3, <2>5, JInvParts DEF Good, Ahead
  <2> QED
    BY <1>9, <2>2, <2>3, <2>6, DoesTrue DEF g
<1> QED
  BY <1>1, <1>8, <1>9, StopWritesTrue

LEMMA RebuildDoneTrue ==
  ASSUME SInv, JInv, RebuildDone
  PROVE  JInv'
<1> DEFINE r == [ram EXCEPT !.done = TRUE, !.floor = op.base, !.usedSlots = op.inserted, !.liveSlots = op.inserted,
                            !.marks = 0, !.indexFull = FALSE, !.chainFull = FALSE]
           g == Written(Do("done"))
<1>1. op.call = "rebuild" /\ op.stage = "insert" /\ Does(Do("done"), r, count, op.room)
  BY DEF RebuildDone
<1>2. op \in RebuildSet /\ RebuildSane(flash, op) /\ ram \in RamSet /\ op.room.call = "room"
  BY <1>1, RebuildIs, OpCalls
<1>3. Safe(Do("done"))
  <2>1. Len(flash.journal) > 0
    BY <1>1, <1>2 DEF RebuildSane
  <2> QED
    BY <2>1, SInvParts, SafeIndex
<1>4. r.segEpoch = ram.segEpoch /\ r.floor = op.base /\ r.next = ram.next
  BY <1>2 DEF RamSet
<1> HIDE DEF r
<1>5. Bears(Do("done")) /\ Books(g, faults) /\ Sees(g, r) /\ op.base <= ram.next
  BY <1>1, <1>4, DoneTrue
<1> HIDE DEF g
<1>6. PlacedTrue(g, op.room) /\ PlanTrue(g, r, op.room, faults) /\ Ahead(r, op.room)
  BY <1>2, <1>4, <1>5, QuietOps DEF Ahead
<1>7. Good(g, r, op.room, faults)
  BY <1>5, <1>6 DEF Good
<1> QED
  BY <1>1, <1>3, <1>5, <1>7, DoesTrue DEF g

\* A part of a wipe, but the last.
LEMMA WipePartTrue ==
  ASSUME SInv, JInv, NEW what, Safe(Do(what)), op \in WipeSet, ram.wipe, NEW rest, NEW o, o = [op EXCEPT !.todo = rest],
         Does(Do(what), ram, count, o), Bears(Do(what)), Books(Written(Do(what)), faults), Sees(Written(Do(what)), ram)
  PROVE  JInv'
<1> DEFINE g == Written(Do(what))
<1>1. o.call = "wipe"
  BY OpCalls DEF WipeSet
<1> HIDE DEF g
<1>2. PlacedTrue(g, o) /\ PlanTrue(g, ram, o, faults)
  BY <1>1, QuietOps
<1>3. Ahead(ram, o)
  BY <1>1 DEF Ahead, Trusted
<1>4. Good(g, ram, o, faults)
  BY <1>2, <1>3 DEF Good, g
<1> QED
  BY <1>4, DoesTrue DEF g

LEMMA WipeStepTrue ==
  ASSUME SInv, JInv, WipeStep
  PROVE  JInv'
<1> DEFINE T3 == <<"eraseIndex", "eraseLog", "eraseState">>
           T2 == <<"eraseLog", "eraseState">>
           T1 == <<"eraseState">>
<1>1. op.call = "wipe"
  BY DEF WipeStep
<1>2. op \in WipeSet /\ WipeSane(flash, op) /\ ram.open /\ ram.wipe /\ ram.stopped
  BY <1>1, SInvParts, OpIs
<1>3. op.todo \in {WipeSteps, T3, T2, T1} /\ op.then \in {None} \cup RoomSet
  BY <1>2 DEF WipeSet, WipeTails
<1>4. Intact(flash) /\ flash \in FlashSet
  BY SInvParts DEF FlashSane
<1>5. /\ Len(op.todo) = 1 => Does(Do(Head(op.todo)), Fresh, NoCounts, op.then)
      /\ Len(op.todo) # 1 => Does(Do(Head(op.todo)), ram, count, [op EXCEPT !.todo = Tail(@)])
  BY DEF WipeStep, Fresh
<1>6. CASE op.todo = WipeSteps
  <2> DEFINE o == [op EXCEPT !.todo = T3]
  <2>1. Does(Do("wipe"), ram, count, o)
    BY <1>5, <1>6, WipeTailsAre
  <2>2. Safe(Do("wipe"))
    BY <1>4, SafeIndex
  <2> HIDE DEF o
  <2> QED
    BY <1>2, <2>1, <2>2, WipeWordTrue, WipePartTrue DEF o
<1>7. CASE op.todo = T3
  <2> DEFINE o == [op EXCEPT !.todo = T2]
  <2>1. Does(Do("eraseIndex"), ram, count, o)
    BY <1>5, <1>7, WipeTailsAre
  <2>2. Safe(Do("eraseIndex"))
    BY <1>4, SafeIndex
  <2> HIDE DEF o
  <2> QED
    BY <1>2, <2>1, <2>2, EraseIndexTrue, WipePartTrue DEF o
<1>8. CASE op.todo = T2
  <2> DEFINE o == [op EXCEPT !.todo = T1]
  <2>1. Does(Do("eraseLog"), ram, count, o)
    BY <1>5, <1>8, WipeTailsAre
  <2>2. flash.wipe /\ flash.index = BlankIndex
    BY <1>2, <1>8, WipeTailsAre DEF WipeSane
  <2>3. Safe(Do("eraseLog"))
    BY <1>4, <2>2, SafeWipe
  <2> HIDE DEF o
  <2> QED
    BY <1>2, <2>1, <2>2, <2>3, EraseLogTrue, WipePartTrue DEF o
<1>9. CASE op.todo = T1
  <2> DEFINE g == Written(Do("eraseState"))
  <2>1. Does(Do("eraseState"), Fresh, NoCounts, op.then)
    BY <1>5, <1>9, WipeTailsAre
  <2>2. flash.wipe /\ flash.index = BlankIndex /\ flash.seg = [s \in Segments |-> BlankSegment]
    BY <1>2, <1>9, WipeTailsAre DEF WipeSane
  <2>3. Safe(Do("eraseState"))
    BY <1>4, <2>2, SafeWipe
  <2>4. Bears(Do("eraseState")) /\ Books(g, faults) /\ Sees(g, Fresh)
    BY <2>2, EraseStateTrue
  <2> HIDE DEF g
  <2>5. PlacedTrue(g, op.then) /\ PlanTrue(g, Fresh, op.then, faults)
    BY <1>3, OpCalls, QuietOps
  <2>6. Ahead(Fresh, op.then)
    <3>1. 0 <= 1
      OBVIOUS
    <3> QED
      BY <3>1, FreshIs DEF Ahead
  <2>7. Good(g, Fresh, op.then, faults)
    BY <2>4, <2>5, <2>6 DEF Good
  <2> QED
    BY <2>1, <2>3, <2>4, <2>7, DoesTrue DEF g
<1> QED
  BY <1>3, <1>6, <1>7, <1>8, <1>9

----------------------------------------------------------------------------
(* Every behaviour. *)

LEMMA InitTrue ==
  ASSUME Init
  PROVE  JInv
<1>1. flash = Blank /\ ram = Fresh /\ op = None /\ faults = 0
  BY DEF Init, Fresh
<1>2. Books(Blank, 0) /\ Sees(Blank, Fresh)
  BY NothingWrong DEF Blank
<1>3. PlacedTrue(Blank, None) /\ PlanTrue(Blank, Fresh, None, 0)
  BY OpCalls, QuietOps
<1>4. Ahead(Fresh, None)
  <2>1. 0 <= 1
    OBVIOUS
  <2> QED
    BY <2>1, FreshIs DEF Ahead
<1> QED
  BY <1>1, <1>2, <1>3, <1>4 DEF JInv, Good

LEMMA StepTrue ==
  ASSUME SInv, JInv, [Next]_vars
  PROVE  JInv'
<1>1. CASE Open
  BY <1>1, OpenTrue
<1>2. CASE MoveHead
  BY <1>2, MoveHeadTrue
<1>3. CASE PlaceRecord
  BY <1>3, PlaceRecordTrue
<1>4. CASE CommitSlot
  BY <1>4, CommitSlotTrue
<1>5. CASE Reclaim
  BY <1>5, ReclaimTrue
<1>6. CASE CopySlot
  BY <1>6, CopySlotTrue
<1>7. CASE RetireTail
  BY <1>7, RetireTailTrue
<1>8. CASE EraseTail
  BY <1>8, EraseTailTrue
<1>9. CASE Rebuild
  BY <1>9, RebuildTrue
<1>10. CASE RebuildBase
  BY <1>10, RebuildBaseTrue
<1>11. CASE RebuildErase
  BY <1>11, RebuildEraseTrue
<1>12. CASE RebuildInsert
  BY <1>12, RebuildInsertTrue
<1>13. CASE RebuildDone
  BY <1>13, RebuildDoneTrue
<1>14. CASE WipeStep
  BY <1>14, WipeStepTrue
<1>15. CASE LastFace
  BY <1>15, LastFaceTrue
<1>16. CASE RoomMade \/ Wipe \/ MarkFull \/ \E budget \in {"Idle", "Open"} : MakeRoom(budget)
  BY <1>16, FlagsTrue
<1>17. ASSUME NEW b \in Batches, Commit(b) PROVE JInv'
  BY <1>17, CommitTrue
<1>18. ASSUME NEW k \in Blanks, MarkNoGlyph(k) PROVE JInv'
  BY <1>18, MarkNoGlyphTrue
<1>19. ASSUME NEW k \in Glyphs, NoteDrawn(k) PROVE JInv'
  <2>1. flash' = flash /\ ram' = ram /\ op' = op /\ faults' = faults
    BY <1>19 DEF NoteDrawn
  <2> QED
    BY <2>1, SameTrue
<1>20. CASE UNCHANGED vars
  <2>1. flash' = flash /\ ram' = ram /\ op' = op /\ faults' = faults
    BY <1>20 DEF vars
  <2> QED
    BY <2>1, SameTrue
<1> QED
  BY <1>1, <1>2, <1>3, <1>4, <1>5, <1>6, <1>7, <1>8, <1>9, <1>10, <1>11, <1>12, <1>13, <1>14, <1>15, <1>16,
     <1>17, <1>18, <1>19, <1>20 DEF Next, Proceed

\* What a lookup finds is a slot of the key's that names a record.
LEMMA FoundIs ==
  ASSUME SInv, NEW k \in Glyphs, Find(k) = "Found"
  PROVE  \E i \in Slots : /\ flash.index[i] = FindAt(k) /\ FindAt(k) \in GlyphSlots /\ FindAt(k).key = k
                          /\ ValidRecord(k, FindAt(k).value) # {}
<1> DEFINE stops == {p \in Probes : Stops(k, p)}
           i == Probe(k, Min(stops))
<1>1. FindAt(k) # Erased /\ FindAt(k).value # NoGlyph
  BY DEF Find, SlotErased
<1>2. stops # {} /\ FindAt(k) = flash.index[i]
  BY <1>1 DEF FindAt
<1>3. Min(stops) \in stops
  <2>1. stops \in SUBSET Nat
    BY StoreFacts DEF Probes
  <2> HIDE DEF stops
  <2> QED
    BY <1>2, <2>1, MinOfNat
<1>4. Min(stops) \in Probes /\ Stops(k, Min(stops))
  BY <1>3
<1> HIDE DEF stops
<1>5. i \in Slots
  <2>1. k \in Keys /\ Min(stops) \in Nat
    BY <1>4, StoreFacts DEF Probes, Keys
  <2>2. Home[k] \in Nat /\ SlotCount \in Nat \ {0}
    BY <2>1, StoreAssumption, StoreFacts
  <2>3. \A h, p \in Nat : h + p \in Nat
    OBVIOUS
  <2> QED
    BY <2>1, <2>2, <2>3, ModIn DEF Probe, Slots
<1>6. flash.index[i].key = k /\ ValidRecord(k, flash.index[i].value) # {}
  BY <1>1, <1>2, <1>4 DEF Stops, SlotErased
<1> HIDE DEF i
<1>7. flash.index[i] \in GlyphSlots
  BY <1>5, <1>6, SInvParts, SaneParts, GlyphKeySlot
<1> QED
  BY <1>2, <1>5, <1>6, <1>7

LEMMA NoneTorn ==
  ASSUME SInv, JInv
  PROVE  NothingTornServed
<1> SUFFICES ASSUME faults <= 1, NEW k \in Glyphs, Find(k) = "Found", NEW r \in ValidRecord(k, FindAt(k).value)
             PROVE  r.whole
  <2> SUFFICES ASSUME faults <= 1, NEW t \in Segments, NEW q \in flash.seg[t].recs, q.key \in Glyphs,
                      Find(q.key) = "Found", q \in ValidRecord(q.key, FindAt(q.key).value)
               PROVE  q.whole
    BY DEF NothingTornServed
  <2> QED
    OBVIOUS
<1>1. PICK i \in Slots : flash.index[i] = FindAt(k) /\ FindAt(k) \in GlyphSlots /\ FindAt(k).key = k
  BY FoundIs
<1> DEFINE sl == flash.index[i]
           s  == sl.value.seg
<1>2. s \in Segments /\ sl \in GlyphSlots /\ sl.key = k
  BY <1>1, SlotKinds
<1>3. /\ r \in flash.seg[s].recs /\ r.at = sl.value.at /\ r.key = k
      /\ ram.segEpoch[s] # 0 /\ ram.segEpoch[s] % EpochMod = sl.value.epoch % EpochMod
  BY <1>1 DEF ValidRecord, Records
<1>4. CASE AllWhole(flash)
  BY <1>2, <1>3, <1>4 DEF AllWhole
<1>5. CASE NoTorn(flash)
  <2>1. ram.segEpoch[s] = flash.seg[s].epoch /\ InWindow(flash, flash.seg[s].epoch)
    BY <1>2, <1>3, JInvParts DEF Sees
  <2>2. ~sl.torn
    BY <1>2, <1>5 DEF NoTorn
  <2>3. Backed(flash, sl, TRUE)
    BY <1>2, <1>3, <2>1, <2>2, TrulyNames
  <2>4. PICK q \in flash.seg[s].recs : q.at = sl.value.at /\ q.whole
    BY <2>3 DEF Backed
  <2>5. /\ flash.seg[s].recs \in SUBSET RecordSet
        /\ \A x, y \in flash.seg[s].recs : x # y => Apart(x, y)
    BY <1>2, SInvParts, SaneParts
  <2>6. q = r
    <3> DEFINE recs == flash.seg[s].recs
    <3>1. q \in recs /\ r \in recs /\ q.at = r.at
      BY <1>3, <2>4
    <3>2. recs \in SUBSET RecordSet /\ \A x, y \in recs : x # y => Apart(x, y)
      BY <2>5
    <3> HIDE DEF recs
    <3>3. \A x, y \in recs : x.at = y.at => x = y
      BY <3>2, OneAt
    <3> QED
      BY <3>1, <3>3
  <2> QED
    BY <2>4, <2>6
<1> QED
  BY <1>4, <1>5, JInvParts DEF Books, Lasting

\* No lookup answers with a record whose write was cut while at most one fault has
\* struck, in every behaviour: the invariant is what the slots say of the log.
THEOREM NothingTornIsServed == Spec => []NothingTornServed
<1>1. Init => SInv /\ JInv
  BY InitSound, InitTrue
<1>2. SInv /\ JInv /\ [Next]_vars => (SInv /\ JInv)'
  <2>1. SInv /\ [Next]_vars => SInv'
    BY StepKeeps
  <2> QED
    BY <2>1, StepTrue
<1>3. SInv /\ JInv => NothingTornServed
  BY NoneTorn
<1> QED
  BY <1>1, <1>2, <1>3, PTL DEF Spec

=============================================================================
