--------------------------- MODULE FlashGlyphStore ---------------------------
(***************************************************************************)
(* The persistent store of rendered glyphs in NOR flash                    *)
(* (lib/EpdFont/ttf/FlashGlyphStore.cpp): a ring of log segments, a        *)
(* write-once hash index and the journal of index rebuilds, with a power   *)
(* cut or a failed write possible at every flash operation.                *)
(*                                                                         *)
(* A segment holds Cap units and a glyph takes Size[k] of them: bytes and  *)
(* bitmaps are left out.  A record is [key, whole, at, end]; one whose     *)
(* write a cut stopped is not whole, and its key is Scrap when not even    *)
(* its header reads as a record.  A slot keeps the full epoch of the       *)
(* segment it names, so that the invariants can tell an epoch from another *)
(* that agrees with it in the EpochMod values a slot has bits for, and     *)
(* whether its own write was cut; the code reads neither.                  *)
(***************************************************************************)
EXTENDS Integers, FiniteSets, Sequences, FiniteSetsExt, Folds

CONSTANTS
  Glyphs,          \* keys the font has a glyph for
  Blanks,          \* keys it has none for
  Size,            \* units a glyph's record takes
  SegmentCount, Cap,
  SlotCount, Home, \* the index and each key's home slot
  MaxProbe,        \* kMaxProbe
  LoadLimit,       \* slots in use past which the index is full
  StaleLimit,      \* stale slots for which a rebuild pays
  EpochMod,        \* kSlotEpochMask + 1
  RebuildLimit,    \* kRebuildEpochLimit
  RebuildSpan,     \* kRebuildEpochSpan
  FreeTarget,      \* kFreeSegmentsTarget
  JournalEntries,  \* kJournalEntries
  MaxCount,        \* the most a slot's use count says, 3 in the code
  MaxBatch,        \* bound: keys in a batch
  MaxFaults        \* bound: power cuts, failed writes and refused allocations

Keys     == Glyphs \cup Blanks
Segments == 0 .. SegmentCount - 1
Slots    == 0 .. SlotCount - 1
Scrap    == "scrap"

ASSUME StoreAssumption ==
  /\ SegmentCount \in Nat \ {0, 1} /\ Cap \in Nat \ {0}
  /\ SlotCount \in Nat \ {0} /\ MaxProbe \in 1 .. SlotCount
  /\ LoadLimit \in 1 .. SlotCount - 1
  /\ Home \in [Keys -> Slots] /\ Size \in [Glyphs -> 1 .. Cap]
  /\ SegmentCount < RebuildLimit /\ RebuildLimit <= EpochMod
  /\ RebuildSpan < RebuildLimit
  /\ {StaleLimit, EpochMod, RebuildLimit, RebuildSpan, FreeTarget, JournalEntries,
      MaxCount, MaxBatch, MaxFaults} \subseteq Nat
  /\ Glyphs \cap Blanks = {} /\ Scrap \notin Keys

VARIABLES
  flash,  \* what a power cut leaves: [seg, index, journal, wipe]
  ram,    \* the open store's fields
  count,  \* useCounts_: draws counted for each slot, halved by a copy
  op,     \* the call in progress and what is left of it
  faults

vars == <<flash, ram, count, op, faults>>

-----------------------------------------------------------------------------
(* Flash *)

Place(s, at, epoch) == [seg |-> s, at |-> at, epoch |-> epoch]
NoGlyph == Place(0, 0, 0)
Slot(k, v) == [key |-> k, value |-> v, torn |-> FALSE]
Erased  == Slot(Scrap, NoGlyph)
Junk    == [Erased EXCEPT !.torn = TRUE]

BlankSegment == [header |-> "blank", epoch |-> 0, recs |-> {}]
BlankIndex   == [i \in Slots |-> Erased]

Blank == [seg |-> [s \in Segments |-> BlankSegment], index |-> BlankIndex,
          journal |-> <<>>, wipe |-> FALSE]

\* The flash operations the store does, each one program or erase call that a
\* power cut can stop.
Header(s, e)  == [do |-> "header", s |-> s, epoch |-> e]
Record(s, r)  == [do |-> "record", s |-> s, rec |-> r]
SlotAt(i, sl) == [do |-> "slot", i |-> i, slot |-> sl]
Retire(s)     == [do |-> "retire", s |-> s]
EraseSeg(s)   == [do |-> "erase", s |-> s]
Base(b)       == [do |-> "base", base |-> b]
Do(what)      == [do |-> what]   \* "done", "eraseIndex", "wipe", "eraseLog", "eraseState"

\* What a call that succeeds leaves.
Written(p) ==
  CASE p.do = "header"     -> [flash EXCEPT !.seg[p.s].header = "live", !.seg[p.s].epoch = p.epoch]
    [] p.do = "record"     -> [flash EXCEPT !.seg[p.s].recs = @ \cup {p.rec}]
    [] p.do = "slot"       -> [flash EXCEPT !.index[p.i] = p.slot]
    [] p.do = "retire"     -> [flash EXCEPT !.seg[p.s].header = "retired"]
    [] p.do = "erase"      -> [flash EXCEPT !.seg[p.s] = BlankSegment]
    [] p.do = "base"       -> [flash EXCEPT !.journal = Append(@, [base |-> p.base, done |-> FALSE])]
    [] p.do = "done"       -> [flash EXCEPT !.journal[Len(flash.journal)].done = TRUE]
    [] p.do = "eraseIndex" -> [flash EXCEPT !.index = BlankIndex]
    [] p.do = "wipe"       -> [flash EXCEPT !.wipe = TRUE]
    [] p.do = "eraseLog"   -> [flash EXCEPT !.seg = [s \in Segments |-> BlankSegment]]
    [] p.do = "eraseState" -> [flash EXCEPT !.journal = <<>>, !.wipe = FALSE]

\* What one that a cut or a failure stops may leave: bytes with more 1 bits than
\* were written (NorFlash.h), or some sectors erased and some not.  A torn slot
\* may read as the same key at a later place of the segment.
Torn(p) == {flash} \cup (
  CASE p.do = "header" -> {[flash EXCEPT !.seg[p.s].header = "torn"]}
    [] p.do = "record" ->
         {[flash EXCEPT !.seg[p.s].recs = @ \cup {[p.rec EXCEPT !.whole = FALSE]}]} \cup
         {[flash EXCEPT !.seg[p.s].recs =
             @ \cup {[key |-> Scrap, whole |-> FALSE, at |-> p.rec.at, end |-> e]}] : e \in p.rec.at + 1 .. Cap}
    [] p.do = "slot" ->
         {[flash EXCEPT !.index[p.i] = Junk]} \cup
         IF p.slot.value = NoGlyph THEN {}
         ELSE {[flash EXCEPT !.index[p.i] = [p.slot EXCEPT !.value.at = a, !.torn = TRUE]] : a \in p.slot.value.at + 1 .. Cap - 1}
    [] p.do = "erase" ->
         {[flash EXCEPT !.seg[p.s] = [BlankSegment EXCEPT !.recs = {r \in flash.seg[p.s].recs : r.at >= a}]] : a \in 0 .. Cap}
    [] p.do = "base" -> {[flash EXCEPT !.journal = Append(@, [base |-> 0, done |-> FALSE])]}
    [] p.do = "eraseIndex" ->
         {[flash EXCEPT !.index = [i \in Slots |-> IF i < n THEN Erased ELSE flash.index[i]]] : n \in Slots}
    [] p.do = "eraseLog" ->
         {[flash EXCEPT !.seg = [s \in Segments |-> IF s < n THEN BlankSegment ELSE flash.seg[s]]] : n \in Segments}
    [] OTHER -> {Written(p)})

-----------------------------------------------------------------------------
(* Reading *)

Following(s) == IF s + 1 = SegmentCount THEN 0 ELSE s + 1

\* The records a walk of the segment steps over, and where writing resumes.
Records(s)  == {r \in flash.seg[s].recs : r.key # Scrap}
Resume(s)   == Max({0} \cup {r.end : r \in flash.seg[s].recs})

Probe(k, p)    == (Home[k] + p) % SlotCount
Probes         == 0 .. MaxProbe - 1
SlotErased(sl) == sl = Erased

\* The probe of a key reaches slot i before any erased one.
Reaches(k, i) ==
  \E p \in Probes : Probe(k, p) = i /\ \A q \in 0 .. p : ~SlotErased(flash.index[Probe(k, q)])

\* findSlot(): the slots that name record r of segment s.
NamedBy(epoch, s, r) ==
  {i \in Slots : /\ flash.index[i].key = r.key /\ Reaches(r.key, i)
                 /\ flash.index[i].value.seg = s /\ flash.index[i].value.at = r.at
                 /\ flash.index[i].value.epoch % EpochMod = epoch % EpochMod}

\* The head's fill bounds the other segments too.
ValidRecordInHeadsFill(k, v) ==
  {r \in Records(v.seg) : /\ ram.segEpoch[v.seg] # 0 /\ ram.segEpoch[v.seg] % EpochMod = v.epoch % EpochMod
                         /\ r.at = v.at /\ r.key = k /\ r.end <= ram.used}

\* The live record a slot names: by its segment and the low bits of its epoch.
\* At most one, so a set of one or none.
ValidRecord(k, v) ==
  {r \in Records(v.seg) :
     /\ ram.segEpoch[v.seg] # 0 /\ ram.segEpoch[v.seg] % EpochMod = v.epoch % EpochMod
     /\ r.at = v.at /\ r.key = k
     /\ r.end <= (IF v.seg = ram.head THEN ram.used ELSE Cap)}

\* The probes a lookup stops at; it answers with the first.
Stops(k, p) == LET sl == flash.index[Probe(k, p)]
               IN \/ SlotErased(sl)
                  \/ sl.key = k /\ (sl.value = NoGlyph \/ ValidRecord(k, sl.value) # {})

FindAt(k) == LET stops == {p \in Probes : Stops(k, p)}
             IN IF stops = {} THEN Erased ELSE flash.index[Probe(k, Min(stops))]

Find(k) == LET found == FindAt(k)
           IN IF ~ram.open \/ SlotErased(found) THEN "NotStored"
              ELSE IF found.value = NoGlyph THEN "NoGlyph" ELSE "Found"

-----------------------------------------------------------------------------
(* The ring and the counters in RAM *)

Closed == [open |-> FALSE, segEpoch |-> [s \in Segments |-> 0], head |-> 0, tail |-> 0, live |-> 0,
           used |-> 0, next |-> 1, liveSlots |-> 0, usedSlots |-> 0, marks |-> 0,
           entries |-> 0, done |-> TRUE, floor |-> 0,
           chainFull |-> FALSE, indexFull |-> FALSE, roomAsked |-> FALSE,
           starved |-> FALSE, wipe |-> FALSE, stopped |-> FALSE]

LiveHeaders == {s \in Segments : flash.seg[s].header = "live"}

\* The run of n segments that ends at the newest, each older than the next.
Run(head, n) ==
  \A i \in 1 .. n - 1 :
    LET s == (head - i + SegmentCount) % SegmentCount
    IN s \in LiveHeaders /\ flash.seg[s].epoch < flash.seg[Following(s)].epoch

\* open(): findRing(), readJournal(), the slots counted and the wipe word.
Reopened ==
  LET head  == CHOOSE s \in LiveHeaders : \A t \in LiveHeaders : flash.seg[t].epoch <= flash.seg[s].epoch
      live  == IF LiveHeaders = {} THEN 0 ELSE Max({n \in 1 .. SegmentCount : Run(head, n)})
      ring  == {(head - i + SegmentCount) % SegmentCount : i \in 0 .. live - 1}
      named == {r \in UNION {{<<s, t>> : t \in Records(s)} : s \in ring} :
                  NamedBy(flash.seg[r[1]].epoch, r[1], r[2]) # {}}
      closed == [Closed EXCEPT
        !.open = TRUE, !.wipe = flash.wipe, !.stopped = flash.wipe,
        !.usedSlots = Cardinality({i \in Slots : ~SlotErased(flash.index[i])}),
        !.marks = Cardinality({i \in Slots : flash.index[i].key # Scrap /\ flash.index[i].value = NoGlyph}),
        !.entries = Len(flash.journal),
        !.done = flash.journal = <<>> \/ flash.journal[Len(flash.journal)].done,
        !.floor = LET dones == {i \in DOMAIN flash.journal : flash.journal[i].done}
                  IN IF dones = {} THEN 0 ELSE flash.journal[Max(dones)].base]
  IN IF live = 0 THEN closed
     ELSE [closed EXCEPT
       !.segEpoch = [s \in Segments |-> IF s \in ring THEN flash.seg[s].epoch ELSE 0],
       !.head = head, !.tail = (head - live + 1 + SegmentCount) % SegmentCount, !.live = live,
       !.used = Resume(head), !.next = flash.seg[head].epoch + 1, !.liveSlots = Cardinality(named)]

Free(r)       == SegmentCount - r.live
EpochsLeft(r) == IF r.next - r.floor >= RebuildLimit THEN 0 ELSE RebuildLimit - (r.next - r.floor)
ToOpen(r)     == Min({Free(r), EpochsLeft(r)})
Fits(used, n) == n <= Cap - used

\* moveHead(): where the head moves, and the ring once it has.
NextHead == IF ram.live = 0 THEN ram.head ELSE Following(ram.head)
Moved == [ram EXCEPT !.segEpoch[NextHead] = ram.next, !.tail = IF ram.live = 0 THEN NextHead ELSE @,
                     !.head = NextHead, !.live = @ + 1, !.used = 0, !.next = @ + 1]


\* placeRecord() over a list of keys: the segments it opens.
Opens(used, ks) ==
  LET at[i \in 0 .. Len(ks)] ==
        IF i = 0 THEN <<used, 0>>
        ELSE IF Fits(at[i - 1][1], Size[ks[i]]) THEN <<at[i - 1][1] + Size[ks[i]], at[i - 1][2]>>
        ELSE <<Size[ks[i]], at[i - 1][2] + 1>>
  IN at[Len(ks)][2]

\* What makeRoom() does next.
Crowds(n)    == n >= StaleLimit
NeedsRebuild == ram.indexFull \/ ram.chainFull \/ EpochsLeft(ram) = 0
WaitsForOpen == \/ ~ram.done \/ ram.next - ram.floor >= RebuildSpan
                \/ Crowds(ram.usedSlots - ram.liveSlots - ram.marks)
NextStep(budget, tried) ==
  LET may == ~tried /\ (budget = "Open" \/ (~ram.starved /\ ram.entries < JournalEntries))
  IN CASE may /\ NeedsRebuild ->
            IF \/ ram.chainFull \/ EpochsLeft(ram) = 0 \/ ram.live < 2
               \/ Crowds(ram.usedSlots - ram.liveSlots)
            THEN "Rebuild" ELSE "Reclaim"
       [] ~(may /\ NeedsRebuild) /\ ram.live >= 2 /\ (ram.roomAsked \/ Free(ram) < FreeTarget) -> "Reclaim"
       [] OTHER -> IF may /\ budget = "Open" /\ WaitsForOpen THEN "Rebuild" ELSE "None"

-----------------------------------------------------------------------------
(* Steps *)

None     == [call |-> "none"]
NoCounts == [i \in Slots |-> 0]
\* The parts of wipe(): everything a lookup can reach goes first.
WipeSteps == <<"wipe", "eraseIndex", "eraseLog", "eraseState">>

Ready    == ram.open /\ op = None
Failing  == faults < MaxFaults /\ faults' = faults + 1

\* One flash operation.  It succeeds, and the call goes on; or the power is cut
\* in it; or it fails, which stops the writes and leaves a wipe pending, in
\* flash too unless that write fails as well.
Does(p, r, c, o) ==
  \/ flash' = Written(p) /\ ram' = r /\ count' = c /\ op' = o /\ UNCHANGED faults
  \/ /\ Failing /\ op' = None
     /\ \E f \in Torn(p) :
          \/ flash' = f /\ ram' = Closed /\ count' = NoCounts
          \/ /\ flash' \in {f, [f EXCEPT !.wipe = TRUE]}
             /\ ram' = [ram EXCEPT !.wipe = TRUE, !.stopped = TRUE]
             /\ UNCHANGED count

\* A step with no flash operation.
Notes(r, o) == ram' = r /\ op' = o /\ UNCHANGED <<flash, count, faults>>

Open == op = None /\ ram' = Reopened /\ count' = NoCounts /\ UNCHANGED <<flash, op, faults>>

\* Batches hold distinct keys that are not stored yet (GlyphBatch::add()).
Batches ==
  LET new == {g \in Glyphs : Find(g) = "NotStored"}
  IN {b \in UNION {[1 .. n -> new] : n \in 1 .. MaxBatch} : \A i, j \in DOMAIN b : b[i] = b[j] => i = j}

\* writeBatch() up to its first write: the batch is laid out and checked.
Commit(b) ==
  /\ Ready /\ ~ram.stopped
  /\ LET opens == Opens(IF ram.live = 0 THEN Cap ELSE ram.used, b)
     IN CASE ram.usedSlots + Len(b) > LoadLimit -> Notes([ram EXCEPT !.indexFull = TRUE, !.stopped = TRUE], None)
          [] ram.usedSlots + Len(b) <= LoadLimit /\ opens > Free(ram) ->
               Notes([ram EXCEPT !.roomAsked = TRUE, !.stopped = TRUE], None)
          [] ram.usedSlots + Len(b) <= LoadLimit /\ opens <= Free(ram) /\ opens > EpochsLeft(ram) ->
               Notes([ram EXCEPT !.stopped = TRUE], None)
          [] OTHER -> Notes(ram, [call |-> "commit", todo |-> b, placed |-> <<>>, keys |-> {b[i] : i \in DOMAIN b}])

Placing == op.call \in {"commit", "reclaim"} /\ op.todo # <<>> /\ (op.call = "reclaim" => op.placed = <<>>)
NeedsHead == ram.live = 0 \/ ~Fits(ram.used, Size[Head(op.todo)])

\* stopWrites(): the writes stop and a wipe is pending, in flash too.
StopWrites == Does(Do("wipe"), [ram EXCEPT !.wipe = TRUE, !.stopped = TRUE], count, None)

\* A segment taken for blank by its header alone.
MoveHeadByHeader ==
  /\ Placing /\ NeedsHead
  /\ IF ToOpen(ram) = 0 THEN StopWrites
     ELSE IF flash.seg[NextHead].header # "blank" THEN Does(EraseSeg(NextHead), ram, count, op)
     ELSE Does(Header(NextHead, ram.next), Moved, count, op)

\* moveHead(): the next segment is erased if it holds data, then opened; with none
\* free or no epoch left, which its callers rule out first, it fails.
MoveHead ==
  /\ Placing /\ NeedsHead
  /\ IF ToOpen(ram) = 0 THEN StopWrites
     ELSE IF flash.seg[NextHead] # BlankSegment THEN Does(EraseSeg(NextHead), ram, count, op)
     ELSE Does(Header(NextHead, ram.next), Moved, count, op)

PlaceRecord ==
  /\ Placing /\ ~NeedsHead
  /\ LET k   == Head(op.todo)
         end == ram.used + Size[k]
     IN Does(Record(ram.head, [key |-> k, whole |-> TRUE, at |-> ram.used, end |-> end]),
             [ram EXCEPT !.used = end], count,
             [op EXCEPT !.todo = Tail(@),
                        !.placed = Append(@, Slot(k, Place(ram.head, ram.used, ram.segEpoch[ram.head])))])

\* insert(): the first erased slot of the key's chain.
FreeProbes(k) == {p \in Probes : SlotErased(flash.index[Probe(k, p)])}
FirstFree(k)  == Probe(k, Min(FreeProbes(k)))
ChainFull     == [ram EXCEPT !.chainFull = TRUE, !.stopped = TRUE]
Inserted(sl)  == [ram EXCEPT !.usedSlots = @ + 1, !.marks = @ + (IF sl.value = NoGlyph THEN 1 ELSE 0),
                             !.liveSlots = @ + (IF sl.value = NoGlyph THEN 0 ELSE 1)]

CommitSlot ==
  /\ op.call = "commit" /\ op.todo = <<>>
  /\ LET sl   == Head(op.placed)
         rest == IF Len(op.placed) = 1 THEN None ELSE [op EXCEPT !.placed = Tail(@)]
     IN IF FreeProbes(sl.key) = {} THEN Notes(ChainFull, None)
        ELSE Does(SlotAt(FirstFree(sl.key), sl), Inserted(sl), count, rest)

MarkNoGlyph(k) ==
  /\ Ready /\ ~ram.stopped /\ Find(k) = "NotStored"
  /\ IF ram.usedSlots + 1 > LoadLimit THEN Notes([ram EXCEPT !.indexFull = TRUE, !.stopped = TRUE], None)
     ELSE IF FreeProbes(k) = {} THEN Notes(ChainFull, None)
     ELSE Does(SlotAt(FirstFree(k), Slot(k, NoGlyph)), Inserted(Slot(k, NoGlyph)), count, None)

\* noteDrawn(), once the counts are kept.
NoteDrawn(k) ==
  /\ Ready /\ Find(k) = "Found"
  /\ \E i \in Slots : /\ flash.index[i] = FindAt(k) /\ count[i] < MaxCount
                     /\ count' = [count EXCEPT ![i] = @ + 1]
  /\ UNCHANGED <<flash, ram, op, faults>>

\* faceIndex() taking the last face: a wipe is pending, but writes go on.
LastFace == Ready /\ ~ram.wipe /\ Does(Do("wipe"), [ram EXCEPT !.wipe = TRUE], count, None)

MarkFull == Ready /\ Notes([ram EXCEPT !.stopped = TRUE, !.roomAsked = TRUE], None)

(* Making room *)

\* makeRoom(): steps until there is enough room, one when idle.
Room(budget, steps, tried) == [call |-> "room", budget |-> budget, steps |-> steps, tried |-> tried]

MakeRoom(budget) ==
  /\ Ready /\ ~ram.wipe
  /\ Notes(ram, Room(budget, IF budget = "Idle" THEN 1 ELSE SegmentCount + 1, FALSE))

\* Room stays asked for with a single segment live, which nothing reclaims.
RoomMadeAsksOn ==
  /\ op.call = "room" /\ (op.steps = 0 \/ NextStep(op.budget, op.tried) = "None")
  /\ Notes([ram EXCEPT !.stopped = ram.roomAsked \/ NeedsRebuild], None)

RoomMade ==
  /\ op.call = "room" /\ (op.steps = 0 \/ NextStep(op.budget, op.tried) = "None")
  /\ LET asked == ram.live >= 2 /\ ram.roomAsked
     IN Notes([ram EXCEPT !.roomAsked = asked, !.stopped = asked \/ NeedsRebuild], None)

InOrder(R) == CHOOSE q \in [1 .. Cardinality(R) -> R] :
                \A i, j \in DOMAIN q : i < j => q[i].at < q[j].at
CountOf(epoch, s, r) == Max({0} \cup {count[i] : i \in NamedBy(epoch, s, r)})
KeysOf(q) == [i \in DOMAIN q |-> q[i].key]
SumSize(R) == FoldSet(LAMBDA r, n : n + Size[r.key], 0, R)

\* reclaimTail() up to its first write: the records drawn since the store was
\* opened are candidates, and at most half a segment of them is kept, the most
\* drawn first and the newest of those drawn as often; none when they do not fit
\* what may be opened.
Reclaim ==
  /\ op.call = "room" /\ op.steps > 0 /\ NextStep(op.budget, op.tried) = "Reclaim"
  /\ LET t     == ram.tail
         epoch == ram.segEpoch[t]
         named == {r \in Records(t) : NamedBy(epoch, t, r) # {}}
         drawn == {r \in named : CountOf(epoch, t, r) > 0}
         Before(r) == {q \in drawn : \/ CountOf(epoch, t, q) > CountOf(epoch, t, r)
                                     \/ CountOf(epoch, t, q) = CountOf(epoch, t, r) /\ q.at >= r.at}
         best  == {r \in drawn : SumSize(Before(r)) <= Cap \div 2}
         kept  == IF Opens(ram.used, KeysOf(InOrder(best))) <= ToOpen(ram) THEN InOrder(best) ELSE <<>>
     IN Notes(ram, [call |-> "reclaim", todo |-> KeysOf(kept), counts |-> [i \in DOMAIN kept |-> CountOf(epoch, t, kept[i])],
                    placed |-> <<>>, keys |-> {kept[i].key : i \in DOMAIN kept}, named |-> Cardinality(named),
                    gone |-> {}, room |-> [op EXCEPT !.steps = @ - 1]])

\* A copy's slot, whose count is the record's halved.  A full chain leaves the
\* copy unfindable and the index waiting for its rebuild.
CopySlot ==
  /\ op.call = "reclaim" /\ op.placed # <<>>
  /\ LET sl   == Head(op.placed)
         rest == [op EXCEPT !.placed = <<>>, !.counts = Tail(@)]
     IN IF FreeProbes(sl.key) = {} THEN Notes(ChainFull, rest)
        ELSE Does(SlotAt(FirstFree(sl.key), sl), Inserted(sl),
                  [count EXCEPT ![FirstFree(sl.key)] = Head(op.counts) \div 2], rest)

RetireTailUncounted ==
  /\ op.call = "reclaim" /\ op.todo = <<>> /\ op.placed = <<>> /\ op.gone = {}
  /\ Does(Retire(ram.tail), [ram EXCEPT !.segEpoch[ram.tail] = 0, !.tail = Following(@), !.live = @ - 1],
          count, [op EXCEPT !.gone = {ram.tail}])

\* The tail goes before the last copy has its slot.
RetireTailEarly ==
  /\ op.call = "reclaim" /\ op.todo = <<>> /\ op.gone = {}
  /\ Does(Retire(ram.tail),
          [ram EXCEPT !.segEpoch[ram.tail] = 0, !.tail = Following(@), !.live = @ - 1, !.liveSlots = @ - op.named],
          count, [op EXCEPT !.gone = {ram.tail}])

RetireTail ==
  /\ op.call = "reclaim" /\ op.todo = <<>> /\ op.placed = <<>> /\ op.gone = {}
  /\ Does(Retire(ram.tail),
          [ram EXCEPT !.segEpoch[ram.tail] = 0, !.tail = Following(@), !.live = @ - 1, !.liveSlots = @ - op.named],
          count, [op EXCEPT !.gone = {ram.tail}])

EraseTail ==
  /\ op.call = "reclaim" /\ op.gone # {}
  /\ \E s \in op.gone : Does(EraseSeg(s), [ram EXCEPT !.roomAsked = FALSE], count, op.room)

\* rebuildIndex() up to its first write: the records a slot names, from the tail
\* on; with the journal full the store is wiped instead.
LiveInOrder == [i \in 1 .. ram.live |-> (ram.tail + i - 1) % SegmentCount]
\* Every record gets a slot again, one whose write was cut before its slot too.
PlanOfAll ==
  LET Of(s) == LET q == InOrder(Records(s)) IN
        [i \in DOMAIN q |-> [slot |-> Slot(q[i].key, Place(s, q[i].at, ram.segEpoch[s])), count |-> 0]]
      upTo[n \in 0 .. ram.live] == IF n = 0 THEN <<>> ELSE upTo[n - 1] \o Of(LiveInOrder[n])
  IN upTo[ram.live]
Plan ==
  LET In(s) == InOrder({r \in Records(s) : NamedBy(ram.segEpoch[s], s, r) # {}})
      Of(s) == [i \in DOMAIN In(s) |->
                  [slot |-> Slot(In(s)[i].key, Place(s, In(s)[i].at, ram.segEpoch[s])),
                   count |-> CountOf(ram.segEpoch[s], s, In(s)[i])]]
      upTo[n \in 0 .. ram.live] == IF n = 0 THEN <<>> ELSE upTo[n - 1] \o Of(LiveInOrder[n])
  IN upTo[ram.live]

Rebuild ==
  /\ op.call = "room" /\ op.steps > 0 /\ NextStep(op.budget, op.tried) = "Rebuild"
  /\ LET then == Room(op.budget, op.steps - 1, TRUE)
     IN IF ram.entries >= JournalEntries
        THEN Notes([ram EXCEPT !.wipe = TRUE, !.stopped = TRUE],
                   [call |-> "wipe", todo |-> WipeSteps, then |-> [then EXCEPT !.steps = 0]])
        ELSE \/ Notes([ram EXCEPT !.starved = FALSE],
                      [call |-> "rebuild", stage |-> "base", plan |-> Plan, inserted |-> 0, room |-> then,
                       base |-> IF ram.live = 0 THEN ram.next ELSE ram.segEpoch[ram.tail]])
             \/ Failing /\ ram' = [ram EXCEPT !.starved = TRUE] /\ op' = then /\ UNCHANGED <<flash, count>>

RebuildBase ==
  /\ op.call = "rebuild" /\ op.stage = "base"
  /\ Does(Base(op.base), [ram EXCEPT !.entries = @ + 1, !.done = FALSE], count, [op EXCEPT !.stage = "erase"])

RebuildErase ==
  /\ op.call = "rebuild" /\ op.stage = "erase"
  /\ Does(Do("eraseIndex"), ram, NoCounts, [op EXCEPT !.stage = "insert"])

RebuildInsert ==
  /\ op.call = "rebuild" /\ op.stage = "insert" /\ op.plan # <<>>
  /\ LET sl   == Head(op.plan).slot
         rest == [op EXCEPT !.plan = Tail(@)]
     IN CASE Find(sl.key) = "Found" -> Notes(ram, rest)
          [] Find(sl.key) # "Found" /\ FreeProbes(sl.key) = {} -> StopWrites
          [] OTHER -> Does(SlotAt(FirstFree(sl.key), sl), ram,
                           [count EXCEPT ![FirstFree(sl.key)] = Head(op.plan).count],
                           [rest EXCEPT !.inserted = @ + 1])

\* The marks the index held are still counted once it is rebuilt.
RebuildDoneKeepsMarks ==
  /\ op.call = "rebuild" /\ op.stage = "insert" /\ op.plan = <<>>
  /\ Does(Do("done"),
          [ram EXCEPT !.done = TRUE, !.floor = op.base, !.usedSlots = op.inserted, !.liveSlots = op.inserted,
                      !.indexFull = FALSE, !.chainFull = FALSE],
          count, op.room)

RebuildDone ==
  /\ op.call = "rebuild" /\ op.stage = "insert" /\ op.plan = <<>>
  /\ Does(Do("done"),
          [ram EXCEPT !.done = TRUE, !.floor = op.base, !.usedSlots = op.inserted, !.liveSlots = op.inserted,
                      !.marks = 0, !.indexFull = FALSE, !.chainFull = FALSE],
          count, op.room)

\* wipe(): the wipe word first, the state sector that holds it last.
Wipe == Ready /\ ram.wipe /\ Notes([ram EXCEPT !.stopped = TRUE], [call |-> "wipe", todo |-> WipeSteps, then |-> None])

WipeStep ==
  /\ op.call = "wipe" /\ op.todo # <<>>
  /\ IF Len(op.todo) = 1
     THEN Does(Do(Head(op.todo)), [Closed EXCEPT !.open = TRUE], NoCounts, op.then)
     ELSE Does(Do(Head(op.todo)), ram, count, [op EXCEPT !.todo = Tail(@)])

-----------------------------------------------------------------------------

Init == flash = Blank /\ ram = [Closed EXCEPT !.open = TRUE] /\ count = NoCounts /\ op = None /\ faults = 0

\* The steps of a call in progress.
Proceed == \/ MoveHead \/ PlaceRecord \/ CommitSlot
           \/ Reclaim \/ CopySlot \/ RetireTail \/ EraseTail
           \/ Rebuild \/ RebuildBase \/ RebuildErase \/ RebuildInsert \/ RebuildDone
           \/ WipeStep \/ RoomMade

Next == \/ Open \/ Proceed \/ Wipe \/ LastFace \/ MarkFull
        \/ \E b \in Batches : Commit(b)
        \/ \E k \in Blanks : MarkNoGlyph(k)
        \/ \E k \in Glyphs : NoteDrawn(k)
        \/ \E budget \in {"Idle", "Open"} : MakeRoom(budget)

Spec == Init /\ [][Next]_vars

-----------------------------------------------------------------------------

(* Properties *)

\* The shape of the flash and of the counts; and no counter of slots runs below
\* zero where makeRoom() subtracts one from another (crowds()).
FlashTypeOK ==
  /\ flash.seg \in [Segments -> [header : {"blank", "live", "torn", "retired"}, epoch : Nat,
                                 recs : SUBSET [key : Keys \cup {Scrap}, whole : BOOLEAN, at : 0 .. Cap, end : 1 .. Cap]]]
  /\ flash.index \in [Slots -> [key : Keys \cup {Scrap}, torn : BOOLEAN,
                                value : [seg : Segments, at : 0 .. Cap, epoch : Nat]]]
  /\ ram.liveSlots + ram.marks <= ram.usedSlots
  /\ count \in [Slots -> 0 .. MaxCount]

\* "Every byte is programmed at most once between erases": no record is written
\* over what an earlier one, or a cut write, left in its segment; a slot that is not
\* erased keeps its value until the index is erased; and a segment gets a header
\* only once nothing of its old contents is left.
WriteOnce ==
  [][/\ \A s \in Segments : \A q \in flash.seg[s].recs, r \in flash'.seg[s].recs :
          q \in flash'.seg[s].recs /\ q # r => q.end <= r.at \/ r.end <= q.at
     /\ \A i \in Slots : flash.index[i] # Erased => flash'.index[i] \in {flash.index[i], Erased}
     /\ \A s \in Segments :
          LET h == flash.seg[s].header  h2 == flash'.seg[s].header
          IN /\ h # "blank" => h2 \in {h, "blank", "retired"}
             /\ h = "blank" /\ h2 # "blank" => flash.seg[s].recs = {}]_vars

\* A lookup never answers with a record whose write was cut, wherever the power
\* went: in a commit, a reclaim's copies, a rebuild or a wipe.  After one fault, that
\* is: a slot and then a record cut in two sessions can defeat it, see README.
NothingTornServed ==
  faults <= 1 => \A s \in Segments : \A r \in flash.seg[s].recs :
    ~r.whole /\ r.key \in Glyphs /\ Find(r.key) = "Found" => r \notin ValidRecord(r.key, FindAt(r.key).value)

TornGlyphSlots == {i \in Slots : flash.index[i].torn /\ flash.index[i].key \in Glyphs}

\* What a session keeps in RAM is what open() would find in flash: the ring, where
\* writing resumes, the next epoch, the journal and the counters of slots.  The
\* slots that name live records are exempt while a cut rebuild waits to be redone,
\* or a slot was cut: those the code counts once its slot is found.
OpenFindsWhatWasThere ==
  Ready /\ ~ram.wipe =>
    LET opened == Reopened
    IN \A f \in {"segEpoch", "head", "tail", "live", "used", "next", "usedSlots", "marks", "entries", "done", "floor"}
               \cup (IF ram.done /\ TornGlyphSlots = {} THEN {"liveSlots"} ELSE {}) : ram[f] = opened[f]

\* A glyph that was answered stays answered, the same way, through every step but
\* those that give it up: a rebuild, a wipe, or the retiring of its segment, and that
\* not if reclaimTail() chose to keep it, unless a full probe chain kept its copy from
\* a slot.  It chooses among what was drawn since the open, the most drawn first, and
\* keeps half a segment of it, or nothing where that does not fit: what the page on
\* show drew beyond that is dropped too.  In particular opening the store again forgets
\* nothing, where the power was not cut.
AnswersStay ==
  [][ram'.open /\ ~ram.wipe /\ op.call \notin {"rebuild", "wipe"} =>
       \A k \in Keys :
         \/ Find(k)' = Find(k) \/ Find(k) = "NotStored"
         \/ op.call = "reclaim" /\ op'.call = "reclaim" /\ op.gone # op'.gone
              /\ (k \notin op.keys \/ ram.chainFull)]_vars

\* After a chapter or book open made room the store takes glyphs again, whatever
\* had stopped it: a full ring, a full index, a full chain or spent epochs.  A
\* rebuild that found no memory is excepted, and so is a chain that the copies of a
\* reclaim find full once the rebuild is done: that one waits for the next open.
OpenMakesRoom ==
  [][/\ op.call = "room" /\ op' = None /\ op.budget = "Open" /\ ~ram.starved
     /\ ~(op.tried /\ ram.chainFull)
     => ~ram'.stopped]_vars

=============================================================================
