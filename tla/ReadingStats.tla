---------------------------- MODULE ReadingStats ----------------------------
(***************************************************************************)
(* The reading history on the card (src/ReadingStats.cpp,                  *)
(* ReadingStatsSlotFile.cpp): one file of two meta copies, each with a     *)
(* directory of the books, and of one slot more than there are books.  An  *)
(* update is copy-on-write: the book into a slot no entry refers to, a     *)
(* flush, the directory into the copy that is not the newest, a flush.     *)
(*                                                                         *)
(* The card may fail at any call and the power at any step.  A write that  *)
(* is not flushed, or fails, leaves its region as it was, torn or new.     *)
(* Rename and remove are atomic.  A book's figures are its seconds and the *)
(* time it was last read; the title and the days, which only its slot      *)
(* holds, are one flag.  Sums wrap at 2^32 seconds and seq at 2^32 updates *)
(* in the code, 136 years and more updates than the card lives: not here.  *)
(***************************************************************************)
EXTENDS Integers, FiniteSets, Sequences, FiniteSetsExt

CONSTANTS
  Books,        \* document ids
  NoBook,       \* the key of a free entry, and of a slot that fails its check
  EntryCount,   \* the book cap
  Legacies,     \* histories an older firmware may have left: [books, total, malformed]
  Edits,        \* the calls made: a subset of AllEdits
  MaxTime,      \* bound: the latest time a clock shows (0: not known)
  MaxSeq,       \* bound: no call once the history is this many generations old
  MaxDamages    \* bound: how often a region of the card goes bad

AllEdits == {"Session", "Finish", "Remove", "Rekey", "List"}

ASSUME EntryCountAssumption == EntryCount \in Nat \ {0}
ASSUME BoundsAssumption == MaxTime \in Nat /\ MaxSeq \in Nat /\ MaxDamages \in Nat
ASSUME NoBookAssumption == NoBook \notin Books
ASSUME EditsAssumption == Edits \subseteq AllEdits

Times == 0 .. MaxTime
Figures == [book : Books, seconds : Nat, lastRead : Times]
ASSUME LegaciesAssumption ==
  Legacies \subseteq [books : Seq(Figures), total : Nat, malformed : BOOLEAN]

Entries == 0 .. EntryCount - 1
\* A mutant: no spare slot.
SlotsNoSpare == 0 .. EntryCount - 1

Slots == 0 .. EntryCount        \* the spare an update writes into
Copies == {0, 1}

Free == [book |-> NoBook, slot |-> 0, seconds |-> 0, lastRead |-> 0]
Entry == [book : Books, slot : Slots, seconds : Nat, lastRead : Times] \cup {Free}
Directory == [Entries -> Entry]

\* A slot image; one that fails its check (zeros, torn, gone bad) has no book.
BadSlot == [book |-> NoBook, seconds |-> 0, lastRead |-> 0, days |-> FALSE]
Image == [book : Books, seconds : Nat, lastRead : Times, days : BOOLEAN] \cup {BadSlot}

\* A meta copy: its generation, the totals and the directory.
Empty == [e \in Entries |-> Free]
BadCopy == [valid |-> FALSE, seq |-> 0, total |-> 0, dir |-> Empty]
Copy == [valid : BOOLEAN, seq : Nat, total : Nat, dir : Directory]
ZeroedSlots == [s \in Slots |-> BadSlot]

NoOp == [edit |-> "List", book |-> NoBook, to |-> NoBook, seconds |-> 0, time |-> 0]
Sessions == [edit : {"Session"}, book : Books, to : Books, seconds : {0, 1}, time : Times]
Finishes == [edit : {"Finish"}, book : Books, to : Books, seconds : {0}, time : Times]
Moves == [edit : {"Remove", "Rekey"}, book : Books, to : Books, seconds : {0}, time : {0}]

VARIABLES
  (* the card *)
  exists,      \* reading-stats.bin
  meta, slot,  \* its copies and slots
  tmp,         \* reading-stats.bin.tmp is there
  hasLegacy, legacy,   \* reading-stats.json
  damages,
  unflushed,   \* the regions written and not flushed: of {"slot", "meta"}
  (* the store, and the call it is in *)
  prepared,    \* prepared_: what earlier firmware or a cut left has been seen to
  at,          \* where the call is; "idle" between calls
  op,          \* the call
  result,      \* of the last call
  live,        \* the copy the history was loaded from
  mem,         \* the meta in memory
  book,        \* the book being written
  index, target,       \* its entry and its slot
  pos, draft,  \* an import: the next book of the file, and the slots of the tmp file
  (* the list screen *)
  list         \* the directory it shows and the generation it was read at

card == <<exists, meta, slot, tmp, hasLegacy, legacy, damages, unflushed>>
call == <<prepared, at, op, result, live, mem, book, index, target, pos, draft, list>>
vars == <<card, call>>

-----------------------------------------------------------------------------
(* The directory. *)

Used(dir) == {e \in Entries : dir[e].book # NoBook}
BooksIn(dir) == {dir[e].book : e \in Used(dir)}
TakenSlots(dir) == {dir[e].slot : e \in Used(dir)}

FindEntry(dir, b) == CHOOSE e \in Entries : dir[e].book = b
FreeSlot(dir) == Min(Slots \ TakenSlots(dir))

\* A mutant: the book read least goes first, whenever that was.
EvictsLeastRead(r, s) == r.seconds < s.seconds

EvictsBefore(r, s) ==
  r.lastRead < s.lastRead \/ (r.lastRead = s.lastRead /\ r.seconds < s.seconds)

VictimOf(dir) == Min({e \in Used(dir) : \A f \in Used(dir) : ~EvictsBefore(dir[f], dir[e])})

EntryFor(r, s) == [book |-> r.book, slot |-> s, seconds |-> r.seconds, lastRead |-> r.lastRead]

\* Where a book goes that has no entry.
NewEntry(dir) == IF Used(dir) # Entries THEN Min(Entries \ Used(dir)) ELSE VictimOf(dir)

\* A copy as written out: it will be found valid if every book has a slot of its own.
Sealed(m) ==
  [m EXCEPT !.valid = \A e, f \in Used(m.dir) : m.dir[e].slot = m.dir[f].slot => e = f]

\* The copy a load takes: the newer of the valid ones, the first of equals.
Newest(c) ==
  /\ meta[c].valid
  /\ \A d \in Copies \ {c} : meta[d].valid =>
       meta[d].seq < meta[c].seq \/ (meta[d].seq = meta[c].seq /\ c < d)

\* The book of an entry: from its slot, or what its entry knows of it.
ReadBook(r) ==
  IF slot[r.slot].book = r.book THEN slot[r.slot]
  ELSE [book |-> r.book, seconds |-> r.seconds, lastRead |-> r.lastRead, days |-> FALSE]

NewBook(b) == [book |-> b, seconds |-> 0, lastRead |-> 0, days |-> TRUE]

Later(s, t) == IF s < t THEN t ELSE s

\* A call's change to the book it is about, which a rekey writes under another key.
Applied(o, r) ==
  [book |-> o.to,
   seconds |-> r.seconds + o.seconds,
   lastRead |-> CASE o.edit = "Session" /\ o.time # 0 -> o.time
                  [] o.edit = "Finish" -> Later(r.lastRead, o.time)
                  [] OTHER -> r.lastRead,
   days |-> r.days]

\* A mutant: the sums are not clamped.
TakeOutUnclamped(sum, seconds) == sum - seconds

TakeOut(sum, seconds) == IF seconds < sum THEN sum - seconds ELSE 0

\* A mutant: a rekey counts as a write that adds reading.
NeedsBookToRemove == op.edit = "Remove"

NeedsBook == op.edit \in {"Remove", "Rekey"}
\* A session of no seconds of a book the history does not hold: nothing to record.
NothingToRecord(known) == op.edit = "Session" /\ op.seconds = 0 /\ ~known

-----------------------------------------------------------------------------
(* Calls and returns. *)

NoList == [seq |-> 0, dir |-> Empty]

Init ==
  /\ exists = FALSE /\ tmp = FALSE /\ damages = 0 /\ unflushed = {}
  /\ meta = [c \in Copies |-> BadCopy] /\ slot = ZeroedSlots
  /\ hasLegacy \in BOOLEAN /\ legacy \in Legacies
  /\ prepared = FALSE /\ at = "idle" /\ op = NoOp /\ result = "None"
  /\ live = 0 /\ mem = BadCopy /\ book = BadSlot /\ index = 0 /\ target = 0
  /\ pos = 0 /\ draft = ZeroedSlots /\ list = NoList

\* What a call holds on the stack and the heap goes with it.
Released ==
  /\ at' = "idle" /\ op' = NoOp
  /\ live' = 0 /\ mem' = BadCopy /\ book' = BadSlot /\ index' = 0 /\ target' = 0
  /\ pos' = 0 /\ draft' = ZeroedSlots

Return(r) == Released /\ result' = r /\ UNCHANGED prepared

\* Nothing but the step of the call: the names say what a step leaves alone.
Files == <<exists, meta, slot, tmp, hasLegacy, legacy>>
ImportVars == <<pos, draft>>
EditVars == <<live, book, index, target>>
Outside == <<damages, list>>

\* The newest generation, 0 without a history.
CurrentSeq == IF exists /\ \E c \in Copies : Newest(c)
              THEN meta[CHOOSE c \in Copies : Newest(c)].seq ELSE 0

Ops == {o \in Sessions \cup Finishes : o.to = o.book}
       \cup {o \in Moves : (o.edit = "Remove") <=> (o.to = o.book)}
       \cup {NoOp}

Call(o) ==
  /\ at = "idle"
  /\ o.edit \in Edits
  /\ o.edit # "List" => CurrentSeq < MaxSeq
  /\ op' = o /\ at' = "prepare" /\ result' = "None"
  /\ UNCHANGED <<card, prepared, EditVars, mem, ImportVars, list>>

\* The first call of a boot clears up; an older firmware's history is imported.
Prepare ==
  /\ at = "prepare"
  /\ \/ prepared /\ at' = "load" /\ UNCHANGED <<tmp, prepared>>
     \/ /\ ~prepared
        /\ tmp' \in {FALSE, tmp}        \* the removal may fail
        /\ IF ~exists /\ hasLegacy
           THEN at' = "import" /\ UNCHANGED prepared
           ELSE at' = "load" /\ prepared' = TRUE
  /\ UNCHANGED <<exists, meta, slot, hasLegacy, legacy, damages, unflushed,
                 op, result, EditVars, mem, ImportVars, list>>

-----------------------------------------------------------------------------
(* The import, into a file of another name. *)

ImportCreate ==
  /\ at = "import"
  /\ tmp' = TRUE
  /\ mem' = BadCopy /\ draft' = ZeroedSlots /\ pos' = 1
  /\ at' = "scan"
  /\ UNCHANGED <<exists, meta, slot, hasLegacy, legacy, damages, unflushed,
                 prepared, op, result, EditVars, list>>

\* One book of the file: the first of a name, and past the cap those the cap would keep.
ImportBook ==
  /\ at = "scan" /\ pos <= Len(legacy.books)
  /\ LET r == legacy.books[pos]
         full == Used(mem.dir) = Entries
         e == NewEntry(mem.dir)
         s == IF full THEN mem.dir[e].slot ELSE FreeSlot(mem.dir)
     IN  IF r.book \in BooksIn(mem.dir) \/ (full /\ EvictsBefore(r, mem.dir[e]))
         THEN UNCHANGED <<mem, draft>>
         ELSE /\ draft' = [draft EXCEPT ![s] = [book |-> r.book, seconds |-> r.seconds,
                                                lastRead |-> r.lastRead, days |-> TRUE]]
              /\ mem' = [mem EXCEPT !.dir[e] = EntryFor(r, s)]
  /\ pos' = pos + 1
  /\ UNCHANGED <<card, prepared, at, op, result, EditVars, list>>

\* The meta is written, flushed and read back.
ImportSeal ==
  /\ at = "scan" /\ pos > Len(legacy.books) /\ ~legacy.malformed
  /\ mem' = Sealed([mem EXCEPT !.seq = 1, !.total = legacy.total])
  /\ mem'.valid
  /\ at' = "publish"
  /\ UNCHANGED <<card, prepared, op, result, EditVars, ImportVars, list>>

ImportRename ==
  /\ at = "publish"
  /\ exists' = TRUE /\ tmp' = FALSE
  /\ meta' = [c \in Copies |-> IF c = 0 THEN mem ELSE BadCopy]
  /\ slot' = draft
  /\ at' = "retire"
  /\ UNCHANGED <<hasLegacy, legacy, damages, unflushed, prepared, op, result,
                 EditVars, mem, ImportVars, list>>

\* The old file gets another name, if the card lets it.
ImportRetire ==
  /\ at = "retire"
  /\ hasLegacy' \in BOOLEAN
  /\ prepared' = TRUE /\ at' = "load"
  /\ mem' = BadCopy /\ pos' = 0 /\ draft' = ZeroedSlots
  /\ UNCHANGED <<exists, meta, slot, tmp, legacy, damages, unflushed, op, result,
                 EditVars, list>>

\* A file that does not parse is set aside, or the call fails.
ImportMalformed ==
  /\ at = "scan" /\ pos > Len(legacy.books) /\ legacy.malformed
  /\ tmp' \in BOOLEAN
  /\ \/ /\ hasLegacy' = FALSE
        /\ prepared' = TRUE /\ at' = "load"
        /\ mem' = BadCopy /\ pos' = 0 /\ draft' = ZeroedSlots
        /\ UNCHANGED <<op, result, EditVars>>
     \/ Return("Failed") /\ UNCHANGED hasLegacy
  /\ UNCHANGED <<exists, meta, slot, legacy, damages, unflushed, list>>

\* No memory, or the card fails: what was written is removed, if the card lets it.
ImportFails ==
  /\ at \in {"import", "scan", "publish"}
  /\ tmp' \in BOOLEAN
  /\ Return("Failed")
  /\ UNCHANGED <<exists, meta, slot, hasLegacy, legacy, damages, unflushed, list>>

-----------------------------------------------------------------------------
(* An update: the history as it stands, and the book in it. *)

\* A mutant: a slot the card does not give back is taken for a damaged one.
LoadBuildsOnDirectory == \E c \in Copies :
  /\ at = "load" /\ exists /\ Newest(c) /\ op.edit = "Session"
  /\ op.book \in BooksIn(meta[c].dir)
  /\ LET r == meta[c].dir[FindEntry(meta[c].dir, op.book)] IN
     book' = Applied(op, [book |-> r.book, seconds |-> r.seconds, lastRead |-> r.lastRead,
                          days |-> FALSE])
  /\ live' = c /\ mem' = [meta[c] EXCEPT !.total = @ + op.seconds] /\ at' = "slot"
  /\ UNCHANGED <<card, prepared, op, result, index, target, ImportVars, list>>

\* No memory, or the card does not give it back.
LoadFails == at = "load" /\ Return("Failed") /\ UNCHANGED <<card, list>>

Refuse(r) == Return(r) /\ UNCHANGED <<card, list>>

ShowList(m) ==
  /\ list' = [seq |-> m.seq, dir |-> m.dir]
  /\ Return("Done")
  /\ UNCHANGED card

\* A write that adds reading starts a history where there is none to read.
StartOver ==
  /\ mem' = [BadCopy EXCEPT !.total = op.seconds]
  /\ book' = Applied(op, NewBook(op.book))
  /\ at' = "create"
  /\ UNCHANGED <<card, prepared, op, result, live, index, target, ImportVars, list>>

LoadNone ==
  /\ at = "load" /\ ~exists
  /\ \/ op.edit = "List" /\ ShowList(NoList)
     \/ NeedsBook /\ Refuse("NotFound")
     \/ NothingToRecord(FALSE) /\ Refuse("Done")
     \/ op.edit # "List" /\ ~NeedsBook /\ ~NothingToRecord(FALSE) /\ StartOver

LoadCorrupt ==
  /\ at = "load" /\ exists /\ \A c \in Copies : ~Newest(c)
  /\ \/ op.edit = "List" /\ Refuse("Failed")
     \/ NeedsBook /\ Refuse("Failed")
     \/ NothingToRecord(FALSE) /\ Refuse("Done")
     \/ op.edit # "List" /\ ~NeedsBook /\ ~NothingToRecord(FALSE) /\ StartOver

\* The change, in memory.
Edited(c, known) ==
  LET dir == meta[c].dir
      e == FindEntry(dir, op.book)
      read == IF known THEN ReadBook(dir[e]) ELSE NewBook(op.book)
  IN  /\ live' = c
      /\ IF op.edit = "Remove"
         THEN /\ mem' = [meta[c] EXCEPT !.total = TakeOut(@, read.seconds), !.dir[e] = Free]
              /\ at' = "meta" /\ UNCHANGED book
         ELSE /\ mem' = [meta[c] EXCEPT !.total = @ + op.seconds]
              /\ at' = "slot" /\ book' = Applied(op, read)
      /\ UNCHANGED <<card, prepared, op, result, index, target, ImportVars, list>>

LoadFound == \E c \in Copies :
  LET known == op.book \in BooksIn(meta[c].dir)
      taken == op.edit = "Rekey" /\ op.to \in BooksIn(meta[c].dir)
  IN
  /\ at = "load" /\ exists /\ Newest(c)
  /\ \/ op.edit = "List" /\ ShowList(meta[c])
     \/ NeedsBook /\ ~known /\ Refuse("NotFound")
     \/ NothingToRecord(known) /\ Refuse("Done")
     \/ known /\ taken /\ Refuse("Failed")
     \/ /\ op.edit # "List"
        /\ NeedsBook => known
        /\ ~NothingToRecord(known) /\ ~taken
        /\ Edited(c, known)

-----------------------------------------------------------------------------
(* A history file to write into. *)

\* An unreadable one goes out of the way first.
SetAside ==
  /\ at = "create" /\ exists
  /\ exists' = FALSE
  /\ meta' = [c \in Copies |-> BadCopy] /\ slot' = ZeroedSlots
  /\ UNCHANGED <<tmp, hasLegacy, legacy, damages, unflushed, call>>

\* A mutant: the file is created under its own name.
CreateInPlace ==
  /\ at = "create" /\ ~exists
  /\ exists' = TRUE
  /\ mem' = [mem EXCEPT !.seq = 1]
  /\ at' = "rename"
  /\ UNCHANGED <<tmp, meta, slot, hasLegacy, legacy, damages, unflushed,
                 prepared, op, result, EditVars, ImportVars, list>>

CreateTmp ==
  /\ at = "create" /\ ~exists
  /\ tmp' = TRUE
  /\ mem' = [mem EXCEPT !.seq = 1]
  /\ at' = "rename"
  /\ UNCHANGED <<exists, meta, slot, hasLegacy, legacy, damages, unflushed,
                 prepared, op, result, EditVars, ImportVars, list>>

CreateRename ==
  /\ at = "rename"
  /\ exists' = TRUE /\ tmp' = FALSE
  /\ meta' = [c \in Copies |-> IF c = 0 THEN Sealed([BadCopy EXCEPT !.seq = 1]) ELSE BadCopy]
  /\ slot' = ZeroedSlots
  /\ live' = 0 /\ at' = "slot"
  /\ UNCHANGED <<hasLegacy, legacy, damages, unflushed, prepared, op, result,
                 mem, book, index, target, ImportVars, list>>

CreateFails ==
  /\ at \in {"create", "rename"}
  /\ tmp' \in BOOLEAN
  /\ Return("Failed")
  /\ UNCHANGED <<exists, meta, slot, hasLegacy, legacy, damages, unflushed, list>>

-----------------------------------------------------------------------------
(* Copy-on-write: the book, then the meta. *)

\* The copy an update writes: not the one the history was loaded from.
OtherCopy == 1 - live

\* What a write leaves that was not flushed, or failed.
Outcomes(old, bad, new) == {old, bad, new}

\* file.flush(): what was written is on the card.
Flush ==
  /\ slot' = IF "slot" \in unflushed THEN [slot EXCEPT ![target] = book] ELSE slot
  /\ meta' = IF "meta" \in unflushed THEN [meta EXCEPT ![OtherCopy] = mem] ELSE meta
  /\ unflushed' = {}

\* The slot is chosen while the book's old one, and the victim's, are referred to.
WriteSlot ==
  /\ at = "slot" /\ TakenSlots(mem.dir) # Slots
  /\ target' = FreeSlot(mem.dir)
  /\ index' = IF op.book \in BooksIn(mem.dir) THEN FindEntry(mem.dir, op.book)
              ELSE NewEntry(mem.dir)
  /\ unflushed' = unflushed \cup {"slot"}
  /\ at' = "flushSlot"
  /\ UNCHANGED <<Files, Outside, prepared, op, result, live, mem, book, ImportVars>>

\* The slot is as it was, torn or new; or there was none free.
WriteSlotFails ==
  /\ at = "slot"
  /\ LET free == Slots \ TakenSlots(mem.dir) IN
     slot' \in {slot} \cup {[slot EXCEPT ![s] = image] :
                          s \in {t \in free : \A u \in free : t <= u}, image \in {BadSlot, book}}
  /\ Return("Failed")
  /\ UNCHANGED <<exists, meta, tmp, hasLegacy, legacy, damages, unflushed, list>>

FlushSlot ==
  /\ at = "flushSlot"
  /\ Flush
  /\ mem' = [mem EXCEPT !.dir[index] = EntryFor(book, target)]
  /\ at' = "meta"
  /\ UNCHANGED <<exists, tmp, hasLegacy, legacy, damages, prepared, op, result,
                 EditVars, ImportVars, list>>

\* A mutant: a removal, which moves no book, keeps the generation.
RemovalKeepsGeneration == Sealed(IF NeedsBook /\ op.to = op.book THEN mem ELSE [mem EXCEPT !.seq = @ + 1])

NextGeneration == Sealed([mem EXCEPT !.seq = @ + 1])

WriteMeta ==
  /\ at = "meta"
  /\ mem' = NextGeneration
  /\ unflushed' = unflushed \cup {"meta"}
  /\ at' = "flushMeta"
  /\ UNCHANGED <<Files, Outside, prepared, op, result, EditVars, ImportVars>>

WriteMetaFails ==
  /\ at = "meta"
  /\ \E copy \in Outcomes(meta[OtherCopy], BadCopy, NextGeneration) :
       meta' = [meta EXCEPT ![OtherCopy] = copy]
  /\ Return("Failed")
  /\ UNCHANGED <<exists, slot, tmp, hasLegacy, legacy, damages, unflushed, list>>

\* A mutant: the meta is not flushed.
LeaveMetaUnflushed ==
  /\ at = "flushMeta"
  /\ Return("Done")
  /\ UNCHANGED <<card, list>>

FlushMeta ==
  /\ at = "flushMeta"
  /\ Flush
  /\ Return("Done")
  /\ UNCHANGED <<exists, tmp, hasLegacy, legacy, damages, list>>

-----------------------------------------------------------------------------
(* The world. *)

\* Power lost, at any step: what was on its way to the card is there or not or torn.
PowerCut ==
  /\ \E image \in Outcomes(slot[target], BadSlot, book),
        copy \in Outcomes(meta[OtherCopy], BadCopy, mem) :
       /\ slot' = IF "slot" \in unflushed THEN [slot EXCEPT ![target] = image] ELSE slot
       /\ meta' = IF "meta" \in unflushed THEN [meta EXCEPT ![OtherCopy] = copy] ELSE meta
  /\ unflushed' = {}
  /\ Released /\ prepared' = FALSE /\ result' = "None" /\ list' = NoList
  /\ UNCHANGED <<exists, tmp, hasLegacy, legacy, damages>>

\* A region of the file goes bad.
Damage ==
  /\ at = "idle" /\ exists /\ damages < MaxDamages
  /\ damages' = damages + 1
  /\ \/ \E s \in Slots : slot' = [slot EXCEPT ![s] = BadSlot] /\ UNCHANGED meta
     \/ \E c \in Copies : meta' = [meta EXCEPT ![c] = BadCopy] /\ UNCHANGED slot
  /\ UNCHANGED <<exists, tmp, hasLegacy, legacy, unflushed, call>>

Import ==
  \/ ImportCreate \/ ImportBook \/ ImportSeal \/ ImportRename \/ ImportRetire
  \/ ImportMalformed \/ ImportFails

Load == LoadFails \/ LoadNone \/ LoadCorrupt \/ LoadFound
Create == SetAside \/ CreateTmp \/ CreateRename \/ CreateFails
Write == WriteSlot \/ WriteSlotFails \/ FlushSlot \/ WriteMeta \/ WriteMetaFails \/ FlushMeta

Next ==
  \/ \E o \in Ops : Call(o)
  \/ Prepare \/ Import \/ Load \/ Create \/ Write
  \/ PowerCut \/ Damage

Spec == Init /\ [][Next]_vars

-----------------------------------------------------------------------------
(* What is correct. *)

Positions == {"idle", "prepare", "import", "scan", "publish", "retire", "load", "create",
              "rename", "slot", "flushSlot", "meta", "flushMeta"}

\* The types: no sum below zero, no slot or entry outside the file.
TypeOK ==
  /\ exists \in BOOLEAN /\ tmp \in BOOLEAN /\ hasLegacy \in BOOLEAN /\ legacy \in Legacies
  /\ meta \in [Copies -> Copy] /\ slot \in [Slots -> Image]
  /\ damages \in 0 .. MaxDamages /\ unflushed \in SUBSET {"slot", "meta"}
  /\ prepared \in BOOLEAN /\ at \in Positions /\ op \in Ops
  /\ result \in {"None", "Done", "NotFound", "Failed"}
  /\ live \in Copies /\ mem \in Copy /\ book \in Image
  /\ index \in Entries /\ target \in Slots
  /\ pos \in Nat /\ draft \in [Slots -> Image]
  /\ list \in [seq : Nat, dir : Directory]

\* A book's slot holds what its entry says of it, and the title and the days.
Whole(r) == slot[r.slot] = [book |-> r.book, seconds |-> r.seconds,
                            lastRead |-> r.lastRead, days |-> TRUE]

\* Whatever update was cut or failed, every book of the history a load takes is
\* whole in its slot: a slot in use is never written, and the book is on the
\* card before a directory refers to it (ReadingStats.cpp:464-486).
SlotsIntact ==
  \A c \in Copies : exists /\ Newest(c) =>
    \A e \in Used(meta[c].dir) : Whole(meta[c].dir[e])

\* A file by the history's name is never half a history: a create or an import
\* cut short leaves its temporary file (ReadingStats.cpp:511), and no meta write
\* touches the one valid copy.
FileAlwaysLoads == exists => \E c \in Copies : Newest(c)

\* The spare slot is enough: an update at the cap, of a book known or not, finds one free.
NeverOutOfSlots == at = "slot" => TakenSlots(mem.dir) # Slots

\* A list that was read at the generation the card now holds shows its books
\* (ReadingStats.cpp:705): no update, failed or cut, leaves another history
\* under the same number.
StaleIndexDetected ==
  \A c \in Copies : exists /\ Newest(c) /\ list.seq = meta[c].seq => list.dir = meta[c].dir

\* A region gone bad costs one book its title and days, or the last update: the
\* directory's figures stay, and a card that merely fails to answer costs none
\* (ReadingStats.cpp:432).
DamageCostsOneBook ==
  \A c \in Copies : exists /\ Newest(c) =>
    Cardinality({e \in Used(meta[c].dir) : ~Whole(meta[c].dir[e])}) <= damages

\* An update that says Done is on the card, flushed, in the history the next load takes.
DoneIsOnTheCard == [][
  at = "flushMeta" /\ result' = "Done" =>
    /\ unflushed' = {}
    /\ \E c \in Copies : Newest(c)' /\ meta'[c].seq = mem.seq /\ meta'[c].dir = mem.dir]_vars

\* A removal or a rekey never sets an unreadable history aside and starts afresh
\* (ReadingStats.cpp:425).
RemovalNeverStartsOver == [][op.edit \in {"Remove", "Rekey"} /\ exists => exists']_vars

-----------------------------------------------------------------------------
(* The history: what the directory a load takes says of every book. *)

Figure(r) == [book |-> r.book, seconds |-> r.seconds, lastRead |-> r.lastRead]
HistoryOf(dir) == {Figure(dir[e]) : e \in Used(dir)}

AbsHistory == UNION {HistoryOf(meta[c].dir) : c \in {d \in Copies : exists /\ Newest(d)}}
AbsTotal == IF exists /\ \E c \in Copies : Newest(c)
            THEN meta[CHOOSE c \in Copies : Newest(c)].total ELSE 0
AbsOffered == IF hasLegacy /\ ~exists
              THEN {[books |-> {legacy.books[i] : i \in DOMAIN legacy.books}, total |-> legacy.total]}
              ELSE {}

History == INSTANCE ReadingHistory WITH
  Cap <- EntryCount, history <- AbsHistory, total <- AbsTotal, offered <- AbsOffered

\* Every update is atomic, whatever fails and wherever the power goes.
ImplementsReadingHistory == History!Spec
=============================================================================
