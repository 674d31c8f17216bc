------------------------- MODULE ReadingStats_proofs -------------------------
(***************************************************************************)
(* Proofs about ReadingStats for any set of books, any cap, any history of *)
(* an older firmware and any number of updates, failures and power cuts.   *)
(***************************************************************************)
EXTENDS ReadingStats, FiniteSetTheorems, WellFoundedInduction, TLAPS

USE DEF Copies

----------------------------------------------------------------------------
(* The directory. *)

\* Min returns the least of some naturals.
LEMMA MinOfNat ==
  ASSUME NEW S \in SUBSET Nat, S # {}
  PROVE  Min(S) \in S /\ \A y \in S : Min(S) <= y
<1>1. PICK x \in S : \A y \in S : ~(<<y, x>> \in OpToRel(<, Nat))
  BY WFMin, NatLessThanWellFounded
<1>2. \A y \in S : ~(y < x)
  BY <1>1 DEF OpToRel
<1>3. \A y \in S : x =< y
  BY <1>2
<1> QED
  BY <1>3 DEF Min

\* One slot is always free: a directory names at most as many as it has entries.
LEMMA SpareSlot ==
  ASSUME NEW dir \in Directory
  PROVE  TakenSlots(dir) # Slots
<1> SUFFICES ASSUME TakenSlots(dir) = Slots PROVE FALSE
  OBVIOUS
<1> DEFINE f == [s \in Slots |-> CHOOSE e \in Entries : dir[e].slot = s]
<1>1. \A s \in Slots : f[s] \in Entries /\ dir[f[s]].slot = s
  BY DEF TakenSlots, Used
<1>2. f \in Injection(Slots, Entries)
  BY <1>1 DEF Injection, IsInjective
<1>3. IsFiniteSet(Entries) /\ Cardinality(Entries) = EntryCount
  BY FS_Interval, EntryCountAssumption DEF Entries
<1>4. Cardinality(Slots) = EntryCount + 1
  BY FS_Interval, EntryCountAssumption DEF Slots
<1>5. Cardinality(Slots) <= Cardinality(Entries)
  BY <1>2, <1>3, FS_Injection
<1> QED
  BY <1>3, <1>4, <1>5, EntryCountAssumption

\* The slot an update takes is in the file, and none of those in use.
LEMMA FreeSlotFree ==
  ASSUME NEW dir \in Directory
  PROVE  FreeSlot(dir) \in Slots \ TakenSlots(dir)
<1>1. Slots \subseteq Nat
  BY EntryCountAssumption DEF Slots
<1>2. TakenSlots(dir) \subseteq Slots
  BY EntryCountAssumption DEF TakenSlots, Directory, Entry, Used, Free, Slots
<1>3. Slots \ TakenSlots(dir) # {}
  BY <1>2, SpareSlot
<1> QED
  BY <1>1, <1>3, MinOfNat DEF FreeSlot

\* An entry in use names a book, and a slot of the file.
LEMMA EntryType ==
  ASSUME NEW dir \in Directory, NEW e \in Used(dir)
  PROVE  /\ e \in Entries /\ dir[e].book \in Books /\ dir[e].slot \in Slots
         /\ dir[e].seconds \in Nat /\ dir[e].lastRead \in Times
<1>1. e \in Entries /\ dir[e] \in Entry /\ dir[e].book # NoBook
  BY DEF Directory, Used
<1>2. dir[e] # Free
  BY <1>1 DEF Free
<1>3. dir[e] \in [book : Books, slot : Slots, seconds : Nat, lastRead : Times]
  BY <1>1, <1>2 DEF Entry
<1> QED
  BY <1>1, <1>3

\* A full directory has a book that goes before all others.
LEMMA VictimExists ==
  ASSUME NEW dir \in Directory, Used(dir) # {}
  PROVE  /\ VictimOf(dir) \in Used(dir)
         /\ \A e \in Used(dir) : ~EvictsBefore(dir[e], dir[VictimOf(dir)])
<1>0. Entries \subseteq Nat /\ Times \subseteq Nat
  BY EntryCountAssumption, BoundsAssumption DEF Entries, Times
<1>1. \A e \in Used(dir) : e \in Entries /\ dir[e].lastRead \in Nat /\ dir[e].seconds \in Nat
  BY <1>0, EntryType
<1> DEFINE first == Min({dir[e].lastRead : e \in Used(dir)})
           Ties == {e \in Used(dir) : dir[e].lastRead = first}
           least == Min({dir[e].seconds : e \in Ties})
           Worst == {e \in Used(dir) : \A f \in Used(dir) : ~EvictsBefore(dir[f], dir[e])}
<1>2. first \in {dir[e].lastRead : e \in Used(dir)} /\ \A e \in Used(dir) : first <= dir[e].lastRead
  <2> DEFINE T == {dir[e].lastRead : e \in Used(dir)}
  <2>1. T \in SUBSET Nat /\ T # {}
    BY <1>1
  <2> HIDE DEF T
  <2>2. Min(T) \in T /\ \A y \in T : Min(T) <= y
    BY <2>1, MinOfNat
  <2> QED
    BY <2>2 DEF T
<1>3. Ties # {} /\ \A e \in Ties : e \in Used(dir) /\ dir[e].seconds \in Nat
  BY <1>1, <1>2
<1>4. least \in {dir[e].seconds : e \in Ties} /\ \A e \in Ties : least <= dir[e].seconds
  <2> DEFINE T == {dir[e].seconds : e \in Ties}
  <2> HIDE DEF Ties
  <2>1. T \in SUBSET Nat /\ T # {}
    BY <1>3
  <2> HIDE DEF T
  <2>2. Min(T) \in T /\ \A y \in T : Min(T) <= y
    BY <2>1, MinOfNat
  <2> QED
    BY <2>2 DEF T
<1>5. PICK e \in Ties : dir[e].seconds = least
  BY <1>4
<1>6. \A f \in Used(dir) : ~EvictsBefore(dir[f], dir[e])
  <2> SUFFICES ASSUME NEW f \in Used(dir), EvictsBefore(dir[f], dir[e]) PROVE FALSE
    OBVIOUS
  <2>1. dir[e].lastRead = first /\ first <= dir[f].lastRead
    BY <1>2, <1>5
  <2>2. dir[f].lastRead = first /\ dir[f].seconds < dir[e].seconds
    BY <2>1, <1>1, <1>2 DEF EvictsBefore
  <2>3. f \in Ties
    BY <2>2
  <2>4. least <= dir[f].seconds /\ dir[e].seconds \in Nat /\ dir[f].seconds \in Nat
    BY <2>3, <1>3, <1>4
  <2> HIDE DEF least
  <2> QED
    BY <2>2, <2>4, <1>5
<1>7. Worst \in SUBSET Nat /\ Worst # {}
  BY <1>0, <1>3, <1>5, <1>6 DEF Used
<1>8. Min(Worst) \in Worst
  BY <1>7, MinOfNat
<1> QED
  BY <1>8 DEF VictimOf

\* A new book goes to an entry of the directory, a free one if there is one.
LEMMA NewEntryPlace ==
  ASSUME NEW dir \in Directory
  PROVE  /\ NewEntry(dir) \in Entries
         /\ Used(dir) # Entries => NewEntry(dir) \notin Used(dir)
<1>1. Entries \subseteq Nat /\ Entries # {} /\ Used(dir) \subseteq Entries
  BY EntryCountAssumption DEF Entries, Used
<1>2. CASE Used(dir) # Entries
  <2> Entries \ Used(dir) \in SUBSET Nat /\ Entries \ Used(dir) # {}
    BY <1>1, <1>2
  <2> QED
    BY <1>2, MinOfNat DEF NewEntry
<1>3. CASE Used(dir) = Entries
  BY <1>1, <1>3, VictimExists DEF NewEntry
<1> QED
  BY <1>2, <1>3

\* The entry of a book the directory holds.
LEMMA FoundEntry ==
  ASSUME NEW dir, NEW b \in BooksIn(dir)
  PROVE  FindEntry(dir, b) \in Used(dir) /\ dir[FindEntry(dir, b)].book = b
BY DEF FindEntry, BooksIn, Used

\* Of two copies at most one is taken by a load, and one is if either is valid.
LEMMA NewestUnique ==
  ASSUME TypeOK, NEW c \in Copies, NEW d \in Copies, Newest(c), Newest(d)
  PROVE  c = d
BY DEF Newest, TypeOK, Copy

LEMMA NewestExists ==
  ASSUME TypeOK, meta[0].valid \/ meta[1].valid
  PROVE  \E c \in Copies : Newest(c)
<1>1. meta[0].seq \in Nat /\ meta[1].seq \in Nat
  BY DEF TypeOK, Copy
<1>2. CASE ~meta[1].valid
  BY <1>2 DEF Newest
<1>3. CASE ~meta[0].valid
  BY <1>3 DEF Newest
<1>4. CASE meta[0].valid /\ meta[1].valid
  BY <1>1, <1>4 DEF Newest
<1> QED
  BY <1>2, <1>3, <1>4

----------------------------------------------------------------------------
(* Types. *)

BookImage == [book : Books, seconds : Nat, lastRead : Times, days : BOOLEAN]

\* A call that has got as far as a book's image has one to write.
CallShape ==
  /\ at \in {"create", "rename", "slot", "flushSlot"} => book \in BookImage
  /\ at = "scan" => pos # 0

TInv == TypeOK /\ CallShape

\* What is on the card, and what the store and its caller keep, have their types...
CardTypes ==
  /\ exists \in BOOLEAN /\ tmp \in BOOLEAN /\ hasLegacy \in BOOLEAN /\ legacy \in Legacies
  /\ meta \in [Copies -> Copy] /\ slot \in [Slots -> Image]
  /\ damages \in 0 .. MaxDamages /\ unflushed \in SUBSET {"slot", "meta"}
KeptTypes ==
  /\ prepared \in BOOLEAN
  /\ result \in {"None", "Done", "NotFound", "Failed"}
  /\ list \in [seq : Nat, dir : Directory]
\* ... and so have the locals of the call.
LocalTypes ==
  /\ at \in Positions /\ op \in Ops
  /\ live \in Copies /\ mem \in Copy /\ book \in Image
  /\ index \in Entries /\ target \in Slots
  /\ pos \in Nat /\ draft \in [Slots -> Image]
  /\ CallShape

LEMMA TInvParts == TInv <=> CardTypes /\ KeptTypes /\ LocalTypes
BY DEF TInv, TypeOK, CardTypes, KeptTypes, LocalTypes

LEMMA EmptyTypes ==
  /\ 0 \in Entries /\ 0 \in Slots /\ 0 \in Times
  /\ Empty \in Directory /\ BadCopy \in Copy /\ NoList \in [seq : Nat, dir : Directory]
  /\ BadSlot \in Image /\ ZeroedSlots \in [Slots -> Image] /\ NoOp \in Ops
<1>1. 0 \in Entries /\ 0 \in Slots /\ 0 \in Times
  BY EntryCountAssumption, BoundsAssumption DEF Entries, Slots, Times
<1>2. Empty \in Directory
  BY DEF Empty, Directory, Entry
<1>3. BadCopy \in Copy /\ NoList \in [seq : Nat, dir : Directory]
  BY <1>2 DEF BadCopy, Copy, NoList
<1>4. BadSlot \in Image /\ ZeroedSlots \in [Slots -> Image] /\ NoOp \in Ops
  BY DEF Image, ZeroedSlots, Ops
<1> QED
  BY <1>1, <1>2, <1>3, <1>4

\* A call that returns leaves nothing of it behind.
LEMMA ReleasedTypes == ASSUME Released PROVE LocalTypes'
BY EmptyTypes DEF Released, LocalTypes, CallShape, Positions

\* Sealing writes only the mark.
LEMMA SealedType ==
  ASSUME NEW m \in Copy
  PROVE  /\ Sealed(m) \in Copy
         /\ Sealed(m).seq = m.seq /\ Sealed(m).total = m.total /\ Sealed(m).dir = m.dir
BY DEF Sealed, Copy

\* Every image of a book is one of a slot, and makes an entry.
LEMMA ImageTypes ==
  ASSUME NEW r \in BookImage
  PROVE  r \in Image /\ \A s \in Slots : EntryFor(r, s) \in Entry
BY DEF BookImage, Image, EntryFor, Entry

\* What a call makes of a book is a book.
LEMMA AppliedType ==
  ASSUME NEW o \in Ops, o.edit # "List", NEW r \in BookImage
  PROVE  Applied(o, r) \in BookImage /\ Applied(o, r).days = r.days
<1>1. /\ o.to \in Books /\ o.seconds \in {0, 1} /\ o.time \in Times
  BY EmptyTypes DEF Ops, Sessions, Finishes, Moves, NoOp
<1>2. /\ r.seconds \in Nat /\ r.lastRead \in Times /\ r.days \in BOOLEAN
  BY DEF BookImage
<1>3. Later(r.lastRead, o.time) \in Times
  BY <1>1, <1>2 DEF Later
<1>4. Applied(o, r).lastRead \in Times
  BY <1>1, <1>2, <1>3 DEF Applied
<1>5. Applied(o, r).seconds \in Nat
  BY <1>1, <1>2 DEF Applied
<1> QED
  BY <1>1, <1>2, <1>4, <1>5 DEF Applied, BookImage

LEMMA OpBook ==
  ASSUME NEW o \in Ops, o.edit # "List"
  PROVE  o.book \in Books /\ o.seconds \in Nat
BY DEF Ops, Sessions, Finishes, Moves, NoOp

LEMMA NewBookType ==
  ASSUME NEW b \in Books
  PROVE  NewBook(b) \in BookImage /\ NewBook(b).days = TRUE
BY EmptyTypes DEF NewBook, BookImage

LEMMA ReadBookType ==
  ASSUME slot \in [Slots -> Image], NEW dir \in Directory, NEW e \in Used(dir)
  PROVE  ReadBook(dir[e]) \in BookImage
<1>1. /\ dir[e].book \in Books /\ dir[e].slot \in Slots
      /\ dir[e].seconds \in Nat /\ dir[e].lastRead \in Times
  BY EntryType
<1>2. slot[dir[e].slot] \in Image
  BY <1>1
<1>3. CASE slot[dir[e].slot].book = dir[e].book
  <2>1. slot[dir[e].slot] # BadSlot
    BY <1>1, <1>3, NoBookAssumption DEF BadSlot
  <2> QED
    BY <1>2, <1>3, <2>1 DEF ReadBook, Image, BookImage
<1>4. CASE slot[dir[e].slot].book # dir[e].book
  BY <1>1, <1>4 DEF ReadBook, BookImage
<1> QED
  BY <1>3, <1>4

\* What a legacy file holds of a book.
LEMMA LegacyType ==
  ASSUME legacy \in Legacies
  PROVE  legacy.total \in Nat /\ \A i \in 1 .. Len(legacy.books) : legacy.books[i] \in Figures
BY LegaciesAssumption

\* An import puts its next book in an entry and a slot of the file.
LEMMA ImportBookTypes ==
  ASSUME TInv, ImportBook
  PROVE  mem' \in Copy /\ draft' \in [Slots -> Image]
<1> DEFINE r == legacy.books[pos]
           full == Used(mem.dir) = Entries
           e == NewEntry(mem.dir)
           s == IF full THEN mem.dir[e].slot ELSE FreeSlot(mem.dir)
           image == [book |-> r.book, seconds |-> r.seconds, lastRead |-> r.lastRead, days |-> TRUE]
<1>1. pos \in 1 .. Len(legacy.books) /\ legacy \in Legacies /\ mem \in Copy /\ draft \in [Slots -> Image]
  <2>1. pos \in Nat /\ pos # 0 /\ pos <= Len(legacy.books) /\ legacy \in Legacies /\ mem \in Copy
        /\ draft \in [Slots -> Image]
    BY DEF TInv, CallShape, TypeOK, ImportBook
  <2>2. Len(legacy.books) \in Nat
    BY <2>1, LegaciesAssumption
  <2> QED
    BY <2>1, <2>2
<1>2. r \in Figures
  BY <1>1, LegacyType
<1>3. image \in BookImage
  BY <1>2 DEF Figures, BookImage
<1>4. mem.dir \in Directory
  BY <1>1 DEF Copy
<1>5. e \in Entries /\ s \in Slots
  <2>1. e \in Entries
    BY <1>4, NewEntryPlace
  <2>2. CASE full
    BY <2>1, <2>2, <1>4, EntryType
  <2>3. FreeSlot(mem.dir) \in Slots
    BY <1>4, FreeSlotFree
  <2> QED
    BY <2>1, <2>2, <2>3
<1>6. EntryFor(r, s) = EntryFor(image, s)
  BY DEF EntryFor
<1>7. EntryFor(r, s) \in Entry /\ image \in Image
  BY <1>3, <1>5, <1>6, ImageTypes
<1>8. [mem EXCEPT !.dir[e] = EntryFor(r, s)] \in Copy
  BY <1>1, <1>4, <1>5, <1>7 DEF Copy, Directory
<1>9. [draft EXCEPT ![s] = image] \in [Slots -> Image]
  BY <1>1, <1>5, <1>7
<1> QED
  BY <1>1, <1>8, <1>9 DEF ImportBook

\* The change of a book in memory.
LEMMA EditedTypes ==
  ASSUME TInv, NEW c \in Copies, NEW known \in BOOLEAN, known => op.book \in BooksIn(meta[c].dir),
         op.edit = "Remove" => known, op.edit # "List", Edited(c, known)
  PROVE  mem' \in Copy /\ live' \in Copies /\ at' \in {"meta", "slot"}
         /\ book' \in Image /\ (at' = "slot" => book' \in BookImage)
<1> DEFINE dir == meta[c].dir
           e == FindEntry(dir, op.book)
           read == IF known THEN ReadBook(dir[e]) ELSE NewBook(op.book)
<1>1. /\ meta[c] \in Copy /\ dir \in Directory /\ meta[c].total \in Nat /\ op \in Ops /\ slot \in [Slots -> Image]
      /\ book \in Image
  BY DEF TInv, TypeOK, Copy
<1>2. op.book \in Books /\ op.seconds \in Nat
  BY <1>1, OpBook
<1>3. known => e \in Used(dir)
  BY FoundEntry
<1>4. read \in BookImage
  BY <1>1, <1>2, <1>3, ReadBookType, NewBookType
<1>5. CASE op.edit = "Remove"
  <2>1. read.seconds \in Nat
    BY <1>4 DEF BookImage
  <2>2. TakeOut(meta[c].total, read.seconds) \in Nat
    BY <1>1, <2>1 DEF TakeOut
  <2>3. e \in Entries /\ Free \in Entry
    BY <1>3, <1>5 DEF Used, Entry
  <2>4. [meta[c] EXCEPT !.total = TakeOut(@, read.seconds), !.dir[e] = Free] \in Copy
    BY <1>1, <2>2, <2>3 DEF Copy, Directory
  <2> QED
    BY <1>1, <1>5, <2>4 DEF Edited
<1>6. CASE op.edit # "Remove"
  <2>1. [meta[c] EXCEPT !.total = @ + op.seconds] \in Copy
    BY <1>1, <1>2 DEF Copy
  <2>2. Applied(op, read) \in BookImage
    BY <1>1, <1>4, AppliedType
  <2> QED
    BY <1>6, <2>1, <2>2, ImageTypes DEF Edited
<1> QED
  BY <1>5, <1>6

----------------------------------------------------------------------------
(* The types are invariant. *)

LEMMA InitTypes == ASSUME Init PROVE TInv
<1>1. CardTypes
  <2>1. meta \in [Copies -> Copy] /\ slot \in [Slots -> Image]
    BY EmptyTypes DEF Init
  <2>2. damages \in 0 .. MaxDamages
    BY BoundsAssumption DEF Init
  <2> QED
    BY <2>1, <2>2 DEF Init, CardTypes
<1>2. KeptTypes /\ LocalTypes
  BY EmptyTypes DEF Init, KeptTypes, LocalTypes, CallShape, Positions
<1> QED
  BY <1>1, <1>2, TInvParts

\* A step that returns need only keep what outlives the call.
LEMMA ReturnTypes ==
  ASSUME TInv, NEW r \in {"Done", "NotFound", "Failed"}, Return(r),
         CardTypes', list' \in [seq : Nat, dir : Directory]
  PROVE  TInv'
<1>1. LocalTypes'
  BY ReleasedTypes DEF Return
<1>2. KeptTypes'
  BY TInvParts DEF Return, KeptTypes
<1> QED
  BY <1>1, <1>2 DEF TInv, TypeOK, CardTypes, KeptTypes, LocalTypes

LEMMA CallTypes == ASSUME TInv, NEW o \in Ops, Call(o) PROVE TInv'
BY DEF TInv, TypeOK, CallShape, Call, card, EditVars, ImportVars, Positions

LEMMA PrepareTypes == ASSUME TInv, Prepare PROVE TInv'
BY DEF TInv, TypeOK, CallShape, Prepare, EditVars, ImportVars, Positions

LEMMA ImportTypes == ASSUME TInv, Import PROVE TInv'
<1> USE DEF TInv, TypeOK, CallShape, EditVars, ImportVars, card
<1>1. CASE ImportCreate
  BY <1>1, EmptyTypes DEF ImportCreate, Positions
<1>2. CASE ImportBook
  <2>1. mem' \in Copy /\ draft' \in [Slots -> Image]
    BY <1>2, ImportBookTypes
  <2> QED
    BY <1>2, <2>1 DEF ImportBook, Positions
<1>3. CASE ImportSeal
  <2>1. legacy.total \in Nat
    BY LegacyType
  <2>2. [mem EXCEPT !.seq = 1, !.total = legacy.total] \in Copy
    BY <2>1 DEF Copy
  <2>3. mem' \in Copy
    BY <1>3, <2>2, SealedType DEF ImportSeal
  <2> QED
    BY <1>3, <2>3 DEF ImportSeal, Positions
<1>4. CASE ImportRename
  BY <1>4, EmptyTypes DEF ImportRename, Positions
<1>5. CASE ImportRetire
  BY <1>5, EmptyTypes DEF ImportRetire, Positions
<1>6. CASE ImportMalformed
  <2>0. /\ tmp' \in BOOLEAN
        /\ UNCHANGED <<exists, meta, slot, legacy, damages, unflushed, list>>
    BY <1>6 DEF ImportMalformed
  <2>1. CASE Return("Failed") /\ UNCHANGED hasLegacy
    BY <2>0, <2>1, ReturnTypes DEF CardTypes
  <2>2. CASE /\ hasLegacy' = FALSE /\ prepared' = TRUE /\ at' = "load"
             /\ mem' = BadCopy /\ pos' = 0 /\ draft' = ZeroedSlots
             /\ UNCHANGED <<op, result, EditVars>>
    BY <2>0, <2>2, EmptyTypes DEF Positions
  <2> QED
    BY <1>6, <2>1, <2>2 DEF ImportMalformed
<1>7. CASE ImportFails
  BY <1>7, ReturnTypes DEF ImportFails, CardTypes
<1> QED
  BY <1>1, <1>2, <1>3, <1>4, <1>5, <1>6, <1>7 DEF Import

\* A return that changes nothing on the card.
LEMMA RefuseTypes ==
  ASSUME TInv, NEW r \in {"Done", "NotFound", "Failed"}, Refuse(r)
  PROVE  TInv'
BY ReturnTypes DEF Refuse, TInv, TypeOK, CardTypes, card

LEMMA ShowListTypes ==
  ASSUME TInv, NEW m, m.seq \in Nat, m.dir \in Directory, ShowList(m)
  PROVE  TInv'
BY ReturnTypes DEF ShowList, TInv, TypeOK, CardTypes, card

LEMMA StartOverTypes == ASSUME TInv, op.edit # "List", StartOver PROVE TInv'
<1>1. op \in Ops
  BY DEF TInv, TypeOK
<1>2. op.book \in Books /\ op.seconds \in Nat
  BY <1>1, OpBook
<1>3. Applied(op, NewBook(op.book)) \in BookImage
  BY <1>1, <1>2, NewBookType, AppliedType
<1>4. [BadCopy EXCEPT !.total = op.seconds] \in Copy
  BY <1>2, EmptyTypes DEF Copy
<1>5. mem' \in Copy /\ book' \in BookImage /\ book' \in Image
  BY <1>3, <1>4, ImageTypes DEF StartOver
<1> QED
  BY <1>5 DEF StartOver, TInv, TypeOK, CallShape, card, ImportVars, Positions

LEMMA LoadTypes == ASSUME TInv, Load PROVE TInv'
<1>1. CASE LoadFails
  BY <1>1, ReturnTypes DEF LoadFails, TInv, TypeOK, CardTypes, card
<1>2. CASE LoadNone
  BY <1>2, RefuseTypes, ShowListTypes, StartOverTypes, EmptyTypes DEF LoadNone, NoList
<1>3. CASE LoadCorrupt
  BY <1>3, RefuseTypes, StartOverTypes DEF LoadCorrupt
<1>4. CASE LoadFound
  <2>1. PICK c \in Copies :
          \/ op.edit = "List" /\ ShowList(meta[c])
          \/ \E r \in {"Done", "NotFound", "Failed"} : Refuse(r)
          \/ /\ op.edit # "List" /\ (NeedsBook => op.book \in BooksIn(meta[c].dir))
             /\ Edited(c, op.book \in BooksIn(meta[c].dir))
    BY <1>4 DEF LoadFound
  <2>2. CASE op.edit = "List" /\ ShowList(meta[c])
    BY <2>2, ShowListTypes DEF TInv, TypeOK, Copy
  <2>3. CASE \E r \in {"Done", "NotFound", "Failed"} : Refuse(r)
    BY <2>3, RefuseTypes
  <2>4. CASE /\ op.edit # "List" /\ (NeedsBook => op.book \in BooksIn(meta[c].dir))
             /\ Edited(c, op.book \in BooksIn(meta[c].dir))
    <3> DEFINE known == op.book \in BooksIn(meta[c].dir)
    <3>0. known \in BOOLEAN /\ (op.edit = "Remove" => known)
      BY <2>4 DEF NeedsBook
    <3>1. /\ mem' \in Copy /\ live' \in Copies /\ at' \in {"meta", "slot"}
          /\ book' \in Image /\ (at' = "slot" => book' \in BookImage)
      BY <2>4, <3>0, EditedTypes
    <3>2. UNCHANGED <<card, prepared, op, result, index, target, ImportVars, list>>
      BY <2>4 DEF Edited
    <3> QED
      BY <3>1, <3>2 DEF TInv, TypeOK, CallShape, card, ImportVars, Positions
  <2> QED
    BY <2>1, <2>2, <2>3, <2>4
<1> QED
  BY <1>1, <1>2, <1>3, <1>4 DEF Load

LEMMA CreateTypes == ASSUME TInv, Create PROVE TInv'
<1> USE DEF TInv, TypeOK, CallShape, ImportVars, EditVars
<1>1. CASE SetAside
  <2>1. meta' \in [Copies -> Copy] /\ slot' \in [Slots -> Image]
    BY <1>1, EmptyTypes DEF SetAside
  <2> QED
    BY <1>1, <2>1 DEF SetAside, call
<1>2. CASE CreateTmp
  <2>1. mem' \in Copy
    BY <1>2 DEF CreateTmp, Copy
  <2> QED
    BY <1>2, <2>1 DEF CreateTmp, Positions
<1>3. CASE CreateRename
  <2>1. [BadCopy EXCEPT !.seq = 1] \in Copy
    BY EmptyTypes DEF Copy
  <2>2. meta' \in [Copies -> Copy] /\ slot' \in [Slots -> Image]
    BY <1>3, <2>1, SealedType, EmptyTypes DEF CreateRename
  <2> QED
    BY <1>3, <2>2 DEF CreateRename, Positions
<1>4. CASE CreateFails
  BY <1>4, ReturnTypes DEF CreateFails, CardTypes
<1> QED
  BY <1>1, <1>2, <1>3, <1>4 DEF Create

LEMMA NextGenerationType ==
  ASSUME mem \in Copy
  PROVE  NextGeneration \in Copy /\ NextGeneration.dir = mem.dir /\ NextGeneration.seq = mem.seq + 1
<1>1. /\ [mem EXCEPT !.seq = @ + 1] \in Copy
      /\ [mem EXCEPT !.seq = @ + 1].dir = mem.dir
      /\ [mem EXCEPT !.seq = @ + 1].seq = mem.seq + 1
  BY DEF Copy
<1> QED
  BY <1>1, SealedType DEF NextGeneration

LEMMA FlushTypes ==
  ASSUME TInv, Flush
  PROVE  meta' \in [Copies -> Copy] /\ slot' \in [Slots -> Image] /\ unflushed' = {}
<1>1. OtherCopy \in Copies
  BY DEF TInv, TypeOK, OtherCopy
<1> QED
  BY <1>1 DEF TInv, TypeOK, Flush

LEMMA WriteTypes == ASSUME TInv, Write PROVE TInv'
<1> USE DEF TInv, TypeOK, CallShape, ImportVars, EditVars, Files, Outside
<1>0. OtherCopy \in Copies /\ mem.dir \in Directory
  BY DEF OtherCopy, Copy
<1>1. CASE WriteSlot
  <2>1. target' \in Slots
    BY <1>0, <1>1, FreeSlotFree DEF WriteSlot
  <2>2. index' \in Entries
    <3>1. op.book \in BooksIn(mem.dir) => FindEntry(mem.dir, op.book) \in Entries
      BY FoundEntry DEF Used
    <3> QED
      BY <1>0, <1>1, <3>1, NewEntryPlace DEF WriteSlot
  <2> QED
    BY <1>1, <2>1, <2>2 DEF WriteSlot, Positions
<1>2. CASE WriteSlotFails
  <2>1. slot' \in [Slots -> Image]
    BY <1>2, EmptyTypes DEF WriteSlotFails
  <2>2. /\ Return("Failed")
        /\ UNCHANGED <<exists, meta, tmp, hasLegacy, legacy, damages, unflushed, list>>
    BY <1>2 DEF WriteSlotFails
  <2>3. CardTypes'
    BY <2>1, <2>2 DEF CardTypes
  <2> QED
    BY <2>2, <2>3, ReturnTypes
<1>3. CASE FlushSlot
  <2>1. EntryFor(book, target) \in Entry
    BY <1>3, ImageTypes DEF FlushSlot
  <2>2. mem' \in Copy
    BY <1>0, <1>3, <2>1 DEF FlushSlot, Copy, Directory
  <2>3. meta' \in [Copies -> Copy] /\ slot' \in [Slots -> Image] /\ unflushed' = {}
    BY <1>3, FlushTypes DEF FlushSlot
  <2> QED
    BY <1>3, <2>2, <2>3 DEF FlushSlot, Positions
<1>4. CASE WriteMeta
  <2>1. mem' \in Copy
    BY <1>4, NextGenerationType DEF WriteMeta
  <2> QED
    BY <1>4, <2>1 DEF WriteMeta, Positions
<1>5. CASE WriteMetaFails
  <2>1. meta' \in [Copies -> Copy]
    BY <1>0, <1>5, NextGenerationType, EmptyTypes DEF WriteMetaFails, Outcomes
  <2> QED
    BY <1>5, <2>1, ReturnTypes DEF WriteMetaFails, CardTypes
<1>6. CASE FlushMeta
  <2>1. meta' \in [Copies -> Copy] /\ slot' \in [Slots -> Image] /\ unflushed' = {}
    BY <1>6, FlushTypes DEF FlushMeta
  <2> QED
    BY <1>6, <2>1, ReturnTypes DEF FlushMeta, CardTypes
<1> QED
  BY <1>1, <1>2, <1>3, <1>4, <1>5, <1>6 DEF Write

LEMMA WorldTypes == ASSUME TInv, PowerCut \/ Damage PROVE TInv'
<1>1. CASE PowerCut
  <2>1. OtherCopy \in Copies
    BY DEF TInv, TypeOK, OtherCopy
  <2>2. meta' \in [Copies -> Copy] /\ slot' \in [Slots -> Image]
    BY <1>1, <2>1, EmptyTypes DEF PowerCut, Outcomes, TInv, TypeOK
  <2>3. LocalTypes'
    BY <1>1, ReleasedTypes DEF PowerCut
  <2>4. CardTypes' /\ KeptTypes'
    BY <1>1, <2>2, EmptyTypes DEF PowerCut, CardTypes, KeptTypes, TInv, TypeOK
  <2> QED
    BY <2>3, <2>4 DEF TInv, TypeOK, CardTypes, KeptTypes, LocalTypes
<1>2. CASE Damage
  <2>1. meta' \in [Copies -> Copy] /\ slot' \in [Slots -> Image]
    BY <1>2, EmptyTypes DEF Damage, TInv, TypeOK
  <2>2. damages' \in 0 .. MaxDamages
    BY <1>2, BoundsAssumption DEF Damage, TInv, TypeOK
  <2> QED
    BY <1>2, <2>1, <2>2 DEF Damage, TInv, TypeOK, CallShape, call
<1> QED
  BY <1>1, <1>2

LEMMA TypesStep == ASSUME TInv, [Next]_vars PROVE TInv'
<1>1. CASE Next
  BY <1>1, CallTypes, PrepareTypes, ImportTypes, LoadTypes, CreateTypes, WriteTypes, WorldTypes
  DEF Next
<1>2. CASE UNCHANGED vars
  BY <1>2 DEF TInv, TypeOK, CallShape, vars, card, call
<1> QED
  BY <1>1, <1>2

\* The types hold of every state: no sum ever falls below zero, whatever totals a
\* hand-made file of the older firmware gives, and no entry or slot outside the file
\* is named (ReadingStats.cpp:190, ReadingStatsSlotFile.cpp:227-253).
THEOREM Typed == Spec => []TypeOK
<1>1. Init => TInv
  BY InitTypes
<1>2. TInv /\ [Next]_vars => TInv'
  BY TypesStep
<1>3. TInv => TypeOK
  BY DEF TInv
<1> QED
  BY <1>1, <1>2, <1>3, PTL DEF Spec

\* An update always finds a free slot, for every cap: the spare one the file has
\* beyond the cap is enough (ReadingStats.cpp:471).
THEOREM SlotToSpare == Spec => []NeverOutOfSlots
<1>1. TypeOK => NeverOutOfSlots
  BY SpareSlot DEF TypeOK, Copy, NeverOutOfSlots
<1> QED
  BY <1>1, Typed, PTL

----------------------------------------------------------------------------
(* The history is whole as long as no region of the card has gone bad. *)

\* Every book of a directory is whole in one of these slots.
Backed(dir, slots) ==
  \A e \in Used(dir) : slots[dir[e].slot] =
    [book |-> dir[e].book, seconds |-> dir[e].seconds, lastRead |-> dir[e].lastRead, days |-> TRUE]

OneEntryEach(dir) == \A e, f \in Used(dir) : dir[e].book = dir[f].book => e = f

FileHealthy ==
  /\ exists => meta[0].valid \/ meta[1].valid
  /\ \A c \in Copies : exists /\ Newest(c) => Backed(meta[c].dir, slot)

\* An import: the draft backs the directory in memory, each book once.
ImportHealthy ==
  /\ at \in {"scan", "publish"} => Backed(mem.dir, draft)
  /\ at = "scan" => OneEntryEach(mem.dir)
  /\ at = "publish" => mem.valid

\* An update: the copy it was loaded from is still the newest, and its slots the
\* ones in use, until the meta is on the card; the book goes beside them.
UpdateHealthy ==
  /\ at \in {"create", "rename"} => mem.dir = Empty /\ ~exists
  /\ at \in {"create", "rename", "slot", "flushSlot"} => book.days = TRUE
  /\ at \in {"slot", "flushSlot", "meta", "flushMeta"} => exists /\ Newest(live)
  /\ at \in {"slot", "flushSlot"} => mem.dir = meta[live].dir
  /\ at = "flushSlot" => target \notin TakenSlots(mem.dir)
  /\ at \in {"meta", "flushMeta"} => Backed(mem.dir, slot)
  /\ unflushed = IF at = "flushSlot" THEN {"slot"} ELSE IF at = "flushMeta" THEN {"meta"} ELSE {}

HInv == FileHealthy /\ ImportHealthy /\ UpdateHealthy

LEMMA BackedBook ==
  ASSUME NEW dir, NEW slots, Backed(dir, slots), NEW e \in Used(dir)
  PROVE  slots[dir[e].slot].book = dir[e].book
<1>1. slots[dir[e].slot] =
        [book |-> dir[e].book, seconds |-> dir[e].seconds, lastRead |-> dir[e].lastRead, days |-> TRUE]
  BY DEF Backed
<1> QED
  BY <1>1

LEMMA InitHealthy == ASSUME Init PROVE HInv
BY DEF Init, HInv, FileHealthy, ImportHealthy, UpdateHealthy, Newest

\* A step that does not write leaves the file as it was.
LEMMA FileUnwritten ==
  ASSUME FileHealthy, UNCHANGED <<exists, meta, slot>> PROVE FileHealthy'
BY DEF FileHealthy, Newest

\* Between calls only the file counts.
LEMMA IdleHealthy ==
  ASSUME FileHealthy', at' = "idle", unflushed' = {} PROVE HInv'
BY DEF HInv, ImportHealthy, UpdateHealthy

\* A return that leaves the file as it was.
LEMMA ReturnHealthy ==
  ASSUME HInv, NEW r, Return(r), UNCHANGED <<exists, meta, slot, unflushed>>,
         at \notin {"flushSlot", "flushMeta"}
  PROVE  HInv'
BY FileUnwritten, IdleHealthy DEF HInv, UpdateHealthy, Return, Released

LEMMA CallHealthy == ASSUME HInv, NEW o \in Ops, Call(o) PROVE HInv'
<1>1. FileHealthy'
  BY FileUnwritten DEF Call, card, HInv
<1> QED
  BY <1>1 DEF HInv, ImportHealthy, UpdateHealthy, Call, card

LEMMA PrepareHealthy == ASSUME HInv, Prepare PROVE HInv'
<1>1. FileHealthy'
  BY FileUnwritten DEF Prepare, HInv
<1> QED
  BY <1>1 DEF HInv, ImportHealthy, UpdateHealthy, Prepare

\* One more book: in a slot no other book of the draft has.
LEMMA ImportBookHealthy == ASSUME TInv, HInv, ImportBook PROVE HInv'
<1> DEFINE r == legacy.books[pos]
           full == Used(mem.dir) = Entries
           e == NewEntry(mem.dir)
           s == IF full THEN mem.dir[e].slot ELSE FreeSlot(mem.dir)
           image == [book |-> r.book, seconds |-> r.seconds, lastRead |-> r.lastRead, days |-> TRUE]
<1>1. /\ at = "scan" /\ at' = "scan" /\ UNCHANGED card
      /\ mem.dir \in Directory /\ mem \in Copy /\ draft \in [Slots -> Image]
  BY DEF ImportBook, TInv, TypeOK, Copy
<1>2. FileHealthy'
  BY <1>1, FileUnwritten DEF HInv, card
<1>3. Backed(mem.dir, draft) /\ OneEntryEach(mem.dir)
  BY <1>1 DEF HInv, ImportHealthy
<1>4. Backed(mem'.dir, draft') /\ OneEntryEach(mem'.dir)
  <2>1. CASE UNCHANGED <<mem, draft>>
    BY <1>3, <2>1
  <2>2. CASE /\ r.book \notin BooksIn(mem.dir)
             /\ draft' = [draft EXCEPT ![s] = image]
             /\ mem' = [mem EXCEPT !.dir[e] = EntryFor(r, s)]
    <3>1. e \in Entries /\ s \in Slots
      <4>1. e \in Entries
        BY <1>1, NewEntryPlace
      <4>2. CASE full
        BY <1>1, <4>1, <4>2, EntryType
      <4>3. FreeSlot(mem.dir) \in Slots
        BY <1>1, FreeSlotFree
      <4> QED
        BY <4>1, <4>2, <4>3
    <3>2. \A f \in Used(mem.dir) : f # e => mem.dir[f].slot # s
      <4> SUFFICES ASSUME NEW f \in Used(mem.dir), f # e PROVE mem.dir[f].slot # s
        OBVIOUS
      <4>1. CASE full
        <5>1. e \in Used(mem.dir)
          BY <3>1, <4>1
        <5>2. mem.dir[f].book # mem.dir[e].book
          BY <1>3, <5>1 DEF OneEntryEach
        <5>3. \A g \in Used(mem.dir) : draft[mem.dir[g].slot].book = mem.dir[g].book
          BY <1>3, BackedBook
        <5>4. mem.dir[f].slot # mem.dir[e].slot
          BY <5>1, <5>2, <5>3
        <5> QED
          BY <4>1, <5>4
      <4>2. CASE ~full
        BY <1>1, <4>2, FreeSlotFree DEF TakenSlots
      <4> QED
        BY <4>1, <4>2
    <3>3. /\ mem'.dir = [mem.dir EXCEPT ![e] = EntryFor(r, s)]
          /\ \A f \in Entries : mem'.dir[f] = IF f = e THEN EntryFor(r, s) ELSE mem.dir[f]
      BY <1>1, <2>2, <3>1 DEF Copy, Directory
    <3>4. \A t \in Slots : draft'[t] = IF t = s THEN image ELSE draft[t]
      BY <1>1, <2>2, <3>1
    <3>5. \A f \in Used(mem'.dir) : f # e => f \in Used(mem.dir) /\ mem'.dir[f] = mem.dir[f]
      BY <3>3 DEF Used
    <3>6. Backed(mem'.dir, draft')
      <4> SUFFICES ASSUME NEW f \in Used(mem'.dir)
                   PROVE  draft'[mem'.dir[f].slot] =
                            [book |-> mem'.dir[f].book, seconds |-> mem'.dir[f].seconds,
                             lastRead |-> mem'.dir[f].lastRead, days |-> TRUE]
        BY DEF Backed
      <4>1. CASE f = e
        <5>1. /\ mem'.dir[f] = [book |-> r.book, slot |-> s, seconds |-> r.seconds,
                                 lastRead |-> r.lastRead]
          BY <3>1, <3>3, <4>1 DEF EntryFor
        <5>2. draft'[s] = image
          BY <3>1, <3>4
        <5> QED
          BY <5>1, <5>2
      <4>2. CASE f # e
        <5>1. f \in Used(mem.dir) /\ mem'.dir[f] = mem.dir[f] /\ mem.dir[f].slot # s
          BY <3>2, <3>5, <4>2
        <5>2. mem.dir[f].slot \in Slots
          BY <1>1, <5>1, EntryType
        <5> QED
          BY <1>3, <3>4, <5>1, <5>2 DEF Backed
      <4> QED
        BY <4>1, <4>2
    <3>7. OneEntryEach(mem'.dir)
      <4>1. \A f \in Used(mem'.dir) : f # e => mem'.dir[f].book # r.book
        BY <2>2, <3>5 DEF BooksIn
      <4>2. mem'.dir[e].book = r.book
        BY <3>1, <3>3 DEF EntryFor
      <4> QED
        BY <1>3, <3>5, <4>1, <4>2 DEF OneEntryEach
    <3> QED
      BY <3>6, <3>7
  <2> QED
    BY <2>1, <2>2 DEF ImportBook
<1> QED
  BY <1>1, <1>2, <1>4 DEF HInv, ImportHealthy, UpdateHealthy, card

LEMMA ImportStepHealthy == ASSUME TInv, HInv, Import PROVE HInv'
<1> USE DEF HInv, ImportHealthy, UpdateHealthy
<1>1. CASE ImportCreate
  <2>1. FileHealthy'
    BY <1>1, FileUnwritten DEF ImportCreate
  <2>2. Used(mem'.dir) = {}
    BY <1>1 DEF ImportCreate, BadCopy, Empty, Used, Free
  <2>3. Backed(mem'.dir, draft') /\ OneEntryEach(mem'.dir)
    BY <2>2 DEF Backed, OneEntryEach
  <2> QED
    BY <1>1, <2>1, <2>3 DEF ImportCreate
<1>2. CASE ImportBook
  BY <1>2, ImportBookHealthy
<1>3. CASE ImportSeal
  <2>1. FileHealthy'
    BY <1>3, FileUnwritten DEF ImportSeal, card
  <2>2. legacy.total \in Nat /\ mem \in Copy
    BY LegacyType DEF TInv, TypeOK
  <2>3. /\ [mem EXCEPT !.seq = 1, !.total = legacy.total] \in Copy
        /\ [mem EXCEPT !.seq = 1, !.total = legacy.total].dir = mem.dir
    BY <2>2 DEF Copy
  <2>4. mem'.dir = mem.dir
    BY <1>3, <2>3, SealedType DEF ImportSeal
  <2> QED
    BY <1>3, <2>1, <2>4 DEF ImportSeal, card, ImportVars
<1>4. CASE ImportRename
  <2>1. /\ meta'[0] = mem /\ meta'[1] = BadCopy /\ slot' = draft /\ mem.valid /\ Backed(mem.dir, draft)
    BY <1>4 DEF ImportRename
  <2>2. \A c \in Copies : Newest(c)' => c = 0
    BY <2>1 DEF Newest, BadCopy
  <2>3. FileHealthy'
    BY <2>1, <2>2 DEF FileHealthy
  <2> QED
    BY <1>4, <2>3 DEF ImportRename
<1>5. CASE ImportRetire
  <2>1. FileHealthy'
    BY <1>5, FileUnwritten DEF ImportRetire
  <2> QED
    BY <1>5, <2>1 DEF ImportRetire
<1>6. CASE ImportMalformed
  <2>0. UNCHANGED <<exists, meta, slot, unflushed>> /\ at = "scan"
    BY <1>6 DEF ImportMalformed
  <2>1. CASE Return("Failed")
    BY <2>0, <2>1, ReturnHealthy
  <2>2. CASE at' = "load"
    <3>1. FileHealthy'
      BY <2>0, FileUnwritten
    <3> QED
      BY <2>0, <2>2, <3>1
  <2> QED
    BY <1>6, <2>1, <2>2 DEF ImportMalformed
<1>7. CASE ImportFails
  BY <1>7, ReturnHealthy DEF ImportFails
<1> QED
  BY <1>1, <1>2, <1>3, <1>4, <1>5, <1>6, <1>7 DEF Import

\* A book that is whole in its slot is read with its title and days.
LEMMA ReadBookWhole ==
  ASSUME NEW dir, Backed(dir, slot), NEW e \in Used(dir)
  PROVE  ReadBook(dir[e]).days = TRUE
<1>1. slot[dir[e].slot] =
        [book |-> dir[e].book, seconds |-> dir[e].seconds, lastRead |-> dir[e].lastRead, days |-> TRUE]
  BY DEF Backed
<1> QED
  BY <1>1 DEF ReadBook

LEMMA StartOverHealthy ==
  ASSUME TInv, HInv, at = "load", ~exists, op.edit # "List", StartOver PROVE HInv'
<1>1. FileHealthy'
  BY FileUnwritten DEF HInv, StartOver, card
<1>2. op \in Ops
  BY DEF TInv, TypeOK
<1>3. book'.days = TRUE
  BY <1>2, OpBook, NewBookType, AppliedType DEF StartOver
<1>4. mem'.dir = Empty
  BY DEF StartOver, BadCopy
<1> QED
  BY <1>1, <1>3, <1>4 DEF HInv, ImportHealthy, UpdateHealthy, StartOver, card

LEMMA EditedHealthy ==
  ASSUME TInv, HInv, at = "load", exists, NEW c \in Copies, Newest(c), op.edit # "List",
         NEW known \in BOOLEAN, known <=> op.book \in BooksIn(meta[c].dir),
         op.edit = "Remove" => known, Edited(c, known)
  PROVE  HInv'
<1> DEFINE dir == meta[c].dir
           e == FindEntry(dir, op.book)
           read == IF known THEN ReadBook(dir[e]) ELSE NewBook(op.book)
<1>1. /\ UNCHANGED card /\ live' = c /\ meta[c] \in Copy /\ dir \in Directory /\ op \in Ops
      /\ slot \in [Slots -> Image]
  BY DEF Edited, TInv, TypeOK, Copy
<1>2. FileHealthy' /\ Newest(live)' /\ exists' /\ Backed(dir, slot)
  BY <1>1, FileUnwritten DEF HInv, card, Newest, FileHealthy
<1>3. known => e \in Used(dir)
  BY FoundEntry
<1>4. CASE op.edit = "Remove"
  <2>1. e \in Entries
    BY <1>3, <1>4 DEF Used
  <2>2. mem'.dir = [dir EXCEPT ![e] = Free]
    BY <1>1, <1>4 DEF Edited, Copy
  <2>3. \A f \in Used(mem'.dir) : f \in Used(dir) /\ mem'.dir[f] = dir[f]
    BY <1>1, <2>1, <2>2 DEF Used, Directory, Free
  <2>4. Backed(mem'.dir, slot)
    BY <1>2, <2>3 DEF Backed
  <2>5. at' = "meta"
    BY <1>4 DEF Edited
  <2> QED
    BY <1>1, <1>2, <2>4, <2>5 DEF HInv, ImportHealthy, UpdateHealthy, card
<1>5. CASE op.edit # "Remove"
  <2>1. at' = "slot" /\ mem'.dir = dir /\ book' = Applied(op, read)
    BY <1>1, <1>5 DEF Edited, Copy
  <2>2. read \in BookImage /\ read.days = TRUE
    BY <1>1, <1>2, <1>3, OpBook, ReadBookType, ReadBookWhole, NewBookType
  <2>3. book'.days = TRUE
    BY <1>1, <2>1, <2>2, AppliedType
  <2> QED
    BY <1>1, <1>2, <2>1, <2>3 DEF HInv, ImportHealthy, UpdateHealthy, card
<1> QED
  BY <1>4, <1>5

LEMMA LoadHealthy == ASSUME TInv, HInv, Load PROVE HInv'
<1>0. \A r : Refuse(r) /\ at = "load" => HInv'
  BY ReturnHealthy DEF Refuse, card
<1>1. CASE LoadFails
  BY <1>1, ReturnHealthy DEF LoadFails, card
<1>2. CASE LoadNone
  <2>1. ShowList(NoList) /\ at = "load" => HInv'
    BY ReturnHealthy DEF ShowList, card
  <2> QED
    BY <1>0, <1>2, <2>1, StartOverHealthy DEF LoadNone
<1>3. CASE LoadCorrupt
  <2>1. exists /\ (\A c \in Copies : ~Newest(c)) /\ TypeOK
    BY <1>3 DEF LoadCorrupt, TInv
  <2>2. meta[0].valid \/ meta[1].valid
    BY <2>1 DEF HInv, FileHealthy
  <2> QED
    BY <2>1, <2>2, NewestExists
<1>4. CASE LoadFound
  <2>1. PICK c \in Copies :
          /\ at = "load" /\ exists /\ Newest(c)
          /\ \/ ShowList(meta[c])
             \/ \E r : Refuse(r)
             \/ /\ op.edit # "List" /\ (NeedsBook => op.book \in BooksIn(meta[c].dir))
                /\ Edited(c, op.book \in BooksIn(meta[c].dir))
    BY <1>4 DEF LoadFound
  <2>2. CASE ShowList(meta[c])
    BY <2>1, <2>2, ReturnHealthy DEF ShowList, card
  <2>3. CASE \E r : Refuse(r)
    BY <1>0, <2>1, <2>3
  <2>4. CASE /\ op.edit # "List" /\ (NeedsBook => op.book \in BooksIn(meta[c].dir))
             /\ Edited(c, op.book \in BooksIn(meta[c].dir))
    <3> DEFINE known == op.book \in BooksIn(meta[c].dir)
    <3>1. known \in BOOLEAN /\ (op.edit = "Remove" => known)
      BY <2>4 DEF NeedsBook
    <3> QED
      BY <2>1, <2>4, <3>1, EditedHealthy
  <2> QED
    BY <2>1, <2>2, <2>3, <2>4
<1> QED
  BY <1>1, <1>2, <1>3, <1>4 DEF Load

LEMMA CreateHealthy == ASSUME TInv, HInv, Create PROVE HInv'
<1> USE DEF HInv, ImportHealthy, UpdateHealthy
<1>1. CASE SetAside
  BY <1>1 DEF SetAside
<1>2. CASE CreateTmp
  <2>1. FileHealthy'
    BY <1>2, FileUnwritten DEF CreateTmp
  <2>2. mem'.dir = mem.dir
    BY <1>2 DEF CreateTmp, TInv, TypeOK, Copy
  <2> QED
    BY <1>2, <2>1, <2>2 DEF CreateTmp, EditVars
<1>3. CASE CreateRename
  <2>1. /\ [BadCopy EXCEPT !.seq = 1] \in Copy
        /\ [BadCopy EXCEPT !.seq = 1].dir = Empty
    BY EmptyTypes DEF Copy, BadCopy
  <2>2. Used(Empty) = {}
    BY DEF Used, Empty, Free
  <2>3. Sealed([BadCopy EXCEPT !.seq = 1]).dir = Empty /\ Sealed([BadCopy EXCEPT !.seq = 1]).valid
    BY <2>1, <2>2, SealedType DEF Sealed, Copy
  <2>4. meta'[0].dir = Empty /\ meta'[0].valid /\ meta'[1] = BadCopy /\ live' = 0 /\ mem' = mem /\ exists'
    BY <1>3, <2>3 DEF CreateRename
  <2>5. \A c \in Copies : Newest(c)' <=> c = 0
    BY <2>4 DEF Newest, BadCopy
  <2>6. FileHealthy'
    BY <2>2, <2>4, <2>5 DEF FileHealthy, Backed
  <2>7. Newest(live)'
    BY <2>4, <2>5 DEF Newest
  <2> QED
    BY <1>3, <2>4, <2>6, <2>7 DEF CreateRename
<1>4. CASE CreateFails
  BY <1>4, ReturnHealthy DEF CreateFails
<1> QED
  BY <1>1, <1>2, <1>3, <1>4 DEF Create

\* Another copy that is bad, as it was, or backed as well leaves the history whole.
LEMMA OtherCopyWritten ==
  ASSUME TInv, HInv, exists, Newest(live), UNCHANGED <<exists, slot>>,
         NEW copy, meta' = [meta EXCEPT ![OtherCopy] = copy],
         copy \in Outcomes(meta[OtherCopy], BadCopy, copy),
         copy = meta[OtherCopy] \/ ~copy.valid \/ Backed(copy.dir, slot)
  PROVE  FileHealthy'
<1>1. /\ live \in Copies /\ OtherCopy \in Copies /\ OtherCopy # live /\ Copies = {live, OtherCopy}
      /\ meta \in [Copies -> Copy]
  BY DEF TInv, TypeOK, OtherCopy
<1>2. meta'[live] = meta[live] /\ meta'[OtherCopy] = copy
  BY <1>1
<1>3. meta[live].valid /\ Backed(meta[live].dir, slot)
  BY <1>1 DEF HInv, FileHealthy, Newest
<1>4. ASSUME NEW c \in Copies, Newest(c)' PROVE Backed(meta'[c].dir, slot)
  <2>1. CASE c = live
    BY <1>2, <1>3, <2>1
  <2>2. CASE c = OtherCopy /\ copy # meta[OtherCopy]
    BY <1>2, <1>4, <2>2 DEF Newest
  <2>3. CASE copy = meta[OtherCopy]
    <3>1. meta' = meta
      BY <1>1, <2>3
    <3> QED
      BY <1>4, <3>1 DEF HInv, FileHealthy, Newest
  <2> QED
    BY <1>1, <2>1, <2>2, <2>3
<1> QED
  BY <1>1, <1>2, <1>3, <1>4 DEF FileHealthy

\* A slot the history does not use may be written.
LEMMA SpareSlotWritten ==
  ASSUME TInv, HInv, exists, Newest(live), UNCHANGED <<exists, meta>>,
         NEW s \in Slots \ TakenSlots(meta[live].dir), NEW image,
         slot' = [slot EXCEPT ![s] = image]
  PROVE  FileHealthy' /\ Backed(meta[live].dir, slot')
<1>1. live \in Copies /\ meta[live].dir \in Directory /\ slot \in [Slots -> Image] /\ TypeOK
  BY DEF TInv, TypeOK, Copy
<1>2. Backed(meta[live].dir, slot)
  BY <1>1 DEF HInv, FileHealthy
<1>3. \A e \in Used(meta[live].dir) : slot'[meta[live].dir[e].slot] = slot[meta[live].dir[e].slot]
  <2> SUFFICES ASSUME NEW e \in Used(meta[live].dir)
               PROVE  slot'[meta[live].dir[e].slot] = slot[meta[live].dir[e].slot]
    OBVIOUS
  <2>1. meta[live].dir[e].slot \in Slots /\ meta[live].dir[e].slot # s
    BY <1>1, EntryType DEF TakenSlots
  <2> QED
    BY <1>1, <2>1
<1>4. Backed(meta[live].dir, slot')
  BY <1>2, <1>3 DEF Backed
<1>5. \A c \in Copies : Newest(c)' => Newest(c)
  BY DEF Newest
<1>6. \A c \in Copies : Newest(c) => c = live
  BY <1>1, NewestUnique
<1> QED
  BY <1>4, <1>5, <1>6 DEF FileHealthy, HInv

LEMMA WriteSlotHealthy == ASSUME TInv, HInv, WriteSlot PROVE HInv'
<1>1. /\ at = "slot" /\ at' = "flushSlot" /\ target' = FreeSlot(mem.dir)
      /\ unflushed' = unflushed \cup {"slot"} /\ UNCHANGED <<Files, live, mem, book>>
  BY DEF WriteSlot
<1>2. FileHealthy'
  BY <1>1, FileUnwritten DEF HInv, Files
<1>3. target' \notin TakenSlots(mem.dir)
  BY <1>1, FreeSlotFree DEF TInv, TypeOK, Copy
<1>4. Newest(live)'
  BY <1>1 DEF HInv, UpdateHealthy, Newest, Files
<1> QED
  BY <1>1, <1>2, <1>3, <1>4 DEF HInv, ImportHealthy, UpdateHealthy, Files

LEMMA WriteSlotFailsHealthy == ASSUME TInv, HInv, WriteSlotFails PROVE HInv'
<1>1. /\ at = "slot" /\ at' = "idle" /\ UNCHANGED <<exists, meta, unflushed>> /\ Return("Failed")
  BY DEF WriteSlotFails, Return, Released
<1>2. exists /\ Newest(live) /\ mem.dir = meta[live].dir /\ unflushed = {}
  BY <1>1 DEF HInv, UpdateHealthy
<1>3. CASE slot' = slot
  BY <1>1, <1>2, <1>3, FileUnwritten, IdleHealthy DEF HInv
<1>4. CASE slot' # slot
  <2>1. PICK s \in Slots \ TakenSlots(mem.dir), image \in {BadSlot, book} :
          slot' = [slot EXCEPT ![s] = image]
    BY <1>4 DEF WriteSlotFails
  <2> QED
    BY <1>1, <1>2, <2>1, SpareSlotWritten, IdleHealthy
<1> QED
  BY <1>3, <1>4

LEMMA FlushSlotHealthy == ASSUME TInv, HInv, FlushSlot PROVE HInv'
<1>1. /\ at = "flushSlot" /\ at' = "meta" /\ unflushed = {"slot"} /\ unflushed' = {}
      /\ slot' = [slot EXCEPT ![target] = book] /\ UNCHANGED <<exists, meta, live>>
      /\ mem' = [mem EXCEPT !.dir[index] = EntryFor(book, target)]
  BY DEF FlushSlot, Flush, EditVars, HInv, UpdateHealthy
<1>2. exists /\ Newest(live) /\ mem.dir = meta[live].dir /\ target \notin TakenSlots(mem.dir)
      /\ book.days = TRUE
  BY <1>1 DEF HInv, UpdateHealthy
<1>3. /\ target \in Slots /\ book \in BookImage /\ index \in Entries /\ slot \in [Slots -> Image]
      /\ mem.dir \in Directory /\ mem \in Copy
  BY <1>1 DEF TInv, TypeOK, CallShape, Copy
<1>4. FileHealthy' /\ Backed(mem.dir, slot')
  BY <1>1, <1>2, <1>3, SpareSlotWritten
<1>5. mem'.dir = [mem.dir EXCEPT ![index] = EntryFor(book, target)]
  BY <1>1, <1>3 DEF Copy
<1>6. ASSUME NEW e \in Used(mem'.dir)
      PROVE  slot'[mem'.dir[e].slot] = [book |-> mem'.dir[e].book, seconds |-> mem'.dir[e].seconds,
                                        lastRead |-> mem'.dir[e].lastRead, days |-> TRUE]
  <2>1. CASE e = index
    <3>1. mem'.dir[e] = [book |-> book.book, slot |-> target, seconds |-> book.seconds,
                         lastRead |-> book.lastRead]
      BY <1>3, <1>5, <2>1 DEF EntryFor, Directory
    <3>2. slot'[target] = book
      BY <1>1, <1>3
    <3>3. book = [book |-> book.book, seconds |-> book.seconds, lastRead |-> book.lastRead, days |-> TRUE]
      BY <1>2, <1>3 DEF BookImage
    <3>4. /\ mem'.dir[e].book = book.book /\ mem'.dir[e].slot = target
          /\ mem'.dir[e].seconds = book.seconds /\ mem'.dir[e].lastRead = book.lastRead
      BY <3>1
    <3> QED
      BY <3>2, <3>3, <3>4
  <2>2. CASE e # index
    <3>1. e \in Used(mem.dir) /\ mem'.dir[e] = mem.dir[e]
      BY <1>3, <1>5, <2>2 DEF Used, Directory
    <3> QED
      BY <1>4, <3>1 DEF Backed
  <2> QED
    BY <2>1, <2>2
<1>7. Newest(live)'
  BY <1>1, <1>2 DEF Newest
<1> QED
  BY <1>1, <1>2, <1>4, <1>6, <1>7 DEF HInv, ImportHealthy, UpdateHealthy, Backed

LEMMA WriteMetaHealthy == ASSUME TInv, HInv, WriteMeta PROVE HInv'
<1>1. /\ at = "meta" /\ at' = "flushMeta" /\ unflushed' = unflushed \cup {"meta"}
      /\ UNCHANGED <<exists, meta, slot, live>> /\ mem' = NextGeneration /\ mem \in Copy
  BY DEF WriteMeta, Files, EditVars, TInv, TypeOK
<1>2. mem'.dir = mem.dir
  BY <1>1, NextGenerationType
<1>3. FileHealthy' /\ Newest(live)'
  BY <1>1, FileUnwritten DEF HInv, UpdateHealthy, Newest
<1> QED
  BY <1>1, <1>2, <1>3 DEF HInv, ImportHealthy, UpdateHealthy

LEMMA WriteMetaFailsHealthy == ASSUME TInv, HInv, WriteMetaFails PROVE HInv'
<1>1. /\ at = "meta" /\ at' = "idle" /\ UNCHANGED <<exists, slot, unflushed>> /\ mem \in Copy
  BY DEF WriteMetaFails, Return, Released, TInv, TypeOK
<1>2. exists /\ Newest(live) /\ Backed(mem.dir, slot) /\ unflushed = {}
  BY <1>1 DEF HInv, UpdateHealthy
<1>3. PICK copy \in Outcomes(meta[OtherCopy], BadCopy, NextGeneration) :
        meta' = [meta EXCEPT ![OtherCopy] = copy]
  BY DEF WriteMetaFails
<1>4. copy = meta[OtherCopy] \/ ~copy.valid \/ Backed(copy.dir, slot)
  BY <1>1, <1>2, <1>3, NextGenerationType DEF Outcomes, BadCopy
<1>5. FileHealthy'
  BY <1>1, <1>2, <1>3, <1>4, OtherCopyWritten DEF Outcomes
<1> QED
  BY <1>1, <1>2, <1>5, IdleHealthy

LEMMA FlushMetaHealthy == ASSUME TInv, HInv, FlushMeta PROVE HInv'
<1>1. /\ at = "flushMeta" /\ at' = "idle" /\ UNCHANGED <<exists, slot>>
      /\ meta' = [meta EXCEPT ![OtherCopy] = mem] /\ unflushed' = {}
  BY DEF FlushMeta, Flush, Return, Released, HInv, UpdateHealthy
<1>2. exists /\ Newest(live) /\ Backed(mem.dir, slot)
  BY <1>1 DEF HInv, UpdateHealthy
<1>3. FileHealthy'
  BY <1>1, <1>2, OtherCopyWritten DEF Outcomes
<1> QED
  BY <1>1, <1>3, IdleHealthy

\* Wherever the power goes, the next load finds a whole history.
LEMMA PowerCutHealthy == ASSUME TInv, HInv, PowerCut PROVE HInv'
<1>1. at' = "idle" /\ unflushed' = {} /\ UNCHANGED exists
  BY DEF PowerCut, Released
<1>2. PICK image \in Outcomes(slot[target], BadSlot, book),
           copy \in Outcomes(meta[OtherCopy], BadCopy, mem) :
        /\ slot' = IF "slot" \in unflushed THEN [slot EXCEPT ![target] = image] ELSE slot
        /\ meta' = IF "meta" \in unflushed THEN [meta EXCEPT ![OtherCopy] = copy] ELSE meta
  BY DEF PowerCut
<1>3. CASE at = "flushSlot"
  <2>1. /\ exists /\ Newest(live) /\ target \notin TakenSlots(meta[live].dir) /\ target \in Slots
        /\ unflushed = {"slot"}
    BY <1>3 DEF HInv, UpdateHealthy, TInv, TypeOK
  <2>2. slot' = [slot EXCEPT ![target] = image] /\ meta' = meta
    BY <1>2, <2>1
  <2>3. FileHealthy'
    BY <1>1, <2>1, <2>2, SpareSlotWritten
  <2> QED
    BY <1>1, <2>3, IdleHealthy
<1>4. CASE at = "flushMeta"
  <2>1. /\ exists /\ Newest(live) /\ Backed(mem.dir, slot) /\ unflushed = {"meta"}
    BY <1>4 DEF HInv, UpdateHealthy
  <2>2. slot' = slot /\ meta' = [meta EXCEPT ![OtherCopy] = copy]
    BY <1>2, <2>1
  <2>3. copy = meta[OtherCopy] \/ ~copy.valid \/ Backed(copy.dir, slot)
    BY <1>2, <2>1 DEF Outcomes, BadCopy
  <2>4. FileHealthy'
    BY <1>1, <2>1, <2>2, <2>3, OtherCopyWritten DEF Outcomes
  <2> QED
    BY <1>1, <2>4, IdleHealthy
<1>5. CASE at \notin {"flushSlot", "flushMeta"}
  <2>1. unflushed = {}
    BY <1>5 DEF HInv, UpdateHealthy
  <2>2. UNCHANGED <<slot, meta>>
    BY <1>2, <2>1
  <2> QED
    BY <1>1, <2>2, FileUnwritten, IdleHealthy DEF HInv
<1> QED
  BY <1>3, <1>4, <1>5

\* No step but Damage damages.
LEMMA DamagesChange == ASSUME Next, ~Damage PROVE damages' = damages
<1> USE DEF card, Outside
<1>1. CASE (\E o \in Ops : Call(o)) \/ Prepare \/ PowerCut
  BY <1>1 DEF Call, Prepare, PowerCut
<1>2. CASE Import
  BY <1>2 DEF Import, ImportCreate, ImportBook, ImportSeal, ImportRename, ImportRetire, ImportMalformed,
     ImportFails
<1>3. CASE Load
  <2>1. \A r : Refuse(r) \/ ShowList(r) => damages' = damages
    BY DEF Refuse, ShowList
  <2>2. \A c, known : Edited(c, known) => damages' = damages
    BY DEF Edited
  <2> QED
    BY <1>3, <2>1, <2>2 DEF Load, LoadFails, LoadNone, LoadCorrupt, LoadFound, StartOver
<1>4. CASE Create
  BY <1>4 DEF Create, SetAside, CreateTmp, CreateRename, CreateFails
<1>5. CASE Write
  BY <1>5 DEF Write, WriteSlot, WriteSlotFails, FlushSlot, WriteMeta, WriteMetaFails, FlushMeta
<1> QED
  BY <1>1, <1>2, <1>3, <1>4, <1>5 DEF Next

Healthy == damages = 0 => HInv

LEMMA HealthyStep == ASSUME TInv, Healthy, [Next]_vars PROVE Healthy'
<1>1. CASE Damage
  <2>1. damages' # 0
    BY <1>1 DEF Damage, TInv, TypeOK
  <2> QED
    BY <2>1 DEF Healthy
<1>2. CASE Next /\ damages' = damages
  <2> SUFFICES ASSUME HInv, Next, ~Damage PROVE HInv'
    BY <1>1, <1>2 DEF Healthy
  <2>1. CASE Write
    BY <2>1, WriteSlotHealthy, WriteSlotFailsHealthy, FlushSlotHealthy, WriteMetaHealthy,
       WriteMetaFailsHealthy, FlushMetaHealthy DEF Write
  <2> QED
    BY <2>1, CallHealthy, PrepareHealthy, ImportStepHealthy, LoadHealthy, CreateHealthy, PowerCutHealthy
    DEF Next
<1>3. CASE UNCHANGED vars
  BY <1>3, FileUnwritten DEF Healthy, HInv, ImportHealthy, UpdateHealthy, Newest, vars, card, call
<1> QED
  BY <1>1, <1>2, <1>3, DamagesChange

\* The inductive invariant holds of every state.
THEOREM Invariance == Spec => [](TInv /\ Healthy)
<1>1. Init => TInv /\ Healthy
  BY InitTypes, InitHealthy DEF Healthy
<1>2. TInv /\ [Next]_vars => TInv'
  BY TypesStep
<1>3. TInv /\ Healthy /\ [Next]_vars => Healthy'
  BY HealthyStep
<1> QED
  BY <1>1, <1>2, <1>3, PTL DEF Spec

\* Until a region of the card goes bad, every book of the history is whole: no failed
\* write and no power cut, at any step of any number of updates, costs a book its
\* slot, its figures or its days (ReadingStats.cpp:464-497).
THEOREM BooksStayWhole == Spec => [](damages = 0 => SlotsIntact)
<1>1. Healthy => (damages = 0 => SlotsIntact)
  BY DEF Healthy, HInv, FileHealthy, SlotsIntact, Whole, Backed
<1> QED
  BY <1>1, Invariance, PTL

\* ... and a file by the history's name always has a history to load
\* (ReadingStats.cpp:511, ReadingStatsSlotFile.cpp:351).
THEOREM HistoryLoads == Spec => [](damages = 0 => FileAlwaysLoads)
<1>1. TInv /\ Healthy => (damages = 0 => FileAlwaysLoads)
  BY NewestExists DEF Healthy, HInv, FileHealthy, FileAlwaysLoads, TInv
<1> QED
  BY <1>1, Invariance, PTL

----------------------------------------------------------------------------
(* Generations: whatever goes bad on the card, an update writes the number  *)
(* after the one it was loaded from.                                       *)

DistinctSlots(dir) == \A e, f \in Used(dir) : dir[e].slot = dir[f].slot => e = f

Updating == {"slot", "flushSlot", "meta", "flushMeta"}

CopiesSound == \A c \in Copies : meta[c].valid => meta[c].seq # 0 /\ DistinctSlots(meta[c].dir)

\* What an update has in memory, by how far it is.
UpdateSound ==
  /\ at \in {"create", "rename"} => mem.dir = Empty
  /\ at \in {"publish", "rename"} => mem.seq = 1
  /\ at \in Updating \cup {"publish"} => DistinctSlots(mem.dir)
  /\ at \in Updating => exists /\ Newest(live)
  /\ at \in Updating \ {"flushMeta"} => mem.seq = meta[live].seq
  /\ at = "flushSlot" => target \notin TakenSlots(mem.dir)
  /\ at = "flushMeta" => mem.valid /\ mem.seq = meta[live].seq + 1
  /\ unflushed = IF at = "flushSlot" THEN {"slot"} ELSE IF at = "flushMeta" THEN {"meta"} ELSE {}
  /\ at # "idle" => result = "None"
  /\ at \in {"import", "scan", "publish"} => ~exists

GInv == CopiesSound /\ UpdateSound

LEMMA SealedValid ==
  ASSUME NEW m \in Copy
  PROVE  Sealed(m).valid <=> DistinctSlots(m.dir)
BY DEF Sealed, Copy, DistinctSlots

LEMMA EmptyDistinct == DistinctSlots(Empty)
BY DEF DistinctSlots, Used, Empty, Free

LEMMA InitGenerations == ASSUME Init PROVE GInv
BY DEF Init, GInv, CopiesSound, UpdateSound, BadCopy, Updating

\* A call that returns, with the copies as they were.
LEMMA ReturnGenerations ==
  ASSUME GInv, NEW r, Return(r), UNCHANGED <<meta, unflushed>>, at \notin {"flushSlot", "flushMeta"}
  PROVE  GInv'
BY DEF GInv, CopiesSound, UpdateSound, Return, Released, Updating

LEMMA IdleGenerations ==
  ASSUME CopiesSound', at' = "idle", unflushed' = {} PROVE GInv'
BY DEF GInv, UpdateSound, Updating

LEMMA ImportGenerations == ASSUME TInv, GInv, Import PROVE GInv'
<1> USE DEF GInv, CopiesSound, UpdateSound, Updating
<1>1. CASE ImportCreate
  BY <1>1 DEF ImportCreate
<1>2. CASE ImportBook
  BY <1>2 DEF ImportBook, card
<1>3. CASE ImportSeal
  <2>1. legacy.total \in Nat /\ mem \in Copy
    BY LegacyType DEF TInv, TypeOK
  <2> DEFINE m == [mem EXCEPT !.seq = 1, !.total = legacy.total]
  <2>2. m \in Copy /\ m.seq = 1
    BY <2>1 DEF Copy
  <2>3. mem' = Sealed(m) /\ mem'.valid /\ at' = "publish" /\ UNCHANGED <<meta, unflushed, exists, result>>
    BY <1>3 DEF ImportSeal, card
  <2>4. ~exists /\ unflushed = {} /\ result = "None"
    BY <1>3 DEF ImportSeal
  <2> HIDE DEF m
  <2>5. mem'.seq = 1 /\ DistinctSlots(mem'.dir)
    BY <2>2, <2>3, SealedType, SealedValid
  <2> QED
    BY <2>3, <2>4, <2>5
<1>4. CASE ImportRename
  <2>1. /\ \A c \in Copies : meta'[c] = IF c = 0 THEN mem ELSE BadCopy
        /\ mem.seq = 1 /\ DistinctSlots(mem.dir) /\ at' = "retire" /\ UNCHANGED unflushed
    BY <1>4 DEF ImportRename
  <2> QED
    BY <1>4, <2>1 DEF BadCopy, ImportRename
<1>5. CASE ImportRetire
  BY <1>5 DEF ImportRetire
<1>6. CASE ImportMalformed
  <2>0. UNCHANGED <<meta, unflushed>> /\ at = "scan"
    BY <1>6 DEF ImportMalformed
  <2>1. CASE Return("Failed")
    BY <2>0, <2>1, ReturnGenerations
  <2>2. CASE at' = "load" /\ UNCHANGED result
    BY <2>0, <2>2
  <2> QED
    BY <1>6, <2>1, <2>2 DEF ImportMalformed
<1>7. CASE ImportFails
  BY <1>7, ReturnGenerations DEF ImportFails
<1> QED
  BY <1>1, <1>2, <1>3, <1>4, <1>5, <1>6, <1>7 DEF Import

\* A directory with a book taken out has no more slots taken twice than before.
LEMMA RemovedDistinct ==
  ASSUME NEW dir \in Directory, DistinctSlots(dir), NEW e \in Entries
  PROVE  DistinctSlots([dir EXCEPT ![e] = Free])
BY DEF DistinctSlots, Used, Directory, Free

LEMMA EditedGenerations ==
  ASSUME TInv, GInv, at = "load", exists, NEW c \in Copies, Newest(c), op.edit # "List",
         NEW known \in BOOLEAN, known <=> op.book \in BooksIn(meta[c].dir),
         op.edit = "Remove" => known, Edited(c, known)
  PROVE  GInv'
<1> DEFINE dir == meta[c].dir
           e == FindEntry(dir, op.book)
<1>1. /\ UNCHANGED card /\ live' = c /\ meta[c] \in Copy /\ dir \in Directory
      /\ meta[c].valid /\ DistinctSlots(dir) /\ unflushed = {} /\ result' = "None"
  BY DEF Edited, TInv, TypeOK, Copy, Newest, GInv, CopiesSound, UpdateSound
<1>2. CopiesSound' /\ exists' /\ Newest(live)' /\ unflushed' = {}
  BY <1>1 DEF GInv, CopiesSound, card, Newest
<1>3. at' \in {"slot", "meta"} /\ mem'.seq = meta'[live'].seq /\ DistinctSlots(mem'.dir)
  <2>1. CASE op.edit = "Remove"
    <3>1. e \in Entries
      BY <2>1, FoundEntry DEF Used
    <3>2. mem'.seq = meta[c].seq /\ mem'.dir = [dir EXCEPT ![e] = Free] /\ at' = "meta"
      BY <1>1, <2>1 DEF Edited, Copy
    <3> QED
      BY <1>1, <3>1, <3>2, RemovedDistinct DEF card
  <2>2. CASE op.edit # "Remove"
    <3>1. mem'.seq = meta[c].seq /\ mem'.dir = dir /\ at' = "slot"
      BY <1>1, <2>2 DEF Edited, Copy
    <3> QED
      BY <1>1, <3>1 DEF card
  <2> QED
    BY <2>1, <2>2
<1> QED
  BY <1>1, <1>2, <1>3 DEF GInv, UpdateSound, Updating

LEMMA LoadGenerations == ASSUME TInv, GInv, Load PROVE GInv'
<1>0. \A r : Refuse(r) /\ at = "load" => GInv'
  BY ReturnGenerations DEF Refuse, card
<1>1. \A m : ShowList(m) /\ at = "load" => GInv'
  BY ReturnGenerations DEF ShowList, card
<1>2. StartOver /\ at = "load" => GInv'
  BY DEF StartOver, GInv, CopiesSound, UpdateSound, Updating, BadCopy, card
<1>3. CASE LoadFails
  BY <1>3, ReturnGenerations DEF LoadFails, card
<1>4. CASE LoadNone \/ LoadCorrupt
  BY <1>0, <1>1, <1>2, <1>4 DEF LoadNone, LoadCorrupt
<1>5. CASE LoadFound
  <2>1. PICK c \in Copies :
          /\ at = "load" /\ exists /\ Newest(c)
          /\ \/ ShowList(meta[c])
             \/ \E r : Refuse(r)
             \/ /\ op.edit # "List" /\ (NeedsBook => op.book \in BooksIn(meta[c].dir))
                /\ Edited(c, op.book \in BooksIn(meta[c].dir))
    BY <1>5 DEF LoadFound
  <2>2. CASE /\ op.edit # "List" /\ (NeedsBook => op.book \in BooksIn(meta[c].dir))
             /\ Edited(c, op.book \in BooksIn(meta[c].dir))
    <3> DEFINE known == op.book \in BooksIn(meta[c].dir)
    <3>1. known \in BOOLEAN /\ (op.edit = "Remove" => known)
      BY <2>2 DEF NeedsBook
    <3> QED
      BY <2>1, <2>2, <3>1, EditedGenerations
  <2> QED
    BY <1>0, <1>1, <2>1, <2>2
<1> QED
  BY <1>3, <1>4, <1>5 DEF Load

LEMMA CreateGenerations == ASSUME TInv, GInv, Create PROVE GInv'
<1> USE DEF GInv, CopiesSound, UpdateSound, Updating
<1>1. CASE SetAside
  <2>1. \A c \in Copies : meta'[c] = BadCopy
    BY <1>1 DEF SetAside
  <2> QED
    BY <1>1, <2>1 DEF SetAside, BadCopy, call
<1>2. CASE CreateTmp
  <2>1. mem'.dir = mem.dir /\ mem'.seq = 1
    BY <1>2 DEF CreateTmp, TInv, TypeOK, Copy
  <2> QED
    BY <1>2, <2>1 DEF CreateTmp, EditVars
<1>3. CASE CreateRename
  <2> DEFINE m == [BadCopy EXCEPT !.seq = 1]
  <2>1. m \in Copy /\ m.dir = Empty /\ m.seq = 1
    BY EmptyTypes DEF Copy, BadCopy
  <2>2. \A c \in Copies : meta'[c] = IF c = 0 THEN Sealed(m) ELSE BadCopy
    BY <1>3 DEF CreateRename
  <2> HIDE DEF m
  <2>3. Sealed(m).valid /\ Sealed(m).seq = 1 /\ Sealed(m).dir = Empty
    BY <2>1, SealedType, SealedValid, EmptyDistinct
  <2>4. /\ mem' = mem /\ mem.seq = 1 /\ mem.dir = Empty /\ live' = 0 /\ exists' /\ at' = "slot"
        /\ unflushed' = {} /\ result' = "None"
    BY <1>3 DEF CreateRename
  <2>5. Newest(live)'
    BY <2>2, <2>3, <2>4 DEF Newest, BadCopy
  <2> QED
    BY <2>2, <2>3, <2>4, <2>5, EmptyDistinct DEF BadCopy
<1>4. CASE CreateFails
  BY <1>4, ReturnGenerations DEF CreateFails
<1> QED
  BY <1>1, <1>2, <1>3, <1>4 DEF Create

\* The other copy, bad, as it was, or of the next generation.
LEMMA OtherCopySound ==
  ASSUME TInv, CopiesSound, NEW copy, meta' = [meta EXCEPT ![OtherCopy] = copy],
         \/ copy = meta[OtherCopy] \/ ~copy.valid
         \/ copy.seq = meta[live].seq + 1 /\ DistinctSlots(copy.dir)
  PROVE  CopiesSound'
<1>1. /\ live \in Copies /\ OtherCopy \in Copies /\ meta \in [Copies -> Copy] /\ meta[live].seq \in Nat
  BY DEF TInv, TypeOK, OtherCopy, Copy
<1>2. \A c \in Copies : meta'[c] = IF c = OtherCopy THEN copy ELSE meta[c]
  BY <1>1
<1> QED
  BY <1>1, <1>2 DEF CopiesSound

LEMMA WriteGenerations == ASSUME TInv, GInv, Write PROVE GInv'
<1>0. mem \in Copy /\ mem.dir \in Directory /\ TakenSlots(mem.dir) \subseteq Slots
  BY EntryType DEF TInv, TypeOK, Copy, TakenSlots
<1>1. CASE WriteSlot
  <2>1. target' \notin TakenSlots(mem.dir)
    BY <1>0, <1>1, FreeSlotFree DEF WriteSlot
  <2> QED
    BY <1>1, <2>1 DEF WriteSlot, Files, GInv, CopiesSound, UpdateSound, Updating, Newest
<1>2. CASE WriteSlotFails
  BY <1>2, ReturnGenerations DEF WriteSlotFails
<1>3. CASE FlushSlot
  <2>1. /\ at = "flushSlot" /\ at' = "meta" /\ unflushed' = {} /\ UNCHANGED <<exists, live, meta, result>>
        /\ index \in Entries /\ target \notin TakenSlots(mem.dir) /\ DistinctSlots(mem.dir)
        /\ mem' = [mem EXCEPT !.dir[index] = EntryFor(book, target)]
    BY <1>3 DEF FlushSlot, Flush, EditVars, GInv, UpdateSound, TInv, TypeOK, Updating
  <2>2. mem'.dir = [mem.dir EXCEPT ![index] = EntryFor(book, target)] /\ mem'.seq = mem.seq
    BY <1>0, <2>1 DEF Copy
  <2>3. \A e \in Used(mem'.dir) : IF e = index THEN mem'.dir[e].slot = target
                                  ELSE e \in Used(mem.dir) /\ mem'.dir[e] = mem.dir[e]
    BY <1>0, <2>1, <2>2 DEF Used, Directory, EntryFor
  <2>4. DistinctSlots(mem'.dir)
    BY <2>1, <2>3 DEF DistinctSlots, TakenSlots
  <2> QED
    BY <2>1, <2>2, <2>4 DEF GInv, CopiesSound, UpdateSound, Updating, Newest
<1>4. CASE WriteMeta
  <2>1. /\ at = "meta" /\ at' = "flushMeta" /\ unflushed' = unflushed \cup {"meta"}
        /\ UNCHANGED <<exists, meta, live, result>> /\ mem' = NextGeneration
    BY <1>4 DEF WriteMeta, Files, EditVars
  <2>2. mem'.dir = mem.dir /\ mem'.seq = mem.seq + 1
    BY <1>0, <2>1, NextGenerationType
  <2>3. [mem EXCEPT !.seq = @ + 1] \in Copy /\ [mem EXCEPT !.seq = @ + 1].dir = mem.dir
    BY <1>0 DEF Copy
  <2>4. DistinctSlots(mem.dir) /\ mem.seq = meta[live].seq /\ unflushed = {}
    BY <2>1 DEF GInv, UpdateSound, Updating
  <2>5. mem'.valid
    BY <2>1, <2>3, <2>4, SealedValid DEF NextGeneration
  <2> QED
    BY <2>1, <2>2, <2>4, <2>5 DEF GInv, CopiesSound, UpdateSound, Updating, Newest
<1>5. CASE WriteMetaFails
  <2>1. /\ at = "meta" /\ at' = "idle" /\ unflushed' = unflushed
    BY <1>5 DEF WriteMetaFails, Return, Released
  <2>2. DistinctSlots(mem.dir) /\ mem.seq = meta[live].seq /\ unflushed = {} /\ CopiesSound
    BY <2>1 DEF GInv, UpdateSound, Updating
  <2>3. PICK copy \in Outcomes(meta[OtherCopy], BadCopy, NextGeneration) :
          meta' = [meta EXCEPT ![OtherCopy] = copy]
    BY <1>5 DEF WriteMetaFails
  <2>4. \/ copy = meta[OtherCopy] \/ ~copy.valid
        \/ copy.seq = meta[live].seq + 1 /\ DistinctSlots(copy.dir)
    BY <1>0, <2>2, <2>3, NextGenerationType DEF Outcomes, BadCopy
  <2> QED
    BY <2>1, <2>2, <2>3, <2>4, OtherCopySound, IdleGenerations
<1>6. CASE FlushMeta
  <2>1. /\ at = "flushMeta" /\ at' = "idle" /\ unflushed' = {}
        /\ meta' = [meta EXCEPT ![OtherCopy] = mem] /\ CopiesSound
        /\ mem.seq = meta[live].seq + 1 /\ DistinctSlots(mem.dir)
    BY <1>6 DEF FlushMeta, Flush, Return, Released, GInv, UpdateSound, Updating
  <2> QED
    BY <2>1, OtherCopySound, IdleGenerations
<1> QED
  BY <1>1, <1>2, <1>3, <1>4, <1>5, <1>6 DEF Write

LEMMA WorldGenerations == ASSUME TInv, GInv, PowerCut \/ Damage PROVE GInv'
<1>1. CASE PowerCut
  <2>1. PICK copy \in Outcomes(meta[OtherCopy], BadCopy, mem) :
          meta' = IF "meta" \in unflushed THEN [meta EXCEPT ![OtherCopy] = copy] ELSE meta
    BY <1>1 DEF PowerCut
  <2>2. at' = "idle" /\ unflushed' = {} /\ CopiesSound
    BY <1>1 DEF PowerCut, Released, GInv
  <2>3. CASE at = "flushMeta"
    <3>1. meta' = [meta EXCEPT ![OtherCopy] = copy] /\ mem.seq = meta[live].seq + 1 /\ DistinctSlots(mem.dir)
      BY <2>1, <2>3 DEF GInv, UpdateSound, Updating
    <3>2. \/ copy = meta[OtherCopy] \/ ~copy.valid
          \/ copy.seq = meta[live].seq + 1 /\ DistinctSlots(copy.dir)
      BY <2>1, <3>1 DEF Outcomes, BadCopy
    <3> QED
      BY <2>2, <3>1, <3>2, OtherCopySound, IdleGenerations
  <2>4. CASE at # "flushMeta"
    <3>1. meta' = meta
      BY <2>1, <2>4 DEF GInv, UpdateSound
    <3> QED
      BY <2>2, <3>1, IdleGenerations DEF CopiesSound
  <2> QED
    BY <2>3, <2>4
<1>2. CASE Damage
  <2>1. at = "idle" /\ at' = "idle" /\ unflushed' = unflushed
    BY <1>2 DEF Damage, call
  <2>2. \A c \in Copies : meta'[c] = meta[c] \/ meta'[c] = BadCopy
    BY <1>2 DEF Damage, TInv, TypeOK
  <2>3. CopiesSound'
    BY <2>2 DEF CopiesSound, GInv, BadCopy
  <2> QED
    BY <2>1, <2>3, IdleGenerations DEF GInv, UpdateSound
<1> QED
  BY <1>1, <1>2

LEMMA GenerationsStep == ASSUME TInv, GInv, [Next]_vars PROVE GInv'
<1>1. CASE \E o \in Ops : Call(o)
  <2>1. at = "idle" /\ at' = "prepare" /\ result' = "None" /\ UNCHANGED <<meta, unflushed>>
    BY <1>1 DEF Call, card
  <2> QED
    BY <2>1 DEF GInv, CopiesSound, UpdateSound, Updating
<1>2. CASE Prepare
  <2>1. /\ at = "prepare" /\ UNCHANGED <<exists, meta, unflushed, result>>
        /\ at' = "load" \/ (at' = "import" /\ ~exists)
    BY <1>2 DEF Prepare
  <2> QED
    BY <2>1 DEF GInv, CopiesSound, UpdateSound, Updating
<1>3. CASE UNCHANGED vars
  BY <1>3 DEF vars, card, call, GInv, CopiesSound, UpdateSound, Updating, Newest
<1> QED
  BY <1>1, <1>2, <1>3, ImportGenerations, LoadGenerations, CreateGenerations, WriteGenerations, WorldGenerations
  DEF Next

\* An update that answers Done is flushed, and in the copy the next load takes: it is
\* valid and its generation is past the other's (ReadingStats.cpp:486-497).
THEOREM DoneIsKept == Spec => DoneIsOnTheCard
<1>1. Init => TInv /\ GInv
  BY InitTypes, InitGenerations
<1>2. TInv /\ GInv /\ [Next]_vars => TInv' /\ GInv'
  BY TypesStep, GenerationsStep
<1>3. ASSUME TInv, GInv, [Next]_vars, at = "flushMeta", result' = "Done"
      PROVE  /\ unflushed' = {}
             /\ \E c \in Copies : Newest(c)' /\ meta'[c].seq = mem.seq /\ meta'[c].dir = mem.dir
  <2>1. CASE FlushMeta
    <3>1. /\ unflushed' = {} /\ meta' = [meta EXCEPT ![OtherCopy] = mem]
          /\ mem.valid /\ mem.seq = meta[live].seq + 1
      BY <1>3, <2>1 DEF FlushMeta, Flush, GInv, UpdateSound
    <3>2. /\ live \in Copies /\ OtherCopy \in Copies /\ OtherCopy # live /\ Copies = {live, OtherCopy}
          /\ meta \in [Copies -> Copy] /\ meta[live].seq \in Nat
      BY <1>3 DEF TInv, TypeOK, OtherCopy, Copy
    <3>3. PICK c \in Copies, d \in Copies : c = OtherCopy /\ d = live
      BY <3>2
    <3>4. c # d /\ Copies = {c, d} /\ meta'[c] = mem /\ meta'[d] = meta[d] /\ mem.seq = meta[d].seq + 1
          /\ meta[d].seq \in Nat
      BY <3>1, <3>2, <3>3
    <3>5. Newest(c)'
      BY <3>1, <3>4 DEF Newest
    <3> QED
      BY <3>1, <3>4, <3>5
  <2>2. CASE ~FlushMeta
    <3>1. result = "None"
      BY <1>3 DEF GInv, UpdateSound
    <3>2. ~Next
      BY <1>3, <2>2 DEF Next, Call, Prepare, Import, ImportCreate, ImportBook, ImportSeal, ImportRename,
         ImportRetire, ImportMalformed, ImportFails, Load, LoadFails, LoadNone, LoadCorrupt, LoadFound,
         Create, SetAside, CreateTmp, CreateRename, CreateFails, Write, WriteSlot, WriteSlotFails,
         FlushSlot, WriteMeta, WriteMetaFails, PowerCut, Damage
    <3> QED
      BY <1>3, <3>1, <3>2 DEF vars, call
  <2> QED
    BY <2>1, <2>2
<1>4. TInv /\ GInv /\ [Next]_vars => [at = "flushMeta" /\ result' = "Done" =>
        /\ unflushed' = {}
        /\ \E c \in Copies : Newest(c)' /\ meta'[c].seq = mem.seq /\ meta'[c].dir = mem.dir]_vars
  BY <1>3
<1> QED
  BY <1>1, <1>2, <1>4, PTL DEF Spec, DoneIsOnTheCard

----------------------------------------------------------------------------
(* The list on show knows which history it was read from. *)

ListCurrent ==
  /\ ~exists => list.seq = 0
  /\ \A c \in Copies : exists /\ Newest(c) =>
       list.seq <= meta[c].seq /\ (list.seq = meta[c].seq => list.dir = meta[c].dir)

ListSound == damages = 0 => ListCurrent

LEMMA ListUntouched ==
  ASSUME ListCurrent, UNCHANGED <<exists, meta, list>> PROVE ListCurrent'
BY DEF ListCurrent, Newest

\* A first history has a generation past that of a list read when there was none.
LEMMA FirstGeneration ==
  ASSUME TInv, ListCurrent, ~exists, list' = list, NEW copy \in Copy, copy.seq = 1,
         \A c \in Copies : meta'[c] = IF c = 0 THEN copy ELSE BadCopy, exists'
  PROVE  ListCurrent'
<1>1. \A c \in Copies : Newest(c)' => c = 0
  BY DEF Newest, BadCopy
<1> QED
  BY <1>1 DEF ListCurrent

\* Whatever a meta write left, a list of the new number was not read yet.
LEMMA NextGenerationUnseen ==
  ASSUME TInv, ListCurrent, exists, Newest(live), UNCHANGED <<exists, list>>,
         NEW copy \in Copy, meta' = [meta EXCEPT ![OtherCopy] = copy],
         copy = meta[OtherCopy] \/ ~copy.valid \/ copy.seq = meta[live].seq + 1
  PROVE  ListCurrent'
<1>1. /\ live \in Copies /\ OtherCopy \in Copies /\ OtherCopy # live /\ Copies = {live, OtherCopy}
      /\ meta \in [Copies -> Copy] /\ meta[live].seq \in Nat /\ list.seq \in Nat
  BY DEF TInv, TypeOK, OtherCopy, Copy
<1>2. meta'[live] = meta[live] /\ meta'[OtherCopy] = copy
  BY <1>1
<1>3. list.seq <= meta[live].seq /\ (list.seq = meta[live].seq => list.dir = meta[live].dir)
  BY <1>1 DEF ListCurrent
<1>4. CASE copy = meta[OtherCopy]
  <2>1. meta' = meta
    BY <1>1, <1>4
  <2> QED
    BY <2>1, ListUntouched
<1>5. CASE ~copy.valid
  <2>1. \A c \in Copies : Newest(c)' => c = live
    BY <1>1, <1>2, <1>5 DEF Newest
  <2> QED
    BY <1>2, <1>3, <2>1 DEF ListCurrent
<1>6. CASE copy.seq = meta[live].seq + 1
  BY <1>1, <1>2, <1>3, <1>6 DEF ListCurrent
<1> QED
  BY <1>4, <1>5, <1>6

LEMMA ListLoad == ASSUME TInv, HInv, GInv, ListCurrent, Load PROVE ListCurrent'
<1>1. CASE UNCHANGED <<exists, meta, list>>
  BY <1>1, ListUntouched
<1>2. CASE ~exists /\ ShowList(NoList)
  BY <1>2 DEF ShowList, NoList, ListCurrent, card
<1>3. ASSUME NEW c \in Copies, exists, Newest(c), ShowList(meta[c]) PROVE ListCurrent'
  <2>1. /\ UNCHANGED <<exists, meta>> /\ list'.seq = meta[c].seq /\ list'.dir = meta[c].dir
        /\ meta[c].seq \in Nat
    BY <1>3 DEF ShowList, card, TInv, TypeOK, Copy
  <2>2. \A d \in Copies : Newest(d)' => d = c
    BY <1>3, <2>1, NewestUnique DEF TInv, Newest
  <2> QED
    BY <1>3, <2>1, <2>2 DEF ListCurrent
<1> QED
  BY <1>1, <1>2, <1>3 DEF Load, LoadFails, LoadNone, LoadCorrupt, LoadFound, Refuse, StartOver, Edited, card

LEMMA ListCreate == ASSUME TInv, HInv, GInv, ListCurrent, Create PROVE ListCurrent'
<1>1. CASE SetAside
  BY <1>1 DEF SetAside, HInv, UpdateHealthy
<1>2. CASE CreateTmp \/ CreateFails
  BY <1>2, ListUntouched DEF CreateTmp, CreateFails
<1>3. CASE CreateRename
  <2> DEFINE m == [BadCopy EXCEPT !.seq = 1]
  <2>1. m \in Copy /\ m.seq = 1
    BY EmptyTypes DEF Copy, BadCopy
  <2>2. (\A c \in Copies : meta'[c] = IF c = 0 THEN Sealed(m) ELSE BadCopy) /\ exists' /\ list' = list
    BY <1>3 DEF CreateRename
  <2>3. ~exists
    BY <1>3 DEF CreateRename, HInv, UpdateHealthy
  <2> HIDE DEF m
  <2>4. Sealed(m) \in Copy /\ Sealed(m).seq = 1
    BY <2>1, SealedType
  <2> QED
    BY <2>2, <2>3, <2>4, FirstGeneration
<1> QED
  BY <1>1, <1>2, <1>3 DEF Create

LEMMA ListImport == ASSUME TInv, HInv, GInv, ListCurrent, Import PROVE ListCurrent'
<1>1. CASE ImportRename
  <2>1. /\ \A c \in Copies : meta'[c] = IF c = 0 THEN mem ELSE BadCopy
        /\ exists' /\ list' = list /\ mem.seq = 1 /\ mem \in Copy /\ ~exists
    BY <1>1 DEF ImportRename, GInv, UpdateSound, TInv, TypeOK
  <2> QED
    BY <2>1, FirstGeneration
<1>2. CASE ~ImportRename
  BY <1>2, ListUntouched DEF Import, ImportCreate, ImportBook, ImportSeal, ImportRetire, ImportMalformed,
     ImportFails, card
<1> QED
  BY <1>1, <1>2

LEMMA ListWrite == ASSUME TInv, HInv, GInv, ListCurrent, Write PROVE ListCurrent'
<1>1. CASE WriteSlot \/ WriteSlotFails \/ WriteMeta
  BY <1>1, ListUntouched DEF WriteSlot, WriteSlotFails, WriteMeta, Files, Outside
<1>2. CASE FlushSlot
  BY <1>2, ListUntouched DEF FlushSlot, Flush, GInv, UpdateSound
<1>3. CASE WriteMetaFails
  <2>1. /\ exists /\ Newest(live) /\ mem.seq = meta[live].seq /\ mem \in Copy /\ UNCHANGED <<exists, list>>
        /\ meta[OtherCopy] \in Copy
    BY <1>3 DEF WriteMetaFails, GInv, UpdateSound, Updating, TInv, TypeOK, OtherCopy
  <2>2. PICK copy \in Outcomes(meta[OtherCopy], BadCopy, NextGeneration) :
          meta' = [meta EXCEPT ![OtherCopy] = copy]
    BY <1>3 DEF WriteMetaFails
  <2>3. /\ copy \in Copy
        /\ copy = meta[OtherCopy] \/ ~copy.valid \/ copy.seq = meta[live].seq + 1
    <3>1. NextGeneration \in Copy /\ NextGeneration.seq = meta[live].seq + 1
      BY <2>1, NextGenerationType
    <3>2. BadCopy \in Copy /\ ~BadCopy.valid
      BY EmptyTypes DEF BadCopy
    <3> QED
      BY <2>1, <2>2, <3>1, <3>2 DEF Outcomes
  <2> QED
    BY <2>1, <2>2, <2>3, NextGenerationUnseen
<1>4. CASE FlushMeta
  <2>1. /\ exists /\ Newest(live) /\ mem.seq = meta[live].seq + 1 /\ mem \in Copy
        /\ UNCHANGED <<exists, list>> /\ meta' = [meta EXCEPT ![OtherCopy] = mem]
    BY <1>4 DEF FlushMeta, Flush, GInv, UpdateSound, Updating, TInv, TypeOK
  <2> QED
    BY <2>1, NextGenerationUnseen
<1> QED
  BY <1>1, <1>2, <1>3, <1>4 DEF Write

\* The device comes up without a list.
LEMMA ListPowerCut == ASSUME TInv, HInv, GInv, PowerCut PROVE ListCurrent'
<1>1. list' = NoList /\ GInv' /\ TInv'
  BY WorldGenerations, WorldTypes DEF PowerCut
<1>2. \A c \in Copies : Newest(c)' => meta'[c].seq \in Nat /\ meta'[c].seq # 0
  BY <1>1 DEF GInv, CopiesSound, Newest, TInv, TypeOK, Copy
<1> QED
  BY <1>1, <1>2 DEF ListCurrent, NoList

LEMMA ListStep ==
  ASSUME TInv, Healthy, GInv, ListSound, [Next]_vars PROVE ListSound'
<1>1. CASE Damage
  BY <1>1 DEF ListSound, Damage, TInv, TypeOK
<1>2. CASE UNCHANGED vars
  BY <1>2, ListUntouched DEF ListSound, vars, card, call
<1>3. CASE Next /\ ~Damage
  <2>1. damages' = damages
    BY <1>3, DamagesChange
  <2> SUFFICES ASSUME HInv, ListCurrent PROVE ListCurrent'
    BY <2>1 DEF ListSound, Healthy
  <2>2. CASE (\E o \in Ops : Call(o)) \/ Prepare
    BY <2>2, ListUntouched DEF Call, Prepare, card
  <2> QED
    BY <1>3, <2>2, ListImport, ListLoad, ListCreate, ListWrite, ListPowerCut DEF Next
<1> QED
  BY <1>1, <1>2, <1>3

\* Until a region of the card goes bad, a list of the generation the card holds shows
\* what the card holds: no failed or cut update leaves another history under a number
\* a list was read at (ReadingStats.cpp:705).
THEOREM StaleListsNoticed == Spec => [](damages = 0 => StaleIndexDetected)
<1>1. Init => TInv /\ Healthy /\ GInv /\ ListSound
  <2>1. Init => ListSound
    BY DEF ListSound, ListCurrent, Init, NoList
  <2> QED
    BY <2>1, InitTypes, InitHealthy, InitGenerations DEF Healthy
<1>2. TInv /\ Healthy /\ GInv /\ ListSound /\ [Next]_vars => TInv' /\ Healthy' /\ GInv' /\ ListSound'
  BY TypesStep, HealthyStep, GenerationsStep, ListStep
<1>3. ListSound => (damages = 0 => StaleIndexDetected)
  BY DEF ListSound, ListCurrent, StaleIndexDetected
<1> QED
  BY <1>1, <1>2, <1>3, PTL DEF Spec

----------------------------------------------------------------------------
(* A history is started by what adds reading to it. *)

AddsReading == at \in {"create", "rename"} => ~NeedsBook

LEMMA AddsReadingStep == ASSUME AddsReading, [Next]_vars PROVE AddsReading'
<1>1. CASE StartOver /\ ~NeedsBook
  BY <1>1 DEF StartOver, AddsReading, NeedsBook
<1>2. CASE at' \in {"create", "rename"} /\ at \in {"create", "rename"} /\ op' = op
  BY <1>2 DEF AddsReading, NeedsBook
<1>3. CASE at' \notin {"create", "rename"}
  BY <1>3 DEF AddsReading
<1>4. CASE UNCHANGED vars
  BY <1>4 DEF vars, call, AddsReading, NeedsBook
<1>5. CASE (\E o \in Ops : Call(o)) \/ Prepare \/ Import
  BY <1>3, <1>5 DEF Call, Prepare, Import, ImportCreate, ImportBook, ImportSeal, ImportRename, ImportRetire,
     ImportMalformed, ImportFails, Return, Released
<1>6. CASE Load
  BY <1>1, <1>3, <1>6 DEF Load, LoadFails, LoadNone, LoadCorrupt, LoadFound, Refuse, ShowList, Edited,
     Return, Released
<1>7. CASE Create
  BY <1>2, <1>3, <1>7 DEF Create, SetAside, CreateTmp, CreateRename, CreateFails, call, Return, Released
<1>8. CASE Write
  BY <1>3, <1>8 DEF Write, WriteSlot, WriteSlotFails, FlushSlot, WriteMeta, WriteMetaFails, FlushMeta,
     Return, Released
<1>9. CASE PowerCut \/ Damage
  BY <1>3, <1>9 DEF PowerCut, Damage, Released, call
<1> QED
  BY <1>4, <1>5, <1>6, <1>7, <1>8, <1>9 DEF Next

\* A removal or a rekey never sets an unreadable history aside, whatever went bad
\* (ReadingStats.cpp:425): only a write that adds reading does.
THEOREM RemovalKeepsTheFile == Spec => RemovalNeverStartsOver
<1>1. Init => AddsReading
  BY DEF Init, AddsReading
<1>2. AddsReading /\ [Next]_vars => [op.edit \in {"Remove", "Rekey"} /\ exists => exists']_vars
  <2>1. CASE SetAside
    BY <2>1 DEF AddsReading, NeedsBook, SetAside
  <2>2. CASE Next /\ ~SetAside
    <3>1. CASE (\E o \in Ops : Call(o)) \/ Prepare \/ Import
      BY <3>1 DEF Call, Prepare, Import, ImportCreate, ImportBook, ImportSeal, ImportRename, ImportRetire,
         ImportMalformed, ImportFails, card
    <3>2. CASE Load
      BY <3>2 DEF Load, LoadFails, LoadNone, LoadCorrupt, LoadFound, Refuse, ShowList, StartOver, Edited, card
    <3>3. CASE Create \/ Write \/ PowerCut \/ Damage
      BY <2>2, <3>3 DEF Create, CreateTmp, CreateRename, CreateFails, Write, WriteSlot, WriteSlotFails,
         FlushSlot, WriteMeta, WriteMetaFails, FlushMeta, PowerCut, Damage, card, Files
    <3> QED
      BY <2>2, <3>1, <3>2, <3>3 DEF Next
  <2> QED
    BY <2>1, <2>2
<1> QED
  BY <1>1, <1>2, AddsReadingStep, PTL DEF Spec, RemovalNeverStartsOver

----------------------------------------------------------------------------
(***************************************************************************)
(* A region of the card that goes bad costs the history one book's title   *)
(* and days, or its last update: whatever was bad before, whatever is      *)
(* written and cut in between, and however many regions go bad.            *)
(***************************************************************************)

----------------------------------------------------------------------------
(* The books of a directory that are not whole. *)

Lost(dir, slots) == {e \in Used(dir) : slots[dir[e].slot] #
  [book |-> dir[e].book, seconds |-> dir[e].seconds, lastRead |-> dir[e].lastRead, days |-> TRUE]}

\* Those of them an update into this slot does not touch.
Beside(dir, slots, free) == {e \in Lost(dir, slots) : dir[e].slot # free}

LEMMA Sizes ==
  /\ \A A \in SUBSET Entries : Cardinality(A) \in Nat
  /\ \A B \in SUBSET Entries : \A A \in SUBSET B : Cardinality(A) <= Cardinality(B)
  /\ \A B \in SUBSET Entries : \A x : \A A \in SUBSET (B \cup {x}) : Cardinality(A) <= Cardinality(B) + 1
<1>1. IsFiniteSet(Entries)
  BY FS_Interval, EntryCountAssumption DEF Entries
<1>2. \A A \in SUBSET Entries : IsFiniteSet(A) /\ Cardinality(A) \in Nat
  BY <1>1, FS_Subset, FS_CardinalityType
<1>3. \A B \in SUBSET Entries : \A A \in SUBSET B : Cardinality(A) <= Cardinality(B)
  BY <1>2, FS_Subset
<1>4. ASSUME NEW B \in SUBSET Entries, NEW x, NEW A \in SUBSET (B \cup {x})
      PROVE  Cardinality(A) <= Cardinality(B) + 1
  <2>1. IsFiniteSet(B \cup {x}) /\ Cardinality(B) \in Nat
    BY <1>2, FS_AddElement
  <2>2. Cardinality(B \cup {x}) \in {Cardinality(B), Cardinality(B) + 1}
    BY <1>2, FS_AddElement
  <2>3. Cardinality(A) \in Nat /\ Cardinality(A) <= Cardinality(B \cup {x})
    BY <2>1, FS_Subset, FS_CardinalityType
  <2> QED
    BY <2>1, <2>2, <2>3
<1> QED
  BY <1>2, <1>3, <1>4

LEMMA LostSize ==
  ASSUME NEW dir, NEW slots
  PROVE  Lost(dir, slots) \in SUBSET Entries /\ Cardinality(Lost(dir, slots)) \in Nat
<1>1. Lost(dir, slots) \in SUBSET Entries
  BY DEF Lost, Used
<1> QED
  BY <1>1, Sizes

LEMMA LostEntries ==
  ASSUME NEW dir, NEW slots, NEW free
  PROVE  /\ Lost(dir, slots) \in SUBSET Entries /\ Beside(dir, slots, free) \in SUBSET Entries
         /\ Beside(dir, slots, free) \in SUBSET Lost(dir, slots)
         /\ Cardinality(Lost(dir, slots)) \in Nat /\ Cardinality(Beside(dir, slots, free)) \in Nat
<1>1. Lost(dir, slots) \in SUBSET Entries /\ Beside(dir, slots, free) \in SUBSET Lost(dir, slots)
  BY DEF Lost, Used, Beside
<1> QED
  BY <1>1, Sizes

\* One slot written costs a directory that has a slot for each book one of them.
LEMMA OneSlotWritten ==
  ASSUME NEW dir \in Directory, DistinctSlots(dir), NEW slots \in [Slots -> Image],
         NEW s \in Slots, NEW image \in Image, NEW free
  PROVE  LET new == [slots EXCEPT ![s] = image] IN
         /\ Cardinality(Lost(dir, new)) <= Cardinality(Lost(dir, slots)) + 1
         /\ Cardinality(Beside(dir, new, free)) <= Cardinality(Beside(dir, slots, free)) + 1
         /\ Cardinality(Lost(dir, slots)) <= Cardinality(Beside(dir, slots, s)) + 1
<1> DEFINE new == [slots EXCEPT ![s] = image]
           x == CHOOSE e \in Used(dir) : dir[e].slot = s
<1>1. \A e \in Used(dir) : dir[e].slot \in Slots
  BY EntryType
<1>2. \A e \in Used(dir) : e # x => dir[e].slot # s
  <2> SUFFICES ASSUME NEW e \in Used(dir), dir[e].slot = s PROVE e = x
    OBVIOUS
  <2>1. x \in Used(dir) /\ dir[x].slot = s
    OBVIOUS
  <2> QED
    BY <2>1 DEF DistinctSlots
<1> HIDE DEF x
<1>3. \A e \in Used(dir) : e # x => new[dir[e].slot] = slots[dir[e].slot]
  BY <1>1, <1>2
<1>4. Lost(dir, new) \in SUBSET (Lost(dir, slots) \cup {x})
  BY <1>3 DEF Lost
<1>5. Beside(dir, new, free) \in SUBSET (Beside(dir, slots, free) \cup {x})
  BY <1>3 DEF Beside, Lost
<1>6. Lost(dir, slots) \in SUBSET (Beside(dir, slots, s) \cup {x})
  BY <1>2 DEF Beside, Lost
<1> QED
  BY <1>4, <1>5, <1>6, Sizes, LostEntries

\* A slot of none of its books: nothing.
LEMMA SpareWritten ==
  ASSUME NEW dir \in Directory, NEW slots \in [Slots -> Image], NEW s \in Slots, s \notin TakenSlots(dir),
         NEW image
  PROVE  Lost(dir, [slots EXCEPT ![s] = image]) = Lost(dir, slots)
<1>1. \A e \in Used(dir) : dir[e].slot \in Slots /\ dir[e].slot # s
  BY EntryType DEF TakenSlots
<1> QED
  BY <1>1 DEF Lost

LEMMA BesideWritten ==
  ASSUME NEW dir \in Directory, NEW slots \in [Slots -> Image], NEW s \in Slots, NEW image
  PROVE  Beside(dir, [slots EXCEPT ![s] = image], s) = Beside(dir, slots, s)
<1>1. \A e \in Used(dir) : dir[e].slot \in Slots
  BY EntryType
<1> QED
  BY <1>1 DEF Beside, Lost

----------------------------------------------------------------------------
(* The invariant. *)

\* The newest copy has lost no more books than regions have gone bad...
NewestLost == \A c \in Copies : exists /\ Newest(c) =>
  Cardinality(Lost(meta[c].dir, slot)) <= damages

\* ... and the other copy, besides one in the slot that the next update writes.
OlderLost == \A c, d \in Copies : exists /\ Newest(c) /\ d # c /\ meta[d].valid =>
  Cardinality(Beside(meta[d].dir, slot, FreeSlot(meta[c].dir))) <= damages

\* An update adds none: the book it writes is whole, or was lost before.
UpdateLost ==
  /\ at \in {"create", "rename"} => book.days = TRUE
  /\ at \in {"slot", "flushSlot"} => mem.dir = meta[live].dir
  /\ at = "slot" /\ book.days # TRUE =>
       op.book \in BooksIn(mem.dir) /\ FindEntry(mem.dir, op.book) \in Lost(mem.dir, slot)
  /\ at = "flushSlot" =>
       target = FreeSlot(mem.dir) /\ (book.days # TRUE => index \in Lost(mem.dir, slot))
  /\ at \in {"meta", "flushMeta"} => Lost(mem.dir, slot) \subseteq Lost(meta[live].dir, slot)

DInv == NewestLost /\ OlderLost /\ UpdateLost /\ ImportHealthy

LEMMA InitLost == ASSUME Init PROVE DInv
BY DEF Init, DInv, NewestLost, OlderLost, UpdateLost, ImportHealthy

LEMMA CardUntouched ==
  ASSUME NewestLost, OlderLost, UNCHANGED <<exists, meta, slot, damages>>
  PROVE  NewestLost' /\ OlderLost'
BY DEF NewestLost, OlderLost, Newest

LEMMA IdleLost ==
  ASSUME at' \notin {"create", "rename", "slot", "flushSlot", "meta", "flushMeta", "scan", "publish"}
  PROVE  UpdateLost' /\ ImportHealthy'
BY DEF UpdateLost, ImportHealthy

LEMMA ReturnLost ==
  ASSUME DInv, NEW r, Return(r), UNCHANGED <<exists, meta, slot, damages>>
  PROVE  DInv'
BY CardUntouched, IdleLost DEF DInv, Return, Released

\* A file of one valid copy that is whole in its slots.
LEMMA FreshFile ==
  ASSUME TInv', \A c \in Copies : meta'[c].valid => c = 0, Lost(meta'[0].dir, slot') = {}
  PROVE  NewestLost' /\ OlderLost'
<1>1. Cardinality({}) = 0 /\ damages' \in Nat
  BY FS_EmptySet DEF TInv, TypeOK
<1>2. \A c \in Copies : Newest(c)' => c = 0
  BY DEF Newest
<1> QED
  BY <1>1, <1>2 DEF NewestLost, OlderLost

----------------------------------------------------------------------------
(* The steps. *)

LEMMA CallLost == ASSUME DInv, NEW o \in Ops, Call(o) PROVE DInv'
BY CardUntouched, IdleLost DEF DInv, Call, card

LEMMA PrepareLost == ASSUME DInv, Prepare PROVE DInv'
BY CardUntouched, IdleLost DEF DInv, Prepare

\* An import has no history beside it that could lose a book.
LEMMA ImportLost == ASSUME TInv, GInv, DInv, TInv', Import PROVE DInv'
<1>1. CASE ImportRename
  <2>1. /\ mem \in Copy /\ Backed(mem.dir, draft) /\ slot' = draft /\ at' = "retire"
        /\ \A c \in Copies : meta'[c] = IF c = 0 THEN mem ELSE BadCopy
    BY <1>1 DEF ImportRename, DInv, ImportHealthy, TInv, TypeOK
  <2>2. Lost(meta'[0].dir, slot') = {}
    BY <2>1 DEF Lost, Backed
  <2>3. \A c \in Copies : meta'[c].valid => c = 0
    BY <2>1 DEF BadCopy
  <2> QED
    BY <2>1, <2>2, <2>3, FreshFile, IdleLost DEF DInv
<1>2. CASE ImportRetire
  BY <1>2, CardUntouched, IdleLost DEF DInv, ImportRetire
<1>3. CASE ImportCreate \/ ImportBook \/ ImportSeal \/ ImportMalformed \/ ImportFails
  <2>1. UNCHANGED <<exists, meta, slot, damages>>
    BY <1>3 DEF ImportCreate, ImportBook, ImportSeal, ImportMalformed, ImportFails, card
  <2>2. at \in {"import", "scan", "publish"}
    BY <1>3 DEF ImportCreate, ImportBook, ImportSeal, ImportMalformed, ImportFails
  <2>3. HInv
    BY <2>2 DEF HInv, FileHealthy, UpdateHealthy, GInv, UpdateSound, Updating, DInv
  <2>4. ImportHealthy'
    BY <1>3, <2>3, ImportStepHealthy DEF Import, HInv
  <2>5. UpdateLost'
    BY <1>3 DEF UpdateLost, ImportCreate, ImportBook, ImportSeal, ImportMalformed, ImportFails, Return, Released
  <2> QED
    BY <2>1, <2>4, <2>5, CardUntouched DEF DInv
<1> QED
  BY <1>1, <1>2, <1>3 DEF Import

LEMMA StartOverLost == ASSUME TInv, DInv, StartOver, op.edit # "List" PROVE DInv'
<1>1. op \in Ops /\ op.book \in Books /\ NewBook(op.book) \in BookImage /\ NewBook(op.book).days = TRUE
  BY OpBook, NewBookType DEF TInv, TypeOK
<1>2. book'.days = TRUE /\ at' = "create" /\ UNCHANGED <<exists, meta, slot, damages>>
  BY <1>1, AppliedType DEF StartOver, card
<1>3. UpdateLost' /\ ImportHealthy'
  BY <1>2 DEF UpdateLost, ImportHealthy
<1> QED
  BY <1>2, <1>3, CardUntouched DEF DInv

LEMMA EditedLost ==
  ASSUME TInv, DInv, at = "load", exists, NEW c \in Copies, Newest(c), op.edit # "List",
         NEW known \in BOOLEAN, known <=> op.book \in BooksIn(meta[c].dir),
         op.edit = "Remove" => known, Edited(c, known)
  PROVE  DInv'
<1> DEFINE dir == meta[c].dir
           e == FindEntry(dir, op.book)
           read == IF known THEN ReadBook(dir[e]) ELSE NewBook(op.book)
<1>1. /\ UNCHANGED card /\ live' = c /\ meta[c] \in Copy /\ dir \in Directory /\ op \in Ops
      /\ op.book \in Books /\ slot \in [Slots -> Image] /\ op' = op
  BY OpBook DEF Edited, TInv, TypeOK, Copy
<1>2. known => e \in Used(dir)
  BY FoundEntry
<1>3. CASE op.edit = "Remove"
  <2>1. mem'.dir = [dir EXCEPT ![e] = Free] /\ at' = "meta"
    BY <1>1, <1>3 DEF Edited, Copy
  <2>2. Lost(mem'.dir, slot) \subseteq Lost(dir, slot)
    <3> DEFINE new == [dir EXCEPT ![e] = Free]
    <3>1. Used(new) \subseteq Used(dir) /\ \A f \in Used(new) : new[f] = dir[f]
      BY <1>1, <1>2, <1>3 DEF Used, Directory, Free
    <3> HIDE DEF new
    <3>2. Lost(new, slot) \subseteq Lost(dir, slot)
      BY <3>1 DEF Lost
    <3> QED
      BY <2>1, <3>2 DEF new
  <2>3. UpdateLost' /\ ImportHealthy'
    BY <1>1, <2>1, <2>2 DEF UpdateLost, ImportHealthy, card
  <2> QED
    BY <1>1, <2>3, CardUntouched DEF DInv, card
<1>4. CASE op.edit # "Remove"
  <2>1. mem'.dir = dir /\ at' = "slot" /\ book' = Applied(op, read)
    BY <1>1, <1>4 DEF Edited, Copy
  <2>2. read \in BookImage
    BY <1>1, <1>2, ReadBookType, NewBookType
  <2>3. known /\ ReadBook(dir[e]).days # TRUE => e \in Lost(dir, slot)
    <3> SUFFICES ASSUME known, slot[dir[e].slot] = [book |-> dir[e].book, seconds |-> dir[e].seconds,
                                                    lastRead |-> dir[e].lastRead, days |-> TRUE]
                 PROVE  ReadBook(dir[e]).days = TRUE
      BY <1>2 DEF Lost
    <3>1. slot[dir[e].slot].book = dir[e].book /\ slot[dir[e].slot].days = TRUE
      OBVIOUS
    <3> QED
      BY <3>1 DEF ReadBook
  <2>4. ~known => read.days = TRUE
    BY <1>1, NewBookType
  <2>5. book'.days = read.days
    BY <1>1, <2>1, <2>2, AppliedType
  <2>6. book'.days # TRUE => known /\ e \in Lost(dir, slot)
    BY <2>3, <2>4, <2>5
  <2> HIDE DEF read
  <2>7. UpdateLost' /\ ImportHealthy'
    BY <1>1, <2>1, <2>6 DEF UpdateLost, ImportHealthy, card
  <2> QED
    BY <1>1, <2>7, CardUntouched DEF DInv, card
<1> QED
  BY <1>3, <1>4

LEMMA LoadLost == ASSUME TInv, DInv, Load PROVE DInv'
<1>0. (\E r : Refuse(r)) \/ (\E m : ShowList(m)) => DInv'
  BY ReturnLost DEF Refuse, ShowList, card
<1>1. CASE LoadFails
  BY <1>1, ReturnLost DEF LoadFails, card
<1>2. CASE LoadNone \/ LoadCorrupt
  BY <1>0, <1>2, StartOverLost DEF LoadNone, LoadCorrupt
<1>3. CASE LoadFound
  <2>1. PICK c \in Copies :
          /\ at = "load" /\ exists /\ Newest(c)
          /\ \/ ShowList(meta[c])
             \/ \E r : Refuse(r)
             \/ /\ op.edit # "List" /\ (op.edit = "Remove" => op.book \in BooksIn(meta[c].dir))
                /\ Edited(c, op.book \in BooksIn(meta[c].dir))
    BY <1>3 DEF LoadFound, NeedsBook
  <2>2. CASE /\ op.edit # "List" /\ (op.edit = "Remove" => op.book \in BooksIn(meta[c].dir))
             /\ Edited(c, op.book \in BooksIn(meta[c].dir))
    <3> DEFINE known == op.book \in BooksIn(meta[c].dir)
    <3>1. known \in BOOLEAN
      OBVIOUS
    <3> QED
      BY <2>1, <2>2, <3>1, EditedLost
  <2> QED
    BY <1>0, <2>1, <2>2
<1> QED
  BY <1>1, <1>2, <1>3 DEF Load

LEMMA CreateLost == ASSUME TInv, GInv, DInv, TInv', Create PROVE DInv'
<1>1. CASE SetAside
  BY <1>1 DEF SetAside, call, DInv, NewestLost, OlderLost, UpdateLost, ImportHealthy
<1>2. CASE CreateTmp
  <2>1. UpdateLost' /\ ImportHealthy' /\ UNCHANGED <<exists, meta, slot, damages>>
    BY <1>2 DEF CreateTmp, EditVars, DInv, UpdateLost, ImportHealthy
  <2> QED
    BY <2>1, CardUntouched DEF DInv
<1>3. CASE CreateRename
  <2> DEFINE m == [BadCopy EXCEPT !.seq = 1]
  <2>1. m \in Copy /\ m.dir = Empty
    BY EmptyTypes DEF Copy, BadCopy
  <2>2. /\ \A c \in Copies : meta'[c] = IF c = 0 THEN Sealed(m) ELSE BadCopy
        /\ live' = 0 /\ at' = "slot" /\ UNCHANGED <<mem, book>> /\ mem.dir = Empty /\ book.days = TRUE
    BY <1>3 DEF CreateRename, GInv, UpdateSound, DInv, UpdateLost
  <2> HIDE DEF m
  <2>3. meta'[0].dir = Empty /\ ~meta'[1].valid
    BY <2>1, <2>2, SealedType DEF BadCopy
  <2>4. Lost(meta'[0].dir, slot') = {}
    BY <2>3 DEF Lost, Used, Empty, Free
  <2>5. UpdateLost' /\ ImportHealthy'
    BY <2>2, <2>3 DEF UpdateLost, ImportHealthy
  <2>6. NewestLost' /\ OlderLost'
    BY <2>3, <2>4, FreshFile
  <2> QED
    BY <2>5, <2>6 DEF DInv
<1>4. CASE CreateFails
  BY <1>4, ReturnLost DEF CreateFails
<1> QED
  BY <1>1, <1>2, <1>3, <1>4 DEF Create

\* What a write leaves in the spare slot of the newest copy.
LEMMA SpareSlotLost ==
  ASSUME TInv, GInv, DInv, at \in {"slot", "flushSlot"}, NEW image \in Image,
         slot' = [slot EXCEPT ![FreeSlot(mem.dir)] = image], UNCHANGED <<exists, meta, damages>>
  PROVE  /\ NewestLost' /\ OlderLost'
         /\ Lost(mem.dir, slot') = Lost(mem.dir, slot) /\ FreeSlot(mem.dir) \in Slots
<1> DEFINE s == FreeSlot(mem.dir)
<1>1. /\ exists /\ Newest(live) /\ mem.dir = meta[live].dir /\ mem.dir \in Directory /\ live \in Copies
      /\ slot \in [Slots -> Image] /\ \A c \in Copies : meta[c].dir \in Directory
      /\ \A c \in Copies : Newest(c) => c = live
  BY NewestUnique DEF GInv, UpdateSound, Updating, DInv, UpdateLost, TInv, TypeOK, Copy
<1>2. s \in Slots /\ s \notin TakenSlots(mem.dir)
  BY <1>1, FreeSlotFree
<1> HIDE DEF s
<1>3. slot' = [slot EXCEPT ![s] = image]
  BY DEF s
<1>4. Lost(mem.dir, slot') = Lost(mem.dir, slot)
  <2>1. Lost(mem.dir, [slot EXCEPT ![s] = image]) = Lost(mem.dir, slot)
    BY <1>1, <1>2, SpareWritten
  <2> QED
    BY <1>3, <2>1
<1>5. \A d \in Copies : Beside(meta[d].dir, slot', s) = Beside(meta[d].dir, slot, s)
  <2>1. \A d \in Copies : Beside(meta[d].dir, [slot EXCEPT ![s] = image], s) = Beside(meta[d].dir, slot, s)
    BY <1>1, <1>2, BesideWritten
  <2> QED
    BY <1>3, <2>1
<1>6. \A c \in Copies : Newest(c)' => c = live
  BY <1>1 DEF Newest
<1>7. NewestLost'
  BY <1>1, <1>4, <1>6 DEF NewestLost, DInv
<1>8. OlderLost'
  BY <1>1, <1>5, <1>6 DEF OlderLost, DInv, s
<1> QED
  BY <1>2, <1>4, <1>7, <1>8 DEF s

\* What a write leaves in the copy that is not the newest.
LEMMA OtherCopyLost ==
  ASSUME TInv, GInv, DInv, at \in {"meta", "flushMeta"}, NEW copy \in Copy,
         meta' = [meta EXCEPT ![OtherCopy] = copy], UNCHANGED <<exists, slot, damages>>,
         \/ copy = meta[OtherCopy] \/ ~copy.valid
         \/ copy.valid /\ copy.dir = mem.dir /\ copy.seq = meta[live].seq + 1
  PROVE  NewestLost' /\ OlderLost'
<1>1. /\ live \in Copies /\ OtherCopy \in Copies /\ OtherCopy # live /\ Copies = {live, OtherCopy}
      /\ meta \in [Copies -> Copy] /\ meta[live].seq \in Nat /\ exists /\ Newest(live)
      /\ damages \in Nat
  BY DEF TInv, TypeOK, OtherCopy, Copy, GInv, UpdateSound, Updating
<1>2. PICK o \in Copies : o = OtherCopy
  BY <1>1
<1>3. meta'[live] = meta[live] /\ meta'[o] = copy
  BY <1>1, <1>2
<1>4. Cardinality(Lost(meta[live].dir, slot)) <= damages /\ Lost(mem.dir, slot) \subseteq Lost(meta[live].dir, slot)
  BY <1>1 DEF DInv, NewestLost, UpdateLost
<1>5. CASE copy = meta[OtherCopy]
  <2>1. meta' = meta
    BY <1>1, <1>5
  <2> QED
    BY <2>1, CardUntouched DEF DInv
<1>6. CASE ~copy.valid
  <2>1. \A c \in Copies : Newest(c)' => c = live
    BY <1>1, <1>2, <1>3, <1>6 DEF Newest
  <2>2. \A d \in Copies : meta'[d].valid => d = live
    BY <1>1, <1>2, <1>3, <1>6
  <2> QED
    BY <1>1, <1>3, <1>4, <2>1, <2>2 DEF NewestLost, OlderLost
<1>7. CASE copy.valid /\ copy.dir = mem.dir /\ copy.seq = meta[live].seq + 1
  <2>1. meta'[o].valid /\ meta'[live].seq < meta'[o].seq
    BY <1>1, <1>2, <1>3, <1>7
  <2>2. \A c \in Copies : Newest(c)' => c = o
    <3>1. SUFFICES ASSUME NEW c \in Copies, c = live PROVE ~Newest(c)'
      BY <1>1, <1>2
    <3>2. meta[c].seq \in Nat /\ meta'[c] = meta[c] /\ meta'[o].seq = meta[c].seq + 1 /\ o # c
      BY <1>1, <1>2, <1>3, <1>7, <3>1
    <3> QED
      BY <2>1, <3>2 DEF Newest
  <2>3. Cardinality(Lost(mem.dir, slot)) <= damages
    BY <1>1, <1>4, Sizes, LostEntries
  <2>4. \A free : Cardinality(Beside(meta[live].dir, slot, free)) <= damages
    BY <1>1, <1>4, Sizes, LostEntries
  <2>5. NewestLost'
    BY <1>3, <1>7, <2>2, <2>3 DEF NewestLost
  <2>6. OlderLost'
    BY <1>1, <1>2, <1>3, <2>2, <2>4 DEF OlderLost
  <2> QED
    BY <2>5, <2>6
<1> QED
  BY <1>5, <1>6, <1>7

LEMMA WriteSlotLost == ASSUME TInv, GInv, DInv, WriteSlot \/ WriteSlotFails PROVE DInv'
<1>0. mem.dir \in Directory /\ book \in Image
  BY DEF TInv, TypeOK, Copy
<1>1. CASE WriteSlot
  <2>1. /\ at = "slot" /\ at' = "flushSlot" /\ UNCHANGED <<Files, damages, live, mem, book, op>>
        /\ target' = FreeSlot(mem.dir)
        /\ op.book \in BooksIn(mem.dir) => index' = FindEntry(mem.dir, op.book)
    BY <1>1 DEF WriteSlot, Outside
  <2>2. UpdateLost' /\ ImportHealthy'
    BY <2>1 DEF DInv, UpdateLost, ImportHealthy, Files
  <2> QED
    BY <2>1, <2>2, CardUntouched DEF DInv, Files
<1>2. CASE WriteSlotFails
  <2> DEFINE free == Slots \ TakenSlots(mem.dir)
  <2>1. at = "slot" /\ at' = "idle" /\ UNCHANGED <<exists, meta, damages>>
    BY <1>2 DEF WriteSlotFails, Return, Released
  <2>2. \A q \in free : (\A u \in free : q <= u) => q = FreeSlot(mem.dir)
    <3>1. FreeSlot(mem.dir) \in free /\ free \in SUBSET Nat
      BY <1>0, FreeSlotFree, EntryCountAssumption DEF Slots
    <3>2. \A y \in free : FreeSlot(mem.dir) <= y
      BY <3>1, MinOfNat DEF FreeSlot
    <3> QED
      BY <3>1, <3>2
  <2>3. slot' = slot \/ \E image \in {BadSlot, book} : slot' = [slot EXCEPT ![FreeSlot(mem.dir)] = image]
    BY <1>2, <2>2 DEF WriteSlotFails
  <2>4. NewestLost' /\ OlderLost'
    BY <1>0, <2>1, <2>3, CardUntouched, SpareSlotLost, EmptyTypes DEF DInv
  <2> QED
    BY <2>1, <2>4, IdleLost DEF DInv
<1> QED
  BY <1>1, <1>2

\* The book is on the card, and its entry in memory: whole, or lost as it was.
LEMMA FlushSlotLost == ASSUME TInv, GInv, DInv, FlushSlot PROVE DInv'
<1>1. /\ at = "flushSlot" /\ at' = "meta" /\ target = FreeSlot(mem.dir) /\ mem.dir = meta[live].dir
      /\ slot' = [slot EXCEPT ![target] = book] /\ UNCHANGED <<exists, meta, damages, live, book, index, target>>
      /\ mem' = [mem EXCEPT !.dir[index] = EntryFor(book, target)]
      /\ book.days # TRUE => index \in Lost(mem.dir, slot)
  BY DEF FlushSlot, Flush, GInv, UpdateSound, DInv, UpdateLost, EditVars
<1>2. /\ mem \in Copy /\ mem.dir \in Directory /\ index \in Entries /\ target \in Slots /\ book \in BookImage
      /\ slot \in [Slots -> Image] /\ book \in Image
  BY <1>1 DEF TInv, TypeOK, CallShape, Copy
<1>3. /\ NewestLost' /\ OlderLost' /\ Lost(mem.dir, slot') = Lost(mem.dir, slot)
  BY <1>1, <1>2, SpareSlotLost
<1> DEFINE x == EntryFor(book, target)
           new == [mem.dir EXCEPT ![index] = x]
<1>4. mem'.dir = new
  BY <1>1, <1>2 DEF Copy
<1>5. Lost(new, slot') \subseteq Lost(mem.dir, slot')
  <2>1. new[index] = x /\ \A e \in Used(new) \ {index} : e \in Used(mem.dir) /\ new[e] = mem.dir[e]
    BY <1>2 DEF Used, Directory
  <2>2. /\ x.slot = target /\ slot'[target] = book
        /\ book.days = TRUE => book = [book |-> x.book, seconds |-> x.seconds, lastRead |-> x.lastRead,
                                       days |-> TRUE]
    BY <1>1, <1>2 DEF EntryFor, BookImage
  <2> HIDE DEF new, x
  <2>3. CASE book.days = TRUE
    BY <2>1, <2>2, <2>3 DEF Lost
  <2>4. CASE book.days # TRUE
    <3>1. index \in Lost(mem.dir, slot')
      BY <1>1, <1>3, <2>4
    <3> QED
      BY <2>1, <3>1 DEF Lost
  <2> QED
    BY <2>3, <2>4
<1> HIDE DEF new
<1>6. Lost(mem.dir, slot)' \subseteq Lost(meta[live].dir, slot)'
  BY <1>1, <1>4, <1>5
<1>7. UpdateLost' /\ ImportHealthy'
  BY <1>1, <1>6 DEF UpdateLost, ImportHealthy
<1> QED
  BY <1>3, <1>7 DEF DInv

LEMMA WriteMetaLost == ASSUME TInv, GInv, DInv, WriteMeta \/ WriteMetaFails \/ FlushMeta PROVE DInv'
<1>0. /\ mem \in Copy /\ NextGeneration \in Copy /\ NextGeneration.dir = mem.dir
      /\ NextGeneration.seq = mem.seq + 1 /\ meta[OtherCopy] \in Copy
      /\ BadCopy \in Copy /\ ~BadCopy.valid
  BY NextGenerationType, EmptyTypes DEF TInv, TypeOK, OtherCopy, BadCopy
<1>1. CASE WriteMeta
  <2>1. /\ at = "meta" /\ at' = "flushMeta" /\ UNCHANGED <<exists, meta, slot, damages, live>>
        /\ mem' = NextGeneration
    BY <1>1 DEF WriteMeta, Files, Outside, EditVars
  <2>2. UpdateLost' /\ ImportHealthy'
    BY <1>0, <2>1 DEF DInv, UpdateLost, ImportHealthy
  <2> QED
    BY <2>1, <2>2, CardUntouched DEF DInv
<1>2. CASE WriteMetaFails
  <2>1. at = "meta" /\ at' = "idle" /\ UNCHANGED <<exists, slot, damages>> /\ mem.seq = meta[live].seq
    BY <1>2 DEF WriteMetaFails, Return, Released, GInv, UpdateSound, Updating
  <2>2. PICK copy \in Outcomes(meta[OtherCopy], BadCopy, NextGeneration) :
          meta' = [meta EXCEPT ![OtherCopy] = copy]
    BY <1>2 DEF WriteMetaFails
  <2>3. NewestLost' /\ OlderLost'
    BY <1>0, <2>1, <2>2, OtherCopyLost DEF Outcomes
  <2> QED
    BY <2>1, <2>3, IdleLost DEF DInv
<1>3. CASE FlushMeta
  <2>1. /\ at = "flushMeta" /\ at' = "idle" /\ UNCHANGED <<exists, slot, damages>> /\ mem.valid
        /\ mem.seq = meta[live].seq + 1 /\ meta' = [meta EXCEPT ![OtherCopy] = mem]
    BY <1>3 DEF FlushMeta, Flush, Return, Released, GInv, UpdateSound
  <2>2. NewestLost' /\ OlderLost'
    BY <1>0, <2>1, OtherCopyLost
  <2> QED
    BY <2>1, <2>2, IdleLost DEF DInv
<1> QED
  BY <1>1, <1>2, <1>3

LEMMA PowerCutLost == ASSUME TInv, GInv, DInv, PowerCut PROVE DInv'
<1>1. PICK image \in Outcomes(slot[target], BadSlot, book), copy \in Outcomes(meta[OtherCopy], BadCopy, mem) :
        /\ slot' = IF "slot" \in unflushed THEN [slot EXCEPT ![target] = image] ELSE slot
        /\ meta' = IF "meta" \in unflushed THEN [meta EXCEPT ![OtherCopy] = copy] ELSE meta
  BY DEF PowerCut
<1>2. at' = "idle" /\ UNCHANGED <<exists, damages>>
  BY DEF PowerCut, Released
<1>3. CASE at = "flushSlot"
  <2>1. meta' = meta /\ slot' = [slot EXCEPT ![FreeSlot(mem.dir)] = image]
    BY <1>1, <1>3 DEF GInv, UpdateSound, DInv, UpdateLost
  <2>2. image \in Image
    <3>1. slot[target] \in Image /\ book \in Image /\ BadSlot \in Image
      BY EmptyTypes DEF TInv, TypeOK
    <3> QED
      BY <1>1, <3>1 DEF Outcomes
  <2> QED
    BY <1>2, <1>3, <2>1, <2>2, SpareSlotLost, IdleLost DEF DInv
<1>4. CASE at = "flushMeta"
  <2>1. /\ slot' = slot /\ meta' = [meta EXCEPT ![OtherCopy] = copy]
        /\ mem.valid /\ mem.seq = meta[live].seq + 1
    BY <1>1, <1>4 DEF GInv, UpdateSound
  <2>2. mem \in Copy /\ meta[OtherCopy] \in Copy /\ BadCopy \in Copy /\ ~BadCopy.valid
    BY EmptyTypes DEF TInv, TypeOK, OtherCopy, BadCopy
  <2>3. NewestLost' /\ OlderLost'
    BY <1>1, <1>2, <1>4, <2>1, <2>2, OtherCopyLost DEF Outcomes
  <2> QED
    BY <1>2, <2>3, IdleLost DEF DInv
<1>5. CASE at \notin {"flushSlot", "flushMeta"}
  <2>1. slot' = slot /\ meta' = meta
    BY <1>1, <1>5 DEF GInv, UpdateSound
  <2> QED
    BY <1>2, <2>1, CardUntouched, IdleLost DEF DInv
<1> QED
  BY <1>3, <1>4, <1>5

\* A slot gone bad is one book of each copy; a meta gone bad is the last update, and the
\* copy left has, besides what the update's slot took of it, lost what the other had.
LEMMA DamageLost == ASSUME TInv, GInv, DInv, Damage PROVE DInv'
<1>0. /\ at' = "idle" /\ damages \in Nat /\ damages' = damages + 1 /\ exists' = exists
      /\ meta \in [Copies -> Copy] /\ slot \in [Slots -> Image] /\ BadSlot \in Image
      /\ \A c \in Copies : meta[c].dir \in Directory /\ FreeSlot(meta[c].dir) \in Slots
      /\ \A c \in Copies : meta[c].valid => DistinctSlots(meta[c].dir)
  <2>1. \A c \in Copies : meta[c].dir \in Directory
    BY DEF TInv, TypeOK, Copy
  <2> QED
    BY <2>1, FreeSlotFree, EmptyTypes DEF Damage, call, TInv, TypeOK, GInv, CopiesSound
<1>1. ASSUME NEW s \in Slots, slot' = [slot EXCEPT ![s] = BadSlot], UNCHANGED meta
      PROVE  NewestLost' /\ OlderLost'
  <2>1. ASSUME NEW c \in Copies, exists, Newest(c)
        PROVE  Cardinality(Lost(meta[c].dir, slot')) <= damages'
    <3>1. meta[c].valid /\ Cardinality(Lost(meta[c].dir, slot)) <= damages
      BY <2>1 DEF Newest, DInv, NewestLost
    <3>2. Cardinality(Lost(meta[c].dir, slot')) <= Cardinality(Lost(meta[c].dir, slot)) + 1
      BY <1>0, <1>1, <3>1, OneSlotWritten
    <3> QED
      BY <1>0, <3>1, <3>2, LostSize
  <2>2. ASSUME NEW c \in Copies, NEW d \in Copies \ {c}, exists, Newest(c), meta[d].valid
        PROVE  Cardinality(Beside(meta[d].dir, slot', FreeSlot(meta[c].dir))) <= damages'
    <3> DEFINE f == FreeSlot(meta[c].dir)
    <3>1. Cardinality(Beside(meta[d].dir, slot, f)) <= damages
      BY <2>2 DEF DInv, OlderLost
    <3> HIDE DEF f
    <3>2. Cardinality(Beside(meta[d].dir, slot', f)) <= Cardinality(Beside(meta[d].dir, slot, f)) + 1
      BY <1>0, <1>1, <2>2, OneSlotWritten
    <3>3. Cardinality(Beside(meta[d].dir, slot', f)) <= damages'
      BY <1>0, <3>1, <3>2, LostEntries
    <3> QED
      BY <3>3 DEF f
  <2>3. \A c \in Copies : Newest(c)' <=> Newest(c)
    BY <1>1 DEF Newest
  <2> QED
    BY <1>0, <1>1, <2>1, <2>2, <2>3 DEF NewestLost, OlderLost
<1>2. ASSUME NEW b \in Copies, meta' = [meta EXCEPT ![b] = BadCopy], UNCHANGED slot
      PROVE  NewestLost' /\ OlderLost'
  <2>1. ~meta'[b].valid /\ \A c \in Copies \ {b} : meta'[c] = meta[c]
    BY <1>0, <1>2 DEF BadCopy
  <2>2. ASSUME NEW c \in Copies, exists, Newest(c)'
        PROVE  Cardinality(Lost(meta[c].dir, slot)) <= damages + 1 /\ c # b
    <3>1. c # b /\ meta[c].valid /\ Copies = {b, c}
      BY <2>1, <2>2 DEF Newest
    <3>2. CASE Newest(c)
      BY <1>0, <2>2, <3>1, <3>2, LostSize DEF DInv, NewestLost
    <3>3. CASE ~Newest(c)
      <4>1. Newest(b)
        BY <3>1, <3>3, NewestExists DEF TInv
      <4> DEFINE f == FreeSlot(meta[b].dir)
      <4>2. Cardinality(Beside(meta[c].dir, slot, f)) <= damages /\ f \in Slots
        BY <1>0, <2>2, <3>1, <4>1 DEF DInv, OlderLost
      <4> HIDE DEF f
      <4>3. Cardinality(Lost(meta[c].dir, slot)) <= Cardinality(Beside(meta[c].dir, slot, f)) + 1
        BY <1>0, <3>1, <4>2, OneSlotWritten
      <4> QED
        BY <1>0, <3>1, <4>2, <4>3, LostEntries
    <3> QED
      BY <3>2, <3>3
  <2>3. NewestLost'
    BY <1>0, <1>2, <2>1, <2>2 DEF NewestLost
  <2>4. OlderLost'
    <3>1. \A c, d \in Copies : Newest(c)' /\ d # c => ~meta'[d].valid
      BY <2>1 DEF Newest
    <3> QED
      BY <3>1 DEF OlderLost
  <2> QED
    BY <2>3, <2>4
<1>3. NewestLost' /\ OlderLost'
  BY <1>1, <1>2 DEF Damage
<1> QED
  BY <1>0, <1>3, IdleLost DEF DInv

LEMMA LostStep == ASSUME TInv, GInv, DInv, TInv', [Next]_vars PROVE DInv'
<1>1. CASE UNCHANGED vars
  <2>1. UpdateLost' /\ ImportHealthy'
    BY <1>1 DEF vars, card, call, DInv, UpdateLost, ImportHealthy
  <2> QED
    BY <1>1, <2>1, CardUntouched DEF DInv, vars, card
<1> QED
  BY <1>1, CallLost, PrepareLost, ImportLost, LoadLost, CreateLost, WriteSlotLost, FlushSlotLost,
     WriteMetaLost, PowerCutLost, DamageLost DEF Next, Write

\* However often a region of the card goes bad, and whatever updates fail and are cut in
\* between, each time costs at most one book its title and days, or the last update
\* (ReadingStats.cpp:432, the slot that does not read; :464-486, the order of the writes).
THEOREM OneBookEach == Spec => []DamageCostsOneBook
<1>1. Init => TInv /\ GInv /\ DInv
  BY InitTypes, InitGenerations, InitLost
<1>2. TInv /\ GInv /\ DInv /\ [Next]_vars => TInv' /\ GInv' /\ DInv'
  BY TypesStep, GenerationsStep, LostStep
<1>3. DInv => DamageCostsOneBook
  <2> SUFFICES ASSUME DInv, NEW c \in Copies, exists, Newest(c)
               PROVE  Cardinality({e \in Used(meta[c].dir) : ~Whole(meta[c].dir[e])}) <= damages
    BY DEF DamageCostsOneBook
  <2>1. {e \in Used(meta[c].dir) : ~Whole(meta[c].dir[e])} = Lost(meta[c].dir, slot)
    BY DEF Whole, Lost
  <2> QED
    BY <2>1 DEF DInv, NewestLost
<1> QED
  BY <1>1, <1>2, <1>3, PTL DEF Spec

----------------------------------------------------------------------------
(***************************************************************************)
(* The refinement.  On a card of which no region goes bad, the history     *)
(* file implements the promised history: seen through the copy a load      *)
(* takes, every update, and the import, happens at one step or not at all. *)
(***************************************************************************)

----------------------------------------------------------------------------
(* What a load takes. *)

LEMMA HistoryTaken ==
  ASSUME TInv, NEW c \in Copies, exists, Newest(c)
  PROVE  AbsHistory = HistoryOf(meta[c].dir) /\ AbsTotal = meta[c].total
<1>1. \A d \in Copies : Newest(d) <=> d = c
  BY NewestUnique DEF TInv
<1>2. {d \in Copies : exists /\ Newest(d)} = {c}
  BY <1>1
<1>3. AbsHistory = UNION {HistoryOf(meta[d].dir) : d \in {c}}
  BY <1>2 DEF AbsHistory
<1>4. AbsHistory = HistoryOf(meta[c].dir)
  BY <1>3
<1>5. (CHOOSE d \in Copies : Newest(d)) = c
  BY <1>1
<1>6. AbsTotal = meta[c].total
  BY <1>5 DEF AbsTotal
<1> QED
  BY <1>4, <1>6

LEMMA HistoryTakenNext ==
  ASSUME TInv', NEW c \in Copies, exists', Newest(c)'
  PROVE  AbsHistory' = HistoryOf(meta'[c].dir) /\ AbsTotal' = meta'[c].total
<1>1. \A d \in Copies : Newest(d)' <=> d = c
  BY DEF TInv, TypeOK, Copy, Newest
<1>2. {d \in Copies : exists' /\ Newest(d)'} = {c}
  BY <1>1
<1>3. AbsHistory' = UNION {HistoryOf(meta'[d].dir) : d \in {c}}
  BY <1>2 DEF AbsHistory
<1>4. AbsHistory' = HistoryOf(meta'[c].dir)
  BY <1>3
<1>5. (CHOOSE d \in Copies : Newest(d)') = c
  BY <1>1
<1>6. AbsTotal' = meta'[c].total
  BY <1>5 DEF AbsTotal
<1> QED
  BY <1>4, <1>6

\* No history, and none after the step.
LEMMA NoHistory == ASSUME ~exists PROVE AbsHistory = {} /\ AbsTotal = 0
BY DEF AbsHistory, AbsTotal

LEMMA NoHistoryNext == ASSUME ~exists' PROVE AbsHistory' = {} /\ AbsTotal' = 0
BY DEF AbsHistory, AbsTotal

\* A step that leaves the newest copy and the name of the file shows no change.
LEMMA Unseen ==
  ASSUME TInv, HInv, TInv', UNCHANGED <<exists, meta>>
  PROVE  UNCHANGED <<AbsHistory, AbsTotal>>
<1>1. CASE ~exists
  BY <1>1, NoHistory, NoHistoryNext
<1>2. CASE exists
  <2>1. PICK c \in Copies : Newest(c)
    BY <1>2, NewestExists DEF HInv, FileHealthy, TInv
  <2>2. Newest(c)'
    BY <2>1 DEF Newest
  <2> QED
    BY <1>2, <2>1, <2>2, HistoryTaken, HistoryTakenNext
<1> QED
  BY <1>1, <1>2

----------------------------------------------------------------------------
(* Directories, as sets of what they say of each book. *)

LEMMA BooksOfHistory ==
  ASSUME NEW dir \in Directory
  PROVE  {r.book : r \in HistoryOf(dir)} = BooksIn(dir)
<1>1. \A e : Figure(dir[e]).book = dir[e].book
  BY DEF Figure
<1>2. {r.book : r \in HistoryOf(dir)} = {Figure(dir[e]).book : e \in Used(dir)}
  BY DEF HistoryOf
<1> QED
  BY <1>1, <1>2 DEF BooksIn

\* The figures the history gives of a book are those of its entry.
LEMMA FigureFound ==
  ASSUME NEW dir \in Directory, OneEntryEach(dir), NEW b \in BooksIn(dir)
  PROVE  /\ \A r \in HistoryOf(dir) : r.book = b <=> r = Figure(dir[FindEntry(dir, b)])
         /\ Figure(dir[FindEntry(dir, b)]) \in HistoryOf(dir)
         /\ (CHOOSE r \in HistoryOf(dir) : r.book = b) = Figure(dir[FindEntry(dir, b)])
<1> DEFINE e == FindEntry(dir, b)
<1>1. e \in Used(dir) /\ dir[e].book = b
  BY FoundEntry
<1>2. Figure(dir[e]) \in HistoryOf(dir) /\ Figure(dir[e]).book = b
  BY <1>1 DEF HistoryOf, Figure
<1>3. \A r \in HistoryOf(dir) : r.book = b => r = Figure(dir[e])
  <2> SUFFICES ASSUME NEW f \in Used(dir), Figure(dir[f]).book = b PROVE Figure(dir[f]) = Figure(dir[e])
    BY DEF HistoryOf
  <2>1. f = e
    BY <1>1 DEF Figure, OneEntryEach
  <2> QED
    BY <2>1
<1> QED
  BY <1>2, <1>3

LEMMA OthersOf ==
  ASSUME NEW dir \in Directory, OneEntryEach(dir), NEW b
  PROVE  {r \in HistoryOf(dir) : r.book # b} =
           IF b \in BooksIn(dir) THEN HistoryOf(dir) \ {Figure(dir[FindEntry(dir, b)])} ELSE HistoryOf(dir)
<1>1. CASE b \in BooksIn(dir)
  BY <1>1, FigureFound
<1>2. CASE b \notin BooksIn(dir)
  BY <1>2, BooksOfHistory
<1> QED
  BY <1>1, <1>2

\* An entry in use given up, or given to another book.
LEMMA HistoryWithout ==
  ASSUME NEW dir \in Directory, OneEntryEach(dir), NEW i \in Entries
  PROVE  {Figure(dir[e]) : e \in Used(dir) \ {i}} =
           IF i \in Used(dir) THEN HistoryOf(dir) \ {Figure(dir[i])} ELSE HistoryOf(dir)
<1>1. \A e \in Used(dir) \ {i} : i \in Used(dir) => Figure(dir[e]) # Figure(dir[i])
  <2> SUFFICES ASSUME NEW e \in Used(dir) \ {i}, i \in Used(dir), Figure(dir[e]) = Figure(dir[i]) PROVE FALSE
    OBVIOUS
  <2>1. Figure(dir[e]).book = dir[e].book /\ Figure(dir[i]).book = dir[i].book
    BY DEF Figure
  <2> QED
    BY <2>1 DEF OneEntryEach
<1>2. CASE i \in Used(dir)
  BY <1>1, <1>2 DEF HistoryOf
<1>3. CASE i \notin Used(dir)
  <2>1. Used(dir) \ {i} = Used(dir)
    BY <1>3
  <2> QED
    BY <1>3, <2>1 DEF HistoryOf
<1> QED
  BY <1>2, <1>3

LEMMA HistoryDropped ==
  ASSUME NEW dir \in Directory, OneEntryEach(dir), NEW i \in Used(dir)
  PROVE  /\ HistoryOf([dir EXCEPT ![i] = Free]) = HistoryOf(dir) \ {Figure(dir[i])}
         /\ OneEntryEach([dir EXCEPT ![i] = Free])
<1> DEFINE new == [dir EXCEPT ![i] = Free]
<1>1. i \in Entries /\ Used(new) = Used(dir) \ {i} /\ \A e \in Used(new) : new[e] = dir[e]
  BY DEF Used, Directory, Free
<1> HIDE DEF new
<1>2. HistoryOf(new) = {Figure(dir[e]) : e \in Used(dir) \ {i}}
  BY <1>1 DEF HistoryOf
<1>3. OneEntryEach(new)
  BY <1>1 DEF OneEntryEach
<1> QED
  BY <1>1, <1>2, <1>3, HistoryWithout DEF new

LEMMA HistoryReplaced ==
  ASSUME NEW dir \in Directory, OneEntryEach(dir), NEW i \in Entries, NEW x, x.book # NoBook,
         \A e \in Used(dir) \ {i} : dir[e].book # x.book
  PROVE  /\ HistoryOf([dir EXCEPT ![i] = x]) =
              (IF i \in Used(dir) THEN HistoryOf(dir) \ {Figure(dir[i])} ELSE HistoryOf(dir)) \cup {Figure(x)}
         /\ OneEntryEach([dir EXCEPT ![i] = x])
<1> DEFINE new == [dir EXCEPT ![i] = x]
<1>1. /\ Used(new) = Used(dir) \cup {i} /\ new[i] = x
      /\ \A e \in Used(new) \ {i} : e \in Used(dir) /\ new[e] = dir[e]
  BY DEF Used, Directory
<1> HIDE DEF new
<1>2. HistoryOf(new) = {Figure(dir[e]) : e \in Used(dir) \ {i}} \cup {Figure(x)}
  BY <1>1 DEF HistoryOf
<1>3. OneEntryEach(new)
  BY <1>1 DEF OneEntryEach
<1> QED
  BY <1>2, <1>3, HistoryWithout DEF new

\* As many books as entries in use.
LEMMA HistorySize ==
  ASSUME NEW dir \in Directory, OneEntryEach(dir)
  PROVE  /\ Cardinality(HistoryOf(dir)) \in Nat
         /\ Cardinality(HistoryOf(dir)) <= EntryCount
         /\ Used(dir) = Entries => Cardinality(HistoryOf(dir)) = EntryCount
         /\ Used(dir) # Entries => Cardinality(HistoryOf(dir)) < EntryCount
         /\ Cardinality({r.book : r \in HistoryOf(dir)}) = Cardinality(HistoryOf(dir))
<1>1. IsFiniteSet(Entries) /\ Cardinality(Entries) = EntryCount
  BY FS_Interval, EntryCountAssumption DEF Entries
<1>2. Used(dir) \subseteq Entries
  BY DEF Used
<1>3. /\ IsFiniteSet(Used(dir)) /\ Cardinality(Used(dir)) \in Nat /\ Cardinality(Used(dir)) <= EntryCount
      /\ Used(dir) # Entries => Cardinality(Used(dir)) < EntryCount
  BY <1>1, <1>2, FS_Subset, FS_CardinalityType, EntryCountAssumption
<1>4. IsFiniteSet(HistoryOf(dir)) /\ Cardinality(HistoryOf(dir)) = Cardinality(Used(dir))
  <2> DEFINE f == [e \in Used(dir) |-> Figure(dir[e])]
  <2>1. f \in Bijection(Used(dir), HistoryOf(dir))
    <3>1. f \in Injection(Used(dir), HistoryOf(dir))
      <4>1. f \in [Used(dir) -> HistoryOf(dir)]
        BY DEF HistoryOf
      <4>2. \A a, b \in Used(dir) : f[a] = f[b] => a = b
        BY DEF Figure, OneEntryEach
      <4> QED
        BY <4>1, <4>2 DEF Injection, IsInjective
    <3>2. f \in Surjection(Used(dir), HistoryOf(dir))
      BY DEF HistoryOf, Surjection
    <3> QED
      BY <3>1, <3>2 DEF Bijection
  <2>2. ExistsBijection(Used(dir), HistoryOf(dir))
    BY <2>1 DEF ExistsBijection
  <2> QED
    BY <1>3, <2>2, FS_Bijection
<1>5. Cardinality({r.book : r \in HistoryOf(dir)}) = Cardinality(HistoryOf(dir))
  <2> DEFINE B == {r.book : r \in HistoryOf(dir)}
             g == [r \in HistoryOf(dir) |-> r.book]
  <2>1. g \in Bijection(HistoryOf(dir), B)
    <3>1. \A r, s \in HistoryOf(dir) : r.book = s.book => r = s
      <4> SUFFICES ASSUME NEW e \in Used(dir), NEW f \in Used(dir), Figure(dir[e]).book = Figure(dir[f]).book
                   PROVE  Figure(dir[e]) = Figure(dir[f])
        BY DEF HistoryOf
      <4> QED
        BY DEF Figure, OneEntryEach
    <3>2. g \in Injection(HistoryOf(dir), B)
      BY <3>1 DEF Injection, IsInjective
    <3>3. g \in Surjection(HistoryOf(dir), B)
      BY DEF Surjection
    <3> QED
      BY <3>2, <3>3 DEF Bijection
  <2>2. ExistsBijection(HistoryOf(dir), B)
    BY <2>1 DEF ExistsBijection
  <2> QED
    BY <1>4, <2>2, FS_Bijection
<1> QED
  BY <1>1, <1>3, <1>4, <1>5

----------------------------------------------------------------------------
(* What an update, or an import, is about to show. *)

Before == meta[live].dir
Known == op.book \in BooksIn(Before)
OldEntry == Before[FindEntry(Before, op.book)]
Place == IF Known THEN FindEntry(Before, op.book) ELSE NewEntry(Before)

\* The book to be written: the call's, with what the history knew of it.
BookMade ==
  /\ op.edit \in {"Session", "Finish", "Rekey"}
  /\ book \in BookImage /\ book.book = op.to
  /\ book.seconds = (IF Known THEN OldEntry.seconds ELSE 0) + op.seconds
  /\ op.edit = "Rekey" => Known /\ op.to \notin BooksIn(Before) /\ book.lastRead = OldEntry.lastRead
  /\ mem.total = meta[live].total + op.seconds

BookTakenOut ==
  /\ op.edit = "Remove" /\ Known
  /\ mem.dir = [Before EXCEPT ![FindEntry(Before, op.book)] = Free]
  /\ mem.total = TakeOut(meta[live].total, OldEntry.seconds)

BookPutIn == BookMade /\ mem.dir = [Before EXCEPT ![Place] = EntryFor(book, target)]

UpdateMade ==
  /\ at \in {"create", "rename"} =>
       /\ op.edit \in {"Session", "Finish"} /\ book.book = op.to
       /\ book.seconds = op.seconds /\ mem.total = op.seconds
  /\ at \in {"slot", "flushSlot"} => BookMade
  /\ at = "flushSlot" => index = Place
  /\ at \in {"meta", "flushMeta"} => BookTakenOut \/ BookPutIn

\* Of the older firmware's first n books, those an import has kept: all of them, or as
\* many as the cap allows and then the last read.
Offered(n) == {legacy.books[i] : i \in 1 .. n}
OfferedTwice(r) == \E q \in Offered(Len(legacy.books)) : q # r /\ q.book = r.book
Kept(dir, n) ==
  /\ HistoryOf(dir) \subseteq Offered(n)
  /\ Used(dir) = Entries \/ \A r \in Offered(n) : r.book \in BooksIn(dir)
  /\ \A r \in Offered(n) \ HistoryOf(dir), s \in HistoryOf(dir) :
       OfferedTwice(r) \/ ~EvictsBefore(s, r)

ImportMade ==
  /\ at \in {"import", "scan", "publish"} => hasLegacy
  /\ at = "scan" => pos - 1 \in 0 .. Len(legacy.books) /\ Kept(mem.dir, pos - 1)
  /\ at = "publish" => Kept(mem.dir, Len(legacy.books)) /\ OneEntryEach(mem.dir) /\ mem.total = legacy.total
  /\ at = "retire" => exists

CopiesOnce == \A c \in Copies : meta[c].valid => OneEntryEach(meta[c].dir)

RInv == CopiesOnce /\ UpdateMade /\ ImportMade

LEMMA InitMade == ASSUME Init PROVE RInv
BY DEF Init, RInv, CopiesOnce, UpdateMade, ImportMade, BadCopy

\* A call that returns, with the copies as they were or bad.
LEMMA IdleMade == ASSUME CopiesOnce', at' = "idle" PROVE RInv'
BY DEF RInv, UpdateMade, ImportMade

LEMMA ReturnMade == ASSUME RInv, NEW r, Return(r), UNCHANGED meta PROVE RInv'
BY IdleMade DEF RInv, CopiesOnce, Return, Released

\* What a call says its change is.
LEMMA OpShape ==
  ASSUME NEW o \in Ops, o.edit # "List"
  PROVE  /\ o.edit \in {"Session", "Finish", "Remove", "Rekey"}
         /\ o.book \in Books /\ o.to \in Books /\ o.seconds \in Nat
         /\ o.edit # "Rekey" => o.to = o.book
         /\ o.edit \in {"Rekey", "Remove"} => o.seconds = 0
BY DEF Ops, Sessions, Finishes, Moves, NoOp

\* A book that is put in has no other entry.
LEMMA PlaceAlone ==
  ASSUME TInv, live \in Copies, OneEntryEach(Before), BookMade
  PROVE  /\ Place \in Entries /\ (Known => Place \in Used(Before)) /\ book.book # NoBook
         /\ \A e \in Used(Before) \ {Place} : Before[e].book # book.book
<1>1. /\ Before \in Directory /\ op \in Ops /\ op.edit # "List"
  BY DEF TInv, TypeOK, Copy, Before, BookMade
<1>2. Known => Place \in Used(Before) /\ Before[Place].book = op.book
  BY FoundEntry DEF Known, Place
<1>3. Place \in Entries
  BY <1>1, <1>2, NewEntryPlace DEF Place, Used
<1>4. book.book # NoBook
  BY <1>1, OpShape, NoBookAssumption DEF BookMade
<1>5. ASSUME NEW e \in Used(Before) \ {Place} PROVE Before[e].book # op.to
  <2>1. CASE op.edit = "Rekey"
    BY <2>1 DEF BookMade, BooksIn
  <2>2. CASE op.edit # "Rekey" /\ Known
    BY <1>1, <1>2, <2>2, OpShape DEF OneEntryEach
  <2>3. CASE op.edit # "Rekey" /\ ~Known
    BY <1>1, <2>3, OpShape DEF Known, BooksIn
  <2> QED
    BY <2>1, <2>2, <2>3
<1> QED
  BY <1>2, <1>3, <1>4, <1>5 DEF BookMade

\* An update that is made keeps one entry for each book.
LEMMA ChangeOnce ==
  ASSUME TInv, OneEntryEach(Before), BookTakenOut \/ BookPutIn
  PROVE  OneEntryEach(mem.dir)
<1>1. Before \in Directory /\ live \in Copies
  BY DEF TInv, TypeOK, Copy, Before
<1>2. CASE BookTakenOut
  <2>1. FindEntry(Before, op.book) \in Used(Before)
    BY <1>2, FoundEntry DEF BookTakenOut, Known
  <2> QED
    BY <1>1, <1>2, <2>1, HistoryDropped DEF BookTakenOut
<1>3. CASE BookPutIn
  <2>1. EntryFor(book, target).book = book.book
    BY DEF EntryFor
  <2> QED
    BY <1>1, <1>3, <2>1, PlaceAlone, HistoryReplaced DEF BookPutIn
<1> QED
  BY <1>2, <1>3

LEMMA CallMade == ASSUME RInv, NEW o \in Ops, Call(o) PROVE RInv'
<1>1. at' = "prepare" /\ UNCHANGED meta
  BY DEF Call, card
<1> QED
  BY <1>1 DEF RInv, CopiesOnce, UpdateMade, ImportMade

LEMMA PrepareMade == ASSUME RInv, Prepare PROVE RInv'
<1>1. UNCHANGED <<meta, hasLegacy>> /\ (at' = "load" \/ (at' = "import" /\ hasLegacy))
  BY DEF Prepare
<1> QED
  BY <1>1 DEF RInv, CopiesOnce, UpdateMade, ImportMade

\* A book as an update makes it from what the history knows of it.
LEMMA AppliedMade ==
  ASSUME NEW o \in Ops, o.edit \in {"Session", "Finish", "Rekey"}, NEW r \in BookImage
  PROVE  /\ Applied(o, r) \in BookImage /\ Applied(o, r).book = o.to
         /\ Applied(o, r).seconds = r.seconds + o.seconds
         /\ o.edit = "Rekey" => Applied(o, r).lastRead = r.lastRead
<1>1. Applied(o, r) \in BookImage
  BY AppliedType
<1> QED
  BY <1>1 DEF Applied

LEMMA StartOverMade ==
  ASSUME TInv, RInv, StartOver, at = "load", ~NeedsBook, op.edit # "List" PROVE RInv'
<1>1. op \in Ops /\ op.edit \in {"Session", "Finish"} /\ op.book \in Books /\ op.seconds \in Nat
  BY OpShape DEF TInv, TypeOK, NeedsBook
<1>2. NewBook(op.book) \in BookImage /\ NewBook(op.book).seconds = 0
  BY <1>1, NewBookType DEF NewBook
<1>3. book'.book = op.to /\ book'.seconds = 0 + op.seconds
  BY <1>1, <1>2, AppliedMade DEF StartOver
<1>4. mem'.total = op.seconds /\ at' = "create" /\ UNCHANGED <<meta, op>>
  BY DEF StartOver, BadCopy, card
<1> QED
  BY <1>1, <1>3, <1>4 DEF RInv, CopiesOnce, UpdateMade, ImportMade

LEMMA EditedMade ==
  ASSUME TInv, HInv, RInv, at = "load", exists, NEW c \in Copies, Newest(c), op.edit # "List",
         NEW known \in BOOLEAN, known <=> op.book \in BooksIn(meta[c].dir), NeedsBook => known,
         op.edit = "Rekey" => op.to \notin BooksIn(meta[c].dir), Edited(c, known)
  PROVE  RInv'
<1> DEFINE dir == meta[c].dir
           e == FindEntry(dir, op.book)
           read == IF known THEN ReadBook(dir[e]) ELSE NewBook(op.book)
<1>1. /\ UNCHANGED <<meta, slot, op>> /\ live' = c /\ meta[c] \in Copy /\ dir \in Directory /\ op \in Ops
      /\ slot \in [Slots -> Image] /\ Backed(dir, slot)
  BY DEF Edited, card, TInv, TypeOK, Copy, HInv, FileHealthy
<1>2. Before' = dir /\ Known' = known /\ (known => OldEntry' = dir[e])
  BY <1>1 DEF Before, Known, OldEntry
<1>3. known => e \in Used(dir)
  BY FoundEntry
<1>4. known => ReadBook(dir[e]).seconds = dir[e].seconds /\ ReadBook(dir[e]).lastRead = dir[e].lastRead
  <2> SUFFICES ASSUME known PROVE ReadBook(dir[e]).seconds = dir[e].seconds /\ ReadBook(dir[e]).lastRead = dir[e].lastRead
    OBVIOUS
  <2>1. slot[dir[e].slot] = [book |-> dir[e].book, seconds |-> dir[e].seconds,
                              lastRead |-> dir[e].lastRead, days |-> TRUE]
    BY <1>1, <1>3 DEF Backed
  <2>2. /\ slot[dir[e].slot].book = dir[e].book /\ slot[dir[e].slot].seconds = dir[e].seconds
        /\ slot[dir[e].slot].lastRead = dir[e].lastRead
    BY <2>1
  <2> QED
    BY <2>2 DEF ReadBook
<1>5. read \in BookImage /\ read.seconds = (IF known THEN dir[e].seconds ELSE 0)
  <2>1. CASE known
    BY <1>1, <1>3, <1>4, <2>1, ReadBookType
  <2>2. CASE ~known
    BY <1>1, <2>2, OpShape, NewBookType DEF NewBook
  <2> QED
    BY <2>1, <2>2
<1>6. CASE op.edit = "Remove"
  <2>1. known
    BY <1>6 DEF NeedsBook
  <2>2. /\ mem'.dir = [dir EXCEPT ![e] = Free] /\ mem'.total = TakeOut(meta[c].total, read.seconds)
        /\ at' = "meta"
    BY <1>1, <1>6 DEF Edited, Copy
  <2>3. BookTakenOut'
    BY <1>1, <1>2, <1>5, <1>6, <2>1, <2>2 DEF BookTakenOut, Before
  <2> QED
    BY <1>1, <2>2, <2>3 DEF RInv, CopiesOnce, UpdateMade, ImportMade
<1>7. CASE op.edit # "Remove"
  <2>1. op.edit \in {"Session", "Finish", "Rekey"} /\ op.seconds \in Nat
    BY <1>1, <1>7, OpShape
  <2>2. at' = "slot" /\ mem'.total = meta[c].total + op.seconds /\ book' = Applied(op, read)
    BY <1>1, <1>7 DEF Edited, Copy
  <2>3. /\ book' \in BookImage /\ book'.book = op.to /\ book'.seconds = read.seconds + op.seconds
        /\ op.edit = "Rekey" => book'.lastRead = read.lastRead
    BY <1>1, <1>5, <2>1, <2>2, AppliedMade
  <2>4. op.edit = "Rekey" => known /\ read.lastRead = dir[e].lastRead
    BY <1>4 DEF NeedsBook
  <2> HIDE DEF read
  <2>5. BookMade'
    BY <1>1, <1>2, <1>5, <2>1, <2>2, <2>3, <2>4 DEF BookMade
  <2> QED
    BY <1>1, <2>2, <2>5 DEF RInv, CopiesOnce, UpdateMade, ImportMade
<1> QED
  BY <1>6, <1>7

LEMMA LoadMade == ASSUME TInv, HInv, RInv, Load PROVE RInv'
<1>0. (\E r : Refuse(r)) \/ (\E m : ShowList(m)) => RInv'
  BY ReturnMade DEF Refuse, ShowList, card
<1>1. CASE LoadFails
  BY <1>1, ReturnMade DEF LoadFails, card
<1>2. CASE LoadNone \/ LoadCorrupt
  BY <1>0, <1>2, StartOverMade DEF LoadNone, LoadCorrupt
<1>3. CASE LoadFound
  <2>1. PICK c \in Copies :
          /\ at = "load" /\ exists /\ Newest(c)
          /\ \/ ShowList(meta[c])
             \/ \E r : Refuse(r)
             \/ /\ op.edit # "List" /\ (NeedsBook => op.book \in BooksIn(meta[c].dir))
                /\ (op.edit = "Rekey" => op.to \notin BooksIn(meta[c].dir))
                /\ Edited(c, op.book \in BooksIn(meta[c].dir))
    BY <1>3 DEF LoadFound
  <2>2. CASE /\ op.edit # "List" /\ (NeedsBook => op.book \in BooksIn(meta[c].dir))
             /\ (op.edit = "Rekey" => op.to \notin BooksIn(meta[c].dir))
             /\ Edited(c, op.book \in BooksIn(meta[c].dir))
    <3> DEFINE known == op.book \in BooksIn(meta[c].dir)
    <3>1. known \in BOOLEAN
      OBVIOUS
    <3> QED
      BY <2>1, <2>2, <3>1, EditedMade
  <2> QED
    BY <1>0, <2>1, <2>2
<1> QED
  BY <1>1, <1>2, <1>3 DEF Load

LEMMA CreateMade == ASSUME TInv, HInv, RInv, Create PROVE RInv'
<1>1. CASE SetAside
  BY <1>1 DEF SetAside, HInv, UpdateHealthy
<1>2. CASE CreateTmp
  <2>1. mem'.total = mem.total /\ at' = "rename" /\ at = "create" /\ UNCHANGED <<meta, op, book>>
    BY <1>2 DEF CreateTmp, TInv, TypeOK, Copy, EditVars
  <2> QED
    BY <2>1 DEF RInv, CopiesOnce, UpdateMade, ImportMade
<1>3. CASE CreateRename
  <2> DEFINE m == [BadCopy EXCEPT !.seq = 1]
  <2>1. m \in Copy /\ m.dir = Empty /\ m.total = 0
    BY EmptyTypes DEF Copy, BadCopy
  <2>2. \A c \in Copies : meta'[c] = IF c = 0 THEN Sealed(m) ELSE BadCopy
    BY <1>3 DEF CreateRename
  <2> HIDE DEF m
  <2>3. Sealed(m).dir = Empty /\ Sealed(m).total = 0
    BY <2>1, SealedType
  <2>4. /\ at = "rename" /\ at' = "slot" /\ live' = 0 /\ UNCHANGED <<op, book, mem>>
        /\ book \in BookImage /\ op \in Ops
        /\ op.edit \in {"Session", "Finish"} /\ book.book = op.to
        /\ book.seconds = op.seconds /\ mem.total = op.seconds
    BY <1>3 DEF CreateRename, RInv, UpdateMade, TInv, CallShape, TypeOK
  <2>5. op.seconds \in Nat
    BY <2>4, OpShape
  <2>6. Used(Empty) = {}
    BY DEF Used, Empty, Free
  <2>7. Before' = Empty /\ ~Known' /\ meta'[live'].total = 0
    BY <2>2, <2>3, <2>4, <2>6 DEF Before, Known, BooksIn
  <2>8. BookMade'
    BY <2>4, <2>5, <2>7 DEF BookMade
  <2>9. CopiesOnce'
    BY <2>2, <2>3, <2>6 DEF CopiesOnce, OneEntryEach, BadCopy
  <2> QED
    BY <2>4, <2>8, <2>9 DEF RInv, UpdateMade, ImportMade
<1>4. CASE CreateFails
  BY <1>4, ReturnMade DEF CreateFails
<1> QED
  BY <1>1, <1>2, <1>3, <1>4 DEF Create

\* The other copy, as it was, bad, or with the change.
LEMMA OtherCopyOnce ==
  ASSUME TInv, CopiesOnce, NEW copy, meta' = [meta EXCEPT ![OtherCopy] = copy],
         copy = meta[OtherCopy] \/ ~copy.valid \/ OneEntryEach(copy.dir)
  PROVE  CopiesOnce'
<1>1. OtherCopy \in Copies /\ meta \in [Copies -> Copy]
  BY DEF TInv, TypeOK, OtherCopy
<1>2. \A c \in Copies : meta'[c] = IF c = OtherCopy THEN copy ELSE meta[c]
  BY <1>1
<1> QED
  BY <1>1, <1>2 DEF CopiesOnce

\* What is made at the meta steps has one entry for each book.
LEMMA MadeOnce ==
  ASSUME TInv, GInv, RInv, at \in {"meta", "flushMeta"}
  PROVE  OneEntryEach(mem.dir)
<1>1. OneEntryEach(Before)
  BY DEF GInv, UpdateSound, Updating, RInv, CopiesOnce, Newest, Before, TInv, TypeOK
<1> QED
  BY <1>1, ChangeOnce DEF RInv, UpdateMade

LEMMA WriteMade == ASSUME TInv, HInv, GInv, RInv, Write PROVE RInv'
<1>0. mem \in Copy
  BY DEF TInv, TypeOK
<1>1. CASE WriteSlot
  <2>1. /\ at = "slot" /\ at' = "flushSlot" /\ UNCHANGED <<meta, op, live, mem, book>>
        /\ mem.dir = Before /\ BookMade
        /\ index' = IF op.book \in BooksIn(mem.dir) THEN FindEntry(mem.dir, op.book) ELSE NewEntry(mem.dir)
    BY <1>1 DEF WriteSlot, Files, HInv, UpdateHealthy, RInv, UpdateMade, Before
  <2>2. Before' = Before /\ Known' = Known /\ OldEntry' = OldEntry /\ Place' = Place /\ index' = Place
    BY <2>1 DEF Before, Known, OldEntry, Place
  <2>3. BookMade'
    BY <2>1, <2>2 DEF BookMade
  <2> QED
    BY <2>1, <2>2, <2>3 DEF RInv, CopiesOnce, UpdateMade, ImportMade
<1>2. CASE WriteSlotFails
  BY <1>2, ReturnMade DEF WriteSlotFails
<1>3. CASE FlushSlot
  <2>1. /\ at = "flushSlot" /\ at' = "meta" /\ UNCHANGED <<meta, op, live, book, target>>
        /\ mem.dir = Before /\ BookMade /\ index = Place
        /\ mem' = [mem EXCEPT !.dir[index] = EntryFor(book, target)]
    BY <1>3 DEF FlushSlot, Flush, EditVars, HInv, UpdateHealthy, RInv, UpdateMade, Before
  <2>2. Before' = Before /\ Known' = Known /\ OldEntry' = OldEntry /\ Place' = Place
    BY <2>1 DEF Before, Known, OldEntry, Place
  <2>3. mem'.dir = [Before EXCEPT ![Place] = EntryFor(book, target)] /\ mem'.total = mem.total
    BY <1>0, <2>1 DEF Copy
  <2>4. BookPutIn'
    BY <2>1, <2>2, <2>3 DEF BookPutIn, BookMade
  <2> QED
    BY <2>1, <2>4 DEF RInv, CopiesOnce, UpdateMade, ImportMade
<1>4. CASE WriteMeta
  <2>1. /\ at = "meta" /\ at' = "flushMeta" /\ UNCHANGED <<meta, op, live, book, target>>
        /\ mem' = NextGeneration
    BY <1>4 DEF WriteMeta, Files, EditVars
  <2>2. [mem EXCEPT !.seq = @ + 1] \in Copy /\ [mem EXCEPT !.seq = @ + 1].total = mem.total
    BY <1>0 DEF Copy
  <2>3. mem'.dir = mem.dir /\ mem'.total = mem.total
    BY <1>0, <2>1, <2>2, NextGenerationType, SealedType DEF NextGeneration
  <2>4. Before' = Before /\ Known' = Known /\ OldEntry' = OldEntry /\ Place' = Place
    BY <2>1 DEF Before, Known, OldEntry, Place
  <2>5. (BookTakenOut \/ BookPutIn)'
    BY <2>1, <2>3, <2>4 DEF BookTakenOut, BookPutIn, BookMade, RInv, UpdateMade
  <2> QED
    BY <2>1, <2>5 DEF RInv, CopiesOnce, UpdateMade, ImportMade
<1>5. CASE WriteMetaFails
  <2>1. at = "meta" /\ at' = "idle"
    BY <1>5 DEF WriteMetaFails, Return, Released
  <2>2. PICK copy \in Outcomes(meta[OtherCopy], BadCopy, NextGeneration) :
          meta' = [meta EXCEPT ![OtherCopy] = copy]
    BY <1>5 DEF WriteMetaFails
  <2>3. copy = meta[OtherCopy] \/ ~copy.valid \/ OneEntryEach(copy.dir)
    BY <1>0, <2>1, <2>2, MadeOnce, NextGenerationType DEF Outcomes, BadCopy
  <2> QED
    BY <2>1, <2>2, <2>3, OtherCopyOnce, IdleMade DEF RInv
<1>6. CASE FlushMeta
  <2>1. at = "flushMeta" /\ at' = "idle" /\ meta' = [meta EXCEPT ![OtherCopy] = mem]
    BY <1>6 DEF FlushMeta, Flush, Return, Released, GInv, UpdateSound
  <2> QED
    BY <2>1, MadeOnce, OtherCopyOnce, IdleMade DEF RInv
<1> QED
  BY <1>1, <1>2, <1>3, <1>4, <1>5, <1>6 DEF Write

LEMMA PowerCutMade == ASSUME TInv, GInv, RInv, PowerCut PROVE RInv'
<1>1. PICK copy \in Outcomes(meta[OtherCopy], BadCopy, mem) :
        meta' = IF "meta" \in unflushed THEN [meta EXCEPT ![OtherCopy] = copy] ELSE meta
  BY DEF PowerCut
<1>2. at' = "idle" /\ CopiesOnce
  BY DEF PowerCut, Released, RInv
<1>3. CASE at = "flushMeta"
  <2>1. meta' = [meta EXCEPT ![OtherCopy] = copy] /\ OneEntryEach(mem.dir)
    BY <1>1, <1>3, MadeOnce DEF GInv, UpdateSound
  <2>2. copy = meta[OtherCopy] \/ ~copy.valid \/ OneEntryEach(copy.dir)
    BY <1>1, <2>1 DEF Outcomes, BadCopy
  <2> QED
    BY <1>2, <2>1, <2>2, OtherCopyOnce, IdleMade
<1>4. CASE at # "flushMeta"
  <2>1. meta' = meta
    BY <1>1, <1>4 DEF GInv, UpdateSound
  <2> QED
    BY <1>2, <2>1, IdleMade DEF CopiesOnce
<1> QED
  BY <1>3, <1>4

----------------------------------------------------------------------------
(* The import keeps what the cap would have kept. *)

\* One book more: left out, put in, or in the place of the one that goes first.
LEMMA KeepsOne ==
  ASSUME TInv, HInv, RInv, ImportBook
  PROVE  Kept(mem'.dir, pos)
<1> DEFINE r == legacy.books[pos]
           D == mem.dir
           full == Used(D) = Entries
           e == NewEntry(D)
           s == IF full THEN D[e].slot ELSE FreeSlot(D)
           n == pos - 1
<1>1. /\ pos \in Nat /\ pos <= Len(legacy.books) /\ n \in 0 .. Len(legacy.books)
      /\ mem \in Copy /\ D \in Directory /\ Kept(D, n) /\ OneEntryEach(D)
      /\ legacy \in Legacies
  BY DEF ImportBook, TInv, TypeOK, Copy, RInv, ImportMade, HInv, ImportHealthy
<1>2. Len(legacy.books) \in Nat /\ pos \in 1 .. Len(legacy.books) /\ pos = n + 1 /\ n \in Nat
  <2>1. Len(legacy.books) \in Nat
    BY <1>1, LegaciesAssumption
  <2> QED
    BY <1>1, <2>1
<1>3. \A i \in 1 .. Len(legacy.books) : legacy.books[i] \in Figures
  BY <1>1, LegacyType
<1>4. Offered(pos) = Offered(n) \cup {r} /\ Offered(pos) \subseteq Offered(Len(legacy.books))
  BY <1>2 DEF Offered
<1>5. \A q \in Offered(pos) : q \in Figures /\ q.seconds \in Nat /\ q.lastRead \in Nat
  <2>1. Times \subseteq Nat
    BY BoundsAssumption DEF Times
  <2>2. \A q \in Offered(pos) : q \in Figures
    BY <1>2, <1>3 DEF Offered
  <2> QED
    BY <2>1, <2>2 DEF Figures
<1>6. /\ HistoryOf(D) \subseteq Offered(n)
      /\ full \/ \A q \in Offered(n) : q.book \in BooksIn(D)
      /\ \A q \in Offered(n) \ HistoryOf(D), h \in HistoryOf(D) : OfferedTwice(q) \/ ~EvictsBefore(h, q)
  BY <1>1 DEF Kept
\* The one that goes first is of the history, and none goes before it.
<1>7. full => /\ e \in Used(D) /\ Figure(D[e]) \in HistoryOf(D)
              /\ \A h \in HistoryOf(D) : ~EvictsBefore(h, Figure(D[e]))
              /\ EvictsBefore(r, D[e]) <=> EvictsBefore(r, Figure(D[e]))
  <2> SUFFICES ASSUME full
               PROVE  /\ e \in Used(D) /\ Figure(D[e]) \in HistoryOf(D)
                      /\ \A h \in HistoryOf(D) : ~EvictsBefore(h, Figure(D[e]))
                      /\ EvictsBefore(r, D[e]) <=> EvictsBefore(r, Figure(D[e]))
    OBVIOUS
  <2>1. Used(D) # {}
    BY EmptyTypes
  <2>2. e \in Used(D) /\ \A f \in Used(D) : ~EvictsBefore(D[f], D[e])
    BY <1>1, <2>1, VictimExists DEF NewEntry
  <2>3. \A f : Figure(D[f]).lastRead = D[f].lastRead /\ Figure(D[f]).seconds = D[f].seconds
    BY DEF Figure
  <2>4. \A f \in Used(D) : ~EvictsBefore(Figure(D[f]), Figure(D[e]))
    BY <2>2, <2>3 DEF EvictsBefore
  <2>5. EvictsBefore(r, D[e]) <=> EvictsBefore(r, Figure(D[e]))
    BY <2>3 DEF EvictsBefore
  <2> QED
    BY <2>2, <2>4, <2>5 DEF HistoryOf
<1> HIDE DEF e
<1>8. CASE r.book \in BooksIn(D) /\ mem' = mem
  <2>1. ASSUME r \notin HistoryOf(D) PROVE OfferedTwice(r)
    <3>1. PICK q \in HistoryOf(D) : q.book = r.book
      BY <1>1, <1>8, BooksOfHistory
    <3> QED
      BY <1>4, <1>6, <2>1, <3>1 DEF OfferedTwice
  <2> QED
    BY <1>4, <1>6, <1>8, <2>1 DEF Kept
<1>9. CASE full /\ EvictsBefore(r, D[e]) /\ mem' = mem
  <2>1. \A h \in HistoryOf(D) : ~EvictsBefore(h, r)
    <3> SUFFICES ASSUME NEW h \in HistoryOf(D) PROVE ~EvictsBefore(h, r)
      OBVIOUS
    <3>1. ~EvictsBefore(h, Figure(D[e])) /\ EvictsBefore(r, Figure(D[e]))
      BY <1>7, <1>9
    <3>2. /\ h.seconds \in Nat /\ h.lastRead \in Nat /\ r.seconds \in Nat /\ r.lastRead \in Nat
          /\ Figure(D[e]).seconds \in Nat /\ Figure(D[e]).lastRead \in Nat
      BY <1>4, <1>5, <1>6, <1>7, <1>9
    <3> QED
      BY <3>1, <3>2 DEF EvictsBefore
  <2> QED
    BY <1>4, <1>6, <1>9, <2>1 DEF Kept
<1>10. CASE /\ r.book \notin BooksIn(D) /\ (full => ~EvictsBefore(r, D[e]))
            /\ mem' = [mem EXCEPT !.dir[e] = EntryFor(r, s)]
  <2> DEFINE D2 == [D EXCEPT ![e] = EntryFor(r, s)]
             v == Figure(D[e])
  <2>1. mem'.dir = D2
    BY <1>1, <1>10 DEF Copy
  <2>2. e \in Entries /\ (~full => e \notin Used(D))
    BY <1>1, NewEntryPlace DEF e
  <2>3. /\ EntryFor(r, s).book = r.book /\ r.book # NoBook /\ Figure(EntryFor(r, s)) = r
    BY <1>2, <1>3, NoBookAssumption DEF EntryFor, Figure, Figures
  <2>4. \A f \in Used(D) \ {e} : D[f].book # r.book
    BY <1>10 DEF BooksIn
  <2>5. HistoryOf(D2) = (IF full THEN HistoryOf(D) \ {v} ELSE HistoryOf(D)) \cup {r}
    <3>1. HistoryOf(D2) = (IF e \in Used(D) THEN HistoryOf(D) \ {v} ELSE HistoryOf(D)) \cup {r}
      BY <1>1, <2>2, <2>3, <2>4, HistoryReplaced
    <3> QED
      BY <1>7, <2>2, <3>1
  <2>6. HistoryOf(D2) \subseteq Offered(pos)
    BY <1>4, <1>6, <2>5
  <2>7. Used(D2) = Entries \/ \A q \in Offered(pos) : q.book \in BooksIn(D2)
    <3>1. Used(D2) = Used(D) \cup {e} /\ D2[e].book = r.book /\ \A f \in Used(D) \ {e} : D2[f].book = D[f].book
      BY <1>1, <2>2, <2>3 DEF Used, Directory
    <3>2. CASE full
      BY <2>2, <3>1, <3>2
    <3>3. CASE ~full
      <4>1. BooksIn(D2) = BooksIn(D) \cup {r.book}
        BY <2>2, <3>1, <3>3 DEF BooksIn
      <4> QED
        BY <1>4, <1>6, <3>3, <4>1
    <3> QED
      BY <3>2, <3>3
  <2>8. ASSUME NEW q \in Offered(pos) \ HistoryOf(D2), NEW h \in HistoryOf(D2), ~OfferedTwice(q)
        PROVE  ~EvictsBefore(h, q)
    <3>1. /\ q.seconds \in Nat /\ q.lastRead \in Nat /\ h.seconds \in Nat /\ h.lastRead \in Nat
          /\ r.seconds \in Nat /\ r.lastRead \in Nat
      BY <1>4, <1>5, <2>6, <2>8
    <3>2. q \in Offered(n) /\ q # r
      BY <1>4, <2>5, <2>8
    <3>3. CASE ~full
      <4>1. PICK g \in HistoryOf(D) : g.book = q.book
        BY <1>1, <1>6, <3>2, <3>3, BooksOfHistory
      <4> QED
        BY <1>4, <1>6, <2>5, <2>8, <3>2, <3>3, <4>1 DEF OfferedTwice
    <3>4. CASE full
      <4>1. v \in HistoryOf(D) /\ v.seconds \in Nat /\ v.lastRead \in Nat
        BY <1>4, <1>5, <1>6, <1>7, <3>4
      <4>2. ~EvictsBefore(v, q)
        <5>1. CASE q = v
          BY <1>7, <3>4, <4>1, <5>1
        <5>2. CASE q # v
          BY <1>6, <2>5, <2>8, <3>2, <3>4, <4>1, <5>2
        <5> QED
          BY <5>1, <5>2
      <4>3. ~EvictsBefore(h, v)
        BY <1>7, <1>10, <2>5, <3>4
      <4> QED
        BY <3>1, <4>1, <4>2, <4>3 DEF EvictsBefore
    <3> QED
      BY <3>3, <3>4
  <2> QED
    BY <2>1, <2>6, <2>7, <2>8 DEF Kept
<1> QED
  BY <1>8, <1>9, <1>10 DEF ImportBook, e

LEMMA ImportStepMade == ASSUME TInv, HInv, GInv, RInv, Import PROVE RInv'
<1>0. mem \in Copy /\ legacy \in Legacies /\ Len(legacy.books) \in Nat
  BY LegaciesAssumption DEF TInv, TypeOK
<1>1. CASE ImportCreate
  <2>1. /\ at = "import" /\ at' = "scan" /\ pos' = 1 /\ mem'.dir = Empty /\ hasLegacy
        /\ UNCHANGED <<meta, hasLegacy, legacy>>
    BY <1>1 DEF ImportCreate, BadCopy, RInv, ImportMade
  <2>2. HistoryOf(Empty) = {}
    BY DEF HistoryOf, Used, Empty, Free
  <2>3. Offered(0)' = {}
    BY DEF Offered
  <2>4. Kept(Empty, 0)'
    BY <2>2, <2>3 DEF Kept
  <2>5. Kept(mem.dir, pos - 1)' /\ (pos - 1)' \in 0 .. Len(legacy.books)
    BY <1>0, <2>1, <2>4
  <2> QED
    BY <2>1, <2>5 DEF RInv, CopiesOnce, UpdateMade, ImportMade
<1>2. CASE ImportBook
  <2>1. /\ at = "scan" /\ at' = "scan" /\ pos' = pos + 1 /\ pos <= Len(legacy.books) /\ hasLegacy
        /\ UNCHANGED <<meta, hasLegacy, legacy>> /\ pos \in Nat /\ pos' - 1 = pos
    BY <1>2 DEF ImportBook, card, RInv, ImportMade, TInv, TypeOK
  <2>2. Kept(mem'.dir, pos)
    BY <1>2, KeepsOne
  <2>3. Kept(mem.dir, pos - 1)'
    BY <2>1, <2>2 DEF Kept, Offered, OfferedTwice
  <2> QED
    BY <1>0, <2>1, <2>3 DEF RInv, CopiesOnce, UpdateMade, ImportMade
<1>3. CASE ImportSeal
  <2> DEFINE m == [mem EXCEPT !.seq = 1, !.total = legacy.total]
  <2>1. /\ at = "scan" /\ at' = "publish" /\ hasLegacy /\ mem' = Sealed(m)
        /\ UNCHANGED <<meta, hasLegacy, legacy>> /\ pos - 1 = Len(legacy.books)
        /\ Kept(mem.dir, Len(legacy.books)) /\ OneEntryEach(mem.dir)
    <3>1. /\ at = "scan" /\ pos > Len(legacy.books) /\ pos - 1 \in 0 .. Len(legacy.books) /\ pos \in Nat
          /\ Kept(mem.dir, pos - 1) /\ OneEntryEach(mem.dir) /\ hasLegacy
      BY <1>3 DEF ImportSeal, RInv, ImportMade, HInv, ImportHealthy, TInv, TypeOK
    <3>2. pos - 1 = Len(legacy.books)
      BY <1>0, <3>1
    <3> QED
      BY <1>3, <3>1, <3>2 DEF ImportSeal, card
  <2>2. m \in Copy /\ m.dir = mem.dir /\ m.total = legacy.total
    BY <1>0, LegaciesAssumption DEF Copy
  <2> HIDE DEF m
  <2>3. mem'.dir = mem.dir /\ mem'.total = legacy.total
    BY <2>1, <2>2, SealedType
  <2>4. Kept(mem.dir, Len(legacy.books))'
    BY <2>1, <2>3 DEF Kept, Offered, OfferedTwice
  <2> QED
    BY <2>1, <2>3, <2>4 DEF RInv, CopiesOnce, UpdateMade, ImportMade
<1>4. CASE ImportRename
  <2>1. at = "publish" /\ at' = "retire" /\ exists' /\ OneEntryEach(mem.dir)
    BY <1>4 DEF ImportRename, RInv, ImportMade
  <2>2. CopiesOnce'
    BY <1>4, <2>1 DEF ImportRename, CopiesOnce, BadCopy
  <2> QED
    BY <2>1, <2>2 DEF RInv, UpdateMade, ImportMade
<1>5. CASE ImportRetire \/ ImportMalformed \/ ImportFails
  <2>1. UNCHANGED meta /\ at' \in {"load", "idle"}
    BY <1>5 DEF ImportRetire, ImportMalformed, ImportFails, Return, Released
  <2> QED
    BY <2>1 DEF RInv, CopiesOnce, UpdateMade, ImportMade
<1> QED
  BY <1>1, <1>2, <1>3, <1>4, <1>5 DEF Import

LEMMA MadeStep ==
  ASSUME TInv, HInv, GInv, RInv, Next, ~Damage PROVE RInv'
BY CallMade, PrepareMade, ImportStepMade, LoadMade, CreateMade, WriteMade, PowerCutMade DEF Next

----------------------------------------------------------------------------
(* Every step is one of the promise's, or is not seen. *)

\* What the steps show that leave the history, and what is offered, alone.
LEMMA StepUnseen ==
  ASSUME TInv, HInv, TInv', UNCHANGED <<exists, meta, hasLegacy, legacy>>
  PROVE  UNCHANGED History!vars
BY Unseen DEF History!vars, AbsOffered

\* No history is there, and none of the older firmware's is any more.
LEMMA SetAsideSeen ==
  ASSUME TInv, HInv, TInv', UNCHANGED <<AbsHistory, AbsTotal>>, AbsOffered' \in {AbsOffered, {}}
  PROVE  [History!Next]_(History!vars)
BY DEF History!vars, History!Next, History!Discard

\* The two modules count alike.
LEMMA CountedAlike == \A S : History!Cardinality(S) = Cardinality(S)
BY DEF History!Cardinality, Cardinality

\* The import is published: the books the older firmware had, or as many as the cap keeps.
LEMMA ImportSeen ==
  ASSUME TInv, HInv, GInv, RInv, TInv', ImportRename
  PROVE  History!Import
<1> DEFINE N == Len(legacy.books)
           o == [books |-> Offered(N), total |-> legacy.total]
           H == HistoryOf(mem.dir)
<1>1. /\ at = "publish" /\ hasLegacy /\ ~exists /\ exists' /\ mem \in Copy /\ mem.dir \in Directory
      /\ mem.valid /\ Kept(mem.dir, N) /\ OneEntryEach(mem.dir) /\ mem.total = legacy.total
      /\ meta' = [c \in Copies |-> IF c = 0 THEN mem ELSE BadCopy]
  BY DEF ImportRename, TInv, TypeOK, Copy, HInv, ImportHealthy, GInv, UpdateSound, RInv, ImportMade
<1>2. AbsOffered = {o} /\ AbsOffered' = {}
  <2>1. legacy.books \in Seq(Figures)
    BY LegaciesAssumption DEF TInv, TypeOK
  <2>2. DOMAIN legacy.books = 1 .. N
    BY <2>1
  <2> QED
    BY <1>1, <2>2 DEF AbsOffered, Offered
<1>3. AbsHistory = {}
  BY <1>1, NoHistory
<1>4. AbsHistory' = H /\ AbsTotal' = legacy.total
  <2>1. meta'[0] = mem /\ ~meta'[1].valid
    BY <1>1 DEF BadCopy
  <2>2. Newest(0)'
    BY <1>1, <2>1 DEF Newest
  <2> QED
    BY <1>1, <2>1, <2>2, HistoryTakenNext
<1>5. /\ H \subseteq o.books /\ o.total = legacy.total
      /\ Used(mem.dir) = Entries \/ \A r \in o.books : r.book \in BooksIn(mem.dir)
      /\ \A r \in o.books \ H, q \in H : OfferedTwice(r) \/ ~EvictsBefore(q, r)
  BY <1>1 DEF Kept
<1>6. /\ Cardinality(History!BooksOf(H)) = Cardinality(H)
      /\ \/ History!BooksOf(H) = History!BooksOf(o.books) /\ Cardinality(H) <= EntryCount
         \/ Cardinality(H) = EntryCount
  <2>1. History!BooksOf(H) = BooksIn(mem.dir)
    BY <1>1, BooksOfHistory DEF History!BooksOf
  <2>2. Cardinality(History!BooksOf(H)) = Cardinality(H)
    BY <1>1, HistorySize DEF History!BooksOf
  <2>3. CASE Used(mem.dir) = Entries
    BY <1>1, <2>2, <2>3, HistorySize
  <2>4. CASE \A r \in o.books : r.book \in BooksIn(mem.dir)
    <3>1. History!BooksOf(H) = History!BooksOf(o.books)
      BY <1>5, <2>1, <2>4 DEF History!BooksOf
    <3> QED
      BY <1>1, <2>2, <3>1, HistorySize
  <2> QED
    BY <1>5, <2>3, <2>4
<1>7. \A r \in o.books \ H, q \in H :
        (\E t \in o.books \ {r} : t.book = r.book) \/ ~History!Older(q, r)
  BY <1>5 DEF OfferedTwice, EvictsBefore, History!Older
<1> HIDE DEF o, H
<1>8. o \in AbsOffered /\ AbsHistory' = H /\ H \in SUBSET o.books /\ AbsTotal' = o.total
  BY <1>2, <1>4, <1>5
<1> QED
  BY <1>2, <1>3, <1>6, <1>7, <1>8, CountedAlike DEF History!Import

LEMMA FiguresShown ==
  ASSUME Before \in Directory, OneEntryEach(Before), Known, AbsHistory = HistoryOf(Before)
  PROVE  (CHOOSE r \in AbsHistory : r.book = op.book).seconds = OldEntry.seconds
<1>1. \A r : r \in AbsHistory /\ r.book = op.book <=> r = Figure(OldEntry)
  BY FigureFound DEF Known, OldEntry
<1>2. (CHOOSE r \in AbsHistory : r.book = op.book) = Figure(OldEntry)
  BY <1>1
<1>3. Figure(OldEntry).seconds = OldEntry.seconds
  BY DEF Figure
<1> QED
  BY <1>2, <1>3

\* An update lands: the change of its call, whole.
LEMMA RemoveSeen ==
  ASSUME TInv, OneEntryEach(Before), BookTakenOut, AbsHistory = HistoryOf(Before), AbsTotal = meta[live].total,
         AbsHistory' = HistoryOf(mem.dir), AbsTotal' = mem.total, UNCHANGED AbsOffered
  PROVE  History!Remove(op.book)
<1>1. Before \in Directory /\ AbsTotal \in Nat /\ Known
  BY DEF TInv, TypeOK, Copy, Before, BookTakenOut
<1>2. OldEntry.seconds \in Nat /\ FindEntry(Before, op.book) \in Used(Before)
  <2>1. FindEntry(Before, op.book) \in Used(Before)
    BY <1>1, FoundEntry DEF Known
  <2> QED
    BY <1>1, <2>1, EntryType DEF OldEntry
<1>3. op.book \in History!BooksOf(AbsHistory)
  BY <1>1, BooksOfHistory DEF History!BooksOf, Known
<1>4. History!Others(op.book) = HistoryOf(Before) \ {Figure(OldEntry)}
  BY <1>1, OthersOf DEF History!Others, Known, OldEntry
<1>5. History!Seconds(op.book) = OldEntry.seconds
  BY <1>1, <1>3, FiguresShown DEF History!Seconds
<1>6. AbsHistory' = History!Others(op.book)
  BY <1>1, <1>2, <1>4, HistoryDropped DEF BookTakenOut, OldEntry
<1>7. AbsTotal' = IF AbsTotal > OldEntry.seconds THEN AbsTotal - OldEntry.seconds ELSE 0
  BY <1>1, <1>2 DEF BookTakenOut, TakeOut
<1> QED
  BY <1>3, <1>5, <1>6, <1>7 DEF History!Remove

LEMMA PutInSeen ==
  ASSUME TInv, OneEntryEach(Before), BookPutIn, AbsHistory = HistoryOf(Before), AbsTotal = meta[live].total,
         AbsHistory' = HistoryOf(mem.dir), AbsTotal' = mem.total, UNCHANGED AbsOffered
  PROVE  IF op.edit = "Rekey" THEN History!Rename(op.book, op.to) ELSE History!Record(op.book)
<1> DEFINE new == Figure(EntryFor(book, target))
<1>1. /\ Before \in Directory /\ live \in Copies /\ AbsTotal \in Nat /\ BookMade
      /\ op \in Ops /\ op.edit # "List" /\ book.lastRead \in Times
  BY DEF TInv, TypeOK, Copy, Before, BookPutIn, BookMade, BookImage
<1>2. /\ Place \in Entries /\ (Known => Place \in Used(Before))
      /\ HistoryOf(mem.dir) =
           (IF Place \in Used(Before) THEN HistoryOf(Before) \ {Figure(Before[Place])} ELSE HistoryOf(Before))
             \cup {new}
  <2>1. EntryFor(book, target).book = book.book
    BY DEF EntryFor
  <2> QED
    BY <1>1, <2>1, PlaceAlone, HistoryReplaced DEF BookPutIn
<1>3. /\ new = [book |-> op.to, seconds |-> (IF Known THEN OldEntry.seconds ELSE 0) + op.seconds,
                lastRead |-> book.lastRead]
      /\ AbsTotal' = AbsTotal + op.seconds
      /\ op.edit = "Rekey" => Known /\ op.to \notin BooksIn(Before) /\ book.lastRead = OldEntry.lastRead
  BY <1>1 DEF BookPutIn, BookMade, EntryFor, Figure
<1>4. op.seconds \in Nat /\ op.book \in Books /\ (op.edit = "Rekey" => op.seconds = 0)
      /\ (op.edit # "Rekey" => op.to = op.book)
  BY <1>1, OpShape
<1>5. Known => /\ Place = FindEntry(Before, op.book) /\ OldEntry = Before[Place] /\ OldEntry.seconds \in Nat
  BY <1>1, <1>2, EntryType DEF Place, OldEntry
<1>6. History!BooksOf(AbsHistory) = BooksIn(Before)
  BY <1>1, BooksOfHistory DEF History!BooksOf
<1>7. History!Others(op.book) = IF Known THEN HistoryOf(Before) \ {Figure(OldEntry)} ELSE HistoryOf(Before)
  BY <1>1, OthersOf DEF History!Others, Known, OldEntry
<1>8. History!Seconds(op.book) = IF Known THEN OldEntry.seconds ELSE 0
  BY <1>1, <1>6, FiguresShown DEF History!Seconds, Known
<1> HIDE DEF new
<1>9. CASE op.edit = "Rekey"
  <2>1. AbsHistory \ History!Others(op.book) = {Figure(OldEntry)}
    BY <1>1, <1>3, <1>7, <1>9, FigureFound DEF Known, OldEntry
  <2>2. [Figure(OldEntry) EXCEPT !.book = op.to] = new
    BY <1>3, <1>4, <1>5, <1>9 DEF Figure
  <2>3. {[r EXCEPT !.book = op.to] : r \in AbsHistory \ History!Others(op.book)} = {new}
    BY <2>1, <2>2
  <2>4. AbsHistory' = History!Others(op.book) \cup {new}
    BY <1>2, <1>3, <1>5, <1>7, <1>9
  <2>5. AbsTotal' = AbsTotal
    BY <1>1, <1>3, <1>4, <1>9
  <2> QED
    BY <1>3, <1>6, <1>9, <2>3, <2>4, <2>5 DEF History!Rename, Known
<1>10. CASE op.edit # "Rekey"
  <2>1. AbsTotal' >= AbsTotal /\ AbsTotal' - AbsTotal = op.seconds
    BY <1>1, <1>3, <1>4
  <2>2. new = [book |-> op.book, seconds |-> History!Seconds(op.book) + (AbsTotal' - AbsTotal),
               lastRead |-> book.lastRead]
    BY <1>3, <1>4, <1>8, <1>10, <2>1
  <2>3. \/ /\ op.book \in History!BooksOf(AbsHistory) \/ Cardinality(AbsHistory) < EntryCount
           /\ AbsHistory' = History!Others(op.book) \cup {new}
        \/ /\ op.book \notin History!BooksOf(AbsHistory) /\ Cardinality(AbsHistory) = EntryCount
           /\ \E r \in AbsHistory : /\ \A q \in AbsHistory : ~History!Older(q, r)
                                    /\ AbsHistory' = (AbsHistory \ {r}) \cup {new}
    <3>1. CASE Known
      BY <1>2, <1>5, <1>6, <1>7, <3>1 DEF Known
    <3>2. CASE ~Known /\ Used(Before) # Entries
      <4>1. Place \notin Used(Before)
        BY <1>1, <3>2, NewEntryPlace DEF Place
      <4>2. Cardinality(AbsHistory) < EntryCount
        BY <1>1, <3>2, HistorySize
      <4> QED
        BY <1>2, <1>7, <3>2, <4>1, <4>2
    <3>3. CASE ~Known /\ Used(Before) = Entries
      <4>1. Place \in Used(Before) /\ \A f \in Used(Before) : ~EvictsBefore(Before[f], Before[Place])
        BY <1>1, <3>3, EmptyTypes, VictimExists DEF Place, NewEntry
      <4>2. \A f : Figure(Before[f]).lastRead = Before[f].lastRead /\ Figure(Before[f]).seconds = Before[f].seconds
        BY DEF Figure
      <4>3. \A f \in Used(Before) : ~History!Older(Figure(Before[f]), Figure(Before[Place]))
        BY <4>1, <4>2 DEF EvictsBefore, History!Older
      <4>4. Figure(Before[Place]) \in AbsHistory /\ \A q \in AbsHistory : ~History!Older(q, Figure(Before[Place]))
        BY <4>1, <4>3 DEF HistoryOf
      <4>5. Cardinality(AbsHistory) = EntryCount
        BY <1>1, <3>3, HistorySize
      <4> QED
        BY <1>2, <1>6, <3>3, <4>1, <4>4, <4>5 DEF Known
    <3> QED
      BY <3>1, <3>2, <3>3
  <2> QED
    BY <1>1, <1>10, <2>1, <2>2, <2>3, CountedAlike DEF History!Record
<1> QED
  BY <1>9, <1>10

\* What reaches the other copy leaves the newest one newest, or is the change made.
LEMMA CopySeen ==
  ASSUME TInv, HInv, GInv, RInv, TInv', at \in {"meta", "flushMeta"},
         UNCHANGED <<exists, hasLegacy, legacy>>, NEW copy \in Copy,
         meta' = [meta EXCEPT ![OtherCopy] = copy],
         \/ copy = meta[OtherCopy] \/ ~copy.valid
         \/ /\ copy.valid /\ copy.seq = meta[live].seq + 1
            /\ copy.dir = mem.dir /\ copy.total = mem.total
  PROVE  [History!Next]_(History!vars)
<1>1. /\ live \in Copies /\ OtherCopy \in Copies /\ OtherCopy # live /\ Copies = {live, OtherCopy}
      /\ meta \in [Copies -> Copy] /\ meta[live].seq \in Nat /\ exists /\ Newest(live)
      /\ op \in Ops
  BY DEF TInv, TypeOK, OtherCopy, Copy, GInv, UpdateSound, Updating
<1>2. PICK o \in Copies : o = OtherCopy
  BY <1>1
<1>3. meta'[live] = meta[live] /\ meta'[o] = copy /\ UNCHANGED AbsOffered
  BY <1>1, <1>2 DEF AbsOffered
<1>4. AbsHistory = HistoryOf(Before) /\ AbsTotal = meta[live].total
  BY <1>1, HistoryTaken DEF Before
<1>5. CASE copy = meta[OtherCopy]
  <2>1. meta' = meta
    BY <1>1, <1>5
  <2> QED
    BY <2>1, StepUnseen
<1>6. CASE ~copy.valid
  <2>1. PICK c \in Copies : c = live
    BY <1>1
  <2>2. meta'[c] = meta[c] /\ \A d \in Copies \ {c} : ~meta'[d].valid
    BY <1>1, <1>2, <1>3, <1>6, <2>1
  <2>3. Newest(c)'
    BY <1>1, <2>1, <2>2 DEF Newest
  <2>4. AbsHistory' = HistoryOf(meta'[c].dir) /\ AbsTotal' = meta'[c].total
    BY <1>1, <2>3, HistoryTakenNext
  <2>5. UNCHANGED <<AbsHistory, AbsTotal>>
    BY <1>4, <2>1, <2>2, <2>4 DEF Before
  <2> QED
    BY <1>3, <2>5 DEF History!vars
<1>7. CASE copy.valid /\ copy.seq = meta[live].seq + 1 /\ copy.dir = mem.dir /\ copy.total = mem.total
  <2>1. meta'[o].valid /\ \A d \in Copies \ {o} : meta'[d].seq < meta'[o].seq
    BY <1>1, <1>2, <1>3, <1>7
  <2>2. Newest(o)'
    BY <2>1 DEF Newest
  <2>3. AbsHistory' = HistoryOf(meta'[o].dir) /\ AbsTotal' = meta'[o].total
    BY <1>1, <2>2, HistoryTakenNext
  <2>4. AbsHistory' = HistoryOf(mem.dir) /\ AbsTotal' = mem.total
    BY <1>3, <1>7, <2>3
  <2>5. OneEntryEach(Before)
    BY <1>1 DEF RInv, CopiesOnce, Newest, Before
  <2>6. CASE BookTakenOut
    <3>1. History!Remove(op.book) /\ op.book \in Books
      BY <1>1, <1>3, <1>4, <2>4, <2>5, <2>6, RemoveSeen, OpShape DEF BookTakenOut
    <3> QED
      BY <3>1 DEF History!Next
  <2>7. CASE BookPutIn
    <3>1. op.book \in Books /\ op.to \in Books
      BY <1>1, <2>7, OpShape DEF BookPutIn, BookMade
    <3>2. History!Rename(op.book, op.to) \/ History!Record(op.book)
      BY <1>3, <1>4, <2>4, <2>5, <2>7, PutInSeen
    <3> QED
      BY <3>1, <3>2 DEF History!Next
  <2> QED
    BY <2>6, <2>7 DEF RInv, UpdateMade
<1> QED
  BY <1>5, <1>6, <1>7

LEMMA WriteSeen ==
  ASSUME TInv, HInv, GInv, RInv, TInv', Write PROVE [History!Next]_(History!vars)
<1>1. CASE WriteSlot \/ WriteSlotFails \/ WriteMeta
  BY <1>1, StepUnseen DEF WriteSlot, WriteSlotFails, WriteMeta, Files
<1>2. CASE FlushSlot
  BY <1>2, StepUnseen DEF FlushSlot, Flush, GInv, UpdateSound
<1>3. CASE WriteMetaFails
  <2>1. /\ at = "meta" /\ mem \in Copy /\ mem.seq = meta[live].seq /\ meta[OtherCopy] \in Copy
        /\ UNCHANGED <<exists, hasLegacy, legacy>>
    BY <1>3 DEF WriteMetaFails, GInv, UpdateSound, Updating, TInv, TypeOK, OtherCopy
  <2>2. PICK copy \in Outcomes(meta[OtherCopy], BadCopy, NextGeneration) :
          meta' = [meta EXCEPT ![OtherCopy] = copy]
    BY <1>3 DEF WriteMetaFails
  <2>3. /\ NextGeneration \in Copy /\ NextGeneration.seq = meta[live].seq + 1
        /\ NextGeneration.dir = mem.dir /\ NextGeneration.total = mem.total
    <3>1. [mem EXCEPT !.seq = @ + 1] \in Copy /\ [mem EXCEPT !.seq = @ + 1].total = mem.total
      BY <2>1 DEF Copy
    <3> QED
      BY <2>1, <3>1, NextGenerationType, SealedType DEF NextGeneration
  <2>4. BadCopy \in Copy /\ ~BadCopy.valid
    BY EmptyTypes DEF BadCopy
  <2> QED
    BY <2>1, <2>2, <2>3, <2>4, CopySeen DEF Outcomes
<1>4. CASE FlushMeta
  <2>1. /\ at = "flushMeta" /\ mem \in Copy /\ mem.valid /\ mem.seq = meta[live].seq + 1
        /\ UNCHANGED <<exists, hasLegacy, legacy>> /\ meta' = [meta EXCEPT ![OtherCopy] = mem]
    BY <1>4 DEF FlushMeta, Flush, GInv, UpdateSound, TInv, TypeOK
  <2> QED
    BY <2>1, CopySeen
<1> QED
  BY <1>1, <1>2, <1>3, <1>4 DEF Write

\* The power goes: the change on its way is there, whole, or not.
LEMMA PowerCutSeen ==
  ASSUME TInv, HInv, GInv, RInv, TInv', PowerCut PROVE [History!Next]_(History!vars)
<1>1. PICK copy \in Outcomes(meta[OtherCopy], BadCopy, mem) :
        meta' = IF "meta" \in unflushed THEN [meta EXCEPT ![OtherCopy] = copy] ELSE meta
  BY DEF PowerCut
<1>2. UNCHANGED <<exists, hasLegacy, legacy>> /\ mem \in Copy /\ meta[OtherCopy] \in Copy
  BY DEF PowerCut, TInv, TypeOK, OtherCopy
<1>3. CASE at = "flushMeta"
  <2>1. /\ meta' = [meta EXCEPT ![OtherCopy] = copy] /\ mem.valid /\ mem.seq = meta[live].seq + 1
    BY <1>1, <1>3 DEF GInv, UpdateSound
  <2>2. BadCopy \in Copy /\ ~BadCopy.valid
    BY EmptyTypes DEF BadCopy
  <2> QED
    BY <1>1, <1>2, <1>3, <2>1, <2>2, CopySeen DEF Outcomes
<1>4. CASE at # "flushMeta"
  <2>1. meta' = meta
    BY <1>1, <1>4 DEF GInv, UpdateSound
  <2> QED
    BY <1>2, <2>1, StepUnseen
<1> QED
  BY <1>3, <1>4

\* A new file is an empty history, where there was none.
LEMMA CreateSeen ==
  ASSUME TInv, HInv, GInv, RInv, TInv', Create PROVE [History!Next]_(History!vars)
<1>1. CASE SetAside
  BY <1>1 DEF SetAside, HInv, UpdateHealthy
<1>2. CASE CreateTmp \/ CreateFails
  BY <1>2, StepUnseen DEF CreateTmp, CreateFails
<1>3. CASE CreateRename
  <2> DEFINE m == [BadCopy EXCEPT !.seq = 1]
  <2>1. m \in Copy /\ m.dir = Empty /\ m.total = 0
    BY EmptyTypes DEF Copy, BadCopy
  <2>2. (\A c \in Copies : meta'[c] = IF c = 0 THEN Sealed(m) ELSE BadCopy) /\ exists' /\ ~exists
    BY <1>3 DEF CreateRename, HInv, UpdateHealthy
  <2> HIDE DEF m
  <2>3. Sealed(m).dir = Empty /\ Sealed(m).total = 0 /\ Sealed(m).valid
    BY <2>1, SealedType, SealedValid, EmptyDistinct
  <2>4. meta'[0] = Sealed(m) /\ ~meta'[1].valid
    BY <2>2 DEF BadCopy
  <2>5. Newest(0)'
    BY <2>3, <2>4 DEF Newest
  <2>6. AbsHistory' = HistoryOf(Empty) /\ AbsTotal' = 0
    BY <2>2, <2>3, <2>4, <2>5, HistoryTakenNext
  <2>7. HistoryOf(Empty) = {}
    BY DEF HistoryOf, Used, Empty, Free
  <2>8. UNCHANGED <<AbsHistory, AbsTotal>>
    BY <2>2, <2>6, <2>7, NoHistory
  <2>9. AbsOffered' = {}
    BY <2>2 DEF AbsOffered
  <2> QED
    BY <2>8, <2>9, SetAsideSeen
<1> QED
  BY <1>1, <1>2, <1>3 DEF Create

LEMMA ImportStepSeen ==
  ASSUME TInv, HInv, GInv, RInv, TInv', Import PROVE [History!Next]_(History!vars)
<1>1. CASE ImportCreate \/ ImportBook \/ ImportSeal \/ ImportFails
  BY <1>1, StepUnseen DEF ImportCreate, ImportBook, ImportSeal, ImportFails, card
<1>2. CASE ImportRename
  BY <1>2, ImportSeen DEF History!Next
<1>3. CASE ImportRetire
  <2>1. exists /\ UNCHANGED <<exists, meta>>
    BY <1>3 DEF ImportRetire, RInv, ImportMade
  <2>2. AbsOffered' = AbsOffered
    BY <2>1 DEF AbsOffered
  <2> QED
    BY <2>1, <2>2, Unseen DEF History!vars
<1>4. CASE ImportMalformed
  <2>1. UNCHANGED <<exists, meta, legacy>> /\ (hasLegacy' = hasLegacy \/ hasLegacy' = FALSE)
    BY <1>4 DEF ImportMalformed
  <2>2. AbsOffered' = AbsOffered \/ AbsOffered' = {}
    <3>1. CASE hasLegacy' = hasLegacy
      BY <2>1, <3>1 DEF AbsOffered
    <3>2. CASE hasLegacy' = FALSE
      BY <3>2 DEF AbsOffered
    <3> QED
      BY <2>1, <3>1, <3>2
  <2> QED
    BY <2>1, <2>2, Unseen, SetAsideSeen
<1> QED
  BY <1>1, <1>2, <1>3, <1>4 DEF Import

LEMMA NextSeen ==
  ASSUME TInv, HInv, GInv, RInv, TInv', [Next]_vars, ~Damage PROVE [History!Next]_(History!vars)
<1>1. CASE UNCHANGED vars
  BY <1>1, StepUnseen DEF vars, card
<1>2. CASE (\E o \in Ops : Call(o)) \/ Prepare
  BY <1>2, StepUnseen DEF Call, Prepare, card
<1>3. CASE Load
  BY <1>3, StepUnseen DEF Load, LoadFails, LoadNone, LoadCorrupt, LoadFound, Refuse, ShowList, StartOver,
     Edited, card
<1> QED
  BY <1>1, <1>2, <1>3, ImportStepSeen, CreateSeen, WriteSeen, PowerCutSeen DEF Next

\* On a card of which no region goes bad, every update of the history (ReadingStats.cpp:425-511)
\* happens whole at one step or not at all, wherever it fails and the power goes; the cap
\* drops the book read longest ago, and an import takes the last read.
THEOREM Refinement ==
  ASSUME MaxDamages = 0
  PROVE  Spec => ImplementsReadingHistory
<1>1. TInv => ~Damage
  BY DEF TInv, TypeOK, Damage
<1>2. Init => TInv /\ HInv /\ GInv /\ RInv /\ History!Init
  BY InitTypes, InitHealthy, InitGenerations, InitMade, NoHistory DEF Init, History!Init
<1>3. TInv /\ HInv /\ GInv /\ RInv /\ [Next]_vars => TInv' /\ HInv' /\ GInv' /\ RInv' /\ [History!Next]_(History!vars)
  <2> SUFFICES ASSUME TInv, HInv, GInv, RInv, [Next]_vars
               PROVE  TInv' /\ HInv' /\ GInv' /\ RInv' /\ [History!Next]_(History!vars)
    OBVIOUS
  <2>1. ~Damage
    BY <1>1
  <2>2. TInv' /\ GInv'
    BY TypesStep, GenerationsStep
  <2>3. HInv'
    <3>1. damages = 0 /\ damages' = 0
      BY <2>2 DEF TInv, TypeOK
    <3> QED
      BY <3>1, HealthyStep DEF Healthy
  <2>4. RInv'
    <3>1. CASE UNCHANGED vars
      BY <3>1 DEF vars, card, call, RInv, CopiesOnce, UpdateMade, ImportMade, BookTakenOut, BookPutIn,
         BookMade, Before, Known, OldEntry, Place, Kept, Offered, OfferedTwice
    <3> QED
      BY <2>1, <3>1, MadeStep
  <2> QED
    BY <2>1, <2>2, <2>3, <2>4, NextSeen
<1> QED
  BY <1>2, <1>3, PTL DEF Spec, ImplementsReadingHistory, History!Spec

=============================================================================
