---------------------------- MODULE FileReplace ----------------------------
(***************************************************************************)
(* Putting a complete file in the place of another one on a FAT card,      *)
(* which cannot rename onto a name that is taken.  One file is modelled,   *)
(* replaced again and again by one of the ways the firmware has:           *)
(*                                                                         *)
(*   bookmarks  bookmark_file::replaceFile(), which looks for an           *)
(*              interrupted replacement first, as every load does          *)
(*   upload     an upload or a download: a .part, then replace()           *)
(*   move       a WebDAV MOVE: replace() with a file of the user's         *)
(*   book       /api/book/replace: the first original is kept as .bak      *)
(*   index      LibraryPublish::publish(): remove, then rename             *)
(*                                                                         *)
(* Every rename and removal is one step; it works or fails, and the power  *)
(* may go before and after each.  A rename itself is taken to happen or    *)
(* not to happen.  Nothing else uses these names meanwhile: all of this    *)
(* runs on the loop task.                                                  *)
(***************************************************************************)
CONSTANTS
  Contents,   \* the complete files there may be
  None,       \* no file of that name
  Torn        \* a file cut short

ASSUME ContentsAssumption == None \notin Contents /\ Torn \notin Contents /\ None # Torn

VARIABLES
  kind,     \* who replaces this file
  card,     \* what is under each of the four names
  want,     \* the content the last call is to put there
  pc,       \* the next step of the call, "idle" between calls
  answer,   \* what the last replacement returned, "cut" if it never did
  sound,    \* the last recoverReplace() failed in nothing
  before    \* the file there was when that call began

vars == <<kind, card, want, pc, answer, sound, before>>

Kinds == {"bookmarks", "upload", "move", "book", "index"}
\* dest; dest.part (.davtmp, .new, .tmp); dest.old; dest.bak
Names == {"dest", "part", "old", "bak"}
File == Contents \cup {None}

\* The file there is: at its own name, or where a replacement cut off left it.
Value == IF card["dest"] # None THEN card["dest"]
         ELSE IF card["old"] # None THEN card["old"] ELSE card["bak"]

Init ==
  /\ kind \in Kinds
  /\ card \in {[n \in Names |-> IF n = "dest" THEN f ELSE None] : f \in File}
  /\ want = None /\ pc = "idle" /\ answer = "none" /\ sound = TRUE /\ before = None

\* Storage.rename() and Storage.remove() when they work.
Renamed(a, b) == [card EXCEPT ![a] = None, ![b] = card[a]]
Removed(a) == [card EXCEPT ![a] = None]

\* A step of the call that touches no file.
Goto(l) == pc' = l /\ UNCHANGED <<kind, card, want, answer, sound, before>>
\* A card operation, and where the call goes on when it works and when it fails.
Works(files, l) == card' = files /\ pc' = l /\ UNCHANGED <<kind, want, answer, sound, before>>
Try(files, ok, bad) == Works(files, ok) \/ Goto(bad)
\* The call returns.
Return(a) == pc' = "idle" /\ answer' = a /\ UNCHANGED <<kind, card, want, sound, before>>

-----------------------------------------------------------------------------
(* Before the replacement.                                                 *)

Begin(c) ==
  /\ pc = "idle"
  /\ want' = c /\ answer' = "none" /\ before' = Value
  /\ card' = IF kind = "move" THEN [card EXCEPT !["part"] = c] ELSE card
  /\ pc' = CASE kind = "bookmarks" -> "recover" [] kind = "move" -> "replace" [] OTHER -> "write"
  /\ UNCHANGED <<kind, sound>>

\* BookmarkStore::load(), GlobalBookmarkIndex::load() and hasAny().
Load == kind = "bookmarks" /\ pc = "idle" /\ Goto("look")
Loaded == pc = "loaded" /\ Goto("idle")
Loading == pc \in {"look", "loaded"}

\* An old file aside goes back, or goes for good where the new one is in place.
RecoverReplace ==
  /\ pc \in {"look", "recover"}
  /\ pc' = IF Loading THEN "loaded" ELSE "write"
  /\ \/ card["old"] = None /\ sound' = TRUE /\ UNCHANGED card
     \/ card["old"] # None /\ sound' = FALSE /\ UNCHANGED card
     \/ /\ card["old"] # None /\ sound' = TRUE
        /\ card' = IF card["dest"] # None THEN Removed("old") ELSE Renamed("old", "dest")
  /\ UNCHANGED <<kind, want, answer, before>>

\* Mutant: nobody looks at what close() returns.
WriteUnclosed ==
  /\ pc = "write"
  /\ \E part \in {want, Torn} :
       Works([card EXCEPT !["part"] = part],
             CASE kind = "book" -> "swap" [] kind = "index" -> "publish" [] OTHER -> "replace")
\* The new file is written and closed in full; opening it fails; or writing or closing it does,
\* which only LibraryPublish may miss: it does not look at what close() returns.  A book that is
\* not there cannot be replaced: it comes as a plain upload.
Write ==
  /\ pc = "write"
  /\ \/ Works([card EXCEPT !["part"] = want],
              CASE kind = "book" /\ card["dest"] # None -> "swap" [] kind = "index" -> "publish" [] OTHER -> "replace")
     \/ Return("no")
     \/ Works([card EXCEPT !["part"] = Torn], "discard")
     \/ kind = "index" /\ Works([card EXCEPT !["part"] = Torn], "publish")

\* The caller removes its file, whether that works or not.
Discard ==
  /\ pc = "discard"
  /\ card' \in {card, Removed("part")}
  /\ pc' = "idle" /\ answer' = "no"
  /\ UNCHANGED <<kind, want, sound, before>>

-----------------------------------------------------------------------------
(* FileReplace::replace().                                                 *)

\* Mutant: every caller drops its file when replace() returns false.
FailedDiscards == "discard"
\* replace() returns false: a MOVE leaves its source where it is, the others drop their file.
Failed == IF kind = "move" THEN "kept" ELSE "discard"

\* Mutant: the old file is removed first, as the transfers once did.
ReplaceRemovesFirst ==
  /\ pc = "replace"
  /\ IF card["dest"] = None THEN Goto("place") ELSE Try(Removed("dest"), "place", Failed)
Replace ==
  /\ pc = "replace"
  /\ Goto(CASE card["dest"] = None -> "place"
            [] card["dest"] # None /\ card["old"] # None -> Failed
            [] OTHER -> "aside")
Place == pc = "place" /\ Try(Renamed("part", "dest"), "done", Failed)
SetAside == pc = "aside" /\ Try(Renamed("dest", "old"), "move", Failed)
MoveIn == pc = "move" /\ Try(Renamed("part", "dest"), "drop", "putback")
PutBack == pc = "putback" /\ Try(Renamed("old", "dest"), Failed, Failed)
DropOld == pc = "drop" /\ Try(Removed("old"), "done", "done")
Done == pc = "done" /\ Return("yes")
Kept == pc = "kept" /\ Return("no")

-----------------------------------------------------------------------------
(* The two that do it otherwise.                                           *)

\* handleBookReplace(): the first original becomes the backup, later ones step aside.
Swap == pc = "swap" /\ IF card["bak"] # None THEN Goto("replace")
                       ELSE Try(Renamed("dest", "bak"), "swapin", "discard")
SwapIn == pc = "swapin" /\ Try(Renamed("part", "dest"), "done", "swapback")
SwapBack == pc = "swapback" /\ Try(Renamed("bak", "dest"), "kept", "kept")

\* publish(): the old index is removed before the new one is renamed onto its name.
RemoveIndex == pc = "publish" /\ Try(Removed("dest"), "rename", "rename")
RenameIndex ==
  /\ pc = "rename"
  /\ \/ card["dest"] = None /\ Works(Renamed("part", "dest"), "done")
     \/ Goto("kept")

-----------------------------------------------------------------------------
\* The power goes in the middle of a call; what was being written is then cut short.
PowerCut ==
  /\ pc # "idle"
  /\ card' \in IF pc = "write" THEN {card, [card EXCEPT !["part"] = Torn]} ELSE {card}
  /\ pc' = "idle"
  /\ answer' = IF Loading THEN answer ELSE "cut"
  /\ UNCHANGED <<kind, want, sound, before>>

Next ==
  \/ \E c \in Contents : Begin(c)
  \/ Load \/ Loaded \/ RecoverReplace \/ Write \/ Discard
  \/ Replace \/ Place \/ SetAside \/ MoveIn \/ PutBack \/ DropOld \/ Done \/ Kept
  \/ Swap \/ SwapIn \/ SwapBack \/ RemoveIndex \/ RenameIndex
  \/ PowerCut

Spec == Init /\ [][Next]_vars

-----------------------------------------------------------------------------
(* Properties.                                                             *)

Steps == {"idle", "look", "loaded", "recover", "write", "discard", "replace", "place", "aside",
          "move", "putback", "drop", "done", "kept", "swap", "swapin", "swapback", "publish", "rename"}

\* The state has the types of what it models, and only the index may be cut short under its own name.
TypeOK ==
  /\ kind \in Kinds /\ pc \in Steps /\ sound \in BOOLEAN
  /\ answer \in {"none", "yes", "no", "cut"}
  /\ want \in File /\ before \in File \cup {Torn}
  /\ card \in [Names -> File \cup {Torn}]
  /\ kind # "index" => \A n \in Names \ {"part"} : card[n] # Torn

\* FileReplace.h: false leaves both where they were.  The file there was is still there, under its
\* own name or aside, and what a MOVE would have moved has not moved.
NoLeavesBoth ==
  pc = "idle" /\ answer = "no" /\ kind # "index" =>
    Value = before /\ (kind = "move" => card["part"] = want)

\* All but the index replace a file as ReplacedFile says: under one name or another there is always
\* the old content or the new one, and the answer says which.
Phase ==
  IF kind = "index" \/ pc = "idle" \/ Loading THEN "idle"
  ELSE IF pc \in {"drop", "done"} THEN "put" ELSE "putting"
Whole == INSTANCE ReplacedFile WITH
  value <- IF kind = "index" THEN None ELSE Value,
  phase <- Phase,
  pending <- IF Phase = "idle" THEN None ELSE want,
  answer <- IF kind = "index" THEN "none" ELSE answer
ImplementsReplacedFile == Whole!Spec

\* LibraryPublish.h: false leaves the previous index as it was.  It does not (README, section 12).
IndexKept == pc = "idle" /\ answer = "no" /\ kind = "index" => Value = before
=============================================================================
