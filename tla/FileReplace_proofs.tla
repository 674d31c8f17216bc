------------------------- MODULE FileReplace_proofs -------------------------
(***************************************************************************)
(* Proofs about FileReplace, for every set of contents.                    *)
(*                                                                         *)
(* The inductive invariant IInv says where the call stands.  Callers:      *)
(* which steps each way of replacing a file can be at.  Places: which      *)
(* names are taken at each step, and that what is to go in waits at part.  *)
(* Unchanged: until the new content is in, the file there was is still Value,   *)
(* and so it is when the answer is no.  The refinement follows: every step *)
(* either leaves Value alone or is the one that puts the new content in.   *)
(***************************************************************************)
EXTENDS FileReplace, TLAPS

Replacing == {"replace", "place", "aside", "move", "putback"}
Swapping == {"swap", "swapin", "swapback"}

Callers ==
  /\ pc \in {"look", "loaded", "recover"} => kind = "bookmarks"
  /\ pc \in Swapping => kind = "book"
  /\ pc \in {"publish", "rename"} => kind = "index"
  /\ pc \in Replacing \cup {"drop"} => kind # "index"
  /\ pc = "kept" => kind \in {"move", "book", "index"}
  /\ pc \in {"write", "discard"} => kind # "move"
  /\ pc \notin {"idle", "look", "loaded"} => want \in Contents

Places ==
  /\ kind # "book" => card["bak"] = None
  /\ kind = "book" /\ card["old"] # None => card["bak"] # None
  /\ kind = "book" /\ pc = "replace" => card["dest"] = None \/ card["bak"] # None
  /\ kind = "book" /\ pc = "aside" => card["bak"] # None
  /\ pc \in Replacing \cup Swapping => card["part"] = want
  /\ pc = "place" => card["dest"] = None
  /\ pc = "aside" => card["dest"] # None /\ card["old"] = None
  /\ pc \in {"move", "putback"} => card["dest"] = None /\ card["old"] # None
  /\ pc = "swap" => card["dest"] # None
  /\ pc \in {"swapin", "swapback"} =>
       card["dest"] = None /\ card["old"] = None /\ card["bak"] # None
  /\ pc \in {"drop", "done"} /\ kind # "index" => card["dest"] = want

MoveWaits == kind = "move" => card["part"] = want

Unchanged ==
  kind # "index" =>
    /\ Phase = "putting" => Value = before
    /\ pc = "kept" => MoveWaits
    /\ pc \in {"idle", "look", "loaded"} /\ answer = "no" => Value = before /\ MoveWaits

\* BookmarkFile.h: after recoverReplace() the next replace is not refused, and a load finds the
\* file under its own name: unless an operation of the recovery failed, nothing is aside.
RecoveryClearsTheWay ==
  kind = "bookmarks" /\ sound /\ pc \in {"loaded", "write", "replace"} => card["old"] = None

IInv == TypeOK /\ Callers /\ Places /\ Unchanged /\ RecoveryClearsTheWay
-----------------------------------------------------------------------------
\* The card as the user brings it satisfies the invariant.
LEMMA Boots == Init => IInv
  BY ContentsAssumption DEF Init, IInv, TypeOK, Kinds, Names, Steps, File, Callers, Places, Unchanged, MoveWaits,
    RecoveryClearsTheWay, Replacing, Swapping, Phase, Value, Loading

USE DEF Replacing, Swapping

\* Every step of every call keeps it, whether its operation works, fails or is cut.
LEMMA Step == IInv /\ [Next]_vars => IInv'
<1> SUFFICES ASSUME IInv, [Next]_vars PROVE IInv'
  OBVIOUS
<1> USE ContentsAssumption DEF IInv, TypeOK, Kinds, Names, Steps, File, Callers, Places, Unchanged, MoveWaits,
  RecoveryClearsTheWay, Phase, Value, Loading
<1>1. CASE \E c \in Contents : Begin(c)
  BY <1>1 DEF Begin
<1>2. CASE Load
  BY <1>2 DEF Load, Goto
<1>3. CASE Loaded
  BY <1>3 DEF Loaded, Goto
<1>4. CASE RecoverReplace
  <2>1. CASE card' = card /\ sound' = (card["old"] = None)
    <3>1. TypeOK' /\ Callers' /\ Places'
      BY <1>4, <2>1 DEF RecoverReplace
    <3>2. Unchanged' /\ RecoveryClearsTheWay'
      BY <1>4, <2>1 DEF RecoverReplace
    <3> QED
      BY <3>1, <3>2
  <2>2. CASE card["dest"] # None /\ card["old"] # None /\ sound' /\ card' = Removed("old")
    BY <1>4, <2>2 DEF RecoverReplace, Removed
  <2>3. CASE card["dest"] = None /\ card["old"] # None /\ sound' /\ card' = Renamed("old", "dest")
    BY <1>4, <2>3 DEF RecoverReplace, Renamed
  <2> QED
    BY <1>4, <2>1, <2>2, <2>3 DEF RecoverReplace
<1>5. CASE Write
  BY <1>5 DEF Write, Works, Return
<1>6. CASE Discard
  BY <1>6 DEF Discard, Removed
<1>7. CASE Replace
  BY <1>7 DEF Replace, Goto, Failed
<1>8. CASE Place
  BY <1>8 DEF Place, Try, Works, Goto, Renamed, Failed
<1>9. CASE SetAside
  BY <1>9 DEF SetAside, Try, Works, Goto, Renamed, Failed
<1>10. CASE MoveIn
  BY <1>10 DEF MoveIn, Try, Works, Goto, Renamed
<1>11. CASE PutBack
  BY <1>11 DEF PutBack, Try, Works, Goto, Renamed, Failed
<1>12. CASE DropOld
  BY <1>12 DEF DropOld, Try, Works, Goto, Removed
<1>13. CASE Done
  BY <1>13 DEF Done, Return
<1>14. CASE Kept
  BY <1>14 DEF Kept, Return
<1>15. CASE Swap
  BY <1>15 DEF Swap, Try, Works, Goto, Renamed
<1>16. CASE SwapIn
  BY <1>16 DEF SwapIn, Try, Works, Goto, Renamed
<1>17. CASE SwapBack
  BY <1>17 DEF SwapBack, Try, Works, Goto, Renamed
<1>18. CASE RemoveIndex
  BY <1>18 DEF RemoveIndex, Try, Works, Goto, Removed
<1>19. CASE RenameIndex
  BY <1>19 DEF RenameIndex, Works, Goto, Renamed
<1>20. CASE PowerCut
  BY <1>20 DEF PowerCut
<1>21. CASE UNCHANGED vars
  BY <1>21 DEF vars
<1> QED
  BY <1>1, <1>2, <1>3, <1>4, <1>5, <1>6, <1>7, <1>8, <1>9, <1>10, <1>11, <1>12, <1>13, <1>14, <1>15, <1>16, <1>17, <1>18, <1>19, <1>20, <1>21 DEF Next

\* No sequence of calls, failures and power cuts leaves the invariant.
THEOREM Invariance == Spec => []IInv
  BY Boots, Step, PTL DEF Spec

\* The state always has its types, and no name but a part's ever holds a file cut short.
THEOREM TypeCorrect == Spec => []TypeOK
<1>1. IInv => TypeOK
  BY DEF IInv
<1> QED
  BY <1>1, Invariance, PTL

\* An answer of no means the file there was is there still, and a MOVE's source where it was.
THEOREM FalseLeavesBoth == Spec => []NoLeavesBoth
<1>1. IInv => NoLeavesBoth
  BY DEF IInv, Unchanged, MoveWaits, NoLeavesBoth
<1> QED
  BY <1>1, Invariance, PTL

\* A recovery in which nothing failed leaves nothing in the way of the next replacement.
THEOREM NeverRefusedAfterRecovery == Spec => []RecoveryClearsTheWay
<1>1. IInv => RecoveryClearsTheWay
  BY DEF IInv
<1> QED
  BY <1>1, Invariance, PTL

-----------------------------------------------------------------------------
(* The refinement.  Outside the calls' beginning and end a step either      *)
(* keeps the phase and Value, or it is the one from "putting" to "put".     *)

\* The initial states are the promise's.
LEMMA StartMaps == Init => Whole!Init
  BY ContentsAssumption DEF Init, Whole!Init, Names, File, Phase, Value, Loading

\* Every step is one of the promise's, or none.
LEMMA StepMaps == IInv /\ [Next]_vars => [Whole!Next]_Whole!vars
<1> SUFFICES ASSUME IInv, [Next]_vars PROVE [Whole!Next]_Whole!vars
  OBVIOUS
<1> USE ContentsAssumption DEF IInv, TypeOK, Kinds, Names, Steps, File, Callers, Places,
  Phase, Value, Loading, Whole!vars
<1>1. CASE \E c \in Contents : Begin(c)
  BY <1>1 DEF Begin, Whole!Next, Whole!Begin
<1>2. CASE Load
  BY <1>2 DEF Load, Goto
<1>3. CASE Loaded
  BY <1>3 DEF Loaded, Goto
<1>4. CASE RecoverReplace
  BY <1>4 DEF RecoverReplace, Renamed, Removed
<1>5. CASE Write
  BY <1>5 DEF Write, Works, Return, Whole!Next, Whole!Refuse, Whole!End
<1>6. CASE Discard
  BY <1>6 DEF Discard, Removed, Whole!Next, Whole!Refuse, Whole!End
<1>7. CASE Replace
  BY <1>7 DEF Replace, Goto, Failed
<1>8. CASE Place
  BY <1>8 DEF Place, Try, Works, Goto, Renamed, Failed, Whole!Next, Whole!Change
<1>9. CASE SetAside
  BY <1>9 DEF SetAside, Try, Works, Goto, Renamed, Failed
<1>10. CASE MoveIn
  BY <1>10 DEF MoveIn, Try, Works, Goto, Renamed, Whole!Next, Whole!Change
<1>11. CASE PutBack
  BY <1>11 DEF PutBack, Try, Works, Goto, Renamed, Failed
<1>12. CASE DropOld
  BY <1>12 DEF DropOld, Try, Works, Goto, Removed
<1>13. CASE Done
  BY <1>13 DEF Done, Return, Whole!Next, Whole!Succeed, Whole!End
<1>14. CASE Kept
  BY <1>14 DEF Kept, Return, Whole!Next, Whole!Refuse, Whole!End
<1>15. CASE Swap
  BY <1>15 DEF Swap, Try, Works, Goto, Renamed
<1>16. CASE SwapIn
  BY <1>16 DEF SwapIn, Try, Works, Goto, Renamed, Whole!Next, Whole!Change
<1>17. CASE SwapBack
  BY <1>17 DEF SwapBack, Try, Works, Goto, Renamed
<1>18. CASE RemoveIndex
  BY <1>18 DEF RemoveIndex, Try, Works, Goto, Removed
<1>19. CASE RenameIndex
  BY <1>19 DEF RenameIndex, Works, Goto, Renamed
<1>20. CASE PowerCut
  BY <1>20 DEF PowerCut, Whole!Next, Whole!PowerCut, Whole!End
<1>21. CASE UNCHANGED vars
  BY <1>21 DEF vars
<1> QED
  BY <1>1, <1>2, <1>3, <1>4, <1>5, <1>6, <1>7, <1>8, <1>9, <1>10, <1>11, <1>12, <1>13, <1>14, <1>15, <1>16, <1>17, <1>18, <1>19, <1>20, <1>21 DEF Next

\* Whatever fails and whenever the power goes, all ways of replacing a file but the index's behave
\* as one change of one content.
THEOREM Refinement == Spec => ImplementsReplacedFile
  BY StartMaps, StepMaps, Invariance, PTL DEF Spec, ImplementsReplacedFile, Whole!Spec
=============================================================================
