-------------------------- MODULE MCFlashGlyphStore --------------------------
(***************************************************************************)
(* A small glyph store: one glyph takes half a segment, another all of it, *)
(* and the font lacks a third; every key's chain starts at one of two      *)
(* neighbouring slots.                                                     *)
(***************************************************************************)
EXTENDS FlashGlyphStore, TLC

CONSTANTS a, b, n

MCGlyphs == {a, b}
MCBlanks == {n}
MCSize   == (a :> 1) @@ (b :> 2)
MCHome   == (a :> 0) @@ (b :> 1) @@ (n :> 0)

-----------------------------------------------------------------------------

\* The store with r for what it has in RAM.
Knowing(r) == INSTANCE FlashGlyphStore WITH ram <- r

\* What was answered before the power was cut is answered the same by the store opened
\* after it: a cut costs no more than what was being written, or given up.  Given up is
\* everything in a rebuild or a wipe, and in the retiring of a tail the glyphs that
\* reclaimTail() did not choose to keep, or had no free probe for.
CutForgetsNothing ==
  [][ram.open /\ ~ram'.open /\ ~ram.wipe /\ op.call \notin {"rebuild", "wipe"} =>
       \A k \in Keys : Find(k) # "NotStored" =>
         \/ \E reopened \in {Reopened'} : Knowing(reopened)!Find(k)' = Find(k)
         \/ op.call = "reclaim" /\ op.todo = <<>> /\ op.placed = <<>>
              /\ (k \notin op.keys \/ ram.chainFull)]_vars
=============================================================================
