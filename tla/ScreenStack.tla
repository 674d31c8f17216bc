----------------------------- MODULE ScreenStack -----------------------------
(***************************************************************************)
(* What the activity manager promises: one stack of screens, of which the  *)
(* top one is on show, and at most one drawing of it at a time.  Screens   *)
(* are opened, left and replaced only while nothing is being drawn, so a   *)
(* drawing always ends on the stack it began on.  ActivityManager          *)
(* implements it (ImplementsScreenStack there).                            *)
(***************************************************************************)
EXTENDS Naturals, Sequences

CONSTANTS Screens, NoScreen

VARIABLES
  nav,      \* the screens, bottom first
  drawing   \* the screen being drawn, or NoScreen

vars == <<nav, drawing>>

Shown == {nav[i] : i \in DOMAIN nav}
Idle == drawing = NoScreen

Init == nav = <<>> /\ drawing = NoScreen

\* A screen is opened above the others; it is not open already.
Open(s) == Idle /\ s \notin Shown /\ nav' = Append(nav, s) /\ UNCHANGED drawing
\* The screen on show is left for the one below it.
Back == Idle /\ nav # <<>> /\ nav' = SubSeq(nav, 1, Len(nav) - 1) /\ UNCHANGED drawing
\* All screens are left for another one.
Replace(s) == Idle /\ s \notin Shown /\ nav' = <<s>> /\ UNCHANGED drawing

StartDrawing ==
  /\ Idle /\ nav # <<>>
  /\ drawing' = nav[Len(nav)]
  /\ UNCHANGED nav
EndDrawing == ~Idle /\ drawing' = NoScreen /\ UNCHANGED nav

\* The device restarts, in the middle of a drawing or not.
Restart == nav' = <<>> /\ drawing' = NoScreen

Next ==
  \/ \E s \in Screens : Open(s) \/ Replace(s)
  \/ Back \/ StartDrawing \/ EndDrawing \/ Restart

Spec == Init /\ [][Next]_vars
=============================================================================
