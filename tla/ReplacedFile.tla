---------------------------- MODULE ReplacedFile ----------------------------
(***************************************************************************)
(* What replacing a file promises whoever keeps something in it: the file  *)
(* has one content at any time; a replacement changes it at one moment, to *)
(* the new content; an answer of "yes" means the new content is there, an  *)
(* answer of "no" that the old one is; and a power cut leaves one of the   *)
(* two.  FileReplace implements it (ImplementsReplacedFile there).         *)
(***************************************************************************)
CONSTANTS Contents, None

VARIABLES
  value,    \* the content, None where there is no file yet
  phase,    \* "idle", "putting" before the change, "put" after it
  pending,  \* the content on its way in, or None
  answer    \* how the last replacement ended: "none", "yes", "no" or "cut"

vars == <<value, phase, pending, answer>>

Init ==
  /\ value \in Contents \cup {None}
  /\ phase = "idle" /\ pending = None /\ answer = "none"

Begin(c) ==
  /\ phase = "idle"
  /\ phase' = "putting" /\ pending' = c /\ answer' = "none"
  /\ UNCHANGED value

Change ==
  /\ phase = "putting"
  /\ phase' = "put" /\ value' = pending
  /\ UNCHANGED <<pending, answer>>

End(a) == phase' = "idle" /\ pending' = None /\ answer' = a /\ UNCHANGED value

Succeed == phase = "put" /\ End("yes")
Refuse == phase = "putting" /\ End("no")
PowerCut == phase # "idle" /\ End("cut")

Next == (\E c \in Contents : Begin(c)) \/ Change \/ Succeed \/ Refuse \/ PowerCut

Spec == Init /\ [][Next]_vars
=============================================================================
