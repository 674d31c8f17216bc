--------------------------- MODULE ReadingHistory ---------------------------
(***************************************************************************)
(* What the reading statistics promise: a history of at most Cap books,    *)
(* changed by whole updates only.  An update happens or it does not,       *)
(* whatever power cuts and failed writes come in between; a book leaves    *)
(* only by removal, by a new name or as the least recently read one past   *)
(* the cap; what an older firmware recorded is taken over once, the newest *)
(* books of it.  ReadingStats implements it (ImplementsReadingHistory).    *)
(***************************************************************************)
EXTENDS Naturals, FiniteSets

CONSTANTS Books, Cap, Times

VARIABLES
  history,   \* a set of [book, seconds, lastRead], one for each book
  total,     \* the seconds read over all, those of evicted books too
  offered    \* {[books, total]} while an older firmware's history waits, else {}

vars == <<history, total, offered>>

BooksOf(H) == {r.book : r \in H}
Seconds(b) == IF b \in BooksOf(history) THEN (CHOOSE r \in history : r.book = b).seconds ELSE 0
Others(b) == {r \in history : r.book # b}

\* The order in which the cap drops books.
Older(r, s) == r.lastRead < s.lastRead \/ (r.lastRead = s.lastRead /\ r.seconds < s.seconds)

Init == history = {} /\ total = 0

\* A session, or a finish (no seconds), read at a time the clock may not know.
Record(b) ==
  /\ total' >= total
  /\ \E time \in Times :
       LET read == [book |-> b, seconds |-> Seconds(b) + (total' - total), lastRead |-> time] IN
       \/ /\ b \in BooksOf(history) \/ Cardinality(history) < Cap
          /\ history' = Others(b) \cup {read}
       \/ /\ b \notin BooksOf(history) /\ Cardinality(history) = Cap
          /\ \E r \in history : /\ \A s \in history : ~Older(s, r)
                                /\ history' = (history \ {r}) \cup {read}
  /\ UNCHANGED offered

Remove(b) ==
  /\ b \in BooksOf(history)
  /\ history' = Others(b)
  /\ total' = IF total > Seconds(b) THEN total - Seconds(b) ELSE 0
  /\ UNCHANGED offered

\* The history of one file name goes over to another, which has none.
Rename(b, c) ==
  /\ b \in BooksOf(history) /\ c \notin BooksOf(history)
  /\ history' = Others(b) \cup {[r EXCEPT !.book = c] : r \in history \ Others(b)}
  /\ UNCHANGED <<total, offered>>

\* An older firmware's history is taken over: all of it, or Cap books of it, and
\* then none left out was read after one that was kept (unless it is there twice).
Import == \E o \in offered :
  LET Twice(r) == \E s \in o.books \ {r} : s.book = r.book IN
  /\ history = {}
  /\ history' \in SUBSET o.books
  /\ Cardinality(BooksOf(history')) = Cardinality(history')
  /\ \/ BooksOf(history') = BooksOf(o.books) /\ Cardinality(history') <= Cap
     \/ Cardinality(history') = Cap
  /\ \A r \in o.books \ history', s \in history' : Twice(r) \/ ~Older(s, r)
  /\ total' = o.total
  /\ offered' = {}

\* It cannot be read, and is set aside.
Discard == offered' = {} /\ UNCHANGED <<history, total>>

Next ==
  \/ \E b \in Books : Record(b) \/ Remove(b) \/ \E c \in Books : Rename(b, c)
  \/ Import \/ Discard

Spec == Init /\ [][Next]_vars
=============================================================================
