--------------------------- MODULE MCReadingStats ---------------------------
(* Small instances of ReadingStats for TLC. *)
EXTENDS ReadingStats, TLC

CONSTANTS b1, b2, b3

Row(b, seconds, lastRead) == [book |-> b, seconds |-> seconds, lastRead |-> lastRead]
File(rows, sum) == [books |-> rows, total |-> sum, malformed |-> FALSE]

NoLegacies == {File(<<>>, 0)}

Renamed(f, p) ==
  [f EXCEPT !.books = [i \in DOMAIN f.books |-> [f.books[i] EXCEPT !.book = p[@]]]]

\* Past the cap of two, with a book twice, and a total too small for its books, as a
\* hand-made file may say; and one that does not parse.
SomeLegacies ==
  {File(<<Row(b1, 2, 0), Row(b2, 1, 0), Row(b3, 1, 1), Row(b2, 3, 1)>>, 2),
   [books |-> <<Row(b1, 1, 1)>>, total |-> 1, malformed |-> TRUE]}

\* The same under every naming of the books, for the symmetry's sake, and none.
AllLegacies == NoLegacies \cup {Renamed(f, p) : f \in SomeLegacies, p \in Permutations(Books)}

BookSymmetry == Permutations(Books)
=============================================================================
