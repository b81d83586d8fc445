-------------------------- MODULE MCLodgingSearch --------------------------
\* A finite instance of LodgingSearch for TLC.
EXTENDS LodgingSearch

\* Hotels: four pages, an empty one among the first three; a limit of 5 is
\* reached on the fourth page only, from which the ceiling of 3 keeps the search.
\* Airbnb: one page is asked for, of two.
MCSites == {[sizes |-> <<2, 0, 2, 2>>, pages |-> 3], [sizes |-> <<3, 1>>, pages |-> 1]}
=============================================================================
