--------------------------- MODULE MCPagedSearch ---------------------------
\* A finite instance of PagedSearch for TLC.
EXTENDS PagedSearch, TLC

CONSTANTS a1, a2, a3, a4, a5, a6

Symmetry == Permutations(Callers)

\* Events, attractions, text search, and lookups (geocode, reverse_geocode).
MCSources == {
    [chained |-> FALSE, size |-> 2, pages |-> 3, dedups |-> TRUE, mute |-> FALSE],
    [chained |-> FALSE, size |-> 3, pages |-> 1, dedups |-> FALSE, mute |-> FALSE],
    [chained |-> TRUE, size |-> 2, pages |-> 3, dedups |-> FALSE, mute |-> FALSE],
    [chained |-> TRUE, size |-> 2, pages |-> 1, dedups |-> FALSE, mute |-> TRUE]}

\* A new entry at the top moves the others across the page boundaries.
MCLists == <<<<a1, a2, a3, a4, a2>>, <<a5, a1, a2, a3, a4, a6>>>>

\* Three of the items of either list match a search; in the new one the third of
\* them is on the last page that is asked for.
MCKinds == {{a1, a3, a4}}

\* Two years of six days, of which the second is a leap day of the first year,
\* and a trip across the new year.  The events of the first page of the old
\* list fall on the day before it, and on the leap day; the date of one event
\* cannot be read, that of another is in no calendar.
MCWindows == {NoWindow, [start |-> [year |-> 1, day |-> 5], end |-> [year |-> 2, day |-> 3]]}
MCStartDate == a1 :> 4 @@ a2 :> 2 @@ a3 :> 6 @@ a4 :> 1 @@ a5 :> NoDate @@ a6 :> 0
=============================================================================
