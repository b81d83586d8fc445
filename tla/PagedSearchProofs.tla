------------------------- MODULE PagedSearchProofs -------------------------
(***************************************************************************)
(* Proofs about a paged search, for every number of callers, every source, *)
(* page size, limit, quota and history of the provider's list: that it     *)
(* reads one list and what it makes of it, however the pages were cached   *)
(* and wherever it was cut short.  Two invariants carry them.  ChainInv    *)
(* knows how the pages of a search hang together; MadeInv that what it has *)
(* collected is what was wanted on them, record by record, and how far     *)
(* that reaches.                                                           *)
(***************************************************************************)
EXTENDS PagedSearch, FiniteSetTheorems, SequenceTheorems, Induction

---------------------------------------------------------------------------
(* The calendar: the days of a trip are the dates from its first to its    *)
(* last, so one of them has an event's day if that day, in some year of    *)
(* the trip, is a date and lies between them.                              *)

Days == {d \in Dates : IsDate(d)}
Ordinal(d) == d.year * YearEnd + d.day

LEMMA Multiple == ASSUME NEW k \in Int, NEW m \in Nat, k >= 1 PROVE k * m >= m
OBVIOUS

\* Dates are ordered as their ordinals are.
LEMMA OrdinalOrders ==
    ASSUME NEW d \in Dates, NEW e \in Dates
    PROVE  /\ Ordinal(d) \in Nat
           /\ NotAfter(d, e) <=> Ordinal(d) <= Ordinal(e)
           /\ Ordinal(d) = Ordinal(e) => d = e
<1>1. /\ YearEnd \in Nat /\ d.year \in Nat /\ e.year \in Nat
      /\ d.day \in 1..YearEnd /\ e.day \in 1..YearEnd
  BY PagedAssumption DEF Dates
<1>2. ASSUME NEW y \in Nat, NEW z \in Nat, NEW i \in 1..YearEnd, NEW j \in 1..YearEnd, y < z
      PROVE  y * YearEnd + i < z * YearEnd + j
  <2>1. (z - y) * YearEnd >= YearEnd
    BY <1>1, <1>2, Multiple
  <2>2. (z - y) * YearEnd = z * YearEnd - y * YearEnd
    BY <1>1
  <2>3. y * YearEnd \in Int /\ z * YearEnd \in Int
    BY <1>1
  <2> QED BY <1>1, <2>1, <2>2, <2>3
<1>3. Ordinal(d) \in Nat /\ Ordinal(e) \in Nat
  BY <1>1 DEF Ordinal
<1>4. CASE d.year < e.year
  <2>1. Ordinal(d) < Ordinal(e)
    BY <1>1, <1>2, <1>4 DEF Ordinal
  <2> QED BY <1>3, <1>4, <2>1 DEF NotAfter
<1>5. CASE e.year < d.year
  <2>1. Ordinal(e) < Ordinal(d)
    BY <1>1, <1>2, <1>5 DEF Ordinal
  <2> QED BY <1>1, <1>3, <1>5, <2>1 DEF NotAfter
<1>6. CASE d.year = e.year
  <2>1. Ordinal(d) <= Ordinal(e) <=> d.day <= e.day
    <3>1. d.year * YearEnd \in Int
      BY <1>1
    <3> QED BY <1>1, <1>6, <3>1 DEF Ordinal
  <2>2. NotAfter(d, e) <=> d.day <= e.day
    BY <1>1, <1>6 DEF NotAfter
  <2>3. Ordinal(d) = Ordinal(e) => d.day = e.day
    <3>1. d.year * YearEnd \in Int
      BY <1>1
    <3> QED BY <1>1, <1>6, <3>1 DEF Ordinal
  <2>4. d.day = e.day => d = e
    BY <1>6 DEF Dates
  <2> QED BY <1>3, <2>1, <2>2, <2>3, <2>4
<1> QED BY <1>1, <1>4, <1>5, <1>6

\* Tomorrow is the next date there is.
LEMMA TomorrowIsNext ==
    ASSUME NEW d \in Days
    PROVE  /\ Tomorrow(d) \in Days /\ Ordinal(d) < Ordinal(Tomorrow(d))
           /\ \A e \in Days : Ordinal(d) < Ordinal(e) => Ordinal(Tomorrow(d)) <= Ordinal(e)
<1> DEFINE next == IF d.day = YearEnd THEN [year |-> d.year + 1, day |-> 1]
                   ELSE [d EXCEPT !.day = @ + 1]
           after == [next EXCEPT !.day = @ + 1]
<1>1. /\ d \in Dates /\ d.year \in Nat /\ d.day \in 1..YearEnd
      /\ YearEnd \in Nat /\ LeapDay \in 1..(YearEnd - 1)
  BY PagedAssumption DEF Days, Dates
<1>2. /\ next \in Dates /\ next.year * YearEnd + next.day = d.year * YearEnd + d.day + 1
  <2>1. CASE d.day = YearEnd
    <3>1. next = [year |-> d.year + 1, day |-> 1]
      BY <2>1
    <3>2. (d.year + 1) * YearEnd = d.year * YearEnd + YearEnd
      BY <1>1
    <3> QED BY <1>1, <2>1, <3>1, <3>2 DEF Dates
  <2>2. CASE d.day # YearEnd
    <3>1. next.year = d.year /\ next.day = d.day + 1 /\ next = [year |-> d.year, day |-> d.day + 1]
      BY <1>1, <2>2 DEF Dates
    <3> QED BY <1>1, <2>2, <3>1 DEF Dates
  <2> QED BY <2>1, <2>2
<1>3. Tomorrow(d) = IF IsDate(next) THEN next ELSE after
  BY DEF Tomorrow
<1> HIDE DEF next
<1>4. next.year \in Nat /\ next.day \in 1..YearEnd /\ next = [year |-> next.year, day |-> next.day]
  BY <1>2 DEF Dates
<1>5. Ordinal(next) = Ordinal(d) + 1 /\ Ordinal(d) \in Nat
  BY <1>1, <1>2, OrdinalOrders DEF Ordinal
<1>6. CASE IsDate(next)
  <2>1. next \in Days
    BY <1>2, <1>6 DEF Days
  <2>2. \A e \in Days : Ordinal(e) \in Nat
    BY OrdinalOrders DEF Days
  <2> QED BY <1>3, <1>5, <1>6, <2>1, <2>2
<1>7. CASE ~IsDate(next)
  <2>1. next.day = LeapDay
    BY <1>4, <1>7 DEF IsDate
  <2>2. after = [year |-> next.year, day |-> next.day + 1]
    BY <1>4
  <2>3. after \in Dates /\ after.day = LeapDay + 1 /\ after.year = next.year
    BY <1>1, <1>4, <2>1, <2>2 DEF Dates
  <2>4. after \in Days
    <3>1. after.day # LeapDay
      BY <1>1, <2>3
    <3> QED BY <2>3, <3>1 DEF Days, Dates, IsDate
  <2>5. Ordinal(after) = Ordinal(d) + 2
    <3>1. next.year * YearEnd \in Int
      BY <1>1, <1>4
    <3> QED BY <1>1, <1>4, <1>5, <2>1, <2>3, <3>1 DEF Ordinal
  <2>6. ASSUME NEW e \in Days, Ordinal(d) < Ordinal(e) PROVE Ordinal(after) <= Ordinal(e)
    <3>1. e \in Dates /\ Ordinal(e) \in Nat /\ e # next
      BY <1>7, OrdinalOrders DEF Days
    <3>2. Ordinal(e) # Ordinal(next)
      BY <1>2, <3>1, OrdinalOrders
    <3> QED BY <1>5, <2>5, <2>6, <3>1, <3>2
  <2> HIDE DEF after
  <2> QED BY <1>3, <1>5, <1>7, <2>4, <2>5, <2>6
<1> QED BY <1>6, <1>7

\* The days of a trip, from the first to the last, are the dates between them.
LEMMA TripDaysAreDates ==
    ASSUME NEW w \in Windows, w # NoWindow
    PROVE  /\ w.start \in Days /\ w.end \in Days
           /\ TripDays(w) = {d \in Days : NotAfter(w.start, d) /\ NotAfter(d, w.end)}
<1> DEFINE N == YearEnd * (w.end.year - w.start.year + 1)
           Walks(f) == f = [n \in 0..N |-> IF n = 0 THEN w.start ELSE Tomorrow(f[n - 1])]
           step == [x \in Days \X (1..N) |-> Tomorrow(x[1])]
           day == CHOOSE f : Walks(f)
<1>1. /\ w.start \in Days /\ w.end \in Days /\ w.start \in Dates /\ w.end \in Dates
      /\ YearEnd \in Nat /\ NotAfter(w.start, w.end)
  BY PagedAssumption DEF Days
<1>2. /\ w.start.year \in Nat /\ w.end.year \in Nat /\ w.start.year <= w.end.year
      /\ w.start.day \in 1..YearEnd /\ w.end.day \in 1..YearEnd
  BY <1>1 DEF Dates, NotAfter
<1>3. N \in Nat /\ Ordinal(w.end) <= Ordinal(w.start) + N
  <2> DEFINE y == w.start.year
             z == w.end.year
  <2>1. z * YearEnd + YearEnd = y * YearEnd + N /\ y * YearEnd \in Int /\ z * YearEnd \in Int
    BY <1>1, <1>2
  <2>2. N \in Nat
    <3>1. z - y + 1 \in Int /\ z - y + 1 >= 1 /\ N = (z - y + 1) * YearEnd
      BY <1>1, <1>2
    <3>2. N >= YearEnd /\ N \in Int
      BY <1>1, <3>1, Multiple
    <3> QED BY <1>1, <3>2
  <2> HIDE DEF N
  <2> QED BY <1>1, <1>2, <2>1, <2>2 DEF Ordinal
<1>4. TripDays(w) = {day[n] : n \in {m \in 0..N : w.end \in {day[l] : l \in m..N}}}
  BY DEF TripDays
<1> HIDE DEF N
<1>5. Walks(day)
  <2>1. step \in Steps(Days, N)
    <3>1. \A d \in Days : Tomorrow(d) \in Days
      BY TomorrowIsNext
    <3> QED BY <3>1 DEF Steps
  <2> HIDE DEF step
  <2>2. PICK g : Values(g, Days, w.start, N, step)
    BY <1>1, <1>3, <2>1, RecursionHasValues
  <2>3. ASSUME NEW n \in 1..N PROVE g[n] = Tomorrow(g[n - 1])
    <3>1. g[n - 1] \in Days /\ <<g[n - 1], n>> \in Days \X (1..N)
      BY <1>3, <2>2 DEF Values
    <3> QED BY <2>2, <3>1 DEF Values, step
  <2>4. g = [n \in 0..N |-> g[n]] /\ g[0] = w.start
    BY <2>2 DEF Values
  <2>5. \A n \in 0..N : g[n] = IF n = 0 THEN w.start ELSE Tomorrow(g[n - 1])
    <3>1. \A n \in 0..N : n # 0 => n \in 1..N
      OBVIOUS
    <3> QED BY <2>3, <2>4, <3>1
  <2>6. Walks(g)
    BY <2>4, <2>5
  <2> HIDE DEF Walks
  <2> QED BY <2>6
<1> HIDE DEF day
<1>6. day[0] = w.start /\ \A n \in 0..(N - 1) : day[n + 1] = Tomorrow(day[n])
  <2>1. /\ 0 \in 0..N
        /\ \A n \in 0..(N - 1) : n + 1 \in 0..N /\ n + 1 # 0 /\ n + 1 - 1 = n
    BY <1>3
  <2>2. \A n \in 0..N : day[n] = IF n = 0 THEN w.start ELSE Tomorrow(day[n - 1])
    BY <1>5, Zenon
  <2>3. ASSUME NEW n \in 0..(N - 1) PROVE day[n + 1] = Tomorrow(day[n])
    <3>1. PICK k \in 0..N : k = n + 1 /\ k # 0 /\ k - 1 = n
      BY <2>1
    <3>2. day[k] = Tomorrow(day[k - 1])
      BY <2>2, <3>1, Zenon
    <3> QED BY <3>1, <3>2, Zenon
  <2> QED BY <2>1, <2>2, <2>3, Zenon
<1> HIDE DEF Walks
\* The days go by in order, and none is left out.
<1> DEFINE Later(n) == /\ day[n] \in Days /\ Ordinal(w.start) + n <= Ordinal(day[n])
                       /\ \A m \in 0..(n - 1) : day[m] \in Days /\ Ordinal(day[m]) < Ordinal(day[n])
                       /\ \A d \in Days : Ordinal(w.start) <= Ordinal(d) /\ Ordinal(d) <= Ordinal(day[n])
                             => \E m \in 0..n : d = day[m]
           T == {n \in Nat : Later(n)}
<1>7. \A d \in Days : d \in Dates /\ Ordinal(d) \in Nat
  BY OrdinalOrders DEF Days
<1>8. 0 \in T
  <2>1. \A d \in Days : Ordinal(d) = Ordinal(w.start) => d = w.start
    BY <1>1, <1>7, OrdinalOrders
  <2>2. \A d \in Days : Ordinal(w.start) <= Ordinal(d) /\ Ordinal(d) <= Ordinal(w.start) => d = w.start
    BY <1>1, <1>7, <2>1
  <2>3. Later(0)
    BY <1>1, <1>6, <1>7, <2>2
  <2> QED BY <2>3
<1>9. ASSUME NEW n \in 0..(N - 1), n \in T PROVE n + 1 \in T
  <2> DEFINE d == day[n]
             e == day[n + 1]
  <2>1. n \in Nat /\ d \in Days /\ Ordinal(w.start) + n <= Ordinal(d)
        /\ (\A m \in 0..(n - 1) : day[m] \in Days /\ Ordinal(day[m]) < Ordinal(d))
        /\ \A f \in Days : Ordinal(w.start) <= Ordinal(f) /\ Ordinal(f) <= Ordinal(d)
              => \E m \in 0..n : f = day[m]
    BY <1>9
  <2>2. e = Tomorrow(d)
    BY <1>6
  <2> HIDE DEF d, e, T
  <2>3. e \in Days /\ Ordinal(d) < Ordinal(e)
        /\ \A f \in Days : Ordinal(d) < Ordinal(f) => Ordinal(e) <= Ordinal(f)
    BY <2>1, <2>2, TomorrowIsNext
  <2>4. Ordinal(w.start) \in Nat /\ Ordinal(d) \in Nat /\ Ordinal(e) \in Nat
    BY <1>1, <1>7, <2>1, <2>3
  <2>5. Ordinal(w.start) + (n + 1) <= Ordinal(e)
    BY <2>1, <2>3, <2>4
  <2>6. ASSUME NEW m \in 0..n PROVE day[m] \in Days /\ Ordinal(day[m]) < Ordinal(e)
    <3>1. CASE m = n
      BY <2>1, <2>3, <3>1 DEF d
    <3>2. CASE m # n
      <4>1. m \in 0..(n - 1)
        BY <3>2
      <4>2. day[m] \in Days /\ Ordinal(day[m]) < Ordinal(d)
        BY <2>1, <4>1
      <4> QED BY <1>7, <2>3, <2>4, <4>2
    <3> QED BY <3>1, <3>2
  <2>7. ASSUME NEW f \in Days, Ordinal(w.start) <= Ordinal(f), Ordinal(f) <= Ordinal(e)
        PROVE  \E m \in 0..(n + 1) : f = day[m]
    <3>1. CASE Ordinal(f) <= Ordinal(d)
      BY <2>1, <2>7, <3>1
    <3>2. CASE ~(Ordinal(f) <= Ordinal(d))
      <4>1. Ordinal(f) = Ordinal(e)
        BY <1>7, <2>3, <2>4, <2>7, <3>2
      <4>2. f = e
        BY <1>7, <2>3, <4>1, OrdinalOrders
      <4> QED BY <2>1, <4>2 DEF e
    <3> QED BY <3>1, <3>2
  <2>8. Later(n + 1)
    <3>1. \A m \in 0..((n + 1) - 1) : m \in 0..n
      BY <2>1
    <3> QED BY <2>3, <2>5, <2>6, <2>7, <3>1 DEF e
  <2> QED BY <2>1, <2>8 DEF T
<1> HIDE DEF T
<1>10. \A n \in 0..N : Later(n)
  <2>1. \A n \in 0..N : n \in T
    BY <1>3, <1>8, <1>9, BoundedInduction
  <2> QED BY <2>1 DEF T
<1> HIDE DEF Later
<1>11. ASSUME NEW n \in 0..N, NEW l \in n..N, w.end = day[l]
       PROVE  day[n] \in Days /\ NotAfter(w.start, day[n]) /\ NotAfter(day[n], w.end)
  <2>1. l \in 0..N /\ n \in Nat /\ l \in Nat
    BY <1>3
  <2>2. day[n] \in Days /\ Ordinal(w.start) + n <= Ordinal(day[n])
    BY <1>10 DEF Later
  <2>3. Ordinal(day[n]) <= Ordinal(w.end)
    <3>1. CASE n = l
      BY <1>1, <1>7, <1>11, <3>1
    <3>2. CASE n # l
      <4>1. n \in 0..(l - 1)
        BY <2>1, <3>2
      <4>2. Ordinal(day[n]) < Ordinal(day[l])
        BY <1>10, <2>1, <4>1 DEF Later
      <4> QED BY <1>1, <1>7, <1>11, <2>2, <4>2
    <3> QED BY <3>1, <3>2
  <2>4. Ordinal(w.start) <= Ordinal(day[n])
    BY <1>1, <1>7, <2>1, <2>2
  <2> QED BY <1>1, <1>7, <2>2, <2>3, <2>4, OrdinalOrders
<1>12. PICK last \in 0..N : w.end = day[last]
  <2>1. N \in 0..N
    BY <1>3
  <2>2. Ordinal(w.start) + N <= Ordinal(day[N]) /\ day[N] \in Days
    BY <1>10, <2>1 DEF Later
  <2>3. Ordinal(w.start) <= Ordinal(w.end)
    BY <1>1, OrdinalOrders
  <2>4. Ordinal(w.end) <= Ordinal(day[N])
    BY <1>1, <1>3, <1>7, <2>2
  <2> QED BY <1>1, <1>10, <2>1, <2>3, <2>4 DEF Later
<1>13. ASSUME NEW d \in Days, NotAfter(w.start, d), NotAfter(d, w.end)
       PROVE  \E n \in 0..N : d = day[n] /\ w.end \in {day[l] : l \in n..N}
  <2>1. Ordinal(w.start) <= Ordinal(d) /\ Ordinal(d) <= Ordinal(day[last])
    BY <1>1, <1>7, <1>12, <1>13, OrdinalOrders
  <2>2. PICK n \in 0..last : d = day[n]
    BY <1>10, <2>1 DEF Later
  <2>3. n \in 0..N /\ last \in n..N
    BY <1>3
  <2> QED BY <1>12, <2>2, <2>3
<1> QED BY <1>1, <1>4, <1>11, <1>13

\* _in_window lets an event through exactly if one of the trip's days is its day,
\* in whichever year of the trip, or if there is no window or no readable date.
THEOREM InWindowMeansTripDay ==
    ASSUME NEW w \in Windows, NEW day \in 0..YearEnd \cup {NoDate}
    PROVE  InWindow(day, w) <=> w = NoWindow \/ day \in {NoDate} \cup {d.day : d \in TripDays(w)}
<1>1. CASE w = NoWindow \/ day = NoDate
  BY <1>1 DEF InWindow
<1>2. CASE w # NoWindow /\ day # NoDate
  <2>1. /\ w.start \in Days /\ w.end \in Days
        /\ TripDays(w) = {d \in Days : NotAfter(w.start, d) /\ NotAfter(d, w.end)}
    BY <1>2, TripDaysAreDates
  <2>2. w.start.year \in Nat /\ w.end.year \in Nat
    BY <2>1 DEF Days, Dates
  <2>3. ASSUME NEW y \in w.start.year..w.end.year,
               LET candidate == [year |-> y, day |-> day]
               IN  IsDate(candidate) /\ NotAfter(w.start, candidate) /\ NotAfter(candidate, w.end)
        PROVE  day \in {d.day : d \in TripDays(w)}
    <3> DEFINE candidate == [year |-> y, day |-> day]
    <3>1. candidate \in Days /\ candidate.day = day
      BY <1>2, <2>2, <2>3 DEF Days, Dates, IsDate
    <3> HIDE DEF candidate
    <3>2. NotAfter(w.start, candidate) /\ NotAfter(candidate, w.end)
      BY <2>3 DEF candidate
    <3> QED BY <2>1, <3>1, <3>2
  <2>4. ASSUME NEW d \in TripDays(w), d.day = day PROVE InWindow(day, w)
    <3>1. d \in Days /\ NotAfter(w.start, d) /\ NotAfter(d, w.end)
      BY <2>1
    <3>2. d = [year |-> d.year, day |-> day] /\ d.year \in Nat /\ IsDate(d)
      BY <2>4, <3>1 DEF Days, Dates
    <3>3. d.year \in w.start.year..w.end.year
      BY <2>2, <3>1, <3>2 DEF NotAfter
    <3> QED BY <3>1, <3>2, <3>3 DEF InWindow
  <2> QED BY <1>2, <2>3, <2>4 DEF InWindow
<1> QED BY <1>1, <1>2

---------------------------------------------------------------------------
(* What is collected.                                                      *)

\* What a query may want of the source.
Wants == IF source.dedups THEN Windows ELSE Kinds

LEMMA PassesMeansBelongs ==
    ASSUME NEW w \in Wants, NEW item \in Items
    PROVE  Passes(item, w) <=> Belongs(item, w)
<1>1. CASE source.dedups
  <2>1. w \in Windows /\ StartDate[item] \in 0..YearEnd \cup {NoDate}
    BY <1>1, PagedAssumption DEF Wants
  <2>2. InWindow(StartDate[item], w)
        <=> w = NoWindow \/ StartDate[item] \in {NoDate} \cup {d.day : d \in TripDays(w)}
    BY <2>1, InWindowMeansTripDay
  <2> QED BY <1>1, <2>2, Zenon DEF Passes, Belongs
<1>2. CASE ~source.dedups
  BY <1>2, Zenon DEF Passes, Belongs
<1> QED BY <1>1, <1>2

\* How many of the first n records are to be listed: the place of the last one.
Before(records, w, n) == {j \in Kept(records, w) : j <= n}
Count(records, w, n) == Cardinality(Before(records, w, n))

\* list is what was to be listed of the first n records.
Full(list, records, n, w) ==
    /\ list \in Seq(Items) /\ Len(list) = Count(records, w, n)
    /\ \A i \in Before(records, w, n) : list[Count(records, w, i)] = records[i]
    /\ \A k \in 1..Len(list) : \E i \in Before(records, w, n) : k = Count(records, w, i)

LEMMA CountFacts ==
    ASSUME NEW records \in Seq(Items), NEW w
    PROVE  /\ Count(records, w, 0) = 0
           /\ Count(records, w, Len(records)) = Cardinality(Kept(records, w))
           /\ Before(records, w, Len(records)) = Kept(records, w)
           /\ \A n \in Nat : /\ Count(records, w, n) \in Nat
                             /\ \A m \in 0..n : Count(records, w, m) <= Count(records, w, n)
                             /\ Count(records, w, n + 1) =
                                   IF n + 1 \in Kept(records, w) THEN Count(records, w, n) + 1
                                   ELSE Count(records, w, n)
           /\ \A i \in Kept(records, w) : i \in Nat /\ i >= 1 /\ Count(records, w, i) >= 1
<1> DEFINE K == Kept(records, w)
           B(n) == Before(records, w, n)
<1>1. K \subseteq 1..Len(records) /\ Len(records) \in Nat /\ \A j \in K : j \in Nat /\ 1 <= j
  BY DEF Kept
<1>2. \A n, j : j \in B(n) <=> j \in K /\ j <= n
  BY DEF Before
<1> HIDE DEF K
<1>3. IsFiniteSet(K)
  <2>1. IsFiniteSet(1..Len(records))
    BY <1>1, FS_Interval
  <2> QED BY <1>1, <2>1, FS_Subset
<1> HIDE DEF B
<1>4. \A n : B(n) \subseteq K
  BY <1>2
<1>5. ASSUME NEW n PROVE IsFiniteSet(B(n)) /\ Cardinality(B(n)) \in Nat
  <2>1. IsFiniteSet(B(n))
    BY <1>3, <1>4, FS_Subset
  <2> QED BY <2>1, FS_CardinalityType
<1>6. B(0) = {} /\ B(Len(records)) = K
  <2>1. \A j \in K : ~(j <= 0) /\ j <= Len(records)
    BY <1>1
  <2> QED BY <1>2, <2>1
<1>7. Cardinality(B(0)) = 0
  BY <1>6, FS_EmptySet
<1>8. ASSUME NEW n \in Nat
      PROVE  Cardinality(B(n + 1)) = IF n + 1 \in K THEN Cardinality(B(n)) + 1 ELSE Cardinality(B(n))
  <2>1. CASE n + 1 \in K
    <3>1. B(n + 1) = B(n) \cup {n + 1} /\ n + 1 \notin B(n)
      <4>1. \A j \in K : j <= n + 1 <=> j <= n \/ j = n + 1
        BY <1>1
      <4>2. ~(n + 1 <= n)
        OBVIOUS
      <4> QED BY <1>2, <2>1, <4>1, <4>2
    <3>2. Cardinality(B(n) \cup {n + 1}) = Cardinality(B(n)) + 1
      BY <1>5, <3>1, FS_AddElement
    <3> QED BY <2>1, <3>1, <3>2
  <2>2. CASE n + 1 \notin K
    <3>1. B(n + 1) = B(n)
      <4>1. \A j \in K : j \in Nat /\ j # n + 1
        BY <1>1, <2>2
      <4>2. \A j \in K : j <= n + 1 <=> j <= n
        BY <4>1
      <4>3. \A j : j \in B(n + 1) <=> j \in B(n)
        BY <1>2, <4>2
      <4> QED BY <4>3
    <3> QED BY <2>2, <3>1
  <2> QED BY <2>1, <2>2
<1>9. ASSUME NEW n \in Nat, NEW m \in 0..n PROVE Cardinality(B(m)) <= Cardinality(B(n))
  <2>1. B(m) \subseteq B(n)
    <3>1. \A j \in K : j <= m => j <= n
      BY <1>1
    <3> QED BY <1>2, <3>1
  <2> QED BY <1>5, <2>1, FS_Subset
<1>10. ASSUME NEW i \in K PROVE i \in Nat /\ i >= 1 /\ Cardinality(B(i)) >= 1
  <2>1. i \in Nat /\ i >= 1 /\ i \in B(i)
    BY <1>1, <1>2
  <2>2. Cardinality(B(i)) # 0
    BY <1>5, <2>1, FS_EmptySet
  <2> QED BY <1>5, <2>1, <2>2
<1> QED BY <1>5, <1>6, <1>7, <1>8, <1>9, <1>10 DEF Count, B, K

\* One more record: what the loop does with it is what should be done.
LEMMA AddKeepsFull ==
    ASSUME NEW records \in Seq(Items), NEW w \in Wants, NEW n \in 0..(Len(records) - 1), NEW list,
           Full(list, records, n, w), NEW item, item = records[n + 1]
    PROVE  Full(IF Passes(item, w) THEN Add(list, item) ELSE list, records, n + 1, w)
<1> DEFINE K == Kept(records, w)
           C(m) == Count(records, w, m)
           B(m) == Before(records, w, m)
<1>1. /\ n \in Nat /\ n + 1 \in 1..Len(records) /\ DOMAIN records = 1..Len(records)
      /\ item \in Items /\ \A i \in 1..Len(records) : records[i] \in Items
  BY DEF Full
<1>2. Passes(item, w) <=> Belongs(item, w)
  BY <1>1, PassesMeansBelongs
<1>3. /\ K \subseteq 1..Len(records)
      /\ \A i \in 1..Len(records) :
            i \in K <=> Belongs(records[i], w) /\ (source.dedups => \A j \in 1..(i - 1) : records[j] # records[i])
  BY <1>1 DEF Kept
<1>4. /\ \A m \in Nat : /\ C(m) \in Nat /\ \A l \in 0..m : C(l) <= C(m)
                        /\ C(m + 1) = IF m + 1 \in K THEN C(m) + 1 ELSE C(m)
      /\ \A i \in K : i \in Nat /\ i >= 1 /\ C(i) >= 1
  BY CountFacts
<1>5. /\ list \in Seq(Items) /\ Len(list) = C(n) /\ Len(list) \in Nat
      /\ \A i \in B(n) : list[C(i)] = records[i]
      /\ \A k \in 1..Len(list) : \E i \in B(n) : k = C(i)
  BY DEF Full
<1>6. /\ \A m, j : j \in B(m) <=> j \in K /\ j <= m
      /\ \A j \in K : j \in Nat /\ j <= Len(records)
  <2>1. \A m, j : j \in B(m) <=> j \in K /\ j <= m
    BY DEF Before
  <2> QED BY <1>3, <2>1
<1> HIDE DEF K, C, B
<1>7. CASE n + 1 \notin K
  <2>1. C(n + 1) = C(n) /\ B(n + 1) = B(n)
    <3>1. \A j \in K : j <= n + 1 <=> j <= n
      BY <1>1, <1>6, <1>7
    <3> QED BY <1>1, <1>4, <1>6, <1>7, <3>1
  <2>2. Full(list, records, n + 1, w)
    BY <1>5, <2>1 DEF Full, C, B
  <2>3. Passes(item, w) => Add(list, item) = list
    <3> SUFFICES ASSUME Belongs(item, w) PROVE source.dedups /\ Contains(list, item)
      BY <1>2 DEF Add
    <3>1. source.dedups /\ \E j \in 1..n : records[j] = item
      <4>1. n + 1 - 1 = n
        BY <1>1
      <4> QED BY <1>1, <1>3, <1>7, <4>1
    <3> DEFINE S == {j \in 1..n : records[j] = item}
    <3>2. PICK j \in S : \A l \in S : j <= l
      <4>1. S \subseteq Nat /\ S # {}
        BY <3>1
      <4> HIDE DEF S
      <4> QED BY <4>1, LeastNumber
    <3>3. j \in 1..n /\ records[j] = item /\ \A l \in 1..(j - 1) : records[l] # item
      BY <1>1, <3>2
    <3>4. j \in B(n)
      BY <1>1, <1>3, <1>6, <3>3
    <3>5. list[C(j)] = item
      BY <1>5, <3>3, <3>4
    <3>6. C(j) \in 1..Len(list)
      <4>1. j \in K /\ j \in 0..n
        BY <1>1, <1>6, <3>3, <3>4
      <4>2. C(j) \in Nat /\ C(j) >= 1 /\ C(j) <= C(n)
        BY <1>1, <1>4, <4>1
      <4> QED BY <1>5, <4>2
    <3> QED BY <3>1, <3>5, <3>6 DEF Contains
  <2> QED BY <2>2, <2>3
<1>8. CASE n + 1 \in K
  <2>1. Belongs(item, w) /\ (source.dedups => \A j \in 1..n : records[j] # item)
    <3>1. n + 1 - 1 = n
      BY <1>1
    <3> QED BY <1>1, <1>3, <1>8, <3>1
  <2>2. source.dedups => ~Contains(list, item)
    <3> SUFFICES ASSUME source.dedups, NEW k \in 1..Len(list), list[k] = item PROVE FALSE
      BY DEF Contains
    <3>1. PICK i \in B(n) : k = C(i)
      BY <1>5
    <3>2. i \in 1..n /\ records[i] = item
      <4>1. i \in K /\ i <= n /\ records[i] = list[k]
        BY <1>5, <1>6, <3>1
      <4> QED BY <1>1, <1>4, <4>1
    <3> QED BY <2>1, <3>2
  <2> DEFINE new == Append(list, item)
  <2>3. (IF Passes(item, w) THEN Add(list, item) ELSE list) = new
    BY <1>2, <2>1, <2>2 DEF Add
  <2>4. /\ new \in Seq(Items) /\ Len(new) = C(n) + 1 /\ new[C(n) + 1] = item
        /\ \A k \in 1..C(n) : new[k] = list[k]
    BY <1>1, <1>5
  <2>5. C(n + 1) = C(n) + 1 /\ C(n) \in Nat /\ B(n + 1) = B(n) \cup {n + 1}
    <3>1. B(n + 1) = B(n) \cup {n + 1}
      <4>1. \A j \in K : j <= n + 1 <=> j <= n \/ j = n + 1
        BY <1>1, <1>6
      <4> QED BY <1>1, <1>6, <1>8, <4>1
    <3> QED BY <1>1, <1>4, <1>8, <3>1
  <2> HIDE DEF new
  <2>6. \A i \in B(n) : C(i) \in 1..C(n)
    <3> TAKE i \in B(n)
    <3>1. i \in K /\ i <= n
      BY <1>6
    <3>2. i \in 0..n
      BY <1>1, <1>4, <3>1
    <3> QED BY <1>1, <1>4, <3>1, <3>2
  <2>7. \A i \in B(n + 1) : new[C(i)] = records[i]
    <3>1. \A i \in B(n) : new[C(i)] = records[i]
      BY <1>5, <2>4, <2>6
    <3>2. new[C(n + 1)] = records[n + 1]
      BY <2>4, <2>5
    <3> QED BY <2>5, <3>1, <3>2
  <2>8. ASSUME NEW k \in 1..Len(new) PROVE \E i \in B(n + 1) : k = C(i)
    <3>1. k = C(n) + 1 \/ k \in 1..Len(list)
      BY <1>5, <2>4, <2>5
    <3>2. CASE k = C(n) + 1
      BY <2>5, <3>2
    <3>3. CASE k \in 1..Len(list)
      BY <1>5, <2>5, <3>3
    <3> QED BY <3>1, <3>2, <3>3
  <2>9. Full(new, records, n + 1, w)
    BY <2>4, <2>5, <2>7, <2>8 DEF Full, C, B
  <2> QED BY <2>3, <2>9
<1> QED BY <1>7, <1>8

\* The records of a page: from a full list of those before it to one with it.
LEMMA CollectKeepsFull ==
    ASSUME NEW records \in Seq(Items), NEW w \in Wants, NEW more \in Seq(Items), NEW n \in Nat,
           Len(records) = n + Len(more), \A m \in 1..Len(more) : records[n + m] = more[m],
           NEW list, Full(list, records, n, w)
    PROVE  Full(Collect(list, more, w), records, Len(records), w)
<1> DEFINE N == Len(more)
           Adds(f) == f = [m \in 0..N |->
                               IF m = 0 THEN list
                               ELSE IF Passes(more[m], w) THEN Add(f[m - 1], more[m])
                               ELSE f[m - 1]]
           step == [x \in Seq(Items) \X (1..N) |->
                       IF Passes(more[x[2]], w) THEN Add(x[1], more[x[2]]) ELSE x[1]]
           all == CHOOSE f : Adds(f)
<1>1. N \in Nat /\ (\A m \in 1..N : more[m] \in Items) /\ list \in Seq(Items)
  BY DEF Full
<1>2. Collect(list, more, w) = all[N]
  BY DEF Collect
<1> HIDE DEF N
<1>3. Adds(all)
  <2>1. ASSUME NEW s \in Seq(Items), NEW m \in 1..N
        PROVE  (IF Passes(more[m], w) THEN Add(s, more[m]) ELSE s) \in Seq(Items)
    <3>1. Append(s, more[m]) \in Seq(Items)
      BY <1>1
    <3> QED BY <3>1 DEF Add
  <2>2. step \in Steps(Seq(Items), N)
    BY <2>1 DEF Steps
  <2> HIDE DEF step
  <2>3. PICK g : Values(g, Seq(Items), list, N, step)
    BY <1>1, <2>2, RecursionHasValues
  <2>4. ASSUME NEW m \in 1..N
        PROVE  g[m] = IF Passes(more[m], w) THEN Add(g[m - 1], more[m]) ELSE g[m - 1]
    <3>1. m - 1 \in 0..N /\ g[m - 1] \in Seq(Items)
      BY <1>1, <2>3 DEF Values
    <3>2. step[<<g[m - 1], m>>] = IF Passes(more[m], w) THEN Add(g[m - 1], more[m]) ELSE g[m - 1]
      BY <3>1 DEF step
    <3> QED BY <2>3, <3>2 DEF Values
  <2>5. g = [m \in 0..N |-> g[m]] /\ g[0] = list
    BY <2>3 DEF Values
  <2>6. \A m \in 0..N : m # 0 => m \in 1..N
    OBVIOUS
  <2>7. \A m \in 0..N : g[m] = IF m = 0 THEN list
                               ELSE IF Passes(more[m], w) THEN Add(g[m - 1], more[m])
                               ELSE g[m - 1]
    BY <2>4, <2>5, <2>6, Zenon
  <2>8. Adds(g)
    BY <2>5, <2>7
  <2> HIDE DEF Adds
  <2> QED BY <2>8
<1> HIDE DEF all
<1>4. /\ all[0] = list
      /\ \A m \in 1..N : all[m] = IF Passes(more[m], w) THEN Add(all[m - 1], more[m]) ELSE all[m - 1]
  <2>1. 0 \in 0..N /\ \A m \in 1..N : m \in 0..N /\ m # 0
    BY <1>1
  <2>2. \A m \in 0..N : all[m] = IF m = 0 THEN list
                                 ELSE IF Passes(more[m], w) THEN Add(all[m - 1], more[m])
                                 ELSE all[m - 1]
    BY <1>3, Zenon
  <2> QED BY <2>1, <2>2, Zenon
<1> HIDE DEF Adds
<1> DEFINE T == {m \in Nat : Full(all[m], records, n + m, w)}
<1>5. 0 \in T
  BY <1>4
<1>6. ASSUME NEW m \in 0..(N - 1), m \in T PROVE m + 1 \in T
  <2>1. PICK k \in 1..N : k = m + 1 /\ k - 1 = m
    BY <1>1
  <2>2. all[k] = IF Passes(more[k], w) THEN Add(all[m], more[k]) ELSE all[m]
    BY <1>4, <2>1, Zenon
  <2>3. n + m \in 0..(Len(records) - 1) /\ more[k] = records[(n + m) + 1] /\ (n + m) + 1 = n + (m + 1)
    <3>1. n + k = (n + m) + 1
      BY <2>1
    <3> QED BY <1>1, <2>1, <3>1 DEF N
  <2>4. Full(all[m], records, n + m, w)
    BY <1>6
  <2>5. Full(all[k], records, (n + m) + 1, w)
    BY <2>2, <2>3, <2>4, AddKeepsFull
  <2> QED BY <2>1, <2>3, <2>5
<1> HIDE DEF T
<1>7. N \in T
  BY <1>1, <1>5, <1>6, BoundedInduction
<1> QED BY <1>2, <1>7 DEF T, N

---------------------------------------------------------------------------
(* The records of pages read one after the other.                          *)

LEMMA FlattenValues ==
    ASSUME NEW rs \in Seq(Seq(Items)), NEW g, g[0] = <<>>,
           \A n \in 1..Len(rs) : g[n] = g[n - 1] \o rs[n]
    PROVE  FlattenSeq(rs) = g[Len(rs)]
<1> DEFINE N == Len(rs)
           Flats(f) == f = [i \in 1..N |-> IF i = 1 THEN rs[i] ELSE f[i - 1] \o rs[i]]
           all == CHOOSE f : Flats(f)
           h == [i \in 1..N |-> g[i]]
<1>1. N \in Nat /\ \A i \in 1..N : rs[i] \in Seq(Items)
  OBVIOUS
<1>2. CASE N = 0
  BY <1>2 DEF FlattenSeq
<1>3. CASE N # 0
  <2>1. FlattenSeq(rs) = all[N]
    BY <1>3 DEF FlattenSeq
  <2> HIDE DEF N
  <2>2. Flats(h)
    <3>1. ASSUME NEW i \in 1..N PROVE h[i] = IF i = 1 THEN rs[i] ELSE h[i - 1] \o rs[i]
      <4>1. g[i] = g[i - 1] \o rs[i]
        BY DEF N
      <4>2. CASE i = 1
        <5>1. g[i - 1] = <<>> /\ rs[i] \in Seq(Items)
          BY <1>1, <4>2
        <5>2. <<>> \o rs[i] = rs[i]
          BY <5>1
        <5> QED BY <4>1, <4>2, <5>1, <5>2
      <4>3. CASE i # 1
        <5>1. i - 1 \in 1..N
          BY <1>1, <4>3
        <5> QED BY <4>1, <4>3, <5>1
      <4> QED BY <4>2, <4>3
    <3> HIDE DEF h
    <3>2. h = [i \in 1..N |-> h[i]]
      BY DEF h
    <3> QED BY <3>1, <3>2
  <2>3. Flats(all)
    <3> HIDE DEF Flats, h
    <3> QED BY <2>2
  <2> HIDE DEF all
  <2>4. \A i \in 1..N : all[i] = IF i = 1 THEN rs[i] ELSE all[i - 1] \o rs[i]
    BY <2>3, Zenon
  <2> HIDE DEF Flats
  <2> DEFINE T == {m \in Nat : m # 0 => all[m] = g[m]}
  <2>5. 0 \in T
    OBVIOUS
  <2>6. ASSUME NEW m \in 0..(N - 1), m \in T PROVE m + 1 \in T
    <3>1. PICK k \in 1..N : k = m + 1 /\ k - 1 = m /\ k \in Nat
      BY <1>1
    <3>2. all[k] = (IF k = 1 THEN rs[k] ELSE all[k - 1] \o rs[k]) /\ g[k] = g[k - 1] \o rs[k]
      BY <2>4, Zenon DEF N
    <3>3. CASE k = 1
      <4>1. g[k - 1] = <<>> /\ rs[k] \in Seq(Items)
        BY <1>1, <3>3
      <4>2. <<>> \o rs[k] = rs[k]
        BY <4>1
      <4>3. all[k] = g[k]
        BY <3>2, <3>3, <4>1, <4>2, Zenon
      <4> QED BY <3>1, <4>3
    <3>4. CASE k # 1
      <4>1. all[m] = g[m]
        BY <2>6, <3>1, <3>4
      <4>2. all[k] = g[k]
        BY <3>1, <3>2, <3>4, <4>1, Zenon
      <4> QED BY <3>1, <4>2
    <3> QED BY <3>3, <3>4
  <2> HIDE DEF T
  <2>7. N \in T
    <3>1. N \in Nat /\ N \in 0..N
      BY <1>1
    <3> QED BY <2>5, <2>6, <3>1, BoundedInduction
  <2> QED BY <1>3, <2>1, <2>7 DEF T, N
<1> QED BY <1>2, <1>3

LEMMA FlattenGrows ==
    ASSUME NEW rs \in Seq(Seq(Items)), NEW r \in Seq(Items)
    PROVE  /\ FlattenSeq(rs) \in Seq(Items)
           /\ FlattenSeq(Append(rs, r)) = FlattenSeq(rs) \o r
<1> DEFINE N == Len(rs)
           ts == Append(rs, r)
           step == [x \in Seq(Items) \X (1..(N + 1)) |-> x[1] \o ts[x[2]]]
<1>1. /\ N \in Nat /\ ts \in Seq(Seq(Items)) /\ Len(ts) = N + 1 /\ ts[N + 1] = r
      /\ \A i \in 1..N : ts[i] = rs[i]
      /\ \A i \in 1..(N + 1) : ts[i] \in Seq(Items)
  OBVIOUS
<1> HIDE DEF N, ts
<1>2. step \in Steps(Seq(Items), N + 1)
  <2>1. ASSUME NEW s \in Seq(Items), NEW m \in 1..(N + 1) PROVE s \o ts[m] \in Seq(Items)
    BY <1>1
  <2> QED BY <2>1 DEF Steps
<1> HIDE DEF step
<1>3. PICK g : Values(g, Seq(Items), <<>>, N + 1, step)
  <2>1. <<>> \in Seq(Items) /\ N + 1 \in Nat
    BY <1>1
  <2> QED BY <1>2, <2>1, RecursionHasValues
<1>4. g[0] = <<>> /\ \A m \in 0..(N + 1) : g[m] \in Seq(Items)
  BY <1>3 DEF Values
<1>5. ASSUME NEW m \in 1..(N + 1) PROVE g[m] = g[m - 1] \o ts[m]
  <2>1. m - 1 \in 0..(N + 1)
    BY <1>1
  <2>2. step[<<g[m - 1], m>>] = g[m - 1] \o ts[m]
    BY <1>4, <2>1 DEF step
  <2> QED BY <1>3, <2>2 DEF Values
<1>6. FlattenSeq(ts) = g[N + 1]
  BY <1>1, <1>4, <1>5, FlattenValues
<1>7. FlattenSeq(rs) = g[N]
  <2>1. \A m \in 1..N : m \in 1..(N + 1)
    BY <1>1
  <2>2. \A m \in 1..N : g[m] = g[m - 1] \o rs[m]
    BY <1>1, <1>5, <2>1
  <2> QED BY <1>4, <2>2, FlattenValues DEF N
<1>8. g[N + 1] = g[N] \o r
  <2>1. PICK k \in 1..(N + 1) : k = N + 1 /\ k - 1 = N
    BY <1>1
  <2> QED BY <1>1, <1>5, <2>1, Zenon
<1>9. g[N] \in Seq(Items)
  BY <1>1, <1>4
<1> QED BY <1>6, <1>7, <1>8, <1>9 DEF ts

LEMMA PageTyped ==
    ASSUME NEW p \in Pages
    PROVE  /\ p.req.at.from \in Nat /\ p.req.size \in Nat /\ p.list \in DOMAIN Lists
           /\ Lists[p.list] \in Seq(Items) /\ Len(Lists[p.list]) \in Nat
           /\ Upto(p) \in Nat /\ Records(p) \in Seq(Items)
<1>1. Len(Lists) \in Nat /\ DOMAIN Lists = 1..Len(Lists) /\ Lists \in Seq(Seq(Items))
  BY PagedAssumption
<1>2. p.req.at.from \in Nat /\ p.req.size \in Nat /\ p.list \in 1..Len(Lists)
  BY DEF Pages, Requests
<1>3. Lists[p.list] \in Seq(Items) /\ Len(Lists[p.list]) \in Nat
  BY <1>1, <1>2
<1> DEFINE L == Lists[p.list]
           from == p.req.at.from
           b == Least(from + p.req.size, Len(L))
<1>4. b \in Nat /\ b <= Len(L)
  BY <1>2, <1>3 DEF Least
<1>5. SubSeq(L, from + 1, b) \in Seq(Items)
  <2> HIDE DEF L, from, b
  <2>1. L \in Seq(Items) /\ from \in Nat
    BY <1>2, <1>3 DEF L, from
  <2>2. \A i \in (from + 1)..b : i \in 1..Len(L)
    BY <1>4, <2>1
  <2>3. \A i \in (from + 1)..b : L[i] \in Items
    BY <2>1, <2>2
  <2> QED BY <1>4, <2>1, <2>3, SubSeqProperties
<1> QED BY <1>1, <1>2, <1>3, <1>5 DEF Upto, Records

LEMMA RecordsOfGrows ==
    ASSUME NEW pages \in Seq(Pages), NEW p \in Pages
    PROVE  /\ RecordsOf(pages) \in Seq(Items)
           /\ RecordsOf(Append(pages, p)) = RecordsOf(pages) \o Records(p)
<1> DEFINE rs == [i \in DOMAIN pages |-> Records(pages[i])]
           ts == [i \in DOMAIN Append(pages, p) |-> Records(Append(pages, p)[i])]
<1>1. /\ Len(pages) \in Nat /\ DOMAIN pages = 1..Len(pages)
      /\ DOMAIN Append(pages, p) = 1..(Len(pages) + 1)
      /\ Append(pages, p)[Len(pages) + 1] = p
      /\ \A i \in 1..Len(pages) : Append(pages, p)[i] = pages[i] /\ pages[i] \in Pages
  OBVIOUS
<1>2. Records(p) \in Seq(Items) /\ \A i \in 1..Len(pages) : Records(pages[i]) \in Seq(Items)
  BY <1>1, PageTyped
<1>3. rs \in Seq(Seq(Items)) /\ Len(rs) = Len(pages)
  BY <1>1, <1>2
<1>4. ts = Append(rs, Records(p))
  <2> DEFINE us == Append(rs, Records(p))
  <2>1. /\ DOMAIN us = 1..(Len(pages) + 1) /\ us = [i \in 1..(Len(pages) + 1) |-> us[i]]
        /\ us[Len(pages) + 1] = Records(p)
        /\ \A i \in 1..Len(pages) : us[i] = Records(pages[i])
    BY <1>1, <1>2, <1>3
  <2> HIDE DEF us
  <2>2. ASSUME NEW i \in 1..(Len(pages) + 1) PROVE us[i] = Records(Append(pages, p)[i])
    <3>1. i = Len(pages) + 1 \/ i \in 1..Len(pages)
      BY <1>1
    <3> QED BY <1>1, <2>1, <3>1
  <2>3. us = ts
    BY <1>1, <2>1, <2>2
  <2> QED BY <2>3 DEF us
<1> HIDE DEF rs, ts
<1>5. FlattenSeq(rs) \in Seq(Items) /\ FlattenSeq(ts) = FlattenSeq(rs) \o Records(p)
  BY <1>2, <1>3, <1>4, FlattenGrows
<1> QED BY <1>5 DEF RecordsOf, rs, ts

LEMMA RecordsOfNone == RecordsOf(<<>>) = <<>>
<1>1. [i \in DOMAIN <<>> |-> Records(<<>>[i])] = <<>>
  OBVIOUS
<1> QED BY <1>1 DEF RecordsOf, FlattenSeq

\* list is what was to be listed of the records of some pages.
AllOf(list, pages, w) == Full(list, RecordsOf(pages), Len(RecordsOf(pages)), w)

LEMMA NoneOfNone == ASSUME NEW w PROVE AllOf(<<>>, <<>>, w)
<1>1. <<>> \in Seq(Items) /\ Len(<<>>) = 0
  OBVIOUS
<1>2. Count(<<>>, w, 0) = 0
  BY <1>1, CountFacts
<1>3. Before(<<>>, w, 0) = {}
  BY DEF Before, Kept
<1> QED BY <1>1, <1>2, <1>3, RecordsOfNone DEF AllOf, Full

\* A page's records, added to all of the pages before it, are all with it.
LEMMA PageCollected ==
    ASSUME NEW pages \in Seq(Pages), NEW p \in Pages, NEW w \in Wants, NEW list, AllOf(list, pages, w)
    PROVE  AllOf(Collect(list, Records(p), w), Append(pages, p), w)
<1> DEFINE R == RecordsOf(pages)
           S == Records(p)
           all == R \o S
           n == Len(R)
<1>1. R \in Seq(Items) /\ S \in Seq(Items) /\ RecordsOf(Append(pages, p)) = all
  BY RecordsOfGrows, PageTyped
<1>2. Full(list, R, n, w)
  BY DEF AllOf
<1> HIDE DEF R, S
<1>3. /\ all \in Seq(Items) /\ n \in Nat /\ Len(S) \in Nat /\ Len(all) = n + Len(S)
      /\ \A i \in 1..n : all[i] = R[i] /\ i \in 1..Len(all)
      /\ \A i \in 1..Len(S) : all[n + i] = S[i]
  BY <1>1
<1> HIDE DEF all
<1>4. ASSUME NEW m \in 0..n PROVE Before(all, w, m) = Before(R, w, m)
  <2>1. \A i \in 1..n : i \in Kept(all, w) <=> i \in Kept(R, w)
    <3> TAKE i \in 1..n
    <3>1. \A j \in 1..(i - 1) : all[j] = R[j]
      BY <1>3
    <3>2. DOMAIN all = 1..Len(all) /\ DOMAIN R = 1..n
      BY <1>1, <1>3
    <3> QED BY <1>3, <3>1, <3>2 DEF Kept
  <2>2. Kept(all, w) \subseteq 1..Len(all) /\ Kept(R, w) \subseteq 1..n
    BY <1>1, <1>3 DEF Kept
  <2>3. \A i : i \in Before(all, w, m) <=> i \in Before(R, w, m)
    <3>1. \A i \in 1..Len(all) : i <= m => i \in 1..n
      BY <1>3
    <3> QED BY <2>1, <2>2, <3>1 DEF Before
  <2> QED BY <2>3
<1>5. \A m \in 0..n : Count(all, w, m) = Count(R, w, m)
  BY <1>4 DEF Count
<1>6. \A i \in Before(R, w, n) : i \in 1..n /\ i \in 0..n
  BY <1>1, <1>3 DEF Before, Kept
<1>7. Full(list, all, n, w)
  <2>1. n \in 0..n
    BY <1>3
  <2>2. Before(all, w, n) = Before(R, w, n) /\ Count(all, w, n) = Count(R, w, n)
    BY <1>4, <1>5, <2>1
  <2>3. \A i \in Before(R, w, n) : all[i] = R[i] /\ Count(all, w, i) = Count(R, w, i)
    BY <1>3, <1>5, <1>6
  <2> HIDE DEF n
  <2> QED BY <1>2, <2>2, <2>3 DEF Full
<1>8. Full(Collect(list, S, w), all, Len(all), w)
  BY <1>1, <1>3, <1>7, CollectKeepsFull
<1> QED BY <1>1, <1>8 DEF AllOf, S

---------------------------------------------------------------------------
(* Pages that hang together.                                               *)

\* Consecutive pages of one list.
Chain(pages) ==
    \A i \in 2..Len(pages) :
        /\ pages[i].list = pages[i - 1].list
        /\ pages[i].req.at.from = Upto(pages[i - 1])

\* What the provider gave was cut from the list it was asked for.
AsAsked(p) ==
    /\ p.list \in DOMAIN Lists
    /\ p.req.at.list # 0 => p.list = p.req.at.list

\* What a search has read came from the provider, and the pages it has in hand
\* hang together, as do those of a list it returned.
GivenInv == now \in DOMAIN Lists /\ \A p \in given : AsAsked(p)
ReadInv == read \in [Callers -> Seq(given)] /\ DOMAIN result = Callers
ChainInv ==
    source.chained =>
        \A c \in Callers : /\ Chain(read[c])
                           /\ result[c].kind = "list" => Chain(result[c].pages)

\* Page 0 is no version: a token always names a list.
LEMMA ListsAreNumbers == Len(Lists) \in Nat /\ DOMAIN Lists = 1..Len(Lists) /\ Len(Lists) > 0
BY PagedAssumption

LEMMA EmptyChain == Chain(<<>>)
BY DEF Chain

\* A page fetched by the token of the last one continues the chain.
LEMMA ChainGrows ==
    ASSUME NEW S, NEW s \in Seq(S), NEW p, Chain(s),
           s # <<>> => p.list = Last(s).list /\ p.req.at.from = Upto(Last(s))
    PROVE  Chain(Append(s, p))
<1> DEFINE t == Append(s, p)
<1>1. Len(t) = Len(s) + 1 /\ Len(s) \in Nat /\ t[Len(s) + 1] = p
      /\ \A i \in 1..Len(s) : t[i] = s[i]
  OBVIOUS
<1> HIDE DEF t
<1>2. ASSUME NEW i \in 2..Len(t)
      PROVE  t[i].list = t[i - 1].list /\ t[i].req.at.from = Upto(t[i - 1])
  <2>1. CASE i <= Len(s)
    <3>1. i \in 2..Len(s) /\ i \in 1..Len(s) /\ i - 1 \in 1..Len(s)
      BY <1>1, <2>1
    <3> QED BY <1>1, <3>1 DEF Chain
  <2>2. CASE i = Len(s) + 1
    <3>1. s # <<>> /\ i - 1 = Len(s) /\ Len(s) \in 1..Len(s)
      BY <1>1, <2>2
    <3>2. t[i] = p /\ t[i - 1] = Last(s)
      BY <1>1, <2>2, <3>1 DEF Last
    <3> QED BY <3>1, <3>2
  <2> QED BY <1>1, <2>1, <2>2
<1> QED BY <1>2 DEF Chain, t

\* What the arrival of a page does to what was read and returned.
LEMMA ArriveKeeps ==
    ASSUME ReadInv, ChainInv, NEW c \in Callers, NEW p \in given', given \subseteq given',
           \A q \in given' : AsAsked(q), p.req = Request(c), source' = source, Arrive(c, p)
    PROVE  ReadInv' /\ ChainInv'
<1> DEFINE pages == Append(read[c], p)
<1>1. read \in [Callers -> Seq(given')] /\ DOMAIN result = Callers
  BY DEF ReadInv
<1>2. pages \in Seq(given') /\ <<>> \in Seq(given')
  BY <1>1
<1>3. source.chained => Chain(pages)
  <2> SUFFICES ASSUME source.chained, read[c] # <<>>
               PROVE  p.list = Last(read[c]).list /\ p.req.at.from = Upto(Last(read[c]))
    BY <1>1, ChainGrows DEF ChainInv
  <2>1. p.req.at = NextToken(c)
    BY DEF Request
  <2>2. Last(read[c]) \in given'
    BY <1>1 DEF Last
  <2>3. Last(read[c]).list # 0
    BY <2>2, ListsAreNumbers DEF AsAsked
  <2> QED BY <2>1, <2>3 DEF NextToken, AsAsked
<1> HIDE DEF pages
<1>4. PICK got :
        \/ End(c, List(c, got, pages, FALSE))
        \/ read' = [read EXCEPT ![c] = pages] /\ result' = result
  <2> DEFINE all == Collect(collected[c], Records(p), query[c].wants)
  <2>1. IF IsLast(c, p, all)
        THEN End(c, List(c, all, pages, FALSE))
        ELSE /\ Goto(c, Ready)
             /\ read' = [read EXCEPT ![c] = pages]
             /\ collected' = [collected EXCEPT ![c] = all]
             /\ UNCHANGED <<query, result>>
    BY Zenon DEF Arrive, pages
  <2> HIDE DEF all
  <2>2. CASE IsLast(c, p, all)
    BY <2>1, <2>2
  <2>3. CASE ~IsLast(c, p, all)
    BY <2>1, <2>3
  <2> QED BY <2>2, <2>3
<1>5. CASE End(c, List(c, got, pages, FALSE))
  <2>1. read' = [read EXCEPT ![c] = <<>>] /\ result' = [result EXCEPT ![c] = List(c, got, pages, FALSE)]
    BY <1>5 DEF End
  <2>2. List(c, got, pages, FALSE).pages = pages
    BY DEF List
  <2> QED BY <1>1, <1>2, <1>3, <2>1, <2>2, EmptyChain DEF ReadInv, ChainInv
<1>6. CASE read' = [read EXCEPT ![c] = pages] /\ result' = result
  BY <1>1, <1>2, <1>3, <1>6 DEF ReadInv, ChainInv
<1> QED BY <1>4, <1>5, <1>6

\* A refusal returns the pages in hand, or no list.
LEMMA CutShortKeeps ==
    ASSUME ReadInv, ChainInv, NEW c \in Callers, given' = given, source' = source, CutShort(c)
    PROVE  ReadInv' /\ ChainInv'
<1>1. PICK r : End(c, r) /\ (r.kind = "list" => r.pages = read[c])
  BY DEF CutShort, Refusal, List
<1>2. read' = [read EXCEPT ![c] = <<>>] /\ result' = [result EXCEPT ![c] = r]
  BY <1>1 DEF End
<1> QED BY <1>1, <1>2, EmptyChain DEF ReadInv, ChainInv

\* A search that is given up returns nothing.
LEMMA EndKeeps ==
    ASSUME ReadInv, ChainInv, NEW c \in Callers, NEW r, r.kind # "list", given' = given,
           source' = source, End(c, r)
    PROVE  ReadInv' /\ ChainInv'
BY EmptyChain DEF End, ReadInv, ChainInv

LEMMA StepKeeps ==
    ASSUME GivenInv, ReadInv, ChainInv, [Next]_vars
    PROVE  GivenInv' /\ ReadInv' /\ ChainInv'
<1>1. CASE UNCHANGED vars
  BY <1>1 DEF vars, moving, searchVars, GivenInv, ReadInv, ChainInv, AsAsked
<1>2. CASE Next
  <2>0. source' = source
    BY <1>2 DEF Next
  <2>1. ASSUME given' = given, now' = now PROVE GivenInv'
    BY <2>1 DEF GivenInv, AsAsked
  <2>2. ASSUME NEW c \in Callers, NEW q, Search(c, q) PROVE GivenInv' /\ ReadInv' /\ ChainInv'
    <3>1. result' = [result EXCEPT ![c] = NoResult] /\ UNCHANGED <<read, given, now>>
      BY <2>2 DEF Search
    <3> QED BY <2>0, <2>1, <3>1 DEF ReadInv, ChainInv, NoResult
  <2>3. ASSUME NEW c \in Callers, CheckFirst(c) \/ CheckAndSend(c)
        PROVE  GivenInv' /\ ReadInv' /\ ChainInv'
    <3>1. UNCHANGED <<given, now>> /\ (UNCHANGED <<read, result>> \/ CutShort(c))
      BY <2>3 DEF CheckFirst, CheckAndSend
    <3>2. CASE UNCHANGED <<read, result>>
      BY <2>0, <2>1, <3>1, <3>2 DEF ReadInv, ChainInv
    <3>3. CASE CutShort(c)
      BY <2>0, <2>1, <3>1, <3>3, CutShortKeeps
    <3> QED BY <3>1, <3>2, <3>3
  <2>4. ASSUME NEW c \in Callers, Hit(c) PROVE GivenInv' /\ ReadInv' /\ ChainInv'
    <3>1. PICK p \in given : p.req = Request(c) /\ Arrive(c, p)
      BY <2>4 DEF Hit
    <3>2. given' = given /\ now' = now
      BY <2>4 DEF Hit
    <3>3. GivenInv' /\ \A q \in given' : AsAsked(q)
      BY <2>1, <3>2 DEF GivenInv
    <3> QED BY <2>0, <3>1, <3>2, <3>3, ArriveKeeps
  <2>5. ASSUME NEW c \in Callers, Miss(c) \/ CountAndSend(c) \/ AdmitBlind(c)
        PROVE  GivenInv' /\ ReadInv' /\ ChainInv'
    BY <2>0, <2>1, <2>5 DEF Miss, CountAndSend, AdmitBlind, ReadInv, ChainInv
  <2>6. ASSUME NEW c \in Callers, Answer(c) PROVE GivenInv' /\ ReadInv' /\ ChainInv'
    <3> DEFINE req == Request(c)
               p == [req |-> req, list |-> IF req.at.list = 0 THEN now ELSE req.at.list]
    <3>1. given' = given \cup {p} /\ Arrive(c, p) /\ now' = now
      BY <2>6 DEF Answer
    <3>2. AsAsked(p)
      <4>1. CASE req.at.list = 0
        BY <4>1 DEF AsAsked, GivenInv
      <4>2. CASE req.at.list # 0
        <5>1. source.chained /\ read[c] # <<>> /\ req.at.list = Last(read[c]).list
          BY <4>2 DEF Request, Start, Offset, NextToken
        <5>2. Last(read[c]) \in given
          BY <5>1 DEF ReadInv, Last
        <5>3. req.at.list \in DOMAIN Lists
          BY <5>1, <5>2 DEF GivenInv, AsAsked
        <5> QED BY <4>2, <5>3 DEF AsAsked
      <4> QED BY <4>1, <4>2
    <3>3. GivenInv' /\ \A q \in given' : AsAsked(q)
      BY <3>1, <3>2 DEF GivenInv
    <3>4. p \in given' /\ given \subseteq given' /\ p.req = Request(c)
      BY <3>1
    <3> HIDE DEF p
    <3> QED BY <2>0, <3>1, <3>3, <3>4, ArriveKeeps
  <2>7. ASSUME NEW c \in Callers, AnswerError(c) \/ Crash(c)
        PROVE  GivenInv' /\ ReadInv' /\ ChainInv'
    <3>1. /\ End(c, [kind |-> "failed"]) \/ End(c, NoResult)
          /\ UNCHANGED <<given, now>>
      BY <2>7 DEF AnswerError, Crash
    <3> QED BY <2>0, <2>1, <3>1, EndKeeps DEF NoResult
  <2>8. ASSUME ListChanges \/ NewWindow PROVE GivenInv' /\ ReadInv' /\ ChainInv'
    <3>1. UNCHANGED <<given, read, result>> /\ now' \in DOMAIN Lists
      BY <2>8, ListsAreNumbers DEF ListChanges, NewWindow, GivenInv, searchVars
    <3> QED BY <2>0, <3>1 DEF GivenInv, ReadInv, ChainInv, AsAsked
  <2> QED BY <1>2, <2>2, <2>3, <2>4, <2>5, <2>6, <2>7, <2>8 DEF Next
<1> QED BY <1>1, <1>2

\* The pages of a place search are consecutive pages of one list.
THEOREM OneListHolds == Spec => []OneList
<1>1. Init => GivenInv /\ ReadInv /\ ChainInv
  BY ListsAreNumbers, EmptyChain DEF Init, GivenInv, ReadInv, ChainInv, NoResult
<1>2. GivenInv /\ ReadInv /\ ChainInv /\ [Next]_vars => GivenInv' /\ ReadInv' /\ ChainInv'
  BY StepKeeps
<1>3. ChainInv => OneList
  <2> SUFFICES ASSUME ChainInv, source.chained, NEW r \in Returned
               PROVE  Chain(r.pages)
    BY DEF OneList, Chain
  <2>1. PICK c \in Callers : r = result[c] /\ result[c].kind = "list"
    BY DEF Returned
  <2> QED BY <2>1 DEF ChainInv
<1> QED BY <1>1, <1>2, <1>3, PTL DEF Spec

---------------------------------------------------------------------------
(* How far a search has looked.                                            *)

\* Pages, rounded up.
LEMMA RoundedUp ==
    ASSUME NEW a \in Nat, NEW b \in Nat \ {0}, a > 0
    PROVE  LET n == (a + b - 1) \div b IN n \in Nat /\ n >= 1 /\ n * b >= a
<1> DEFINE n == (a + b - 1) \div b
           r == (a + b - 1) % b
<1>1. n \in Int /\ r \in 0..(b - 1)
  OBVIOUS
<1>2. a + b - 1 = b * n + r
  OBVIOUS
<1> HIDE DEF n, r
<1>3. b * n >= a
  BY <1>1, <1>2
<1>4. n >= 1
  <2> SUFFICES ASSUME n <= 0 PROVE FALSE
    BY <1>1
  <2>1. b * n <= 0
    BY <1>1
  <2> QED BY <1>1, <1>3, <2>1
<1>5. n * b = b * n
  BY <1>1
<1> QED BY <1>1, <1>3, <1>4, <1>5 DEF n

LEMMA CeilingFacts ==
    ASSUME source \in Source, NEW limit \in Limits
    PROVE  /\ limit \in Nat /\ limit > 0 /\ source.size \in Nat /\ source.size > 0
           /\ source.pages \in Nat
           /\ Ceiling(limit) \in Nat /\ 1 <= Ceiling(limit) /\ Ceiling(limit) <= source.pages
           /\ \/ Ceiling(limit) = source.pages
              \/ ~source.chained /\ Ceiling(limit) * source.size >= limit
<1>1. limit \in Nat /\ limit > 0
  BY PagedAssumption
<1>2. source.size \in Nat \ {0} /\ source.pages \in Nat \ {0}
  BY DEF Source
<1> DEFINE n == (limit + source.size - 1) \div source.size
<1>3. n \in Nat /\ n >= 1 /\ n * source.size >= limit
  BY <1>1, <1>2, RoundedUp
<1> HIDE DEF n
<1>4. Ceiling(limit) = IF source.chained THEN source.pages ELSE Least(source.pages, n)
  BY DEF Ceiling, n
<1> QED BY <1>1, <1>2, <1>3, <1>4 DEF Least

\* The record up to which some pages go, and that those of one list are all of
\* it up to there.
Reach(pages) == IF pages = <<>> THEN 0 ELSE Upto(Last(pages))
Whole(pages) ==
    \A v \in DOMAIN Lists : OfList(pages, v) =>
        RecordsOf(pages) = SubSeq(Lists[v], 1, Least(Reach(pages), Len(Lists[v])))
NotPast(pages) == \A v \in DOMAIN Lists : OfList(pages, v) => Reach(pages) <= Len(Lists[v])

LEMMA SliceJoins ==
    ASSUME NEW L \in Seq(Items), NEW a \in 0..Len(L), NEW b \in a..Len(L)
    PROVE  SubSeq(L, 1, a) \o SubSeq(L, a + 1, b) = SubSeq(L, 1, b)
<1>1. Len(L) \in Nat /\ a \in Nat /\ b \in Nat /\ a <= b /\ \A i \in 1..Len(L) : L[i] \in Items
  OBVIOUS
<1>2. (\A i \in 1..a : L[i] \in Items) /\ (\A i \in (a + 1)..b : L[i] \in Items)
      /\ (\A i \in 1..b : L[i] \in Items)
  BY <1>1
<1> DEFINE s == SubSeq(L, 1, a)
           t == SubSeq(L, a + 1, b)
           u == SubSeq(L, 1, b)
<1>3. s \in Seq(Items) /\ Len(s) = a /\ \A i \in 1..a : s[i] = L[i]
  <2>1. /\ s \in Seq(Items) /\ Len(s) = IF 1 <= a THEN a - 1 + 1 ELSE 0
        /\ \A i \in 1..(a - 1 + 1) : s[i] = L[1 + i - 1]
    BY <1>1, <1>2, SubSeqProperties
  <2> HIDE DEF s
  <2> QED BY <1>1, <2>1
<1>4. t \in Seq(Items) /\ Len(t) = b - a /\ \A i \in 1..(b - a) : t[i] = L[a + i]
  <2>1. /\ t \in Seq(Items) /\ Len(t) = IF a + 1 <= b THEN b - (a + 1) + 1 ELSE 0
        /\ \A i \in 1..(b - (a + 1) + 1) : t[i] = L[a + 1 + i - 1]
    BY <1>1, <1>2, SubSeqProperties
  <2> HIDE DEF t
  <2> QED BY <1>1, <2>1
<1>5. u \in Seq(Items) /\ Len(u) = b /\ \A i \in 1..b : u[i] = L[i]
  <2>1. /\ u \in Seq(Items) /\ Len(u) = IF 1 <= b THEN b - 1 + 1 ELSE 0
        /\ \A i \in 1..(b - 1 + 1) : u[i] = L[1 + i - 1]
    BY <1>1, <1>2, SubSeqProperties
  <2> HIDE DEF u
  <2> QED BY <1>1, <2>1
<1> HIDE DEF s, t, u
<1>6. /\ s \o t \in Seq(Items) /\ Len(s \o t) = b
      /\ \A i \in 1..b : (s \o t)[i] = IF i <= a THEN s[i] ELSE t[i - a]
  BY <1>1, <1>3, <1>4
<1>7. ASSUME NEW i \in 1..b PROVE (s \o t)[i] = u[i]
  <2>1. CASE i <= a
    <3>1. i \in 1..a
      BY <2>1
    <3> QED BY <1>3, <1>5, <1>6, <2>1, <3>1
  <2>2. CASE ~(i <= a)
    <3>1. i - a \in 1..(b - a) /\ a + (i - a) = i
      BY <1>1, <2>2
    <3>2. t[i - a] = L[i]
      BY <1>4, <3>1
    <3> QED BY <1>5, <1>6, <2>2, <3>2
  <2> QED BY <2>1, <2>2
<1> DEFINE z == s \o t
<1>8. z = [i \in 1..b |-> z[i]] /\ u = [i \in 1..b |-> u[i]]
  <2> HIDE DEF z
  <2>1. z \in Seq(Items) /\ Len(z) = b
    BY <1>6 DEF z
  <2> QED BY <1>5, <2>1
<1> QED BY <1>7, <1>8 DEF s, t, u

\* A page that starts where the others end.
LEMMA WholeGrows ==
    ASSUME NEW pages \in Seq(Pages), NEW p \in Pages, Whole(pages), NotPast(pages),
           p.req.at.from = Reach(pages)
    PROVE  /\ Whole(Append(pages, p)) /\ Reach(Append(pages, p)) = Upto(p)
           /\ Upto(p) <= Len(Lists[p.list]) => NotPast(Append(pages, p))
           /\ \A v : OfList(Append(pages, p), v) => v = p.list
<1> DEFINE more == Append(pages, p)
<1>1. /\ more \in Seq(Pages) /\ Len(more) = Len(pages) + 1 /\ Len(pages) \in Nat
      /\ DOMAIN more = 1..(Len(pages) + 1) /\ DOMAIN pages = 1..Len(pages)
      /\ more[Len(pages) + 1] = p /\ more # <<>>
      /\ \A i \in 1..Len(pages) : more[i] = pages[i]
  OBVIOUS
<1>2. RecordsOf(more) = RecordsOf(pages) \o Records(p)
  BY RecordsOfGrows
<1> HIDE DEF more
<1>3. Reach(more) = Upto(p)
  BY <1>1 DEF Reach, Last
<1>4. \A v : OfList(more, v) => OfList(pages, v) /\ v = p.list
  BY <1>1 DEF OfList
<1>5. ASSUME NEW v \in DOMAIN Lists, OfList(more, v)
      PROVE  RecordsOf(more) = SubSeq(Lists[v], 1, Least(Upto(p), Len(Lists[v])))
  <2> DEFINE L == Lists[v]
             a == Reach(pages)
             b == Least(Upto(p), Len(L))
  <2>1. /\ v = p.list /\ a <= Len(L)
        /\ RecordsOf(pages) = SubSeq(L, 1, Least(a, Len(L)))
    BY <1>4, <1>5 DEF Whole, NotPast
  <2>2. L \in Seq(Items) /\ Len(L) \in Nat /\ a \in Nat /\ p.req.size \in Nat /\ Upto(p) = a + p.req.size
    BY <2>1, PageTyped DEF Upto
  <2>3. Records(p) = SubSeq(L, a + 1, b)
    BY <2>1 DEF Records, Upto
  <2> HIDE DEF L, a, b
  <2>4. Least(a, Len(L)) = a /\ a \in 0..Len(L)
    BY <2>1, <2>2 DEF Least
  <2>5. b \in a..Len(L)
    BY <2>1, <2>2 DEF Least, b
  <2>6. SubSeq(L, 1, a) \o SubSeq(L, a + 1, b) = SubSeq(L, 1, b)
    BY <2>2, <2>4, <2>5, SliceJoins
  <2> QED BY <1>2, <2>1, <2>3, <2>4, <2>6 DEF L, b
<1>6. Whole(more)
  BY <1>3, <1>5 DEF Whole
<1>7. Upto(p) <= Len(Lists[p.list]) => NotPast(more)
  BY <1>3, <1>4 DEF NotPast
<1> QED BY <1>3, <1>4, <1>6, <1>7 DEF more

LEMMA WholeStarts == Whole(<<>>) /\ NotPast(<<>>) /\ Reach(<<>>) = 0
<1>1. Reach(<<>>) = 0
  BY DEF Reach
<1>2. ASSUME NEW v \in DOMAIN Lists
      PROVE  0 <= Len(Lists[v]) /\ SubSeq(Lists[v], 1, Least(0, Len(Lists[v]))) = <<>>
  <2>1. Len(Lists[v]) \in Nat
    BY PagedAssumption
  <2>2. Least(0, Len(Lists[v])) = 0
    BY <2>1 DEF Least
  <2> QED BY <2>1, <2>2, SubSeqEmpty
<1> QED BY <1>1, <1>2, RecordsOfNone DEF Whole, NotPast

---------------------------------------------------------------------------
(* The invariant.  A search in progress has collected all that was wanted  *)
(* on the pages it has read, which go on from one another and not past the *)
(* end of the list, and it may still read a page; a result tells what its  *)
(* search collected, and how far a whole list has looked.                  *)

Labels == {"idle", "checking", "looking", "missed", "sent"}

Placed(label, q, pages, got) ==
    /\ q \in Queries
    /\ pages \in Seq(Pages) /\ Len(pages) < Ceiling(q.limit)
    /\ AllOf(got, pages, q.wants) /\ Len(got) < q.limit
    /\ Whole(pages) /\ NotPast(pages)
    /\ ~source.chained => Reach(pages) = Len(pages) * source.size
    /\ label = "idle" => pages = <<>> /\ got = <<>>

Far(pages, q) ==
    \/ \A v \in DOMAIN Lists : OfList(pages, v) => Reach(pages) >= Len(Lists[v])
    \/ Len(pages) = source.pages
    \/ ~source.chained /\ Reach(pages) >= q.limit

Tells(r, q, got) ==
    /\ AllOf(got, r.pages, q.wants) /\ r.items = Take(got, q.limit)
    /\ r.cut => Len(got) < q.limit /\ (got # <<>> \/ source.mute)
    /\ ~r.cut => /\ Whole(r.pages) /\ r.pages # <<>>
                 /\ Len(got) >= q.limit \/ Far(r.pages, q)
Right(r, q) ==
    /\ r.kind \in {"none", "list", "refused", "failed"}
    /\ r.kind \in {"list", "refused"} => r.pages \in Seq(Pages)
    /\ r.kind = "refused" => AllOf(<<>>, r.pages, q.wants)
    /\ r.kind = "list" => \E got : Tells(r, q, got)

Typing ==
    /\ pc \in [Callers -> Labels] /\ DOMAIN query = Callers /\ DOMAIN read = Callers
    /\ DOMAIN collected = Callers /\ DOMAIN result = Callers
    /\ given \subseteq Pages /\ now \in DOMAIN Lists
MadeInv ==
    /\ Typing /\ source \in Source
    /\ \A c \in Callers : /\ Placed(pc[c], query[c], read[c], collected[c])
                          /\ Right(result[c], query[c])

\* What depends on the source alone stays as it is.
LEMMA SourceKeeps ==
    ASSUME source' = source
    PROVE  /\ \A label, q, pages, got : Placed(label, q, pages, got)' <=> Placed(label, q, pages, got)
           /\ \A r, q : Right(r, q)' <=> Right(r, q)
<1>1. Queries' = Queries
  BY DEF Queries
<1>2. ASSUME NEW i, NEW w PROVE Belongs(i, w)' <=> Belongs(i, w)
  BY DEF Belongs
<1>3. ASSUME NEW records, NEW w PROVE Kept(records, w)' = Kept(records, w)
  BY <1>2 DEF Kept
<1>4. ASSUME NEW records, NEW w, NEW n
      PROVE  Before(records, w, n)' = Before(records, w, n) /\ Count(records, w, n)' = Count(records, w, n)
  <2>1. Before(records, w, n)' = Before(records, w, n)
    BY <1>3 DEF Before
  <2> QED BY <2>1 DEF Count
<1>5. ASSUME NEW list, NEW pages, NEW w PROVE AllOf(list, pages, w)' <=> AllOf(list, pages, w)
  BY <1>4 DEF AllOf, Full
<1>6. ASSUME NEW limit PROVE Ceiling(limit)' = Ceiling(limit)
  BY DEF Ceiling
<1>7. ASSUME NEW r, NEW q, NEW got PROVE Tells(r, q, got)' <=> Tells(r, q, got)
  <2>1. Far(r.pages, q)' <=> Far(r.pages, q)
    BY DEF Far
  <2> QED BY <1>5, <2>1 DEF Tells
<1>8. ASSUME NEW label, NEW q, NEW pages, NEW got
      PROVE  Placed(label, q, pages, got)' <=> Placed(label, q, pages, got)
  BY <1>1, <1>5, <1>6 DEF Placed
<1>9. ASSUME NEW r, NEW q PROVE Right(r, q)' <=> Right(r, q)
  BY <1>5, <1>7 DEF Right
<1> QED BY <1>8, <1>9

Elsewhere(c) ==
    \A e \in Callers \ {c} :
        /\ pc'[e] = pc[e] /\ query'[e] = query[e] /\ read'[e] = read[e]
        /\ collected'[e] = collected[e] /\ result'[e] = result[e]

\* A step of one caller keeps the invariant if it leaves that caller placed.
LEMMA CallerMade ==
    ASSUME MadeInv, NEW c \in Callers, source' = source, Elsewhere(c), Typing',
           Placed(pc'[c], query'[c], read'[c], collected'[c]), Right(result'[c], query'[c])
    PROVE  MadeInv'
<1>1. ASSUME NEW e \in Callers
      PROVE  Placed(pc'[e], query'[e], read'[e], collected'[e]) /\ Right(result'[e], query'[e])
  <2>1. CASE e = c
    BY <2>1
  <2>2. CASE e # c
    <3>1. /\ pc'[e] = pc[e] /\ query'[e] = query[e] /\ read'[e] = read[e]
          /\ collected'[e] = collected[e] /\ result'[e] = result[e]
      BY <2>2 DEF Elsewhere
    <3>2. Placed(pc[e], query[e], read[e], collected[e]) /\ Right(result[e], query[e])
      BY DEF MadeInv
    <3> QED BY <3>1, <3>2
  <2> QED BY <2>1, <2>2
<1>2. ASSUME NEW e \in Callers
      PROVE  Placed(pc[e], query[e], read[e], collected[e])' /\ Right(result[e], query[e])'
  BY <1>1, SourceKeeps
<1>3. source' \in Source
  BY DEF MadeInv
<1> QED BY <1>2, <1>3 DEF MadeInv

\* A caller at rest.
LEMMA AtRest ==
    ASSUME source \in Source, NEW label \in Labels, NEW q \in Queries
    PROVE  Placed(label, q, <<>>, <<>>) /\ Right(NoResult, q)
<1>1. q.limit \in Limits
  BY DEF Queries
<1>2. <<>> \in Seq(Pages) /\ Len(<<>>) = 0 /\ 0 < Ceiling(q.limit) /\ 0 < q.limit
  BY <1>1, CeilingFacts
<1>3. 0 = 0 * source.size
  BY <1>1, CeilingFacts
<1>4. AllOf(<<>>, <<>>, q.wants)
  BY NoneOfNone
<1>5. Placed(label, q, <<>>, <<>>)
  BY <1>2, <1>3, <1>4, WholeStarts DEF Placed
<1>6. Right(NoResult, q)
  BY DEF Right, NoResult
<1> QED BY <1>5, <1>6

\* A search ends with a result that is right.
LEMMA EndMade ==
    ASSUME MadeInv, NEW c \in Callers, NEW r, End(c, r), Right(r, query[c]), source' = source,
           given' \subseteq Pages, now' = now
    PROVE  MadeInv'
<1>1. Typing /\ source \in Source /\ query[c] \in Queries
  BY DEF MadeInv, Placed
<1>2. /\ pc' = [pc EXCEPT ![c] = "idle"] /\ result' = [result EXCEPT ![c] = r]
      /\ read' = [read EXCEPT ![c] = <<>>] /\ collected' = [collected EXCEPT ![c] = <<>>]
      /\ query' = query
  BY DEF End, Goto
<1>3. Typing' /\ Elsewhere(c)
  BY <1>1, <1>2 DEF Typing, Elsewhere, Labels
<1>4. pc'[c] = "idle" /\ query'[c] = query[c] /\ read'[c] = <<>> /\ collected'[c] = <<>> /\ result'[c] = r
  BY <1>1, <1>2 DEF Typing
<1>5. Placed("idle", query[c], <<>>, <<>>)
  BY <1>1, AtRest DEF Labels
<1> QED BY <1>3, <1>4, <1>5, CallerMade

\* A search that only moves on.
LEMMA GotoMade ==
    ASSUME MadeInv, NEW c \in Callers, NEW label \in Labels \ {"idle"}, Goto(c, label), source' = source,
           UNCHANGED <<query, read, collected, result, given, now>>
    PROVE  MadeInv'
<1>1. Typing /\ Placed(pc[c], query[c], read[c], collected[c]) /\ Right(result[c], query[c])
  BY DEF MadeInv
<1>2. Typing' /\ Elsewhere(c) /\ pc'[c] = label
  BY <1>1 DEF Goto, Typing, Elsewhere
<1>3. Placed(label, query[c], read[c], collected[c])
  BY <1>1 DEF Placed
<1> QED BY <1>1, <1>2, <1>3, CallerMade

\* A refusal tells what was collected, or that there was nothing.
LEMMA CutShortMade ==
    ASSUME MadeInv, NEW c \in Callers, CutShort(c), source' = source, given' = given, now' = now
    PROVE  MadeInv'
<1> DEFINE q == query[c]
           got == collected[c]
           pages == read[c]
<1>1. Typing /\ Placed(pc[c], q, pages, got)
  BY DEF MadeInv
<1>2. pages \in Seq(Pages) /\ AllOf(got, pages, q.wants) /\ Len(got) < q.limit
  BY <1>1 DEF Placed
<1>3. ASSUME NEW items, Take(items, q.limit) = Take(got, q.limit), got # <<>> \/ source.mute
      PROVE  Right(List(c, items, pages, TRUE), q)
  <2>1. Tells(List(c, items, pages, TRUE), q, got)
    BY <1>2, <1>3 DEF Tells, List
  <2> QED BY <1>2, <2>1 DEF Right, List
<1>4. CASE got # <<>>
  <2>1. End(c, List(c, got, pages, TRUE))
    BY <1>4 DEF CutShort
  <2>2. Right(List(c, got, pages, TRUE), q)
    BY <1>3, <1>4
  <2> QED BY <1>1, <2>1, <2>2, EndMade DEF Typing
<1>5. CASE got = <<>> /\ source.mute
  <2>1. End(c, List(c, <<>>, pages, TRUE))
    BY <1>5 DEF CutShort, Refusal
  <2>2. Right(List(c, <<>>, pages, TRUE), q)
    BY <1>3, <1>5
  <2> QED BY <1>1, <2>1, <2>2, EndMade DEF Typing
<1>6. CASE got = <<>> /\ ~source.mute
  <2> DEFINE r == [kind |-> "refused", pages |-> pages]
  <2>1. End(c, r)
    BY <1>6 DEF CutShort, Refusal
  <2>2. Right(r, q)
    BY <1>2, <1>6 DEF Right
  <2> HIDE DEF r
  <2> QED BY <1>1, <2>1, <2>2, EndMade DEF Typing
<1> QED BY <1>4, <1>5, <1>6

\* The page asked for starts where the others end.
LEMMA RequestFacts ==
    ASSUME MadeInv, NEW c \in Callers
    PROVE  /\ Request(c) \in Requests
           /\ Request(c).at.from = Reach(read[c])
           /\ ~source.chained => Request(c).size = source.size
<1> DEFINE q == query[c]
           pages == read[c]
<1>1. source \in Source /\ Placed(pc[c], q, pages, collected[c])
  BY DEF MadeInv
<1>2. /\ q.limit \in Limits /\ pages \in Seq(Pages)
      /\ ~source.chained => Reach(pages) = Len(pages) * source.size
      /\ Len(collected[c]) < q.limit /\ collected[c] \in Seq(Items)
  BY <1>1 DEF Placed, Queries, AllOf, Full
<1>3. q.limit \in Nat /\ source.size \in Nat /\ Len(pages) \in Nat /\ Len(collected[c]) \in Nat
  BY <1>1, <1>2, CeilingFacts
<1>4. Least(q.limit - Len(collected[c]), source.size) \in Nat
  BY <1>2, <1>3 DEF Least
<1>5. Len(Lists) \in Nat
  BY ListsAreNumbers
<1>6. CASE ~source.chained
  <2>1. Request(c) = [size |-> source.size, at |-> [list |-> 0, from |-> Len(pages) * source.size]]
    BY <1>6 DEF Request, Offset
  <2>2. Len(pages) * source.size \in Nat /\ 0 \in 0..Len(Lists)
    BY <1>3, <1>5
  <2> QED BY <1>2, <1>3, <1>6, <2>1, <2>2 DEF Requests
<1>7. CASE source.chained /\ pages = <<>>
  <2>1. Request(c) = [size |-> Least(q.limit - Len(collected[c]), source.size), at |-> Start]
    BY <1>7 DEF Request
  <2>2. 0 \in 0..Len(Lists) /\ Reach(pages) = 0
    BY <1>5, <1>7 DEF Reach
  <2> QED BY <1>4, <1>7, <2>1, <2>2 DEF Requests, Start
<1>8. CASE source.chained /\ pages # <<>>
  <2>1. Request(c) = [size |-> Least(q.limit - Len(collected[c]), source.size), at |-> NextToken(c)]
    BY <1>8 DEF Request
  <2>2. Last(pages) \in Pages
    <3>1. Len(pages) \in 1..Len(pages)
      BY <1>2, <1>8
    <3> QED BY <1>2, <3>1 DEF Last
  <2>3. Last(pages).list \in 0..Len(Lists) /\ Upto(Last(pages)) \in Nat
    BY <2>2, PageTyped, ListsAreNumbers
  <2>4. NextToken(c) = [list |-> Last(pages).list, from |-> Upto(Last(pages))]
    BY DEF NextToken
  <2> QED BY <1>4, <1>8, <2>1, <2>3, <2>4 DEF Requests, Reach
<1> QED BY <1>6, <1>7, <1>8

\* A page that is not short does not go past the end of its list, and one that
\* is short reaches it.
LEMMA ShortPage ==
    ASSUME source \in Source, NEW p \in Pages, ~source.chained => p.req.size = source.size,
           source.size \in Nat \ {0}
    PROVE  IF IsShort(p) THEN Upto(p) >= Len(Lists[p.list]) ELSE Upto(p) <= Len(Lists[p.list])
<1> DEFINE L == Lists[p.list]
           from == p.req.at.from
           b == Least(Upto(p), Len(L))
<1>1. /\ from \in Nat /\ p.req.size \in Nat /\ L \in Seq(Items) /\ Len(L) \in Nat
      /\ Upto(p) = from + p.req.size
  BY PageTyped DEF Upto
<1>2. CASE source.chained
  BY <1>1, <1>2 DEF IsShort
<1>3. CASE ~source.chained
  <2>1. b \in Nat /\ b <= Len(L) /\ b <= Upto(p) /\ (b = Upto(p) \/ b = Len(L))
    BY <1>1 DEF Least
  <2>2. Records(p) = SubSeq(L, from + 1, b)
    BY DEF Records, Upto
  <2> HIDE DEF L, from, b
  <2>3. Len(Records(p)) = IF from + 1 <= b THEN b - (from + 1) + 1 ELSE 0
    <3>1. \A i \in (from + 1)..b : i \in 1..Len(L)
      BY <1>1, <2>1
    <3>2. \A i \in (from + 1)..b : L[i] \in Items
      BY <1>1, <3>1
    <3> QED BY <1>1, <2>1, <2>2, <3>2, SubSeqProperties
  <2>4. IsShort(p) <=> Len(Records(p)) < p.req.size
    BY <1>3 DEF IsShort
  <2>5. p.req.size > 0
    BY <1>3
  <2> QED BY <1>1, <2>1, <2>3, <2>4, <2>5 DEF L
<1> QED BY <1>2, <1>3

\* A page arrives: the search goes on behind it, or ends and tells why.
LEMMA ArriveMade ==
    ASSUME MadeInv, NEW c \in Callers, NEW p \in Pages, p.req = Request(c), Arrive(c, p),
           source' = source, given' \subseteq Pages, now' = now
    PROVE  MadeInv'
<1> DEFINE q == query[c]
           old == read[c]
           pages == Append(old, p)
           got == Collect(collected[c], Records(p), q.wants)
<1>1. Typing /\ source \in Source /\ Placed(pc[c], q, old, collected[c]) /\ Right(result[c], q)
  BY DEF MadeInv
<1>2. /\ q \in Queries /\ q.limit \in Limits /\ q.wants \in Wants
      /\ old \in Seq(Pages) /\ Len(old) < Ceiling(q.limit)
      /\ AllOf(collected[c], old, q.wants) /\ Whole(old) /\ NotPast(old)
      /\ ~source.chained => Reach(old) = Len(old) * source.size
  BY <1>1 DEF Placed, Queries, Wants
<1>3. pages \in Seq(Pages) /\ pages # <<>> /\ Len(pages) = Len(old) + 1 /\ Len(old) \in Nat
  BY <1>2
<1>4. AllOf(got, pages, q.wants)
  BY <1>2, PageCollected
<1>5. /\ p.req.at.from = Reach(old) /\ (~source.chained => p.req.size = source.size)
      /\ p.req.at.from \in Nat /\ p.req.size \in Nat /\ Upto(p) = p.req.at.from + p.req.size
  BY RequestFacts, PageTyped DEF Upto
<1>6. /\ Whole(pages) /\ Reach(pages) = Upto(p)
      /\ Upto(p) <= Len(Lists[p.list]) => NotPast(pages)
      /\ \A v : OfList(pages, v) => v = p.list
  BY <1>2, <1>5, WholeGrows
<1>7. /\ q.limit \in Nat /\ source.size \in Nat \ {0} /\ Ceiling(q.limit) \in Nat
      /\ \/ Ceiling(q.limit) = source.pages
         \/ ~source.chained /\ Ceiling(q.limit) * source.size >= q.limit
  BY <1>1, <1>2, CeilingFacts
<1>8. IF IsShort(p) THEN Upto(p) >= Len(Lists[p.list]) ELSE Upto(p) <= Len(Lists[p.list])
  BY <1>1, <1>5, <1>7, ShortPage
<1>9. ~source.chained => Reach(pages) = Len(pages) * source.size
  <2> SUFFICES ASSUME ~source.chained PROVE Upto(p) = Len(pages) * source.size
    BY <1>6
  <2>1. Upto(p) = Len(old) * source.size + source.size
    BY <1>2, <1>5
  <2>2. (Len(old) + 1) * source.size = Len(old) * source.size + source.size
    BY <1>3, <1>7
  <2> QED BY <1>3, <2>1, <2>2
<1>10. Len(got) \in Nat
  BY <1>4 DEF AllOf, Full
<1>11. IF IsLast(c, p, got)
       THEN End(c, List(c, got, pages, FALSE))
       ELSE /\ Goto(c, Ready)
            /\ read' = [read EXCEPT ![c] = pages]
            /\ collected' = [collected EXCEPT ![c] = got]
            /\ UNCHANGED <<query, result>>
  BY Zenon DEF Arrive
<1> HIDE DEF got, pages
<1>12. CASE IsLast(c, p, got)
  <2> DEFINE r == List(c, got, pages, FALSE)
  <2>1. Len(got) >= q.limit \/ Far(pages, q)
    <3>1. CASE IsShort(p)
      BY <1>6, <1>8, <3>1 DEF Far
    <3>2. CASE Len(got) >= q.limit
      BY <3>2
    <3>3. CASE Len(old) + 1 = Ceiling(q.limit)
      <4>1. CASE Ceiling(q.limit) = source.pages
        BY <1>3, <3>3, <4>1 DEF Far
      <4>2. CASE ~source.chained /\ Ceiling(q.limit) * source.size >= q.limit
        BY <1>3, <1>9, <3>3, <4>2 DEF Far
      <4> QED BY <1>7, <4>1, <4>2
    <3> QED BY <1>12, <3>1, <3>2, <3>3 DEF IsLast
  <2>2. r.pages = pages /\ r.items = Take(got, q.limit) /\ r.cut = FALSE /\ r.kind = "list"
    BY DEF List
  <2>3. End(c, r)
    BY <1>11, <1>12
  <2> HIDE DEF r
  <2>4. Tells(r, q, got)
    BY <1>3, <1>4, <1>6, <2>1, <2>2 DEF Tells
  <2>5. Right(r, q)
    BY <1>3, <2>2, <2>4 DEF Right
  <2> QED BY <2>3, <2>5, EndMade
<1>13. CASE ~IsLast(c, p, got)
  <2>1. /\ pc' = [pc EXCEPT ![c] = Ready] /\ read' = [read EXCEPT ![c] = pages]
        /\ collected' = [collected EXCEPT ![c] = got] /\ query' = query /\ result' = result
    BY <1>11, <1>13 DEF Goto
  <2>2. Ready \in Labels /\ Ready # "idle"
    BY DEF Ready, Labels
  <2>3. ~IsShort(p) /\ Len(got) < q.limit /\ Len(pages) < Ceiling(q.limit)
    BY <1>2, <1>3, <1>7, <1>10, <1>13 DEF IsLast
  <2>4. Placed(Ready, q, pages, got)
    BY <1>2, <1>3, <1>4, <1>6, <1>8, <1>9, <2>2, <2>3 DEF Placed
  <2>5. /\ pc'[c] = Ready /\ query'[c] = q /\ read'[c] = pages /\ collected'[c] = got
        /\ result'[c] = result[c]
    BY <1>1, <2>1 DEF Typing
  <2>6. Typing' /\ Elsewhere(c)
    BY <1>1, <2>1, <2>2 DEF Typing, Elsewhere
  <2> QED BY <1>1, <2>4, <2>5, <2>6, CallerMade
<1> QED BY <1>12, <1>13

\* Every step keeps the invariant.
LEMMA MadeStep == MadeInv /\ [Next]_vars => MadeInv'
<1> SUFFICES ASSUME MadeInv, [Next]_vars PROVE MadeInv'
  OBVIOUS
<1>0. source' = source /\ Typing /\ source \in Source
  BY DEF Next, vars, MadeInv
<1>1. ASSUME UNCHANGED searchVars, given' \subseteq Pages, now' \in DOMAIN Lists PROVE MadeInv'
  <2>1. pc' = pc /\ query' = query /\ read' = read /\ collected' = collected /\ result' = result
    BY <1>1 DEF searchVars
  <2>2. Typing'
    BY <1>0, <1>1, <2>1 DEF Typing
  <2>3. ASSUME NEW c \in Callers
        PROVE  Placed(pc[c], query[c], read[c], collected[c])' /\ Right(result[c], query[c])'
    BY <1>0, <2>1, SourceKeeps DEF MadeInv
  <2> QED BY <1>0, <2>2, <2>3 DEF MadeInv
<1>2. CASE UNCHANGED vars
  BY <1>0, <1>1, <1>2 DEF vars, moving, Typing
<1>3. ASSUME NEW c \in Callers, NEW q \in Queries, Search(c, q) PROVE MadeInv'
  <2>1. /\ pc[c] = "idle" /\ pc' = [pc EXCEPT ![c] = Ready] /\ query' = [query EXCEPT ![c] = q]
        /\ result' = [result EXCEPT ![c] = NoResult]
        /\ UNCHANGED <<read, collected, given, now>>
    BY <1>3 DEF Search, Goto
  <2>2. Ready \in Labels
    BY DEF Ready, Labels
  <2>3. read[c] = <<>> /\ collected[c] = <<>>
    BY <2>1 DEF MadeInv, Placed
  <2>4. Typing' /\ Elsewhere(c)
    BY <1>0, <2>1, <2>2 DEF Typing, Elsewhere
  <2>5. /\ pc'[c] = Ready /\ query'[c] = q /\ read'[c] = <<>> /\ collected'[c] = <<>>
        /\ result'[c] = NoResult
    BY <1>0, <2>1, <2>3 DEF Typing
  <2>6. Placed(Ready, q, <<>>, <<>>) /\ Right(NoResult, q)
    BY <1>0, <2>2, AtRest
  <2> QED BY <1>0, <2>4, <2>5, <2>6, CallerMade
<1>4. ASSUME NEW c \in Callers, CheckFirst(c) \/ CheckAndSend(c) PROVE MadeInv'
  <2>1. CASE CutShort(c)
    BY <1>0, <1>4, <2>1, CutShortMade DEF CheckFirst, CheckAndSend
  <2>2. CASE ~CutShort(c)
    <3>1. PICK label \in {"looking", "sent"} : Goto(c, label)
      BY <1>4, <2>2 DEF CheckFirst, CheckAndSend
    <3>2. UNCHANGED <<query, read, collected, result, given, now>>
      BY <1>4, <2>2 DEF CheckFirst, CheckAndSend
    <3>3. label \in Labels \ {"idle"}
      BY DEF Labels
    <3> QED BY <1>0, <3>1, <3>2, <3>3, GotoMade
  <2> QED BY <2>1, <2>2
<1>5. ASSUME NEW c \in Callers, Miss(c) \/ CountAndSend(c) \/ AdmitBlind(c) PROVE MadeInv'
  <2>1. PICK label \in {"missed", "looking", "sent"} : Goto(c, label)
    BY <1>5 DEF Miss, CountAndSend, AdmitBlind
  <2>2. UNCHANGED <<query, read, collected, result, given, now>>
    BY <1>5 DEF Miss, CountAndSend, AdmitBlind
  <2>3. label \in Labels \ {"idle"}
    BY DEF Labels
  <2> QED BY <1>0, <2>1, <2>2, <2>3, GotoMade
<1>6. ASSUME NEW c \in Callers, Hit(c) PROVE MadeInv'
  <2>1. PICK p \in given : p.req = Request(c) /\ Arrive(c, p)
    BY <1>6 DEF Hit
  <2>2. given' = given /\ now' = now /\ given \subseteq Pages
    BY <1>0, <1>6 DEF Hit, Typing
  <2> QED BY <1>0, <2>1, <2>2, ArriveMade
<1>7. ASSUME NEW c \in Callers, Answer(c) PROVE MadeInv'
  <2> DEFINE req == Request(c)
             p == [req |-> req, list |-> IF req.at.list = 0 THEN now ELSE req.at.list]
  <2>1. given' = given \cup {p} /\ Arrive(c, p) /\ now' = now
    BY <1>7 DEF Answer
  <2>2. p \in Pages
    <3>1. req \in Requests
      BY RequestFacts
    <3>2. now \in 1..Len(Lists) /\ given \subseteq Pages
      BY <1>0, ListsAreNumbers DEF Typing
    <3>3. req.at.list \in 0..Len(Lists)
      BY <3>1 DEF Requests
    <3> HIDE DEF req
    <3>4. (IF req.at.list = 0 THEN now ELSE req.at.list) \in 1..Len(Lists)
      BY <3>2, <3>3, ListsAreNumbers
    <3> QED BY <3>1, <3>4 DEF Pages
  <2>3. p.req = Request(c)
    OBVIOUS
  <2> HIDE DEF p
  <2>4. given' \subseteq Pages
    BY <1>0, <2>1, <2>2 DEF Typing
  <2> QED BY <1>0, <2>1, <2>2, <2>3, <2>4, ArriveMade
<1>8. ASSUME NEW c \in Callers, AnswerError(c) \/ Crash(c) PROVE MadeInv'
  <2>1. PICK r \in {[kind |-> "failed"], NoResult} : End(c, r)
    BY <1>8 DEF AnswerError, Crash
  <2>2. Right(r, query[c])
    BY DEF Right, NoResult
  <2>3. given' = given /\ now' = now
    BY <1>8 DEF AnswerError, Crash
  <2> QED BY <1>0, <2>1, <2>2, <2>3, EndMade DEF Typing
<1>9. ASSUME ListChanges \/ NewWindow PROVE MadeInv'
  <2>1. UNCHANGED searchVars /\ given' = given /\ now' \in DOMAIN Lists
    <3>1. now \in 1..Len(Lists)
      BY <1>0, ListsAreNumbers DEF Typing
    <3> QED BY <1>9, <3>1, ListsAreNumbers DEF ListChanges, NewWindow
  <2> QED BY <1>0, <1>1, <2>1 DEF Typing
<1> QED BY <1>2, <1>3, <1>4, <1>5, <1>6, <1>7, <1>8, <1>9 DEF Next

LEMMA MadeAlways == Spec => []MadeInv
<1>1. Init => MadeInv
  <2> SUFFICES ASSUME Init PROVE MadeInv
    OBVIOUS
  <2>1. Typing /\ source \in Source
    BY PagedAssumption, ListsAreNumbers DEF Init, Typing, Labels
  <2>2. ASSUME NEW c \in Callers
        PROVE  Placed(pc[c], query[c], read[c], collected[c]) /\ Right(result[c], query[c])
    <3>1. /\ pc[c] = "idle" /\ query[c] \in Queries /\ read[c] = <<>> /\ collected[c] = <<>>
          /\ result[c] = NoResult
      BY DEF Init
    <3>2. "idle" \in Labels
      BY DEF Labels
    <3> QED BY <2>1, <3>1, <3>2, AtRest
  <2> QED BY <2>1, <2>2 DEF MadeInv
<1> QED BY <1>1, MadeStep, PTL DEF Spec

---------------------------------------------------------------------------
(* What follows from it.                                                   *)

LEMMA RecordsTyped == ASSUME NEW pages \in Seq(Pages) PROVE RecordsOf(pages) \in Seq(Items)
<1>1. CASE pages = <<>>
  <2>1. <<>> \in Seq(Items)
    OBVIOUS
  <2> QED BY <1>1, <2>1, RecordsOfNone, Zenon
<1>2. CASE pages # <<>>
  <2>1. pages[1] \in Pages
    BY <1>2
  <2> QED BY <2>1, RecordsOfGrows
<1> QED BY <1>1, <1>2

LEMMA TakeFacts ==
    ASSUME NEW s \in Seq(Items), NEW n \in Nat
    PROVE  /\ Take(s, n) \in Seq(Items) /\ Len(Take(s, n)) = Least(n, Len(s))
           /\ \A k \in 1..Len(Take(s, n)) : k \in 1..Len(s) /\ Take(s, n)[k] = s[k]
           /\ Len(s) <= n => Len(Take(s, n)) = Len(s)
<1> DEFINE m == Least(n, Len(s))
           t == SubSeq(s, 1, m)
<1>1. m \in Nat /\ m <= Len(s) /\ Len(s) \in Nat /\ (Len(s) <= n => m = Len(s))
  BY DEF Least
<1> HIDE DEF m
<1>2. \A i \in 1..m : s[i] \in Items /\ i \in 1..Len(s)
  BY <1>1
<1>3. /\ t \in Seq(Items) /\ Len(t) = IF 1 <= m THEN m - 1 + 1 ELSE 0
      /\ \A i \in 1..(m - 1 + 1) : t[i] = s[1 + i - 1]
  BY <1>1, <1>2, SubSeqProperties
<1> HIDE DEF t
<1>4. t \in Seq(Items) /\ Len(t) = m /\ \A i \in 1..m : t[i] = s[i]
  BY <1>1, <1>3
<1>5. Take(s, n) = t
  BY DEF Take, t, m
<1> QED BY <1>1, <1>2, <1>4, <1>5 DEF m

\* The first of what was to be listed: as many as there are, in their places.
LEMMA FullMeansLeads ==
    ASSUME NEW records \in Seq(Items), NEW w, NEW got, Full(got, records, Len(records), w), NEW n \in Nat
    PROVE  /\ Len(Take(got, n)) = Least(n, Cardinality(Kept(records, w)))
           /\ Leads(Take(got, n), records, w)
<1>1. got \in Seq(Items) /\ Len(got) = Cardinality(Kept(records, w))
  BY CountFacts DEF Full
<1>2. Len(Take(got, n)) = Least(n, Len(got))
  BY <1>1, TakeFacts
<1>3. ASSUME NEW i \in Kept(records, w), Count(records, w, i) <= Len(Take(got, n))
      PROVE  Take(got, n)[Count(records, w, i)] = records[i]
  <2>1. i \in Before(records, w, Len(records))
    BY CountFacts
  <2>2. got[Count(records, w, i)] = records[i]
    BY <2>1 DEF Full
  <2>3. Count(records, w, i) \in Nat /\ Count(records, w, i) >= 1
    BY CountFacts
  <2>4. Count(records, w, i) \in 1..Len(Take(got, n))
    BY <1>1, <1>3, <2>3, TakeFacts
  <2> QED BY <1>1, <2>2, <2>4, TakeFacts
<1>4. Leads(Take(got, n), records, w)
  BY <1>3, Zenon DEF Leads, Count, Before
<1> QED BY <1>1, <1>2, <1>4

\* What is known of a result.
LEMMA ResultKnown ==
    ASSUME MadeInv, NEW c \in Callers
    PROVE  Right(result[c], query[c]) /\ query[c].limit \in Nat
<1>1. Right(result[c], query[c]) /\ query[c] \in Queries
  BY DEF MadeInv, Placed
<1>2. query[c].limit \in Limits
  BY <1>1 DEF Queries
<1> QED BY <1>1, <1>2, PagedAssumption

\* A refusal loses nothing that was collected before it.
THEOREM PartialBeatsNoneHolds == Spec => []PartialBeatsNone
<1>1. MadeInv => PartialBeatsNone
  <2> SUFFICES ASSUME MadeInv, NEW c \in Callers
               PROVE  LET r == result[c]
                          w == query[c].wants
                          records == RecordsOf(r.pages)
                      IN  /\ r.kind = "refused" => Kept(records, w) = {}
                          /\ r.kind = "list" /\ r.cut =>
                                /\ Len(r.items) = Cardinality(Kept(records, w))
                                /\ Leads(r.items, records, w)
                                /\ r.items # <<>> \/ source.mute
    BY Zenon DEF PartialBeatsNone
  <2> DEFINE r == result[c]
             q == query[c]
             w == q.wants
             records == RecordsOf(r.pages)
  <2>1. Right(r, q) /\ q.limit \in Nat
    BY ResultKnown
  <2> HIDE DEF r, q
  <2>2. ASSUME r.kind = "refused" PROVE Kept(records, w) = {}
    <3>1. records \in Seq(Items) /\ Full(<<>>, records, Len(records), w)
      BY <2>1, <2>2, RecordsTyped DEF Right, AllOf
    <3> HIDE DEF records
    <3>2. \A i \in Kept(records, w) : Count(records, w, i) >= 1 /\ i \in Before(records, w, Len(records))
      BY <3>1, CountFacts
    <3>3. Count(records, w, Len(records)) = 0 /\ Len(records) \in Nat
      BY <3>1 DEF Full
    <3>4. ASSUME NEW i \in Kept(records, w) PROVE FALSE
      <4>1. i \in 0..Len(records)
        BY <3>1, <3>4 DEF Kept
      <4>2. Count(records, w, i) <= Count(records, w, Len(records)) /\ Count(records, w, i) \in Nat
        BY <3>1, <3>3, <4>1, CountFacts
      <4> QED BY <3>2, <3>3, <4>2
    <3> QED BY <3>4
  <2>3. ASSUME r.kind = "list", r.cut
        PROVE  /\ Len(r.items) = Cardinality(Kept(records, w))
               /\ Leads(r.items, records, w)
               /\ r.items # <<>> \/ source.mute
    <3>1. PICK got : Tells(r, q, got)
      BY <2>1, <2>3 DEF Right
    <3>2. records \in Seq(Items)
      BY <2>1, <2>3, RecordsTyped DEF Right
    <3>3. /\ Full(got, records, Len(records), w) /\ r.items = Take(got, q.limit)
          /\ Len(got) < q.limit /\ (got # <<>> \/ source.mute)
      BY <2>3, <3>1 DEF Tells, AllOf
    <3> HIDE DEF records
    <3>4. Len(got) = Cardinality(Kept(records, w)) /\ got \in Seq(Items) /\ Len(got) \in Nat
      BY <3>2, <3>3, CountFacts DEF Full
    <3>5. Len(r.items) = Len(got) /\ Leads(r.items, records, w) /\ r.items \in Seq(Items)
      BY <2>1, <3>2, <3>3, <3>4, TakeFacts, FullMeansLeads
    <3>6. got # <<>> => r.items # <<>>
      BY <3>4, <3>5
    <3> QED BY <3>3, <3>4, <3>5, <3>6
  <2> QED BY <2>2, <2>3 DEF r, q
<1> QED BY <1>1, MadeAlways, PTL

\* A list that no refusal cut short is the provider's, as far as it looked, and
\* it looked as far as the limit, the end of the list or the ceiling.
THEOREM WholeMeansAllHolds == Spec => []WholeMeansAll
<1>1. MadeInv => WholeMeansAll
  <2> SUFFICES ASSUME MadeInv, NEW c \in Callers, NEW v \in DOMAIN Lists
               PROVE  LET r == result[c]
                          q == query[c]
                          upto == Upto(Last(r.pages))
                          records == SubSeq(Lists[v], 1, Least(upto, Len(Lists[v])))
                      IN  r.kind = "list" /\ ~r.cut /\ OfList(r.pages, v) =>
                              /\ Len(r.items) = Least(q.limit, Cardinality(Kept(records, q.wants)))
                              /\ Leads(r.items, records, q.wants)
                              /\ \/ Len(r.items) = q.limit
                                 \/ upto >= Len(Lists[v])
                                 \/ Len(r.pages) = source.pages
                                 \/ ~source.chained /\ upto >= q.limit
    BY Zenon DEF WholeMeansAll
  <2> DEFINE r == result[c]
             q == query[c]
             upto == Upto(Last(r.pages))
             records == SubSeq(Lists[v], 1, Least(upto, Len(Lists[v])))
  <2>1. Right(r, q) /\ q.limit \in Nat
    BY ResultKnown
  <2> HIDE DEF r, q
  <2> SUFFICES ASSUME r.kind = "list", ~r.cut, OfList(r.pages, v)
               PROVE  /\ Len(r.items) = Least(q.limit, Cardinality(Kept(records, q.wants)))
                      /\ Leads(r.items, records, q.wants)
                      /\ \/ Len(r.items) = q.limit
                         \/ upto >= Len(Lists[v])
                         \/ Len(r.pages) = source.pages
                         \/ ~source.chained /\ upto >= q.limit
    BY DEF r, q
  <2>2. PICK got : Tells(r, q, got)
    BY <2>1 DEF Right
  <2>3. /\ AllOf(got, r.pages, q.wants) /\ r.items = Take(got, q.limit)
        /\ Whole(r.pages) /\ r.pages # <<>> /\ (Len(got) >= q.limit \/ Far(r.pages, q))
    BY <2>2 DEF Tells
  <2>4. Reach(r.pages) = upto
    BY <2>3 DEF Reach
  <2>5. RecordsOf(r.pages) = records
    BY <2>3, <2>4 DEF Whole
  <2>6. records \in Seq(Items)
    BY <2>1, <2>5, RecordsTyped DEF Right
  <2>7. Full(got, records, Len(records), q.wants)
    BY <2>3, <2>5 DEF AllOf
  <2> HIDE DEF upto, records
  <2>8. /\ Len(r.items) = Least(q.limit, Cardinality(Kept(records, q.wants)))
        /\ Leads(r.items, records, q.wants)
    BY <2>1, <2>3, <2>6, <2>7, FullMeansLeads
  <2>9. CASE Len(got) >= q.limit
    <3>1. got \in Seq(Items) /\ Len(got) \in Nat
      BY <2>7 DEF Full
    <3>2. Len(r.items) = Least(q.limit, Len(got))
      BY <2>1, <2>3, <3>1, TakeFacts
    <3>3. Len(r.items) = q.limit
      BY <2>1, <2>9, <3>1, <3>2 DEF Least
    <3> QED BY <2>8, <3>3
  <2>10. CASE Far(r.pages, q)
    BY <2>4, <2>8, <2>10 DEF Far
  <2> QED BY <2>3, <2>9, <2>10
<1> QED BY <1>1, MadeAlways, PTL

\* No event is listed twice, whatever became of the list between its pages.
THEOREM NoDuplicatesHolds == Spec => []NoDuplicates
<1>1. MadeInv => NoDuplicates
  <2> SUFFICES ASSUME MadeInv, source.dedups, NEW r \in Returned,
                      NEW k \in DOMAIN r.items, NEW l \in DOMAIN r.items, r.items[k] = r.items[l]
               PROVE  k = l
    BY DEF NoDuplicates
  <2>1. PICK c \in Callers : r = result[c]
    BY DEF Returned
  <2> DEFINE q == query[c]
             records == RecordsOf(r.pages)
  <2>2. Right(r, q) /\ q.limit \in Nat /\ r.kind = "list"
    BY <2>1, ResultKnown DEF Returned
  <2> HIDE DEF q
  <2>3. PICK got : Tells(r, q, got)
    BY <2>2 DEF Right
  <2>4. records \in Seq(Items)
    BY <2>2, RecordsTyped DEF Right
  <2>5. Full(got, records, Len(records), q.wants) /\ r.items = Take(got, q.limit) /\ got \in Seq(Items)
    BY <2>3 DEF Tells, AllOf, Full
  <2> HIDE DEF records
  <2>6. ASSUME NEW n \in DOMAIN r.items PROVE n \in 1..Len(got) /\ r.items[n] = got[n]
    <3>1. r.items \in Seq(Items)
      BY <2>2, <2>5, TakeFacts
    <3>2. n \in 1..Len(r.items)
      BY <3>1
    <3> QED BY <2>2, <2>5, <3>2, TakeFacts
  <2>7. PICK i \in Before(records, q.wants, Len(records)) : k = Count(records, q.wants, i)
    BY <2>5, <2>6 DEF Full
  <2>8. PICK j \in Before(records, q.wants, Len(records)) : l = Count(records, q.wants, j)
    BY <2>5, <2>6 DEF Full
  <2>9. got[k] = records[i] /\ got[l] = records[j]
    BY <2>5, <2>7, <2>8 DEF Full
  <2>10. records[i] = records[j]
    BY <2>6, <2>9
  <2>11. /\ i \in Kept(records, q.wants) /\ j \in Kept(records, q.wants)
         /\ i \in Nat /\ j \in Nat /\ i >= 1 /\ j >= 1
    BY <2>4, CountFacts DEF Before
  <2>12. (i < j => records[i] # records[j]) /\ (j < i => records[j] # records[i])
    <3>1. /\ \A m \in 1..(j - 1) : records[m] # records[j]
          /\ \A m \in 1..(i - 1) : records[m] # records[i]
      BY <2>11 DEF Kept
    <3>2. (i < j => i \in 1..(j - 1)) /\ (j < i => j \in 1..(i - 1))
      BY <2>11
    <3> QED BY <3>1, <3>2
  <2>13. i = j
    BY <2>10, <2>11, <2>12
  <2> QED BY <2>7, <2>8, <2>13
<1> QED BY <1>1, MadeAlways, PTL

---------------------------------------------------------------------------
(* The quota: a search that was let through and has not counted its call   *)
(* yet may take the count past the limit by that one call.                 *)

Due(label) == IF source.chained THEN label = "sent" ELSE label \in {"looking", "missed"}
Pending == {c \in Callers : Due(pc[c])}
QuotaInv ==
    /\ pc \in [Callers -> Labels]
    /\ used \in Nat /\ blind \in 0..MaxBlind
    /\ used + Cardinality(Pending) <= CallsPerWindow - 1 + Cardinality(Callers) + blind

LEMMA PendingFinite ==
    Cardinality(Pending) \in Nat /\ Cardinality(Callers) \in Nat
        /\ Cardinality(Pending) <= Cardinality(Callers) /\ Cardinality(Callers) >= 1
<1>1. IsFiniteSet(Callers) /\ Callers # {} /\ Pending \subseteq Callers
  BY PagedAssumption DEF Pending
<1>2. IsFiniteSet(Pending) /\ Cardinality(Pending) <= Cardinality(Callers)
  BY <1>1, FS_Subset
<1>3. Cardinality(Pending) \in Nat /\ Cardinality(Callers) \in Nat /\ Cardinality(Callers) # 0
  BY <1>1, <1>2, FS_CardinalityType, FS_EmptySet
<1> QED BY <1>2, <1>3

\* A step of one caller: it owes no call, or calls were left and it does, or it
\* was let through blind, or it pays the call it owed, counted or not.
LEMMA CallerPays ==
    ASSUME QuotaInv, source' = source, NEW c \in Callers, NEW label \in Labels, Goto(c, label),
           \/ UNCHANGED quota /\ (Due(label) => Due(pc[c]) \/ used < CallsPerWindow)
           \/ used' = used /\ blind < MaxBlind /\ blind' = blind + 1
           \/ Counts /\ Due(pc[c]) /\ ~Due(label)
    PROVE  QuotaInv'
<1> DEFINE S == Pending
           T == Pending'
<1>1. pc' = [pc EXCEPT ![c] = label] /\ pc \in [Callers -> Labels]
  BY DEF Goto, QuotaInv
<1>2. pc' \in [Callers -> Labels] /\ pc'[c] = label /\ \A e \in Callers \ {c} : pc'[e] = pc[e]
  BY <1>1
<1>3. \A e \in Callers : e \in T <=> Due(pc'[e])
  BY DEF Pending, Due
<1>4. \A e \in Callers : e \in S <=> Due(pc[e])
  BY DEF Pending
<1>5. S \subseteq Callers /\ T \subseteq Callers
  BY DEF Pending
<1>6. /\ used \in Nat /\ blind \in Nat /\ CallsPerWindow \in Nat \ {0} /\ IsFiniteSet(Callers)
      /\ used + Cardinality(S) <= CallsPerWindow - 1 + Cardinality(Callers) + blind
  BY PagedAssumption DEF QuotaInv
<1>7. used' \in Nat /\ blind' \in 0..MaxBlind /\ blind' \in Nat
  BY <1>6, PagedAssumption DEF QuotaInv, Counts, quota
<1> HIDE DEF S, T
<1>8. \/ T \subseteq S /\ used' <= used /\ blind' >= blind
      \/ used' < CallsPerWindow
      \/ blind' = blind + 1 /\ used' <= used /\ \E e \in Callers : T \subseteq S \cup {e}
      \/ blind' = blind /\ used' <= used + 1 /\ \E e \in S : T \subseteq S \ {e}
  <2>1. CASE UNCHANGED quota /\ (Due(label) => Due(pc[c]))
    <3>1. T \subseteq S
      BY <1>2, <1>3, <1>4, <1>5, <2>1
    <3> QED BY <1>6, <2>1, <3>1 DEF quota
  <2>2. CASE UNCHANGED quota /\ used < CallsPerWindow
    BY <2>2 DEF quota
  <2>3. CASE used' = used /\ blind' = blind + 1
    <3>1. T \subseteq S \cup {c}
      BY <1>2, <1>3, <1>4, <1>5
    <3> QED BY <1>6, <2>3, <3>1
  <2>4. CASE Counts /\ Due(pc[c]) /\ ~Due(label)
    <3>1. c \in S /\ T \subseteq S \ {c}
      BY <1>2, <1>3, <1>4, <1>5, <2>4
    <3>2. blind' = blind /\ used' <= used + 1
      BY <1>6, <2>4 DEF Counts
    <3> QED BY <3>1, <3>2
  <2> QED BY <2>1, <2>2, <2>3, <2>4
<1>9. used' + Cardinality(T) <= CallsPerWindow - 1 + Cardinality(Callers) + blind'
  BY <1>5, <1>6, <1>7, <1>8, OverdrawStep
<1> QED BY <1>2, <1>7, <1>9 DEF QuotaInv, T

LEMMA QuotaStep == QuotaInv /\ [Next]_vars => QuotaInv'
<1> SUFFICES ASSUME QuotaInv, [Next]_vars PROVE QuotaInv'
  OBVIOUS
<1> USE DEF Due, Ready, Labels
<1>0. source' = source /\ pc \in [Callers -> Labels] /\ used \in Nat /\ blind \in 0..MaxBlind
  BY DEF Next, vars, QuotaInv
<1>1. ASSUME pc' = pc, UNCHANGED quota \/ (used' = 0 /\ blind' = 0) PROVE QuotaInv'
  <2>1. Pending' = Pending
    BY <1>0, <1>1 DEF Pending
  <2> QED BY <1>0, <1>1, <2>1, PendingFinite, PagedAssumption DEF QuotaInv, quota
<1>2. CASE UNCHANGED vars
  BY <1>1, <1>2 DEF vars, moving, searchVars
<1>3. ASSUME NEW c \in Callers, NEW q \in Queries, Search(c, q) PROVE QuotaInv'
  <2>1. Goto(c, Ready) /\ UNCHANGED quota /\ ~Due(Ready) /\ Ready \in Labels
    BY <1>3 DEF Search
  <2> QED BY <1>0, <2>1, CallerPays
<1>4. ASSUME NEW c \in Callers, CheckFirst(c) PROVE QuotaInv'
  <2>1. /\ UNCHANGED quota
        /\ \/ Goto(c, "looking") /\ used < CallsPerWindow
           \/ Goto(c, "idle")
    BY <1>4 DEF CheckFirst, CutShort, End
  <2> QED BY <1>0, <2>1, CallerPays
<1>5. ASSUME NEW c \in Callers, NEW p, Arrive(c, p)
      PROVE  \E label \in {"idle", Ready} : Goto(c, label)
  <2>1. Goto(c, "idle") \/ Goto(c, Ready)
    BY <1>5, Zenon DEF Arrive, End
  <2> QED BY <2>1
<1>6. ASSUME NEW c \in Callers, Hit(c) PROVE QuotaInv'
  <2>1. \E p : Arrive(c, p)
    BY <1>6 DEF Hit
  <2>2. PICK label \in {"idle", Ready} : Goto(c, label)
    BY <1>5, <2>1
  <2>3. UNCHANGED quota /\ label \in Labels /\ ~Due(label)
    BY <1>6 DEF Hit
  <2> QED BY <1>0, <2>2, <2>3, CallerPays
<1>7. ASSUME NEW c \in Callers, Miss(c) PROVE QuotaInv'
  <2>1. pc[c] = "looking" /\ Goto(c, "missed") /\ UNCHANGED quota
    BY <1>7 DEF Miss
  <2> QED BY <1>0, <2>1, CallerPays
<1>8. ASSUME NEW c \in Callers, CountAndSend(c) PROVE QuotaInv'
  <2>1. ~source.chained /\ pc[c] = "missed" /\ Goto(c, "sent") /\ Counts
    BY <1>8 DEF CountAndSend
  <2> QED BY <1>0, <2>1, CallerPays
<1>9. ASSUME NEW c \in Callers, CheckAndSend(c) PROVE QuotaInv'
  <2>1. /\ source.chained /\ UNCHANGED quota
        /\ \/ Goto(c, "sent") /\ used < CallsPerWindow
           \/ Goto(c, "idle")
    BY <1>9 DEF CheckAndSend, CutShort, End
  <2> QED BY <1>0, <2>1, CallerPays
<1>10. ASSUME NEW c \in Callers, AdmitBlind(c) PROVE QuotaInv'
  <2>1. /\ used' = used /\ blind < MaxBlind /\ blind' = blind + 1
        /\ (Goto(c, "looking") \/ Goto(c, "sent"))
    BY <1>10 DEF AdmitBlind
  <2> QED BY <1>0, <2>1, CallerPays
<1>11. ASSUME NEW c \in Callers, Answer(c) PROVE QuotaInv'
  <2>1. \E p : Arrive(c, p)
    BY <1>11, Zenon DEF Answer
  <2>2. PICK label \in {"idle", Ready} : Goto(c, label)
    BY <1>5, <2>1
  <2>3. /\ pc[c] = "sent" /\ ((source.chained /\ Counts) \/ UNCHANGED quota)
        /\ label \in Labels /\ ~Due(label)
    BY <1>11 DEF Answer
  <2> QED BY <1>0, <2>2, <2>3, CallerPays
<1>12. ASSUME NEW c \in Callers, AnswerError(c) \/ Crash(c) PROVE QuotaInv'
  <2>1. Goto(c, "idle") /\ UNCHANGED quota
    BY <1>12 DEF AnswerError, Crash, End
  <2> QED BY <1>0, <2>1, CallerPays
<1>13. ASSUME ListChanges \/ NewWindow PROVE QuotaInv'
  BY <1>1, <1>13 DEF ListChanges, NewWindow, searchVars
<1> QED
  BY <1>2, <1>3, <1>4, <1>6, <1>7, <1>8, <1>9, <1>10, <1>11, <1>12, <1>13 DEF Next

\* Every variable keeps its type: in particular no search reads more pages than
\* its fan-out ceiling, and the searches count no more calls over the quota than one
\* for each other search and one for each check that Redis did not answer.
THEOREM TypeCorrect == Spec => []TypeOK
<1>1. Init => QuotaInv
  <2> SUFFICES ASSUME Init PROVE QuotaInv
    OBVIOUS
  <2>1. pc = [c \in Callers |-> "idle"] /\ used = 0 /\ blind = 0
    BY DEF Init
  <2> QED BY <2>1, PendingFinite, PagedAssumption DEF QuotaInv, Labels
<1>2. QuotaInv /\ MadeInv => TypeOK
  <2> SUFFICES ASSUME QuotaInv, MadeInv PROVE TypeOK
    OBVIOUS
  <2>1. blind \in 0..MaxBlind /\ used \in 0..(CallsPerWindow - 1 + Cardinality(Callers) + blind)
    BY PendingFinite, PagedAssumption DEF QuotaInv
  <2>2. ASSUME NEW c \in Callers
        PROVE  /\ query[c] \in Queries
               /\ read[c] \in Seq(Pages) /\ Len(read[c]) < source.pages
               /\ collected[c] \in Seq(Items) /\ Len(collected[c]) < query[c].limit
               /\ result[c].kind \in {"none", "list", "refused", "failed"}
    <3>1. /\ Placed(pc[c], query[c], read[c], collected[c]) /\ Right(result[c], query[c])
          /\ source \in Source
      BY DEF MadeInv
    <3>2. /\ query[c] \in Queries /\ read[c] \in Seq(Pages) /\ Len(read[c]) < Ceiling(query[c].limit)
          /\ AllOf(collected[c], read[c], query[c].wants) /\ Len(collected[c]) < query[c].limit
      BY <3>1 DEF Placed
    <3>3. collected[c] \in Seq(Items)
      BY <3>2 DEF AllOf, Full
    <3>4. query[c].limit \in Limits
      BY <3>2 DEF Queries
    <3>5. Len(read[c]) < source.pages
      <4>1. /\ Ceiling(query[c].limit) \in Nat /\ Ceiling(query[c].limit) <= source.pages
            /\ source.pages \in Nat
        BY <3>1, <3>4, CeilingFacts
      <4> QED BY <3>2, <4>1
    <3> QED BY <3>1, <3>2, <3>3, <3>5 DEF Right
  <2>3. pc \in [Callers -> Labels] /\ given \subseteq Pages /\ now \in DOMAIN Lists
    BY DEF MadeInv, Typing
  <2> QED BY <2>1, <2>2, <2>3 DEF TypeOK, Labels
<1> QED BY <1>1, <1>2, QuotaStep, MadeAlways, PTL DEF Spec
=============================================================================
