------------------------ MODULE LodgingSearchProofs ------------------------
(***************************************************************************)
(* Proofs about LodgingSearch, for every number of callers, every site,    *)
(* limit and quota, and every combination of faults.                       *)
(***************************************************************************)
EXTENDS LodgingSearch, Induction

---------------------------------------------------------------------------
(* A search drives the cache: every step of it is one of get_or_fetch, or  *)
(* leaves the cache alone.  So what is proved of the cache holds of it.    *)

\* The cache with its theorems, for answers that are lists.
Kept == INSTANCE CacheProofs WITH
    Answers <- Lists, AgeCap <- TTL + Lag,
    Shapes <- {"list"}, Decoding <- [r \in {"list"} |-> [e \in {"list"} |-> "ok"]],
    shape <- [c \in Callers |-> "list"]

LEMMA CacheAssumed == Kept!CacheAssumption /\ Kept!Loadable
BY TierAssumption DEF Kept!CacheAssumption, Kept!Loadable

\* The two instances of Cache are the same, action by action.
LEMMA SameCall ==
    ASSUME NEW c \in Callers
    PROVE  /\ Cache!Call(c) => Kept!Call(c)
           /\ Cache!Hit(c) => Kept!Hit(c)
           /\ Cache!Miss(c) => Kept!Miss(c)
           /\ \A a \in Lists, age \in 0..Lag :
                 Cache!FetchReturns(c, a, age) => Kept!FetchReturns(c, a, age)
           /\ Cache!FetchRaises(c) => Kept!FetchRaises(c)
           /\ Cache!Write(c) => Kept!Write(c)
           /\ Cache!WriteFails(c) => Kept!WriteFails(c)
           /\ Cache!Crash(c) => Kept!Crash(c)
<1> USE DEF Cache!Goto, Kept!Goto, Cache!End, Kept!End, Cache!Value, Kept!Value,
            Cache!NoResult, Kept!NoResult, Cache!Failed, Kept!Failed
<1>1. Cache!Call(c) => Kept!Call(c)
  BY DEF Cache!Call, Kept!Call
<1>2. Cache!Hit(c) => Kept!Hit(c)
  BY DEF Cache!Hit, Kept!Hit
<1>3. Cache!Miss(c) => Kept!Miss(c)
  BY DEF Cache!Miss, Kept!Miss
<1>4. \A a \in Lists, age \in 0..Lag :
          Cache!FetchReturns(c, a, age) => Kept!FetchReturns(c, a, age)
  BY DEF Cache!FetchReturns, Kept!FetchReturns
<1>5. Cache!FetchRaises(c) => Kept!FetchRaises(c)
  BY DEF Cache!FetchRaises, Kept!FetchRaises
<1>6. Cache!Write(c) => Kept!Write(c)
  BY DEF Cache!Write, Kept!Write
<1>7. Cache!WriteFails(c) => Kept!WriteFails(c)
  BY DEF Cache!WriteFails, Kept!WriteFails
<1>8. Cache!Crash(c) => Kept!Crash(c)
  BY DEF Cache!Crash, Kept!Crash
<1> QED BY <1>1, <1>2, <1>3, <1>4, <1>5, <1>6, <1>7, <1>8

LEMMA SameEnvironment ==
    /\ Cache!Wipe => Kept!Wipe
    /\ Cache!Tick => Kept!Tick
    /\ UNCHANGED cacheVars => UNCHANGED Kept!vars
    /\ Cache!Init => Kept!Init
<1>1. Cache!Wipe => Kept!Wipe
  BY DEF Cache!Wipe, Kept!Wipe
<1>2. Cache!Tick => Kept!Tick
  BY DEF Cache!Tick, Kept!Tick, Cache!Older, Kept!Older
<1>3. UNCHANGED cacheVars => UNCHANGED Kept!vars
  BY DEF cacheVars, Kept!vars
<1>4. Cache!Init => Kept!Init
  BY DEF Cache!Init, Kept!Init, Cache!NoResult, Kept!NoResult
<1> QED BY <1>1, <1>2, <1>3, <1>4

---------------------------------------------------------------------------
(* What the pages hold.                                                    *)

\* The sum over the pages is the one its recursion says it is.
LEMMA ListingsAdd ==
    ASSUME NEW sizes \in Seq(Nat)
    PROVE  /\ Listings(sizes) \in [0..Len(sizes) -> Nat]
           /\ Listings(sizes)[0] = 0
           /\ \A p \in 1..Len(sizes) : Listings(sizes)[p] = Listings(sizes)[p - 1] + sizes[p]
<1> DEFINE D == 0..Len(sizes)
           Sums(f) == f = [p \in D |-> IF p = 0 THEN 0 ELSE f[p - 1] + sizes[p]]
           step == [x \in Nat \X (1..Len(sizes)) |-> x[1] + sizes[x[2]]]
<1>1. Len(sizes) \in Nat /\ 0 \in Nat /\ \A p \in 1..Len(sizes) : sizes[p] \in Nat
  OBVIOUS
<1>2. step \in Steps(Nat, Len(sizes))
  BY <1>1 DEF Steps
<1> HIDE DEF step
<1>3. PICK g : Values(g, Nat, 0, Len(sizes), step)
  BY <1>1, <1>2, RecursionHasValues
<1>4. ASSUME NEW p \in 1..Len(sizes) PROVE g[p] = g[p - 1] + sizes[p]
  <2>1. g \in [0..Len(sizes) -> Nat] /\ g[p] = step[<<g[p - 1], p>>]
    BY <1>3 DEF Values
  <2>2. p - 1 \in 0..Len(sizes)
    BY <1>1
  <2>3. g[p - 1] \in Nat
    BY <2>1, <2>2
  <2> QED BY <2>1, <2>3 DEF step
<1>5. Sums(g)
  BY <1>1, <1>3, <1>4 DEF Values
<1>6. Sums(CHOOSE f : Sums(f))
  <2> HIDE DEF Sums
  <2> QED BY <1>5
<1>7. Listings(sizes) = CHOOSE f : Sums(f)
  BY DEF Listings
<1> DEFINE all == Listings(sizes)
<1>8. Sums(all)
  BY <1>6, <1>7
<1> HIDE DEF all
<1>9. all[0] = 0 /\ \A p \in 1..Len(sizes) : all[p] = all[p - 1] + sizes[p]
  BY <1>1, <1>8
<1>10. \A p \in 0..Len(sizes) : all[p] \in Nat
  <2> DEFINE T == {p \in Nat : all[p] \in Nat}
  <2>1. 0 \in T /\ \A p \in 0..(Len(sizes) - 1) : p \in T => p + 1 \in T
    <3>1. ASSUME NEW p \in 0..(Len(sizes) - 1), p \in T PROVE p + 1 \in T
      <4>1. p + 1 \in 1..Len(sizes) /\ p + 1 - 1 = p /\ p + 1 \in Nat
        BY <1>1
      <4>2. all[p + 1] = all[p] + sizes[p + 1]
        BY <1>9, <4>1
      <4>3. all[p] \in Nat /\ sizes[p + 1] \in Nat
        BY <1>1, <3>1, <4>1
      <4>4. all[p + 1] \in Nat
        BY <4>2, <4>3
      <4> QED BY <4>1, <4>4
    <3> QED BY <1>9, <3>1
  <2> HIDE DEF T
  <2>2. \A p \in 0..Len(sizes) : p \in T
    BY <1>1, <2>1, BoundedInduction
  <2> QED BY <2>2 DEF T
<1> QED BY <1>8, <1>9, <1>10 DEF all

\* More pages do not hold less.
LEMMA ListingsGrow ==
    ASSUME NEW sizes \in Seq(Nat), NEW p \in 0..Len(sizes), NEW q \in 0..Len(sizes), p <= q
    PROVE  Listings(sizes)[p] <= Listings(sizes)[q]
<1> DEFINE all == Listings(sizes)
           T == {n \in Nat : n >= p => all[p] <= all[n]}
<1>1. /\ Len(sizes) \in Nat
      /\ \A n \in 0..Len(sizes) : all[n] \in Nat
      /\ \A n \in 1..Len(sizes) : all[n] = all[n - 1] + sizes[n] /\ sizes[n] \in Nat
  <2> HIDE DEF all
  <2>1. Len(sizes) \in Nat /\ \A n \in 1..Len(sizes) : sizes[n] \in Nat
    OBVIOUS
  <2>2. /\ all \in [0..Len(sizes) -> Nat]
        /\ \A n \in 1..Len(sizes) : all[n] = all[n - 1] + sizes[n]
    BY ListingsAdd DEF all
  <2> QED BY <2>1, <2>2
<1> HIDE DEF all
<1>2. 0 \in T
  BY <1>1
<1>3. ASSUME NEW n \in 0..(Len(sizes) - 1), n \in T PROVE n + 1 \in T
  <2>1. n + 1 \in 1..Len(sizes) /\ n + 1 - 1 = n /\ n \in 0..Len(sizes)
    BY <1>1
  <2>2. all[n + 1] = all[n] + sizes[n + 1] /\ sizes[n + 1] \in Nat
    BY <1>1, <2>1
  <2>3. all[n] \in Nat /\ all[p] \in Nat
    BY <1>1, <2>1
  <2> QED BY <1>1, <1>3, <2>2, <2>3
<1> HIDE DEF T
<1>4. q \in T
  BY <1>1, <1>2, <1>3, BoundedInduction
<1> QED BY <1>4 DEF T, all

---------------------------------------------------------------------------
(* Where a fetch is: on a page that exists and may be asked for, short of  *)
(* the limit, with what the pages before it hold in hand.                  *)

Fetching ==
    /\ site \in Sites
    /\ page \in [Callers -> Nat \ {0}]
    /\ stage \in [Callers -> {"check", "count", "ask"}]
    /\ rows \in [Callers -> 0..(Limit - 1)]
    /\ \A c \in Callers : /\ page[c] <= site.pages /\ page[c] <= Len(site.sizes)
                          /\ rows[c] = Listings(site.sizes)[page[c] - 1]

LEMMA SiteFacts ==
    ASSUME NEW s \in Sites
    PROVE  /\ s.pages \in Nat \ {0} /\ s.sizes \in Seq(Nat)
           /\ Len(s.sizes) \in Nat \ {0}
           /\ \A p \in Nat \ {0} : p <= Len(s.sizes) => s.sizes[p] \in Nat
BY SitesAssumption DEF Site

LEMMA FetchingInit == Init => Fetching
<1> SUFFICES ASSUME Init PROVE Fetching
  OBVIOUS
<1>1. Listings(site.sizes)[0] = 0
  BY SiteFacts, ListingsAdd DEF Init
<1> QED BY <1>1, SitesAssumption, SiteFacts DEF Init, Fetching

LEMMA ResetKeeps ==
    ASSUME Fetching, NEW c \in Callers, Reset(c), UNCHANGED site
    PROVE  Fetching'
<1>1. Listings(site.sizes)[0] = 0
  BY SiteFacts, ListingsAdd DEF Fetching
<1>2. ASSUME NEW d \in Callers
      PROVE  /\ page'[d] <= site'.pages /\ page'[d] <= Len(site'.sizes)
             /\ rows'[d] = Listings(site'.sizes)[page'[d] - 1]
  BY <1>1, SiteFacts DEF Fetching, Reset
<1> QED BY <1>2, SitesAssumption DEF Fetching, Reset

LEMMA GatheredIsNat ==
    ASSUME Fetching, NEW c \in Callers
    PROVE  /\ page[c] \in Nat \ {0} /\ rows[c] \in Nat /\ rows[c] < Limit
           /\ site.pages \in Nat /\ page[c] <= site.pages
           /\ Len(site.sizes) \in Nat /\ page[c] <= Len(site.sizes)
           /\ site.sizes[page[c]] \in Nat
           /\ rows[c] + site.sizes[page[c]] \in Nat
           /\ rows[c] + site.sizes[page[c]] = Listings(site.sizes)[page[c]]
           /\ page[c] = 1 => rows[c] = 0
<1>1. page[c] \in Nat \ {0}
  BY DEF Fetching
<1>2. page[c] <= site.pages /\ page[c] <= Len(site.sizes)
  BY DEF Fetching
<1>3. rows[c] \in 0..(Limit - 1)
  BY DEF Fetching
<1>4. rows[c] \in Nat /\ rows[c] < Limit
  BY <1>3, SitesAssumption
<1>5. site \in Sites
  BY DEF Fetching
<1>6. /\ site.sizes[page[c]] \in Nat
      /\ site.pages \in Nat /\ Len(site.sizes) \in Nat
  BY <1>1, <1>2, <1>5, SiteFacts
<1>7. rows[c] = Listings(site.sizes)[page[c] - 1]
  BY DEF Fetching
<1>8. /\ Listings(site.sizes)[0] = 0
      /\ Listings(site.sizes)[page[c]] = Listings(site.sizes)[page[c] - 1] + site.sizes[page[c]]
  <2>1. page[c] \in 1..Len(site.sizes)
    BY <1>1, <1>2, <1>6
  <2> QED BY <1>5, <2>1, SiteFacts, ListingsAdd
<1> QED BY <1>1, <1>2, <1>4, <1>6, <1>7, <1>8

LEMMA FetchingStep == Fetching /\ [Next]_vars => Fetching'
<1> SUFFICES ASSUME Fetching, [Next]_vars PROVE Fetching'
  OBVIOUS
<1> USE SitesAssumption
<1>1. CASE UNCHANGED <<fetchVars, site>>
  BY <1>1 DEF Fetching, fetchVars
<1>2. ASSUME NEW c \in Callers, NEW what \in {"count", "ask"}, GoOn(c, what), UNCHANGED site
      PROVE  Fetching'
  BY <1>2 DEF Fetching, GoOn
<1>3. ASSUME NEW c \in Callers, Refused(c) \/ PageFails(c), UNCHANGED site PROVE Fetching'
  <2>1. Reset(c)
    BY <1>3 DEF Refused, PageFails, CutShort, Raise, Return
  <2> QED BY <1>3, <2>1, ResetKeeps DEF Fetching
<1>4. ASSUME NEW c \in Callers, PageArrives(c), UNCHANGED site PROVE Fetching'
  <2> DEFINE n == rows[c] + site.sizes[page[c]]
  <2>1. CASE LastPage(page[c], n)
    <3>1. Reset(c)
      BY <1>4, <2>1 DEF PageArrives, Return
    <3> QED BY <1>4, <3>1, ResetKeeps DEF Fetching
  <2>2. CASE ~LastPage(page[c], n)
    <3>1. /\ n \in Nat /\ n < Limit /\ n \in 0..(Limit - 1)
          /\ page[c] # Len(site.sizes) /\ page[c] # site.pages
      BY <2>2, GatheredIsNat DEF LastPage
    <3>2. /\ page' = [page EXCEPT ![c] = @ + 1]
          /\ rows' = [rows EXCEPT ![c] = n]
          /\ stage' = [stage EXCEPT ![c] = "check"]
      BY <1>4, <2>2 DEF PageArrives
    <3>3. /\ page[c] \in Nat \ {0} /\ page[c] + 1 \in Nat \ {0}
          /\ page[c] + 1 <= site.pages /\ page[c] + 1 <= Len(site.sizes)
          /\ n = Listings(site.sizes)[page[c] + 1 - 1]
      BY <3>1, GatheredIsNat
    <3>4. /\ page' \in [Callers -> Nat \ {0}] /\ stage' \in [Callers -> {"check", "count", "ask"}]
          /\ rows' \in [Callers -> 0..(Limit - 1)]
          /\ site' \in Sites
      BY <1>4, <3>1, <3>2, <3>3 DEF Fetching
    <3>5. ASSUME NEW d \in Callers
          PROVE  /\ page'[d] <= site'.pages /\ page'[d] <= Len(site'.sizes)
                 /\ rows'[d] = Listings(site'.sizes)[page'[d] - 1]
      <4>1. CASE d = c
        BY <1>4, <3>2, <3>3, <4>1 DEF Fetching
      <4>2. CASE d # c
        <5>1. page'[d] = page[d] /\ rows'[d] = rows[d]
          BY <3>2, <4>2 DEF Fetching
        <5>2. rows[d] = Listings(site.sizes)[page[d] - 1]
          BY DEF Fetching
        <5> QED BY <1>4, <5>1, <5>2, GatheredIsNat
      <4> QED BY <4>1, <4>2
    <3> QED BY <3>4, <3>5 DEF Fetching
  <2> QED BY <2>1, <2>2
<1>5. ASSUME NEW c \in Callers, Crash(c), UNCHANGED site PROVE Fetching'
  BY <1>5, ResetKeeps DEF Crash, Fetching
<1> QED
  BY <1>1, <1>2, <1>3, <1>4, <1>5
     DEF Next, vars, moving, Proceed, Search, Lookup, Store, Wipe, Tick, NewWindow,
         Admitted, AdmittedBlind, Counted, Uncounted

---------------------------------------------------------------------------
(* The cache under a search.                                               *)

LEMMA ReturnIsFetched ==
    ASSUME NEW c \in Callers, NEW n \in Nat, NEW whole \in BOOLEAN, Return(c, n, whole)
    PROVE  \E age \in 0..Lag :
              Kept!FetchReturns(c, [rows |-> Least(n, Limit), whole |-> whole], age)
<1>1. [rows |-> Least(n, Limit), whole |-> whole] \in Lists
  BY SitesAssumption DEF Lists, Least
<1> QED BY <1>1, SameCall DEF Return

\* Every step of a search is a step of the cache, or none.
LEMMA CacheStep == Fetching /\ [Next]_vars => [Kept!Next]_Kept!vars
<1> SUFFICES ASSUME Fetching, [Next]_vars PROVE Kept!Next \/ UNCHANGED Kept!vars
  OBVIOUS
<1> USE DEF Kept!Next, Kept!Proceed
<1>1. ASSUME NEW c \in Callers,
             Search(c) \/ Lookup(c) \/ Store(c) \/ Crash(c)
      PROVE  Kept!Next
  BY <1>1, SameCall DEF Search, Lookup, Store, Crash
<1>2. ASSUME NEW c \in Callers, NEW n \in Nat, NEW whole \in BOOLEAN, Return(c, n, whole)
      PROVE  Kept!Next
  <2>1. [rows |-> Least(n, Limit), whole |-> whole] \in Lists
    BY SitesAssumption DEF Lists, Least
  <2> QED BY <1>2, <2>1, ReturnIsFetched
<1>3. ASSUME NEW c \in Callers, Refused(c) \/ PageFails(c) PROVE Kept!Next
  <2>1. rows[c] \in Nat
    BY SitesAssumption DEF Fetching
  <2> QED BY <1>2, <1>3, <2>1, SameCall DEF Refused, PageFails, CutShort, Raise
<1>4. ASSUME NEW c \in Callers, PageArrives(c)
      PROVE  Kept!Next \/ UNCHANGED Kept!vars
  <2>1. rows[c] + site.sizes[page[c]] \in Nat
    BY GatheredIsNat
  <2> QED BY <1>2, <1>4, <2>1, SameEnvironment DEF PageArrives
<1>5. CASE Wipe \/ Tick
  BY <1>5, SameEnvironment DEF Wipe, Tick
<1>6. CASE UNCHANGED cacheVars
  BY <1>6, SameEnvironment
<1> QED
  BY <1>1, <1>3, <1>4, <1>5, <1>6
     DEF Next, vars, moving, Proceed, NewWindow, GoOn,
         Admitted, AdmittedBlind, Counted, Uncounted

LEMMA SearchIsCached == Spec => Kept!Spec
<1>1. Init => Kept!Init
  BY SameEnvironment DEF Init
<1> QED
  BY <1>1, FetchingInit, FetchingStep, CacheStep, PTL DEF Spec, Kept!Spec

---------------------------------------------------------------------------
(* The quota under several searches.                                       *)

\* The searches that have passed the check of a page and not counted it.
Passed == {c \in Callers : stage[c] = "count"}

Metered ==
    /\ used \in Nat /\ blind \in 0..MaxBlind
    /\ used + Cardinality(Passed) <= CallsPerWindow - 1 + Cardinality(Callers) + blind

LEMMA MeteredInit == Init => Metered
<1> SUFFICES ASSUME Init PROVE Metered
  OBVIOUS
<1>1. Passed = {} /\ used = 0 /\ blind = 0
  BY DEF Init, Passed
<1>2. Cardinality(Callers) \in Nat /\ Cardinality(Passed) = 0
  BY <1>1, SitesAssumption, FS_CardinalityType, FS_EmptySet
<1> QED BY <1>1, <1>2, SitesAssumption DEF Metered

\* What a step may do to the quota and to the searches on their way to count.
QuotaMoves ==
    \/ Passed' \subseteq Passed /\ used' <= used /\ blind' = blind
    \/ used' < CallsPerWindow /\ blind' <= blind
    \/ /\ blind' = blind + 1 /\ used' = used
       /\ \E c \in Callers : Passed' \subseteq Passed \cup {c}
    \/ /\ blind' = blind /\ used' = used + 1
       /\ \E c \in Passed : Passed' \subseteq Passed \ {c}

LEMMA QuotaStep ==
    ASSUME Fetching, Metered, [Next]_vars
    PROVE  QuotaMoves /\ used' \in Nat /\ blind' \in 0..MaxBlind
<1>1. CASE UNCHANGED <<fetchVars, quota>>
  BY <1>1 DEF QuotaMoves, Metered, Passed, fetchVars, quota
<1>2. ASSUME NEW c \in Callers, stage' = [stage EXCEPT ![c] = "check"], UNCHANGED quota
      PROVE  QuotaMoves /\ used' \in Nat /\ blind' \in 0..MaxBlind
  BY <1>2 DEF QuotaMoves, Metered, Passed, Fetching, quota
<1>3. ASSUME NEW c \in Callers, Refused(c) \/ PageFails(c) \/ Crash(c)
      PROVE  QuotaMoves /\ used' \in Nat /\ blind' \in 0..MaxBlind
  <2>1. stage' = [stage EXCEPT ![c] = "check"] /\ UNCHANGED quota
    BY <1>3 DEF Refused, PageFails, CutShort, Raise, Return, Reset, Crash
  <2> QED BY <1>2, <2>1
<1>4. ASSUME NEW c \in Callers, PageArrives(c)
      PROVE  QuotaMoves /\ used' \in Nat /\ blind' \in 0..MaxBlind
  <2>1. stage' = [stage EXCEPT ![c] = "check"] /\ UNCHANGED quota
    BY <1>4 DEF PageArrives, Return, Reset
  <2> QED BY <1>2, <2>1
<1>5. ASSUME NEW c \in Callers, Admitted(c)
      PROVE  QuotaMoves /\ used' \in Nat /\ blind' \in 0..MaxBlind
  BY <1>5 DEF Admitted, QuotaMoves, Metered, quota
<1>6. ASSUME NEW c \in Callers, AdmittedBlind(c)
      PROVE  QuotaMoves /\ used' \in Nat /\ blind' \in 0..MaxBlind
  <2>1. stage' = [stage EXCEPT ![c] = "count"] /\ blind' = blind + 1 /\ used' = used
        /\ blind < MaxBlind
    BY <1>6 DEF AdmittedBlind, GoOn
  <2>2. Passed' \subseteq Passed \cup {c}
    BY <2>1 DEF Passed, Fetching
  <2> QED BY <2>1, <2>2, SitesAssumption DEF QuotaMoves, Metered
<1>7. ASSUME NEW c \in Callers, Counted(c)
      PROVE  QuotaMoves /\ used' \in Nat /\ blind' \in 0..MaxBlind
  <2>1. /\ stage[c] = "count" /\ stage' = [stage EXCEPT ![c] = "ask"]
        /\ used' = used + 1 /\ blind' = blind
    BY <1>7 DEF Counted, At, GoOn
  <2>2. c \in Passed /\ Passed' \subseteq Passed \ {c}
    BY <2>1 DEF Passed, Fetching
  <2> QED BY <2>1, <2>2 DEF QuotaMoves, Metered
<1>8. ASSUME NEW c \in Callers, Uncounted(c)
      PROVE  QuotaMoves /\ used' \in Nat /\ blind' \in 0..MaxBlind
  <2>1. stage' = [stage EXCEPT ![c] = "ask"] /\ UNCHANGED quota
    BY <1>8 DEF Uncounted, GoOn
  <2>2. Passed' \subseteq Passed
    BY <2>1 DEF Passed, Fetching
  <2> QED BY <2>1, <2>2 DEF QuotaMoves, Metered, quota
<1>9. CASE NewWindow
  BY <1>9, SitesAssumption DEF NewWindow, QuotaMoves, Metered
<1> QED
  BY <1>1, <1>3, <1>4, <1>5, <1>6, <1>7, <1>8, <1>9
     DEF Next, vars, moving, Proceed, Search, Lookup, Store, Wipe, Tick

LEMMA MeteredStep == Fetching /\ Metered /\ [Next]_vars => Metered'
<1> SUFFICES ASSUME Fetching, Metered, [Next]_vars PROVE Metered'
  OBVIOUS
<1>1. QuotaMoves /\ used' \in Nat /\ blind' \in 0..MaxBlind
  BY QuotaStep
<1>2. used \in Nat /\ blind \in Nat /\ blind' \in Nat
  BY <1>1, SitesAssumption DEF Metered
<1>3. Passed \subseteq Callers /\ Passed' \subseteq Callers
  BY DEF Passed
<1>4. used + Cardinality(Passed) <= CallsPerWindow - 1 + Cardinality(Callers) + blind
  BY DEF Metered
<1> DEFINE E == Passed
           F == Passed'
<1> HIDE DEF E, F
<1>5. used' + Cardinality(F) <= CallsPerWindow - 1 + Cardinality(Callers) + blind'
  BY <1>1, <1>2, <1>3, <1>4, OverdrawStep, SitesAssumption DEF QuotaMoves, E, F
<1> QED BY <1>1, <1>5 DEF Metered, F

\* Every variable keeps its type, for every site, limit and quota: a fetch never
\* passes the last page, the fan-out ceiling or the limit, and the searches count
\* no more calls over the quota than one for each other search and one for each
\* check that Redis did not answer.
THEOREM TypeCorrect == Spec => []TypeOK
<1>1. Kept!Spec => []Kept!TypeOK
  BY CacheAssumed, Kept!TypeCorrect, PTL DEF Kept!TypeCorrect
<1>2. Fetching /\ Metered /\ Kept!TypeOK => TypeOK
  <2>1. Kept!TypeOK => Cache!TypeOK
    BY DEF Kept!TypeOK, Cache!TypeOK, Kept!Stored, Cache!Stored
  <2>2. Fetching => page \in [Callers -> 1..site.pages]
    <3> SUFFICES ASSUME Fetching PROVE \A c \in Callers : page[c] \in 1..site.pages
      BY DEF Fetching
    <3> TAKE c \in Callers
    <3> QED BY GatheredIsNat
  <2>3. Metered => used \in 0..(CallsPerWindow - 1 + Cardinality(Callers) + blind)
    <3> SUFFICES ASSUME Metered
                 PROVE  used \in 0..(CallsPerWindow - 1 + Cardinality(Callers) + blind)
      OBVIOUS
    <3>1. Cardinality(Passed) \in Nat /\ Cardinality(Callers) \in Nat
      BY SitesAssumption, FS_Subset, FS_CardinalityType DEF Passed
    <3> QED BY <3>1, SitesAssumption DEF Metered
  <2> QED BY <2>1, <2>2, <2>3 DEF Fetching, Metered, TypeOK
<1> QED
  BY <1>1, <1>2, FetchingInit, FetchingStep, MeteredInit, MeteredStep, SearchIsCached, PTL
     DEF Spec

---------------------------------------------------------------------------
(* What is in the cache.                                                   *)

\* A list cut short has something on it, and was cut short after page one; one
\* that was not is the full list.
Honest(a) == IF a.whole THEN a.rows = FullList ELSE a.rows > 0 /\ site.pages > 1

LEMMA SameHonest == UNCHANGED site => \A a : Honest(a)' <=> Honest(a)
BY DEF Honest, FullList

\* When the loop ends, what was gathered is the full list: either the limit is
\* reached, and later pages only add, or this is the last page to look at.
LEMMA LastPageIsFull ==
    ASSUME Fetching, NEW c \in Callers, NEW n, n = rows[c] + site.sizes[page[c]],
           LastPage(page[c], n)
    PROVE  Least(n, Limit) = FullList
<1> DEFINE all == Listings(site.sizes)
           m == Least(site.pages, Len(site.sizes))
<1>1. site.sizes \in Seq(Nat)
  BY SiteFacts DEF Fetching
<1>2. /\ page[c] \in Nat \ {0} /\ page[c] <= m /\ m \in 0..Len(site.sizes)
      /\ n = all[page[c]] /\ n \in Nat /\ Limit \in Nat /\ page[c] \in 0..Len(site.sizes)
      /\ page[c] = Len(site.sizes) \/ page[c] = site.pages => page[c] = m
  BY GatheredIsNat, SitesAssumption DEF Least
<1>3. all[page[c]] <= all[m] /\ all[m] \in Nat
  <2> HIDE DEF m
  <2> QED BY <1>1, <1>2, ListingsGrow, ListingsAdd
<1>4. FullList = Least(Limit, all[m])
  BY DEF FullList
<1> HIDE DEF all, m
<1>5. CASE page[c] = m
  BY <1>2, <1>4, <1>5 DEF Least
<1>6. CASE n >= Limit
  BY <1>2, <1>3, <1>4, <1>6 DEF Least
<1> QED BY <1>2, <1>5, <1>6 DEF LastPage

AnswersHonest ==
    /\ \A c \in Callers : \A e \in held[c] : Honest(e.answer)
    /\ \A e \in entry : Honest(e.answer)
    /\ \A c \in Callers : result[c].kind = "value" => Honest(result[c].answer)

LEMMA HonestInit == Init => AnswersHonest
BY DEF Init, Cache!Init, AnswersHonest, Cache!NoResult

LEMMA HonestReturn ==
    ASSUME Kept!Typing, AnswersHonest, NEW c \in Callers,
           NEW n \in Nat, NEW whole \in BOOLEAN, Return(c, n, whole), UNCHANGED site,
           IF whole THEN Least(n, Limit) = FullList ELSE n > 0 /\ site.pages > 1
    PROVE  AnswersHonest'
<1> DEFINE a == [rows |-> Least(n, Limit), whole |-> whole]
<1>1. Honest(a)
  BY SitesAssumption DEF Honest, Least
<1>2. \E age \in 0..Lag :
         /\ held' = [held EXCEPT ![c] = {[answer |-> a, age |-> age, shape |-> "list"]}]
         /\ UNCHANGED <<entry, result>>
  BY DEF Return, Cache!FetchReturns
<1> HIDE DEF a
<1>3. ASSUME NEW d \in Callers, NEW e \in held'[d] PROVE Honest(e.answer)
  BY <1>1, <1>2, <1>3 DEF Kept!Typing, AnswersHonest
<1>4. \A b : Honest(b)' <=> Honest(b)
  BY SameHonest
<1> QED BY <1>2, <1>3, <1>4 DEF AnswersHonest

LEMMA HonestRaise ==
    ASSUME Kept!Typing, AnswersHonest, NEW c \in Callers, Raise(c), UNCHANGED site
    PROVE  AnswersHonest'
BY SameHonest DEF Raise, Cache!FetchRaises, Cache!End, Cache!Failed, Kept!Typing, AnswersHonest

LEMMA HonestStep ==
    Fetching /\ Kept!Typing /\ AnswersHonest /\ [Next]_vars => AnswersHonest'
<1> SUFFICES ASSUME Fetching, Kept!Typing, AnswersHonest, [Next]_vars
             PROVE  AnswersHonest'
  OBVIOUS
<1>0. UNCHANGED site
  BY DEF Next, vars
<1>a. \A a : Honest(a)' <=> Honest(a)
  BY <1>0, SameHonest
<1>1. CASE UNCHANGED cacheVars
  BY <1>a, <1>1 DEF cacheVars, AnswersHonest
<1> USE DEF Cache!End, Cache!Goto
<1>2. ASSUME NEW c \in Callers, Search(c) PROVE AnswersHonest'
  BY <1>a, <1>2 DEF Search, Cache!Call, Cache!NoResult, Kept!Typing, AnswersHonest
<1>3. ASSUME NEW c \in Callers, Lookup(c) PROVE AnswersHonest'
  <2>1. CASE Cache!Hit(c)
    BY <1>a, <2>1 DEF Cache!Hit, Cache!Value, Kept!Typing, AnswersHonest
  <2>2. CASE Cache!Miss(c)
    BY <1>a, <2>2 DEF Cache!Miss, AnswersHonest
  <2> QED BY <1>3, <2>1, <2>2 DEF Lookup
<1>4. ASSUME NEW c \in Callers, Refused(c) \/ PageFails(c) PROVE AnswersHonest'
  <2>1. CASE rows[c] = 0
    BY <1>0, <1>4, <2>1, HonestRaise DEF Refused, PageFails, CutShort
  <2>2. CASE rows[c] # 0
    <3>1. Return(c, rows[c], FALSE)
      BY <1>4, <2>2 DEF Refused, PageFails, CutShort
    <3>2. page[c] # 1
      BY <2>2, GatheredIsNat
    <3>3. rows[c] \in Nat /\ rows[c] > 0 /\ site.pages > 1
      BY <2>2, <3>2, GatheredIsNat
    <3> QED BY <1>0, <3>1, <3>3, HonestReturn
  <2> QED BY <2>1, <2>2
<1>5. ASSUME NEW c \in Callers, PageArrives(c) PROVE AnswersHonest'
  <2> DEFINE n == rows[c] + site.sizes[page[c]]
  <2>1. n \in Nat
    BY GatheredIsNat
  <2>2. \/ LastPage(page[c], n) /\ Return(c, n, TRUE)
        \/ UNCHANGED cacheVars
    BY <1>5 DEF PageArrives
  <2>3. LastPage(page[c], n) => Least(n, Limit) = FullList
    BY LastPageIsFull
  <2> HIDE DEF n
  <2> QED BY <1>0, <1>1, <2>1, <2>2, <2>3, HonestReturn
<1>6. ASSUME NEW c \in Callers, Store(c) PROVE AnswersHonest'
  <2>1. CASE Cache!Write(c)
    BY <1>a, <2>1 DEF Cache!Write, Cache!Value, Kept!Typing, AnswersHonest
  <2>2. CASE Cache!WriteFails(c)
    BY <1>a, <2>2 DEF Cache!WriteFails, Cache!Value, Kept!Typing, AnswersHonest
  <2> QED BY <1>6, <2>1, <2>2 DEF Store
<1>7. ASSUME NEW c \in Callers, Crash(c) PROVE AnswersHonest'
  BY <1>a, <1>7 DEF Crash, Cache!Crash, Cache!NoResult, Kept!Typing, AnswersHonest
<1>8. CASE Wipe
  BY <1>a, <1>8 DEF Wipe, Cache!Wipe, AnswersHonest
<1>9. CASE Tick
  <2>1. /\ \A c \in Callers : held'[c] = Kept!Older(held[c])
        /\ entry' = {} \/ entry' = Kept!Older(entry)
        /\ UNCHANGED result
    BY <1>9 DEF Tick, Cache!Tick, Cache!Older, Kept!Older
  <2>2. /\ \A c \in Callers : held[c] \in Kept!Slot
        /\ entry \in Kept!Slot
    BY DEF Kept!Typing
  <2>3. ASSUME NEW S \in Kept!Slot, \A e \in S : Honest(e.answer), NEW e \in Kept!Older(S)
        PROVE  Honest(e.answer)
    BY <2>3, CacheAssumed, Kept!OlderSlot
  <2> QED BY <1>a, <2>1, <2>2, <2>3 DEF AnswersHonest
<1> QED
  BY <1>1, <1>2, <1>3, <1>4, <1>5, <1>6, <1>7, <1>8, <1>9
     DEF Next, vars, moving, Proceed, NewWindow, GoOn,
         Admitted, AdmittedBlind, Counted, Uncounted

LEMMA HonestAlways == Spec => [](Fetching /\ AnswersHonest)
<1>1. Kept!Init => Kept!Typing
  BY CacheAssumed, Kept!TypingInit DEF Kept!TypingInit
<1>2. Kept!Typing /\ [Kept!Next]_Kept!vars => Kept!Typing'
  BY CacheAssumed, Kept!TypingStep DEF Kept!TypingStep
<1> QED
  BY <1>1, <1>2, FetchingInit, FetchingStep, HonestInit, HonestStep, SearchIsCached, PTL
     DEF Spec, Kept!Spec

\* However refusals, failures, crashes and overwrites interleave, a list that was
\* cut short holds something, in the cache and in a caller's hands: a failure of
\* the first page is never kept or served as a list.
THEOREM PartialBeatsNoneHolds == Spec => []PartialBeatsNone
<1>1. AnswersHonest => PartialBeatsNone
  BY DEF AnswersHonest, PartialBeatsNone, Honest
<1> QED BY <1>1, HonestAlways, PTL

\* A list that was not cut short is the provider's, up to the limit or the
\* fan-out ceiling, with every page counted once, however the search shared the
\* quota and the cache with others.
THEOREM WholeMeansAllHolds == Spec => []WholeMeansAll
<1>1. AnswersHonest => WholeMeansAll
  BY DEF AnswersHonest, WholeMeansAll, Honest
<1> QED BY <1>1, HonestAlways, PTL

\* A search of one page, Airbnb's, never stores a list that was cut short.
THEOREM NoFailureCachedHolds == Spec => []NoFailureCached
<1>1. AnswersHonest => NoFailureCached
  BY DEF AnswersHonest, NoFailureCached, Shortened, Honest
<1> QED BY <1>1, HonestAlways, PTL

\* What a search hands out is a read-through cache's: a list that the provider's
\* pages gave no longer ago than the tier and the lag of a fetch allow, or the
\* failure of the search's own fetch.
THEOREM IsReadThroughHolds == Spec => IsReadThrough
<1>1. TTL > 0 /\ Kept!Loadable /\ Kept!CacheAssumption
  BY CacheAssumed, TierAssumption
<1>2. Kept!Spec => Kept!ReadThrough
  BY <1>1, Kept!KeepsPromise, PTL DEF Kept!KeepsPromise
<1>3. Kept!ReadThrough => Cache!ReadThrough
  <2>1. Kept!Promise!Init => Cache!Promise!Init
    BY DEF Kept!Promise!Init, Cache!Promise!Init, Kept!Promise!NoResult, Cache!Promise!NoResult
  <2>2. [Kept!Promise!Next]_Kept!Promise!vars => [Cache!Promise!Next]_Cache!Promise!vars
    <3> USE DEF Kept!Promise!Forget, Cache!Promise!Forget
    <3>1. ASSUME NEW c \in Callers
          PROVE  /\ Kept!Promise!Call(c) => Cache!Promise!Call(c)
                 /\ Kept!Promise!Ask(c) => Cache!Promise!Ask(c)
                 /\ Kept!Promise!Return(c) => Cache!Promise!Return(c)
                 /\ Kept!Promise!Fail(c) => Cache!Promise!Fail(c)
                 /\ Kept!Promise!Vanish(c) => Cache!Promise!Vanish(c)
                 /\ \A a \in Lists, age \in 0..Kept!MaxAge :
                       Kept!Promise!Give(c, a, age) => Cache!Promise!Give(c, a, age)
      BY DEF Kept!Promise!Call, Cache!Promise!Call, Kept!Promise!Ask, Cache!Promise!Ask,
             Kept!Promise!Return, Cache!Promise!Return, Kept!Promise!Fail,
             Cache!Promise!Fail, Kept!Promise!Vanish, Cache!Promise!Vanish,
             Kept!Promise!Give, Cache!Promise!Give, Kept!Promise!NoResult,
             Cache!Promise!NoResult, Kept!Promise!Failed, Cache!Promise!Failed,
             Kept!Promise!Value, Cache!Promise!Value
    <3>2. Kept!Promise!Lose => Cache!Promise!Lose
      BY DEF Kept!Promise!Lose, Cache!Promise!Lose
    <3>3. Kept!MaxAge = Cache!MaxAge
      BY DEF Kept!MaxAge, Cache!MaxAge
    <3>4. Kept!Promise!Tick => Cache!Promise!Tick
      BY <3>3, Zenon DEF Kept!Promise!Tick, Cache!Promise!Tick
    <3> QED
      BY <3>1, <3>2, <3>3, <3>4
         DEF Kept!Promise!Next, Cache!Promise!Next, Kept!Promise!vars, Cache!Promise!vars
  <2> QED BY <2>1, <2>2, PTL
     DEF Kept!ReadThrough, Cache!ReadThrough, Kept!Promise!Spec, Cache!Promise!Spec
<1> QED BY <1>2, <1>3, SearchIsCached, PTL DEF IsReadThrough
=============================================================================
