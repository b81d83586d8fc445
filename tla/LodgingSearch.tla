--------------------------- MODULE LodgingSearch ---------------------------
(***************************************************************************)
(* search() of the hotels and Airbnb adapters (app/travel/adapters): a     *)
(* paged, quota-checked fetch run inside get_or_fetch.  Several searches   *)
(* for the same arguments, hence for one cache key, run at once.           *)
(*                                                                         *)
(* Hotels asks for up to _MAX_PAGES pages and keeps what it has when a     *)
(* later page is refused or fails; Airbnb asks for one page.  A list that  *)
(* was cut short looks like any other list to the cache.  Between the      *)
(* check of the quota and its count, other searches check and count too.   *)
(***************************************************************************)
EXTENDS Integers, Sequences, SequencesExt, FiniteSets

CONSTANTS
    Callers,          \* concurrent searches with equal arguments
    Sites,            \* what is searched: see Site
    Limit,            \* q.limit
    CallsPerWindow,   \* calls the quota admits until its window renews
    TTL, Lag,         \* of the LODGING_SEARCH tier, as in Cache
    MaxBlind,         \* bound: checks passed in one window with Redis away
    Faults            \* of Cache, and "provider": a page may fail; "quotaOutage":
                      \* Redis does not answer a command of the quota

\* sizes: the usable listings on each page the provider has for the search;
\* pages: how many of them the adapter may ask for, _MAX_PAGES or, Airbnb, 1.
Site == [sizes : Seq(Nat) \ {<<>>}, pages : Nat \ {0}]

ASSUME SitesAssumption == /\ Sites \subseteq Site /\ Limit \in Nat \ {0}
                          /\ CallsPerWindow \in Nat \ {0} /\ MaxBlind \in Nat
                          /\ IsFiniteSet(Callers) /\ Callers # {}
ASSUME TierAssumption == TTL \in Nat \ {0} /\ Lag \in Nat

VARIABLES
    pc, held, entry, ttl, result,   \* of Cache
    page,    \* the page a running fetch is at
    stage,   \* what that page waits for: the check of its quota, the count of
             \* it, or the provider
    rows,    \* listings gathered so far
    used,    \* calls counted in this quota window
    blind,   \* ghost: checks passed in it with Redis away
    site     \* the adapter and the search, which do not change

cacheVars == <<pc, held, entry, ttl, result>>
fetchVars == <<page, stage, rows>>
quota == <<used, blind>>
moving == <<cacheVars, fetchVars, quota>>
vars == <<moving, site>>

\* What a search returns: how many listings, and whether the fetch that made
\* the list ran to its end.
Lists == [rows : 0..Limit, whole : BOOLEAN]

Cache == INSTANCE Cache WITH
    Answers <- Lists, AgeCap <- TTL + Lag,
    Shapes <- {"list"}, Decoding <- [r \in {"list"} |-> [e \in {"list"} |-> "ok"]],
    shape <- [c \in Callers |-> "list"]

TypeOK ==
    /\ Cache!TypeOK
    /\ page \in [Callers -> 1..site.pages]
    /\ stage \in [Callers -> {"check", "count", "ask"}]
    /\ rows \in [Callers -> 0..(Limit - 1)]
    /\ blind \in 0..MaxBlind
    /\ used \in 0..(CallsPerWindow - 1 + Cardinality(Callers) + blind)

Init ==
    /\ Cache!Init
    /\ page = [c \in Callers |-> 1] /\ stage = [c \in Callers |-> "check"]
    /\ rows = [c \in Callers |-> 0]
    /\ used = 0 /\ blind = 0
    /\ site \in Sites

Least(m, n) == IF m < n THEN m ELSE n

\* get_or_fetch is back from fetch() with a list, or by an exception.
Reset(c) ==
    /\ page' = [page EXCEPT ![c] = 1] /\ stage' = [stage EXCEPT ![c] = "check"]
    /\ rows' = [rows EXCEPT ![c] = 0]
Return(c, n, whole) ==
    /\ \E age \in 0..Lag :
          Cache!FetchReturns(c, [rows |-> Least(n, Limit), whole |-> whole], age)
    /\ Reset(c)
Raise(c) == Cache!FetchRaises(c) /\ Reset(c)

\* A running fetch waits for something, and goes on to the next.
At(c, what) == pc[c] = "fetching" /\ stage[c] = what
GoOn(c, what) ==
    /\ stage' = [stage EXCEPT ![c] = what]
    /\ UNCHANGED <<cacheVars, page, rows>>

---------------------------------------------------------------------------
(* Plausible slips in the code, each of which a property below must catch.  *)
(* None of them is part of the specification.                               *)

\* The refusal or failure of page one is returned, and stored, as an empty list.
CutShortStoresEmpty(c) == Return(c, rows[c], FALSE)

\* A page that adds nothing usable ends the loop.
LastPageWhenEmpty(p, n) ==
    site.sizes[p] = 0 \/ p = Len(site.sizes) \/ p = site.pages \/ n >= Limit

\* A hit renews the TTL of the entry.
LookupRenews(c) ==
    /\ \/ /\ pc[c] = "reading"
          /\ \E e \in entry : Cache!End(c, Cache!Value(e))
          /\ ttl' = TTL /\ UNCHANGED <<held, entry>>
       \/ Cache!Miss(c)
    /\ UNCHANGED <<fetchVars, quota>>

\* `>` for `>=` in the check.
AdmittedAtLimit(c) ==
    /\ At(c, "check")
    /\ used <= CallsPerWindow
    /\ GoOn(c, "count")
    /\ UNCHANGED quota

---------------------------------------------------------------------------
(* One search *)

Search(c) == Cache!Call(c) /\ UNCHANGED <<fetchVars, quota>>

\* The cache answers, or does not and fetch() starts.
Lookup(c) == (Cache!Hit(c) \/ Cache!Miss(c)) /\ UNCHANGED <<fetchVars, quota>>

\* _spend_quota before each page: check() lets the call pass below the ceiling,
\* and whenever Redis does not answer it.
Admitted(c) ==
    /\ At(c, "check")
    /\ used < CallsPerWindow
    /\ GoOn(c, "count")
    /\ UNCHANGED quota
AdmittedBlind(c) ==
    /\ "quotaOutage" \in Faults
    /\ At(c, "check")
    /\ blind < MaxBlind
    /\ blind' = blind + 1
    /\ GoOn(c, "count")
    /\ UNCHANGED used

\* Then increment(), an await later, which nobody else's count has stopped; if
\* Redis does not answer, the call goes uncounted.
Counted(c) ==
    /\ At(c, "count")
    /\ GoOn(c, "ask")
    /\ used' = used + 1
    /\ UNCHANGED blind
Uncounted(c) ==
    /\ "quotaOutage" \in Faults
    /\ At(c, "count")
    /\ GoOn(c, "ask")
    /\ UNCHANGED quota

\* Refused or failed on this page: an error if nothing was gathered, otherwise
\* what there is.
CutShort(c) == IF rows[c] = 0 THEN Raise(c) ELSE Return(c, rows[c], FALSE)

Refused(c) ==
    /\ At(c, "check")
    /\ used >= CallsPerWindow
    /\ CutShort(c)
    /\ UNCHANGED quota

PageFails(c) ==
    /\ "provider" \in Faults
    /\ At(c, "ask")
    /\ CutShort(c)
    /\ UNCHANGED quota

\* The loop ends with page p and n listings: enough, no next_page_token, or
\* the fan-out ceiling.
LastPage(p, n) == n >= Limit \/ p = Len(site.sizes) \/ p = site.pages

PageArrives(c) ==
    LET n == rows[c] + site.sizes[page[c]]
    IN  /\ At(c, "ask")
        /\ IF LastPage(page[c], n)
           THEN Return(c, n, TRUE)
           ELSE /\ page' = [page EXCEPT ![c] = @ + 1]
                /\ rows' = [rows EXCEPT ![c] = n]
                /\ stage' = [stage EXCEPT ![c] = "check"]
                /\ UNCHANGED cacheVars
        /\ UNCHANGED quota

Store(c) == (Cache!Write(c) \/ Cache!WriteFails(c)) /\ UNCHANGED <<fetchVars, quota>>

---------------------------------------------------------------------------
(* The environment *)

Crash(c) == Cache!Crash(c) /\ Reset(c) /\ UNCHANGED quota
Wipe == Cache!Wipe /\ UNCHANGED <<fetchVars, quota>>
Tick == Cache!Tick /\ UNCHANGED <<fetchVars, quota>>
NewWindow == used' = 0 /\ blind' = 0 /\ UNCHANGED <<cacheVars, fetchVars>>

Proceed(c) ==
    \/ Lookup(c)
    \/ Admitted(c) \/ AdmittedBlind(c) \/ Counted(c) \/ Uncounted(c) \/ Refused(c)
    \/ PageFails(c) \/ PageArrives(c) \/ Store(c)

Next ==
    /\ \/ \E c \in Callers : Search(c) \/ Proceed(c) \/ Crash(c)
       \/ Wipe \/ Tick \/ NewWindow
    /\ UNCHANGED site

Spec == Init /\ [][Next]_vars

\* Every await ends (Redis and httpx time out), time goes on, windows renew.
Fairness ==
    /\ WF_moving(Tick) /\ WF_moving(NewWindow)
    /\ \A c \in Callers : WF_moving(Proceed(c))
FairSpec == Spec /\ Fairness

---------------------------------------------------------------------------
(* Properties *)

\* How many listings the pages hold, up to each of them.
Listings(sizes) ==
    LET upto[p \in 0..Len(sizes)] == IF p = 0 THEN 0 ELSE upto[p - 1] + sizes[p]
    IN  upto

\* What the pages the search may look at hold, up to the limit.
FullList == Least(Limit, Listings(site.sizes)[Least(site.pages, Len(site.sizes))])

\* A list that was not cut short is the provider's first Limit listings, all
\* pages counted, whether it is fetched or served from the cache.
WholeMeansAll ==
    \A c \in Callers :
        result[c].kind = "value" /\ result[c].answer.whole => result[c].answer.rows = FullList

\* A list that was cut short holds something, and a search fails only with
\* nothing in hand: no refusal or failure is ever stored or served as a list.
PartialBeatsNone ==
    /\ \A c \in Callers :
          result[c].kind = "value" /\ ~result[c].answer.whole => result[c].answer.rows > 0
    /\ \A e \in entry : ~e.answer.whole => e.answer.rows > 0

\* The search in front of the provider is a read-through cache: a caller sees
\* a list of the last MaxAge ticks, or the outcome of its own fetch.
IsReadThrough == Cache!ReadThrough

\* A list that was cut short is not served for ever: it leaves the cache, with
\* searches for it going on all the time.
Shortened == \E e \in entry : ~e.answer.whole
ShortenedEnds == Shortened ~> ~Shortened

\* With one page nothing is ever cut short and kept: "a failure must not occupy
\* the cache for 30 min", as airbnb.py has it.
NoFailureCached == site.pages = 1 => ~Shortened
=============================================================================
