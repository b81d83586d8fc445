---------------------------- MODULE FlightSearch ----------------------------
(***************************************************************************)
(* search() of the flights adapter (app/travel/adapters/flights.py).  The  *)
(* provider answers a round trip in two screens: the first lists outbound  *)
(* entries, and the departure_token of each buys a second one with its     *)
(* returns.  A search pairs the first MAX_RETURN_FETCHES usable outbounds  *)
(* with their cheapest returns, one cached and quota-checked call apiece.  *)
(*                                                                         *)
(* Several searches share the cache, the quota and one adapter, hence its  *)
(* side channel.  Of the cache only what Cache implements is used: an      *)
(* answer at most MaxAge old, which may be gone at any time.  What the     *)
(* provider answers to a screen does not change; its age is what counts.   *)
(***************************************************************************)
EXTENDS Integers, Sequences, SequencesExt, FiniteSets

CONSTANTS
    Callers,             \* searches on one adapter, each in its own task
    RoundTrips, OneWays, \* queries, by the presence of a return date
    Entries,             \* Entries[q]: the first screen, in ranked order
    Returns,             \* Returns[token]: prices on the second screen
    NoQuery,             \* of a caller that is not searching
    NoPrice, NoToken,    \* None: an unusable entry, an entry with no token
    Limits,              \* what q.limit can be; it is not part of the cache key
    MaxReturnFetches,    \* MAX_RETURN_FETCHES
    CallsPerWindow,      \* calls the quota admits until its window renews
    MaxAge,              \* of an answer that get_or_fetch returns
    MaxRun,              \* bound: ticks a search may take
    MaxBlind,            \* bound: checks passed in one window with Redis away
    Faults               \* which of "outage", "provider", "crash" can happen

Queries == RoundTrips \cup OneWays
Tokens == DOMAIN Returns
Prices == Nat \cup {NoPrice}
Entry == [price : Prices, token : Tokens \cup {NoToken}]

ASSUME FlightSearchAssumption ==
    /\ RoundTrips \cap OneWays = {} /\ Queries \cap Tokens = {}
    /\ Entries \in [Queries -> Seq(Entry)] /\ Returns \in [Tokens -> Seq(Prices)]
    /\ NoPrice \notin Nat /\ NoToken \notin Tokens
    /\ Limits \subseteq Nat \ {0} /\ MaxReturnFetches \in Nat
    /\ MaxAge \in Nat /\ MaxRun \in Nat
ASSUME QuotaAssumption ==
    /\ CallsPerWindow \in Nat \ {0} /\ MaxBlind \in Nat
    /\ IsFiniteSet(Callers) /\ Callers # {}

Screens == Queries \cup Tokens

VARIABLES
    pc,        \* the await each search is suspended at
    query,     \* what it searches for
    limit,     \* and how many candidates at most
    fetches,   \* return fetches begun; 0: it is at the first screen
    pairs,     \* candidates so far
    since,     \* ticks since observed_at was taken
    result,    \* how each caller's last search ended
    stored,    \* per screen, the age of the cached answer: {} or a singleton
    used,      \* calls counted in this quota window
    blind,     \* ghost: checks passed in it with Redis away
    byRef      \* _context_by_ref: a function on the refs handed out

searchVars == <<pc, query, limit, fetches, pairs, since>>
quota == <<used, blind>>
vars == <<searchVars, result, stored, quota, byRef>>

NoResult == [kind |-> "none"]
Failed == [kind |-> "failed"]
QuotaExceeded == [kind |-> "refused"]
Candidates(q, most, found, context) ==
    [kind |-> "list", query |-> q, limit |-> most, found |-> found, context |-> context]

Init ==
    /\ pc = [c \in Callers |-> "idle"]
    /\ query = [c \in Callers |-> NoQuery] /\ limit = [c \in Callers |-> 0]
    /\ fetches = [c \in Callers |-> 0] /\ pairs = [c \in Callers |-> <<>>]
    /\ since = [c \in Callers |-> 0]
    /\ result = [c \in Callers |-> NoResult]
    /\ stored = [s \in Screens |-> {}]
    /\ used = 0 /\ blind = 0
    /\ byRef = <<>>

Goto(c, label) == pc' = [pc EXCEPT ![c] = label]

---------------------------------------------------------------------------
(* What is on the screens *)

Usable(e) == e.price # NoPrice

\* The ranks in S, up to n, in ranked order.
InOrder(S, n) ==
    LET upto[m \in 0..n] ==
            IF m = 0 THEN <<>>
            ELSE IF m \in S THEN Append(upto[m - 1], m) ELSE upto[m - 1]
    IN  upto[n]

\* The entries with a price, and the outbounds worth a return fetch.
Fares(q) == {i \in DOMAIN Entries[q] : Usable(Entries[q][i])}
Outbounds ==
    [q \in Queries |-> InOrder({i \in Fares(q) : Entries[q][i].token # NoToken}, Len(Entries[q]))]
Token(q, i) == Entries[q][i].token

\* _cheapest_leg: the least price on a return screen, if any leg is usable.
CheapestLeg(token) ==
    LET legs == {Returns[token][i] : i \in DOMAIN Returns[token]} \ {NoPrice}
    IN  {p \in legs : \A r \in legs : p <= r}

\* A candidate: the outbound's rank, the price, and how old that price was
\* when observed_at, its stamp, was taken (negative: it was fetched later).
Pair(i, price, early) == [outbound |-> i, price |-> price, early |-> early]

TypeOK ==
    /\ pc \in [Callers -> {"idle", "lookup", "fetching", "sent"}]
    /\ \A c \in Callers :
          IF pc[c] = "idle" THEN query[c] = NoQuery ELSE query[c] \in Queries /\ limit[c] \in Limits
    /\ fetches \in [Callers -> 0..MaxReturnFetches]
    /\ \A c \in Callers :
          /\ query[c] \in OneWays => fetches[c] = 0
          /\ IF pc[c] = "idle" THEN fetches[c] = 0 /\ pairs[c] = <<>>
             ELSE Len(pairs[c]) < limit[c] /\ Len(pairs[c]) <= fetches[c]
    /\ since \in [Callers -> 0..MaxRun]
    /\ \A s \in Screens : stored[s] = {} \/ \E age \in 0..MaxAge : stored[s] = {age}
    /\ blind \in 0..MaxBlind
    /\ used \in 0..(CallsPerWindow - 1 + Cardinality(Callers) + blind)
    /\ \A ref \in DOMAIN byRef : ref[1] \in Queries /\ ref[2] \in DOMAIN Entries[ref[1]]

Least(m, n) == IF m < n THEN m ELSE n

---------------------------------------------------------------------------
(* Plausible slips in the code, each of which a property below must catch.  *)
(* None of them is part of the specification.                               *)

\* The fan-out counts the candidates it made, not the calls it began.
GoesOnByCandidates(q, most, n, found) ==
    Len(found) < Least(most, MaxReturnFetches) /\ n < Len(Outbounds[q])

\* A candidate has the price of the outbound entry.
CombineOutboundPrice(q, n, age, ticks) ==
    LET i == Outbounds[q][n] IN <<Pair(i, Entries[q][i].price, age - ticks)>>

\* The second screen is kept in a longer tier.
OlderTwice(S) == {age + 1 : age \in {a \in S : a <= MaxAge}}

\* `>` for `>=` in the check.
AdmitAtLimit(c) ==
    /\ pc[c] = "fetching"
    /\ used <= CallsPerWindow
    /\ Goto(c, "sent")
    /\ UNCHANGED <<query, limit, fetches, pairs, since, result, stored, quota, byRef>>

\* Only a list that was not truncated leaves its context.
RegisterWhole(q, found, context) ==
    IF context.quota_truncated THEN UNCHANGED byRef
    ELSE byRef' = [r \in {<<q, found[i].outbound>> : i \in DOMAIN found} \cup DOMAIN byRef |->
                         IF r \in DOMAIN byRef THEN byRef[r] ELSE context]

---------------------------------------------------------------------------
(* The end of a search *)

\* Every candidate's ref leads to the context of the last search with it.
Register(q, found, context) ==
    LET refs == {<<q, found[i].outbound>> : i \in DOMAIN found}
    IN  byRef' = [r \in refs \cup DOMAIN byRef |->
                     IF r \in refs THEN context ELSE byRef[r]]

End(c, r) ==
    /\ Goto(c, "idle")
    /\ result' = [result EXCEPT ![c] = r]
    /\ fetches' = [fetches EXCEPT ![c] = 0] /\ pairs' = [pairs EXCEPT ![c] = <<>>]
    /\ query' = [query EXCEPT ![c] = NoQuery] /\ limit' = [limit EXCEPT ![c] = 0]

\* The side channel is not touched by a search that ends without a list.
EndWithout(c, r) ==
    /\ End(c, r)
    /\ since' = [since EXCEPT ![c] = 0]
    /\ UNCHANGED byRef

EndWithList(c, found, truncated) ==
    LET context == [query |-> query[c], quota_truncated |-> truncated]
    IN  /\ End(c, Candidates(query[c], limit[c], found, context))
        /\ Register(query[c], found, context)

---------------------------------------------------------------------------
(* A screen arrives: everything up to the next await *)

\* _normalize_flights: a one-way list, from the first screen alone.
OneWayList(q, most, age) ==
    LET ranks == InOrder(Fares(q), Len(Entries[q]))
    IN  [n \in 1..Least(most, Len(ranks)) |->
            Pair(ranks[n], Entries[q][ranks[n]].price, age)]

\* _combine: the price of the trip is that of its cheapest return, and an
\* outbound with no usable return is dropped.
Combine(q, n, age, ticks) ==
    LET i == Outbounds[q][n]
    IN  SetToSeq({Pair(i, p, age - ticks) : p \in CheapestLeg(Token(q, i))})

GoesOn(q, most, n, found) ==
    Len(found) < most /\ n < MaxReturnFetches /\ n < Len(Outbounds[q])

\* The loop of _search_round_trip, from one return fetch to the next.
Continue(c, found) ==
    IF GoesOn(query[c], limit[c], fetches[c], found)
    THEN /\ fetches' = [fetches EXCEPT ![c] = @ + 1]
         /\ pairs' = [pairs EXCEPT ![c] = found]
         /\ Goto(c, "lookup")
         /\ UNCHANGED <<query, limit, result, byRef>>
    ELSE EndWithList(c, found, FALSE)

\* observed_at is taken when the first screen is there.
Arrive(c, age) ==
    /\ IF fetches[c] > 0
       THEN Continue(c, pairs[c] \o Combine(query[c], fetches[c], age, since[c]))
       ELSE IF query[c] \in OneWays
            THEN EndWithList(c, OneWayList(query[c], limit[c], age), FALSE)
            ELSE Continue(c, <<>>)
    /\ since' = [since EXCEPT ![c] = IF fetches[c] > 0 /\ fetches'[c] > 0 THEN @ ELSE 0]

---------------------------------------------------------------------------
(* The calls of a search: _get_cached and _fetch *)

Screen(c) ==
    IF fetches[c] = 0 THEN query[c] ELSE Token(query[c], Outbounds[query[c]][fetches[c]])

Search(c, q, most) ==
    /\ pc[c] = "idle"
    /\ Goto(c, "lookup")
    /\ query' = [query EXCEPT ![c] = q] /\ limit' = [limit EXCEPT ![c] = most]
    /\ result' = [result EXCEPT ![c] = NoResult]
    /\ UNCHANGED <<fetches, pairs, since, stored, quota, byRef>>

Hit(c) ==
    /\ pc[c] = "lookup"
    /\ \E age \in stored[Screen(c)] : Arrive(c, age)
    /\ UNCHANGED <<stored, quota>>

Miss(c) ==
    /\ pc[c] = "lookup"
    /\ stored[Screen(c)] = {}
    /\ Goto(c, "fetching")
    /\ UNCHANGED <<query, limit, fetches, pairs, since, result, stored, quota, byRef>>

\* The check of the quota lets the call pass below the ceiling, and whenever Redis
\* does not answer.
Admit(c) ==
    /\ pc[c] = "fetching"
    /\ used < CallsPerWindow
    /\ Goto(c, "sent")
    /\ UNCHANGED <<query, limit, fetches, pairs, since, result, stored, quota, byRef>>
AdmitBlind(c) ==
    /\ "outage" \in Faults
    /\ pc[c] = "fetching"
    /\ blind < MaxBlind
    /\ blind' = blind + 1
    /\ Goto(c, "sent")
    /\ UNCHANGED <<query, limit, fetches, pairs, since, result, stored, used, byRef>>

\* A refusal unwinds past the cache.  On the first screen it is the answer; on
\* a later one it ends the loop, and is the answer if there is nothing else.
Refused(c) ==
    /\ pc[c] = "fetching"
    /\ used >= CallsPerWindow
    /\ IF pairs[c] = <<>>
       THEN EndWithout(c, QuotaExceeded)
       ELSE EndWithList(c, pairs[c], TRUE) /\ since' = [since EXCEPT ![c] = 0]
    /\ UNCHANGED <<stored, quota>>

\* The answer is counted, however many others were since the check, and stored
\* (unless Redis is away, or another call's answer is written after it), and the
\* search goes on with it.
Answer(c) ==
    /\ pc[c] = "sent"
    /\ \/ used' = used + 1
       \/ "outage" \in Faults /\ used' = used
    /\ UNCHANGED blind
    /\ \E kept \in {stored[Screen(c)], {0}} : stored' = [stored EXCEPT ![Screen(c)] = kept]
    /\ Arrive(c, 0)

\* An error status or no JSON raises out of the whole search.
RequestFails(c) ==
    /\ "provider" \in Faults
    /\ pc[c] = "sent"
    /\ EndWithout(c, Failed)
    /\ UNCHANGED <<stored, quota>>

---------------------------------------------------------------------------
(* The environment *)

Crash(c) ==
    /\ "crash" \in Faults
    /\ pc[c] # "idle"
    /\ EndWithout(c, NoResult)
    /\ UNCHANGED <<stored, quota>>

\* Expiry, which comes at most MaxAge after the answer, a restart, an outage.
Forget(s) ==
    /\ stored[s] # {}
    /\ stored' = [stored EXCEPT ![s] = {}]
    /\ UNCHANGED <<searchVars, result, quota, byRef>>

Older(S) == {age + 1 : age \in {a \in S : a < MaxAge}}

Tick ==
    /\ \A c \in Callers : pc[c] # "idle" => since[c] < MaxRun
    /\ since' = [c \in Callers |-> IF pc[c] = "idle" THEN 0 ELSE since[c] + 1]
    /\ stored' = [s \in Screens |-> Older(stored[s])]
    /\ UNCHANGED <<pc, query, limit, fetches, pairs, result, quota, byRef>>

NewWindow ==
    /\ used' = 0 /\ blind' = 0
    /\ UNCHANGED <<searchVars, result, stored, byRef>>

Proceed(c) == Hit(c) \/ Miss(c) \/ Admit(c) \/ AdmitBlind(c) \/ Refused(c) \/ Answer(c) \/ RequestFails(c)

Next ==
    \/ \E c \in Callers, q \in Queries, most \in Limits : Search(c, q, most)
    \/ \E c \in Callers : Proceed(c) \/ Crash(c)
    \/ \E s \in Screens : Forget(s)
    \/ Tick \/ NewWindow

Spec == Init /\ [][Next]_vars

---------------------------------------------------------------------------
(* Properties *)

\* The price frontier: of the first usable outbounds, as many as may be looked
\* at, those that can be returned from.
Looked(q) == 1..Least(MaxReturnFetches, Len(Outbounds[q]))
Frontier(q) == {i \in {Outbounds[q][n] : n \in Looked(q)} : CheapestLeg(Token(q, i)) # {}}

\* What a search could list, were there no quota and no limit.
WholeList(q) == IF q \in RoundTrips THEN Frontier(q) ELSE Fares(q)

\* A list is the best ranked part of the whole frontier, in order and with no gap,
\* each outbound at the total of its cheapest return; and it is all of it up to
\* the limit, or its context says that quota cut it short, and it is not empty.
\* A refusal is never told as "no flights", whatever mix of hits, misses,
\* refusals and failures of other searches the list was made from.
WholeOrTold ==
    \A c \in Callers : result[c].kind = "list" =>
        LET r == result[c]
            n == Len(r.found)
            rank == [i \in 1..n |-> r.found[i].outbound]
            all == WholeList(r.query)
        IN  /\ n <= r.limit
            /\ \A i \in 1..n :
                  /\ {j \in all : j <= rank[i]} = {rank[k] : k \in 1..i}
                  /\ \A k \in 1..(i - 1) : rank[k] < rank[i]
                  /\ r.found[i].price \in
                        IF r.query \in RoundTrips
                        THEN CheapestLeg(Token(r.query, rank[i]))
                        ELSE {Entries[r.query][rank[i]].price}
            /\ IF r.context.quota_truncated THEN n > 0
               ELSE n = r.limit \/ all = {rank[k] : k \in 1..n}

\* Every price was quoted at most MaxAge before the observed_at it carries,
\* though observed_at is the time of the search and not that of the answer,
\* and the two screens of a trip may be of different ages.
StampHonest ==
    \A c \in Callers : result[c].kind = "list" =>
        \A i \in DOMAIN result[c].found : result[c].found[i].early \in (-MaxRun)..MaxAge

\* Whatever other searches on the adapter do meanwhile, a caller that holds a
\* candidate finds its search's context, or that of a later search for the
\* same query, by its ref.
RefsKnown ==
    \A c \in Callers : result[c].kind = "list" =>
        \A i \in DOMAIN result[c].found :
            LET ref == <<result[c].query, result[c].found[i].outbound>>
            IN  ref \in DOMAIN byRef /\ byRef[ref].query = result[c].query
=============================================================================
