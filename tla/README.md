# Formal models of the travel agent's provider layer

The program (`src/app`) is the back end of a trip-planning agent. What it has
today is its provider layer: five adapters (flights, hotels, Airbnb, places,
activities) that call paid APIs through a cache and a quota kept in one shared
Redis. Several processes, and several tasks in each, run these adapters at
once; the agent, the database writers and the worker are not there yet. The
hard part is therefore not any one adapter but the protocol they all follow:
check the quota, look in the cache, call, count, store, with another caller, a
crash or a Redis restart between any two of these.

## Inventory

| Component | State | Operations | Hard behaviour |
|---|---|---|---|
| Quota (`shared/quota.py`) | two Redis counters with TTLs per provider; the turn id of the task | `check`, `increment`, `start_turn`, `reset_turn`, `peek` | check-then-act over the network; INCR and EXPIRE apart; hour rollover; fails open |
| Cache (`shared/cache.py`) | one Redis entry per key, with a TTL by tier | `get_or_fetch`, `clear_cache` | no single flight; entries of other code versions; Redis away |
| Flights (`adapters/flights.py`) | `last_search_context`, `_context_by_ref` | `search`, `resolve`, `reprice`, `resolve_booking_options` | two-stage search with a call budget; under-specified pins sell half a trip |
| Hotels (`adapters/hotels.py`) | none | `search`, `resolve`, `reprice` | paging, partial results, what gets cached |
| Airbnb (`adapters/airbnb.py`) | none | `search`, `availability`, `resolve`, `reprice` | dated call known to fail, undated fallback, two calls of a scarce quota |
| Places (`adapters/places.py`) | none | `search`, `details`, `geocode`, `reverse_geocode` | pages and page tokens cached for 30 days, geocodes for good |
| Activities (`adapters/activities.py`) | none | `search` (attractions, events) | quota check in front of the cache, pages of different ages |
| Cassettes (`shared/cassettes.py`) | files | record, replay | writes in place, fingerprints |
| Registry (`agent/registry.py`, `api/__init__.py`) | `_registry` | `get_tools`, `register_tool` | a partial registry after a failed import |
| Types (`models/types.py`) | none | `Priced`, `price_drift`, validators | required fields, units |
| Seed (`scripts/seed.py`) | one transaction | check, insert users, insert items, commit | a row that breaks a constraint takes all others with it; two runs at once |
| Schema and migration (`models/db.py`, `alembic/`) | tables | create | constraints that the seed meets; nothing else writes yet |
| Health, settings, deployment | none | probe | the in-memory Redis restarts empty (`render.yaml`) |

Adapters call `quota_counter` and `get_or_fetch`; `get_or_fetch` calls back
into the adapter's `fetch`, where hotels, Airbnb, flights and places check and
count the quota. Activities check it before the cache and count it in the
callback. Nothing else is shared between calls except Redis.

`PROJECT.json` lists every component with its status, every hazard with its
line, and the source lines of every definition.

## Modules

| Module | What it is | Code |
|---|---|---|
| `Quota` | the counters of one provider and trip, one action per Redis command | `quota.py`; the two orders of use in the adapters |
| `QuotaProofs` | its type invariant, bounds and window properties, proved | |
| `ReadThrough` | abstract: what a read-through cache promises | (specification) |
| `Cache` | `get_or_fetch` for one key, one action per await | `cache.py` |
| `CacheProofs` | type, age bound, and that `Cache` implements `ReadThrough`, proved | |
| `LodgingSearch` | `search()` of hotels and Airbnb: paging and quota inside `Cache` | `hotels.py`, `airbnb.py` |
| `LodgingSearchProofs` | its type and all its safety properties, and that it is a read-through cache, proved | |
| `StayOffer` | `availability`, `resolve`, `reprice` and the date check of hotels and Airbnb; the fields a price is derived from | `hotels.py`, `airbnb.py` |
| `StayOfferProofs` | its type, and what a call may tell of a stay, proved | |
| `PagedSearch` | `search()` of activities; `search()`, `details`, `geocode`, `reverse_geocode` of places: pages cached one by one | `activities.py`, `places.py` |
| `PagedSearchProofs` | all five of its properties, and what `_in_window` computes, proved | |
| `FlightSearch` | `search()` of flights: two screens, a fan-out of paid calls, the contexts by ref | `flights.py` |
| `FlightSearchProofs` | all four of its properties, proved | |
| `FlightBooking` | `resolve_booking_options`, `resolve`, `reprice` | `flights.py`, `types.py` |
| `FlightBookingProofs` | its type, and that links, refusals and prices are right, proved | |
| `Induction` | induction and the values of recursive functions, in a form that a prover can instantiate; the step by which callers overdraw a limit | |
| `Seed` | the seed script against the constraints of its tables | `seed.py`, `db.py` |
| `MC*` | finite instances for TLC | |

Every module that a passing run checks has a section "Plausible slips": operators that restate one of
its definitions the way a bug would. They are not part of the specification;
each is there to be put in a definition's place, and some property must then
fail.

### Quota

A caller is one task making one provider call at a time. `pc` names the await
it is suspended at: the GET of the turn key, the GET of the hour key, INCR and
EXPIRE of each, the request. `bucket` is the hour in the hour key it last
built: `check()` and `increment()` build it separately. `CountFirst` tells the
adapters apart that increment before they send (`hotels`, `airbnb`,
`activities`) from those that increment after the answer was parsed
(`flights`, `places`). A provider has its own keys and one order. Between check
and increment activities look the page up in the cache (`admitted`): a hit ends
the call there (`Hit`), a miss builds the hour key anew (`Miss`). For hotels and
Airbnb the two are adjacent.

`sent`, `blind` and `lost` are ghosts: requests that left in this hour, checks
passed with Redis away, requests the hour counter does not know. They have no
part in any guard but the two bounds on faults (`MaxSlack`). `orphanTurns` and
`orphanHours` are the counters whose creator was stopped between INCR and
EXPIRE.

Redis executes one command at a time; a failed command may or may not have
been executed (`IncrOutage`), since a read timeout looks the same as a refused
connection. No command is retried.

### Cache and ReadThrough

`ReadThrough` says what callers rely on: a call ends with a value the provider
gave at most `MaxAge` ago, or with the failure of a request made for it. It
has no entry, TTL or write. `Cache` has all of
them and implements it: what may be given to a caller (`given`) is the entry
and the answers callers are about to write.

An entry carries the `shape` (model class of a code version) it was encoded
in. `Decoding` says what a reader of another version makes of it: it loads,
fails validation (`ValueError`, a miss) or does not load at all
(`ImportError`, `AttributeError`: not caught).

An answer may be of some age already when the fetch returns: a list is as old
as its first page, read several awaits earlier. `Lag` bounds that age and the
time to the write together.

### LodgingSearch

One fetch is a loop over pages: check the quota, count, ask, add up, decide,
with an await at each of the first three (`stage`). `Cache` is
instantiated with lists as answers: how many listings, and (a ghost) whether
the fetch ran to its end. A `Site` is what is searched: the provider's pages and
how many the adapter may ask for, one for Airbnb. The quota is one counter of
calls (`used`) that starts again with each window; that it is two keys, and what
becomes of their TTLs, is the subject of `Quota`. Other searches check and count
between a search's check and its count, and a check with Redis away passes at any
count (`AdmittedBlind`, at most `MaxBlind` times in a window), so that `used` may
exceed the limit: by one call for every other search and one for every blind
check, which is the conjunct on `used` of `TypeOK`. `StayOffer`, `PagedSearch` and
`FlightSearch` have the same quota.

### StayOffer

One stay, found by a search, that callers ask about while the provider's offer
for it changes (`OfferChanges`). `pc` is where a call is: checking the quota for
the dated request, counting it, waiting for it, and, for `availability`, the same
again for the undated one. An answer is a row with the fields the provider has for it;
which of them are there, and what the adapter makes of those (`FirstKnown`,
`PerNight`), is translated field by field, since the same number is the total
for the stay under one name and per night under another. Money is in cents.
`during`, `answered` and `kept` are ghosts: what was in force since the call
began, whether its request for the dates was answered, and whether the offer is
still the one the search saw. `built` is what `reprice` would have said: the
`Priced` it constructs lacks `price_unit`, as in `FlightBooking`, so that the
call itself ends in a `ValidationError` (`told`), and what was paid for is lost:
`stay_reprice` shows it. The price properties are about `built`. That the lookup
of a property token answers with that property is an assumption about the
provider: `reprice` and `resolve` take the first of `properties[]` without
comparing tokens (`hotels.py:523, 559`).

### PagedSearch

Unlike hotels, places and activities cache each page under a key of its own,
so that searches with different limits, windows and kinds share pages. A
`source` is which search runs: places (`chained`: a page is named by the token
of the page before), events (named by offset, records listed once),
attractions (one page) or a lookup (one page; `mute` ones, the geocodes, give
an empty answer for a refusal). A page is its request and the version of the
provider's list it was cut from (`Lists`, one version after the other); `given`
is what the cache may still hold, and only the promise of `ReadThrough` is used
of it, without a bound on age. `read` stands for the loop index and the page
token. That a token continues the list that issued it is an assumption about the
provider. A kind is a set of records. An event's date has no year: a place in
the calendar of a leap year, and `InWindow` asks, as `_in_window` does, whether
some year of the trip puts it inside the window; place 0 is a day that no year has (April 31), which
the code drops. The properties do not use it:
they walk through the days of the trip one by one (`TripDays`). Nor do they use
the loop that collects (`Collect`): `Kept` says which records of some pages are
to be listed, and `Leads` that a list has them in their places. How a date is
read out of its text, the window out of the query, and the scores that order
geocode candidates are left out.

### FlightSearch

A search is a chain of cached calls: `fetches` says which (0: the first
screen), and everything the code does between two awaits is part of the step
that brings an answer (`Arrive`). Of the cache only its promise is used, an
answer of age at most `MaxAge` that may be gone at any time: `Cache` is proved
to keep it. `early` is how long before its stamp (`observed_at`) a price was
quoted. Entries are ranked, and a candidate is named by the rank of its
outbound. `WholeOrTold` compares the list with `Frontier`, the set of ranks that
states the result without the loops. The answers of the provider do not change in the
model, only their age does; `last_search_context`, which nothing reads, is left
out.

### FlightBooking

A call of `resolve` or `reprice` with a pin, the provider's answer as a
sequence of blocks, the coverage check, the order of options, and the
arguments of the `Priced` that `reprice` constructs (`built`) apart from what
comes of constructing it (`outcome`). The nesting of blocks in options is
flattened in the order the code reads them.

### Seed

Each run of the script is one transaction in a process of its own; a row is
its two enums, its place and its owner, which is all that the constraints of
`saved_items` see. The rows are those of the script. An INSERT of a user waits
for another transaction that holds the same id.

## Runs

Passing runs (bounds in the `.cfg` files):

| Run | Question | Bounds and why they are enough |
|---|---|---|
| `quota_answer_first` | how far can counters and requests of an hour overshoot, with every fault? | 2 callers, limits of 2, three hours of two ticks, one fault of each bounded kind: every interleaving of two check/increment pairs, with a rollover in between. The theorems have no bounds. |
| `quota_count_first` | how far do requests overshoot where the count comes first? which counters have no TTL, and does every other run out at its time? | 2 callers, the other order, limits of 1 and three hours of which two are metered, so that a call counted in one hour leaves in the next; outages, which leave checks blind, calls uncounted and EXPIREs unsent. A crash is an outage after which the caller does not go on, and `quota_answer_first` has it; a wipe can drop a counter under its creator, which then extends the TTL of the next one. The bound on requests is reached: TLC finds it violated when it is one less |
| `cache_tier` | is it a read-through cache; how old can a value be? | 3 callers: a reader, a fast and a slow writer; TTL of 2 ticks, answers that take up to 1 to be written; two model versions |
| `cache_poison` | does an entry that cannot be loaded go away? | 2 callers of two versions |
| `lodging_searches` | what may be stored and served as a result list? does a list that was cut short leave the cache? how far is the quota overdrawn? | hotels: 4 pages with an empty one in the middle, 3 asked for (`_MAX_PAGES` is 2 in the code: 3 lets a page fall between the first and the last); Airbnb: one page; 2 callers; a quota of 2 calls, that runs out in mid-search and that both can overdraw; one blind check in a window. Redis answers the cache, or a search could store a shortened list again and again |
| `paged_searches` | what can a search make of pages that others cached? how far is the quota overdrawn? | 2 searches that differ in limit (1, 3, 4) and window; full pages of 2 (10 and 20 in the code), up to 3 of them; a list with a repeated event and a second version that shifts everything by one across the page boundaries; three places of each version that match, so that a limit of 3 is met on the second page of one and the last of the other, and one of 4 on none; dates at either side of the window's edges, one that cannot be read and one in no calendar; a trip across a new year, in a calendar of two years of six days, for which the first page is empty; a quota of one call and one blind check in a window, so that any page may be refused |
| `flight_search` | is the list the whole price frontier, or is it told that it is not? how old are its prices? how far are quota and budget overdrawn? | 2 searches on one adapter; 6 entries, of which one has no price, one no token, one no return and two lie past the fan-out of 2 (3 in the code, which the theorems cover); a quota of two calls and one blind check in a window, so that a search of three calls may be refused at each of them; every cached screen may be gone at any time; a search takes up to one tick, a screen is kept for one |
| `flight_options` | is the link, the refusal and the price right? | all answers of up to 3 blocks out of 26, all kinds of pin: two legs need two blocks, and a third one competes |
| `stay_offers` | what may a call tell of a stay whose offer changes under it? how far do calls of up to two requests overdraw the quota? | 2 callers; a quota of one call and one blind check in a window, so that either request is refused or admitted; 3 offers: two prices of which one does not divide by the nights, and taken but still priced; stays of three nights, of no night, and, a day later, in the past. An offer without any price is left to the theorems |

Runs that show where the code and its documents disagree:

| Run | What it shows |
|---|---|
| `flight_half_trip` | `resolve` returns the link of one leg of a round trip when no link sells both |
| `stay_reprice` | `reprice` of hotels and Airbnb always raises: `Priced` is constructed without `price_unit`, after a request that was paid for and answered. That of flights (`flights.py:551, 576, 588`) does the same |
| `seed_fresh` | the seed script fails on an empty database: four places occur twice, and the column is unique |

More behaviours that the models have, and a reader of the documents may not
expect:

- An outage or a crash between INCR and EXPIRE leaves a counter without a TTL,
  and nothing repairs it: once at its limit it refuses for ever, though
  `quota.py:30` calls the TTL "a leak-stopper" (`orphanTurns` in `RefusalEnds`,
  `TurnWindowEnds` and `HourWindowEnds`). Since nothing in `app/` starts a turn,
  the counter is that of the one default turn.
- Two concurrent calls can exceed the hourly ceiling with no fault:
  `SpendBound` allows one call per caller, and TLC finds `sent <= HourLimit`
  violated.
- A list put together from pages of different versions may leave an event out
  that both versions have: `WholeMeansAll` speaks of pages of one version.
- Flights and places do not count a request that ends in an error, which the
  PRD asks for (`lost` in `SpendBound`).
- An entry whose class was renamed or moved raises on every read instead of
  counting as a miss as `cache.py:187` has it; `PoisonEnds` is what remains
  true.
- A hotel list that a failure on page two cut short is cached for the tier
  (`ShortenedEnds` is what remains true).
- A pin without flight numbers is covered by any option (`Trip` counts numbered
  segments only).
- An event search with a narrow window is short although later pages have more
  (the last disjunct of `WholeMeansAll`).
- A place search whose token has died fails, pages in hand, as long as the page
  with that token is cached (`AnswerError`).
- The undated Airbnb answer carries a base price in `stay_total`; it is marked
  `dates_applied = False`, and `LivePrice` asks for the price per night only.
- `DriftMeansChange` leaves out the search row that has nothing but a price
  breakdown of several entries: the adapter takes the first, adjustments or not.
- Dates in the past are rejected by Airbnb's `search` only, not by
  `availability` or `reprice`.

`IsReadThrough` and `ReadThrough` are refinements: the abstract specification
is the property.

`quota_answer_first` and the runs of `PagedSearch`, `FlightSearch` and `StayOffer`
use symmetry over callers; no run that checks liveness does.

## Fairness

`WF(Proceed(c))`: every await of a call ends, because the Redis client has a
socket timeout of two seconds and the HTTP client one of sixty. `WF(Tick)`:
time goes on. `WF(NewWindow)`: quota keys run out, which `Quota` shows for every key
whose EXPIRE was sent (`RefusalEnds`). No fairness is assumed of new calls, of faults or of their
absence, and `WF` of a disjunction leaves open which outcome an await has.

## Proofs

Checked by TLAPS, for every value of the constants that satisfies the ASSUMEs.

*Overdrawing a limit.* All counters are bounded by one argument, stated once as
`OverdrawStep`: what is counted, and the callers between check and count. A step
puts nobody between and counts nothing, or finds the counter below the limit and
lets a caller pass, or lets one pass blind, or counts one who was between. The sum
of both is below the limit when a check succeeds, up to those already between,
who are at most all other callers; a blind check is counted as such; a count moves
a caller from one term to the other.

*Quota.* `TypeCorrect` first. In `TurnBoundHolds` those between are
`TurnExposed`: past the check of the turn, not yet counted. `HourBoundHolds` is
the same with a set (`HourExposed`) that includes callers checked against an
earlier hour's bucket. `TurnWindowHolds` and `HourWindowHolds` hold with every
fault: a counter without a TTL has a creator on its way to EXPIRE, and the step
that takes the creator away makes the counter an orphan; a counter that is created
anew has a creator again. `WindowNeverExtendedHolds` needs that a creator is
unique, which holds unless the counter is dropped while its creator is still on
its way to EXPIRE.
`SpendBoundHolds` is about requests, not counters: a request of this hour is in
the hour's counter, known to be lost, or made by a caller whose account is not
settled (`Unsettled`), and every step keeps `sent` within that sum. Two facts
make it inductive: the hour's counter does not run out within the hour
(`FreshKey`), and no caller names a bucket of the future. `HourBound` then
bounds the counter, and with it the callers where the count comes last.

*Cache.* `AgeBoundHolds`: an entry's age and its remaining TTL add up to at
most `MaxAge`; this is inductive because a write takes over an answer not
older than `Lag`. `RewindBoundHolds` follows from it step by step.
`KeepsPromise` maps every step to a step of `ReadThrough` or a stutter; it uses
`AgeBound` to show that an expired answer is never given.

*Loops over sequences.* The library states induction, and that a recursive
function has the values its definition promises, for an operator, which the
provers cannot instantiate. `Induction` proves both for a set and for a function
that stands for the step (`NumberInduction`, `RecursionHasValues`), from the
library's well-founded order on numbers. That is why loops are recursive
functions over `0..n` in the modules below (`Listings`, `Collect`, `InOrder`)
and not folds, and it brings what they compute within reach: a lemma says of
each what its value is after `n` steps.

*LodgingSearch.* `IsReadThroughHolds` shows that each step is a step of `Cache`
or leaves its variables alone, and takes the rest from `KeepsPromise`, whose
assumptions (a tier with a TTL, one model shape) the search meets. For
`PartialBeatsNoneHolds` and `NoFailureCachedHolds` the invariant speaks of
every list that is held, stored or returned: one that was cut short holds
something, and was made by a search of more than one page.
`WholeMeansAllHolds` adds what a fetch has in hand: the listings of all pages
before the one it is at. A sum over pages grows by the next page, and is less
than the limit as long as the fetch goes on. `TypeCorrect` adds `Metered`, the sum
of `OverdrawStep` over the searches between check and count.

*StayOffer.* The inductive invariant has four parts: types (`Typing`); what a
call under way has begun with (`Running`); that what was told or built is true
of an offer in `during` (`Truthful`); and, for `DriftMeansChange`, that the
saved price is that of the offer in force since (`Steady`). The rounding is a
lemma on `Nearest`, for every amount and number of nights.

*FlightBooking.* `RefusalsHonestHolds`: the outcome of a refusal implies that
no option was kept, and a block that sells the trip or its leg is always kept
(`SellersAreKept`). For `BestWholeTripHolds` and `PriceIsChargedHolds` the
invariant (`AnswerInv`) says that the answer is the first of the kept options in
the code's order; that a first one exists, and a cheapest leg, rests on the
least-number principle (`LeastNumber`), taken from the library's well-founded
order on numbers.

*PagedSearch.* `OneListHolds`: the pages in hand form a chain of pages the
provider has given (`ChainInv`), and a token names the list of the last of them.
The other properties follow from `MadeInv`. Of a search in progress it says that
what is collected is what was wanted on the pages read (`AllOf`), that these go
on from one another and, as far as they are of one version, are that version's
list up to where they end (`Whole`), and that this is not past its end
(`NotPast`); of a result, what its search had collected and why it stopped
(`Tells`, `Far`). `AllOf` is stated by counting: the record with `n` kept ones
up to it is at place `n`, and every place is that of a kept record. From this
`NoDuplicatesHolds` is immediate, since kept records differ. `PageCollected`
shows that a page keeps it: one record after the other for `Collect`
(`CollectKeepsFull`), which rests on `InWindowMeansTripDay`: `Tomorrow` leads to
the next date there is, hence the days of a trip are the dates between its ends
(`TripDaysAreDates`), and one of them has the event's day exactly if `_in_window`
finds a year for it. `CeilingFacts` is the rounding up in the number of pages.
`TypeCorrect` has an invariant of its own for the quota (`QuotaInv`), which is
`OverdrawStep`'s sum over the searches let through that have not counted
(`Pending`).

*FlightSearch.* `SearchInv` says of a search in progress that its candidates are
the outbounds of the fetches so far that can be returned from, in their ranked
order and at their cheapest returns, none of them older than a cached screen may
be; of a result, that it is such a list of the whole frontier, or of a part
whose context says so. `InOrder` is shown to list a set of ranks in ascending
order and without a gap. `TypeCorrect`, `WholeOrToldHolds` and
`StampHonestHolds` follow from it. `RefsKnownHolds`: a step of any search keeps
every ref and either the query of its context or that in the ref itself
(`KeepsRefs`).

Every invariant and action property that a passing run checks is stated by a
theorem. Model-checked only: liveness (`RefusalEnds`, `PoisonEnds`,
`ShortenedEnds`), which is beyond the prover, as is `ENABLED`; and the three
runs that show disagreements, which are counterexamples. The theorems are about the
models: that a provider's token continues the list that issued it, for one, is
an assumption built into them.

## Not modelled

- The tool registry: no tool module exists at this commit, so the registry is
  empty whenever it is read.
- Cassettes: record and replay of provider answers, an instrument of the tests
  that the program does not run with.
- The health endpoint, settings and deployment, which keep no state; the
  in-memory Redis of `render.yaml` is the `Wipe` fault.
- The tables other than `users` and `saved_items`, which no code fills.
- Field normalizers whose output is wording (names, ratings, links, addresses,
  cancellation terms), and the scores of geocode candidates.
- `peek`, `price_drift` and the validator of `NormalizedActivity`, which change
  nothing and have no caller in `app/`; `last_search_context`, which nothing
  reads.
- The vendored skills under `.agents/` and `.pi/`.
