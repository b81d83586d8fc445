----------------------------- MODULE StayOffer -----------------------------
(***************************************************************************)
(* What the hotels and Airbnb adapters (app/travel/adapters) tell of one   *)
(* stay after it was found by a search: availability(), resolve() and      *)
(* reprice(), each a chain of paid calls with the provider's offer for the *)
(* stay changing under it.                                                 *)
(*                                                                         *)
(* Airbnb's dated details call is expected to fail; the undated one that   *)
(* then follows says nothing of the dates.  Search and details name the    *)
(* same figure differently, and each adapter derives a price per night     *)
(* from whichever field is there.  Money is in cents.                      *)
(***************************************************************************)
EXTENDS Integers, Sequences, FiniteSets, FiniteSetsExt

CONSTANTS
    Callers,          \* concurrent calls with a ref of the stay
    Stays,            \* what may be asked for: see Stay
    Offers,           \* what the provider may offer for the stay: see Offer
    BasePrice,        \* what Airbnb asks for when it is given no dates
    OtherPrice,       \* what other properties, sponsored ones, ask for
    Discount,         \* what a second breakdown entry takes off the first
    CallsPerWindow,   \* calls the quota admits until its window renews
    MaxBlind,         \* bound: checks passed in one window with Redis away
    LastDay,          \* bound: the days told apart
    None              \* an absent field; a price nobody quoted

Stay == [provider : {"hotels", "airbnb"}, check_in : Int, check_out : Int]

\* free: whether the dates can be had; quote: the total for the stay.
Offer == [free : BOOLEAN, quote : Nat \cup {None}]

ASSUME NoneAssumption == None \notin Int /\ None \notin BOOLEAN
ASSUME OffersAssumption == Stays \subseteq Stay /\ Offers \subseteq Offer
ASSUME MoneyAssumption == BasePrice \in Nat /\ OtherPrice \in Nat /\ Discount \in Nat
ASSUME QuotaAssumption == /\ CallsPerWindow \in Nat \ {0} /\ MaxBlind \in Nat
                          /\ IsFiniteSet(Callers) /\ Callers # {}
ASSUME BoundsAssumption == LastDay \in Nat

VARIABLES
    stay,      \* the stay, and the adapter asked for it
    today,     \* the UTC date
    offer,     \* the provider's offer for the stay
    used,      \* calls counted in this quota window
    blind,     \* ghost: checks passed in it with Redis away
    saved,     \* what the item kept of the search: <<>> or <<price per night>>
    pc,        \* where each call is
    op,        \* the method called
    told,      \* how the call ended
    built,     \* arguments of the Priced a reprice constructed, or <<>>
    during,    \* ghost: the offers in force since the call began
    answered,  \* ghost: the provider has answered a request for the dates
    kept       \* ghost: the offer has not changed since the search, and the
               \* search was given it without adjustments

callVars == <<pc, op, told, built, during, answered>>
quota == <<used, blind>>
vars == <<stay, today, offer, quota, saved, callVars, kept>>

Operations == {"availability", "resolve", "reprice"}
Silence == [what |-> "nothing"]

---------------------------------------------------------------------------
(* Prices *)

Absolute(n) == IF n < 0 THEN -n ELSE n

\* round(amount / parts) for amounts that are not negative.
Nearest(amount, parts) == (2 * amount + parts) \div (2 * parts)

\* The first of several fields that is there.
FirstKnown(fields) ==
    LET known == {i \in DOMAIN fields : fields[i] # None}
    IN  IF known = {} THEN None
        ELSE fields[CHOOSE i \in known : \A j \in known : i <= j]

nights_between(s) == s.check_out - s.check_in
nights == nights_between(stay)

\* Per-night is derived from a total for the stay.
PerNight(total) ==
    IF total = None \/ nights < 1 THEN None ELSE Nearest(total, nights)

---------------------------------------------------------------------------
(* How a call ends *)

Tell(c, outcome) ==
    /\ told' = [told EXCEPT ![c] = outcome]
    /\ pc' = [pc EXCEPT ![c] = "idle"]

Fail(c, code) == Tell(c, [what |-> "LodgingProviderError", code |-> code])

\* A Priced cannot be made without price_unit, which is required; what it would
\* have said is kept apart.
Price(c, args) ==
    /\ built' = [built EXCEPT ![c] = <<args>>]
    /\ Tell(c, [what |-> IF "price_unit" \in DOMAIN args THEN "Priced" ELSE "ValidationError"])

\* A call waits for the check of the quota, for the count of it, or for the
\* provider, before the dated request and before the undated one.
Checking == {"spend", "spendAgain"}
Counting == {"count", "countAgain"}
After == [spend |-> "count", count |-> "dated",
          spendAgain |-> "countAgain", countAgain |-> "undated"]

GoOn(c) ==
    /\ pc' = [pc EXCEPT ![c] = After[@]]
    /\ UNCHANGED <<stay, today, offer, saved, kept, op, told, built, during, answered>>

---------------------------------------------------------------------------
(* Plausible slips in the code, each of which a property below must catch.  *)
(* None of them is part of the specification.                               *)

\* nightly_rate is believed to be what its name says.
SearchPerNightByName(row) ==
    FirstKnown(<<PerNight(row.total_cost), row.nightly_rate>> \o row.cost_breakdown)

\* Sponsored results are read with the others, in front of them.
RecordsWithAds(payload) == payload.ads \o payload.properties

\* An undated answer is parsed like a dated one.
ParseDetailsAlwaysDated(row, dated) ==
    LET total == FirstKnown(<<row.total, row.rate>>)
    IN  [what |-> "AirbnbAvailability",
         is_available |-> row.is_available,
         stay_total |-> total,
         per_night |-> PerNight(total),
         dates_applied |-> TRUE]

\* A price is looked at, is_available is not.
PriceWithoutAvailability(a) ==
    IF a.per_night # None THEN [status |-> "available", price_usd |-> a.per_night]
    ELSE [status |-> "unavailable", price_usd |-> None]

\* `>` for `>=` in the check.
AdmittedAtLimit(c) ==
    /\ pc[c] \in Checking
    /\ used <= CallsPerWindow
    /\ GoOn(c)
    /\ UNCHANGED quota

---------------------------------------------------------------------------
(* What the provider sends for an offer, and what the adapters read in it *)

\* A google_hotels property.  There is no availability signal: a property that
\* is not free quotes no price.  rate_per_night is the lowest vendor's.
HotelRows(o) ==
    IF ~o.free \/ o.quote = None
    THEN {[rate_per_night |-> None, total_rate |-> None, prices |-> {}, link |-> l] :
              l \in BOOLEAN}
    ELSE LET rate == Nearest(o.quote, nights)
         IN  {[rate_per_night |-> r, total_rate |-> t, prices |-> v, link |-> l] :
                 r \in {None, rate}, t \in {None, o.quote},
                 v \in {{rate}, {rate, rate + OtherPrice}}, l \in BOOLEAN}

\* A sponsored result is of another property.
Sponsored ==
    [rate_per_night |-> OtherPrice, total_rate |-> None, prices |-> {}, link |-> TRUE]

\* The property at the top level or alone in properties[], or no property at
\* all when there is nothing to sell.  That the lookup of a token answers with the
\* token's property is assumed of the provider: the code does not compare them.
HotelPayloads(o) ==
    {[properties |-> p, ads |-> a] :
        p \in {<<row>> : row \in HotelRows(o)}
              \cup (IF o.free /\ o.quote # None THEN {} ELSE {<<>>}),
        a \in {<<>>, <<Sponsored>>}}

PropertyRecords(payload) == payload.properties

\* rate_per_night, else the total by nights, else the cheapest vendor.
HotelPerNight(row) ==
    FirstKnown(<<row.rate_per_night, PerNight(row.total_rate),
                 IF row.prices = {} THEN None ELSE Min(row.prices)>>)

\* An omkar search row: total_cost, the stay total called nightly_rate, or a
\* breakdown of which only the first entry is read.
SearchRows(o) ==
    {[total_cost |-> t, nightly_rate |-> r, cost_breakdown |-> b] :
        t \in {None, o.quote}, r \in {None, o.quote},
        b \in {<<>>, <<o.quote>>, <<o.quote + Discount, Discount>>}}

SearchPerNight(row) ==
    PerNight(FirstKnown(<<row.total_cost, row.nightly_rate>> \o row.cost_breakdown))

\* The price of such a row includes what another entry takes off it.
Adjusted(row) ==
    row.total_cost = None /\ row.nightly_rate = None /\ Len(row.cost_breakdown) > 1

\* An omkar details answer for dates: total is exact, rate is rounded to
\* dollars.  Without is_available, a price means that the dates can be had.
DetailsRows(o) ==
    {row \in [is_available : {o.free, None}, total : {None, o.quote},
              rate : {None, IF o.quote = None THEN None
                            ELSE 100 * Nearest(o.quote, 100)}] :
        /\ o.free /\ o.quote # None => row.total # None \/ row.rate # None
        /\ ~o.free /\ row.is_available = None => row.total = None /\ row.rate = None}

\* Without dates: the listing, and its base price.
UndatedRows ==
    [is_available : BOOLEAN \cup {None}, total : {None, BasePrice}, rate : {BasePrice}]

parse_details(row, dated) ==
    LET total == FirstKnown(<<row.total, row.rate>>)
    IN  [what |-> "AirbnbAvailability",
         is_available |-> IF dated THEN row.is_available ELSE None,
         stay_total |-> total,
         per_night |-> IF dated THEN PerNight(total) ELSE None,
         dates_applied |-> dated]

---------------------------------------------------------------------------
(* The search that found the stay *)

validate_stay_dates(s) ==
    /\ nights_between(s) >= 1
    /\ s.provider = "airbnb" => s.check_in >= today

\* The stay is searched for, found at a price, and put on the itinerary.  With
\* dates that cannot be searched for, or without a price or, hotels, a link, it
\* is not found.
Select ==
    /\ saved = <<>>
    /\ validate_stay_dates(stay)
    /\ offer.free /\ offer.quote # None
    /\ \/ /\ stay.provider = "hotels"
          /\ \E row \in HotelRows(offer) :
                row.link /\ saved' = <<HotelPerNight(row)>>
          /\ kept' = TRUE
       \/ /\ stay.provider = "airbnb"
          /\ \E row \in SearchRows(offer) :
                /\ SearchPerNight(row) # None
                /\ saved' = <<SearchPerNight(row)>>
                /\ kept' = ~Adjusted(row)
    /\ UNCHANGED <<stay, today, offer, quota, callVars>>

---------------------------------------------------------------------------
(* One call *)

\* A method is called with a ref of the item.
Begin(c, method) ==
    /\ saved # <<>> /\ pc[c] = "idle"
    /\ stay.provider = "hotels" => method # "availability"
    /\ op' = [op EXCEPT ![c] = method]
    /\ built' = [built EXCEPT ![c] = <<>>]
    /\ during' = [during EXCEPT ![c] = {offer}]
    /\ answered' = [answered EXCEPT ![c] = FALSE]
    /\ IF stay.provider = "airbnb" /\ method = "resolve"
       THEN Fail(c, "use_persisted_booking_request")
       ELSE /\ told' = [told EXCEPT ![c] = Silence]
            /\ pc' = [pc EXCEPT ![c] = "spend"]
    /\ UNCHANGED <<stay, today, offer, quota, saved, kept>>

\* _spend_quota in front of either request: check() lets the call pass below the
\* ceiling, and whenever Redis does not answer it.
Admitted(c) ==
    /\ pc[c] \in Checking
    /\ used < CallsPerWindow
    /\ GoOn(c)
    /\ UNCHANGED quota
AdmittedBlind(c) ==
    /\ pc[c] \in Checking
    /\ blind < MaxBlind
    /\ blind' = blind + 1
    /\ GoOn(c)
    /\ UNCHANGED used

\* Then increment(), an await later, which nobody else's count has stopped; if
\* Redis does not answer, the request goes uncounted.
Counted(c) ==
    /\ pc[c] \in Counting
    /\ used' = used + 1
    /\ GoOn(c)
    /\ UNCHANGED blind
Uncounted(c) ==
    /\ pc[c] \in Counting
    /\ GoOn(c)
    /\ UNCHANGED quota

Refused(c) ==
    /\ pc[c] \in Checking
    /\ used >= CallsPerWindow
    /\ Tell(c, [what |-> "QuotaExceeded"])
    /\ UNCHANGED <<stay, today, offer, quota, saved, kept, op, built, during, answered>>

\* _get comes back with a LodgingProviderError: told, or, after Airbnb's dated
\* call, followed by the undated one.
CallFails(c) ==
    /\ \/ /\ pc[c] = "dated" /\ stay.provider = "airbnb"
          /\ pc' = [pc EXCEPT ![c] = "spendAgain"] /\ UNCHANGED told
       \/ /\ \/ pc[c] = "undated"
             \/ pc[c] = "dated" /\ stay.provider = "hotels"
          /\ Fail(c, "provider_error")
    /\ UNCHANGED <<stay, today, offer, quota, saved, kept, op, built, during, answered>>

ResolveHotel(c, payload) ==
    /\ op[c] = "resolve"
    /\ IF \E i \in DOMAIN payload.properties : i = 1 /\ payload.properties[i].link
       THEN Tell(c, [what |-> "BookingRequest"])
       ELSE Fail(c, "no_booking_url")
    /\ UNCHANGED built

PriceOfProperty(payload) ==
    LET records == PropertyRecords(payload)
        rate == IF records = <<>> THEN None ELSE HotelPerNight(Head(records))
    IN  [status |-> IF rate = None THEN "unavailable" ELSE "available", price_usd |-> rate]

RepriceHotel(c, payload) ==
    /\ op[c] = "reprice"
    /\ Price(c, PriceOfProperty(payload))

HotelAnswers(c) ==
    /\ stay.provider = "hotels" /\ pc[c] = "dated"
    /\ \E payload \in HotelPayloads(offer) :
          ResolveHotel(c, payload) \/ RepriceHotel(c, payload)
    /\ answered' = [answered EXCEPT ![c] = TRUE]
    /\ UNCHANGED <<stay, today, offer, quota, saved, kept, op, during>>

\* is_available decides, then whether there is a price.
PriceOfAvailability(a) ==
    IF a.is_available # FALSE /\ a.per_night # None
    THEN [status |-> "available", price_usd |-> a.per_night]
    ELSE [status |-> "unavailable", price_usd |-> None]

\* availability() returns what it parsed; reprice() makes a price of it if the
\* dates were applied.
Conclude(c, a) ==
    \/ op[c] = "availability" /\ Tell(c, a) /\ UNCHANGED built
    \/ op[c] = "reprice" /\ a.dates_applied /\ Price(c, PriceOfAvailability(a))
    \/ /\ op[c] = "reprice" /\ ~a.dates_applied
       /\ Fail(c, "reprice_dates_not_applied") /\ UNCHANGED built

DatedDetails(c) ==
    /\ stay.provider = "airbnb" /\ pc[c] = "dated"
    /\ \E row \in DetailsRows(offer) : Conclude(c, parse_details(row, TRUE))
    /\ answered' = [answered EXCEPT ![c] = TRUE]
    /\ UNCHANGED <<stay, today, offer, quota, saved, kept, op, during>>

UndatedDetails(c) ==
    /\ pc[c] = "undated"
    /\ \E row \in UndatedRows : Conclude(c, parse_details(row, FALSE))
    /\ UNCHANGED <<stay, today, offer, quota, saved, kept, op, during, answered>>

\* The caller's task is cancelled at an await.
Cancel(c) ==
    /\ pc[c] # "idle"
    /\ Tell(c, Silence)
    /\ UNCHANGED <<stay, today, offer, quota, saved, kept, op, built, during, answered>>

---------------------------------------------------------------------------
(* The environment *)

OfferChanges(o) ==
    /\ o # offer
    /\ offer' = o
    /\ during' = [c \in Callers |-> IF pc[c] = "idle" THEN during[c]
                                    ELSE during[c] \cup {o}]
    /\ kept' = FALSE
    /\ UNCHANGED <<stay, today, quota, saved, pc, op, told, built, answered>>

DayPasses ==
    /\ today < LastDay
    /\ today' = today + 1
    /\ UNCHANGED <<stay, offer, quota, saved, callVars, kept>>

NewWindow ==
    /\ used' = 0 /\ blind' = 0
    /\ UNCHANGED <<stay, today, offer, saved, callVars, kept>>

Init ==
    /\ stay \in Stays /\ offer \in Offers
    /\ today = 0 /\ used = 0 /\ blind = 0
    /\ saved = <<>> /\ kept = FALSE
    /\ pc = [c \in Callers |-> "idle"] /\ op = [c \in Callers |-> "resolve"]
    /\ told = [c \in Callers |-> Silence] /\ built = [c \in Callers |-> <<>>]
    /\ during = [c \in Callers |-> {}] /\ answered = [c \in Callers |-> FALSE]

Next ==
    \/ Select \/ DayPasses \/ NewWindow
    \/ \E o \in Offers : OfferChanges(o)
    \/ \E c \in Callers :
          \/ \E method \in Operations : Begin(c, method)
          \/ Admitted(c) \/ AdmittedBlind(c) \/ Counted(c) \/ Uncounted(c) \/ Refused(c)
          \/ CallFails(c) \/ Cancel(c)
          \/ HotelAnswers(c) \/ DatedDetails(c) \/ UndatedDetails(c)

Spec == Init /\ [][Next]_vars

---------------------------------------------------------------------------
(* Properties *)

Prices == Nat \cup {None}
Outcomes ==
    {Silence, [what |-> "QuotaExceeded"], [what |-> "BookingRequest"],
     [what |-> "Priced"], [what |-> "ValidationError"]}
    \cup [what : {"LodgingProviderError"},
          code : {"use_persisted_booking_request", "provider_error",
                  "no_booking_url", "reprice_dates_not_applied"}]
    \cup [what : {"AirbnbAvailability"}, is_available : BOOLEAN \cup {None},
          stay_total : Prices, per_night : Prices, dates_applied : BOOLEAN]
PricedArgs == [status : {"available", "unavailable"}, price_usd : Prices]

TypeOK ==
    /\ stay \in Stays /\ offer \in Offers
    /\ today \in 0..LastDay
    /\ blind \in 0..MaxBlind
    /\ used \in 0..(CallsPerWindow - 1 + Cardinality(Callers) + blind)
    /\ saved \in Seq(Nat) /\ Len(saved) <= 1
    /\ kept \in BOOLEAN
    /\ pc \in [Callers -> {"idle", "dated", "undated"} \cup Checking \cup Counting]
    /\ op \in [Callers -> Operations]
    /\ told \in [Callers -> Outcomes]
    /\ built \in [Callers -> Seq(PricedArgs)]
    /\ during \in [Callers -> SUBSET Offers]
    /\ answered \in [Callers -> BOOLEAN]

Says(c, status) == built[c] # <<>> /\ built[c][1].status = status

\* Whatever a call says of the stay's dates was so at some moment of the call:
\* yes, no, "available" and "unavailable".  An outage, a base price or a
\* property's neighbour never speaks for the stay.
LiveStatus ==
    \A c \in Callers :
        /\ told[c].what = "AirbnbAvailability" =>
              /\ told[c].is_available = TRUE => \E o \in during[c] : o.free
              /\ told[c].is_available = FALSE => \E o \in during[c] : ~o.free
        /\ Says(c, "available") => \E o \in during[c] : o.free /\ o.quote # None
        /\ Says(c, "unavailable") => \E o \in during[c] : ~o.free \/ o.quote = None

\* p is the price per night of offer o, but for rounding to dollars and cents.
IsPriceOf(p, o) ==
    /\ o.quote # None
    /\ Absolute(p * nights - o.quote) <= 50 + nights

\* A price told with the dates applied, and the price of a re-price, is per
\* night and was asked for the stay at some moment of the call.
LivePrice ==
    \A c \in Callers :
        /\ told[c].what = "AirbnbAvailability" =>
              told[c].per_night = None
                 \/ \E o \in during[c] : IsPriceOf(told[c].per_night, o)
        /\ Says(c, "available") =>
              \E o \in during[c] : o.free /\ IsPriceOf(built[c][1].price_usd, o)

\* Search and re-price are compared by the money path: while the offer stays
\* what it was when it was found, they agree but for rounding.  (Not if the
\* search row had nothing but a breakdown with adjustments.)
DriftMeansChange ==
    kept => \A c \in Callers :
        Says(c, "available") =>
            Absolute(built[c][1].price_usd - saved[1]) * nights <= 50 + 2 * nights

\* What the callers of reprice() are told, "Priced | LodgingProviderError |
\* QuotaExceeded" by its signature: a request for the dates that was paid for and
\* answered ends with a Priced.
RepriceAnswers ==
    \A c \in Callers :
        op[c] = "reprice" /\ answered[c] => told[c].what = "Priced"
=============================================================================
