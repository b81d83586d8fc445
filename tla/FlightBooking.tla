--------------------------- MODULE FlightBooking ---------------------------
(***************************************************************************)
(* The money path of the flights adapter (app/travel/adapters/flights.py): *)
(* resolve_booking_options and its two callers, resolve and reprice.  The  *)
(* provider sells exactly what a ref pins and answers an under-specified   *)
(* pin without complaint, so every option is checked against the pin.      *)
(*                                                                         *)
(* A flight number is a model value; a segment whose number the provider   *)
(* left out is pinned as Unnumbered.  A block is one scope of one element  *)
(* of booking_options, in the order they are read.                         *)
(***************************************************************************)
EXTENDS Integers, Sequences, FiniteSets

CONSTANTS
    Numbers,      \* flight numbers
    Unnumbered,   \* "": the flight_number of a segment that has none
    NoPrice,      \* None
    Unpriced,     \* Decimal("Infinity"), the sort key of a block with no price
    Pins,         \* the refs a caller may hold
    Payloads      \* what the provider may answer: sequences of blocks

Scopes == {"together", "departing", "returning"}
Legs == SUBSET (Numbers \cup {Unnumbered})
Pin == [round : BOOLEAN, outbound : Legs, return : Legs]

\* marketed_as is {} when the block does not carry it.
Block == [scope : Scopes, link : BOOLEAN, marketed : SUBSET (SUBSET Numbers),
          price : Nat \cup {NoPrice}]

ASSUME InputsAssumption ==
    /\ Unnumbered \notin Numbers
    /\ NoPrice \notin Nat /\ Unpriced \in Nat
    /\ Pins \subseteq Pin /\ Payloads \subseteq Seq(Block)
    /\ \A p \in Payloads : \A i \in DOMAIN p :
          /\ Cardinality(p[i].marketed) <= 1
          /\ p[i].price # NoPrice => p[i].price < Unpriced

VARIABLES
    call,      \* "none", "resolve" or "reprice"
    ref,       \* the pin that call was given
    raw,       \* the blocks of the provider's answer
    built,     \* arguments of the Priced that reprice constructs
    outcome    \* how the call ended: <<>> while it runs

vars == <<call, ref, raw, built, outcome>>

Returned(b) == <<"returned", b>>
Raised(e) == <<"raised", e>>
QuotaExceeded == <<"refused">>
Running == <<>>

---------------------------------------------------------------------------
(* Plausible slips in the code, each of which a property below must catch.  *)
(* None of them is part of the specification.                               *)

\* "The option did not say" is taken for "covers everything".
covers_unsaid(expected, marketed) ==
    marketed = {} \/ \E sold \in marketed : expected \subseteq sold

\* Every scope is expected to sell the whole pin.
itinerary_flight_numbers_unscoped(pin, scope) ==
    (pin.outbound \cup pin.return) \ {Unnumbered}

\* A block without a link is yielded like any other.
booking_options_linkless(p) == DOMAIN p

\* Options are ordered by price alone.
SortKeyPriceOnly(b) == <<0, IF b.price \in {NoPrice, 0} THEN Unpriced ELSE b.price>>

---------------------------------------------------------------------------
(* What the pin asks for and what a block sells *)

is_complete_itinerary(pin) == pin.outbound # {} /\ (pin.round => pin.return # {})

\* Segments without a number are left out.
itinerary_flight_numbers(pin, scope) ==
    LET outbound == IF scope = "returning" THEN {} ELSE pin.outbound
        return   == IF scope = "departing" THEN {} ELSE pin.return
    IN  (outbound \cup return) \ {Unnumbered}

covers(expected, marketed) ==
    \/ expected = {}
    \/ \E sold \in marketed : expected \subseteq sold

\* A block without a link is not an option at all.
booking_options(p) == {i \in DOMAIN p : p[i].link}

Kept(pin, p) ==
    {i \in booking_options(p) :
        covers(itinerary_flight_numbers(pin, p[i].scope), p[i].marketed)}

\* A price that is missing or zero is falsy, and sorts behind any other.
Charge(b) == IF b.price \in {NoPrice, 0} THEN Unpriced ELSE b.price
SortKey(b) == <<IF b.scope = "together" THEN 0 ELSE 1, Charge(b)>>
SortsBefore(b, d) ==
    \/ SortKey(b)[1] < SortKey(d)[1]
    \/ SortKey(b)[1] = SortKey(d)[1] /\ SortKey(b)[2] < SortKey(d)[2]

\* options[0] after the (stable) sort.
First(p, S) ==
    CHOOSE i \in S : \A j \in S :
        ~SortsBefore(p[j], p[i]) /\ (SortsBefore(p[i], p[j]) \/ i <= j)

---------------------------------------------------------------------------
(* resolve_booking_options, resolve and reprice *)

Init ==
    /\ call = "none" /\ ref \in Pins
    /\ raw = <<>> /\ built = <<>> /\ outcome = Running

\* A pin that is not a full itinerary is refused before the provider is asked.
Start(method) ==
    /\ call = "none"
    /\ call' = method
    /\ outcome' = IF is_complete_itinerary(ref) THEN Running
                  ELSE Raised("IncompleteItinerary")
    /\ UNCHANGED <<ref, raw, built>>

Waiting == call # "none" /\ outcome = Running

Refused ==
    /\ Waiting
    /\ outcome' = QuotaExceeded
    /\ UNCHANGED <<call, ref, raw, built>>

RequestFails ==
    /\ Waiting
    /\ outcome' = Raised("HTTPError")
    /\ UNCHANGED <<call, ref, raw, built>>

\* Options came back and each of them sold less than the pin.
AllRejected(p) == Kept(ref, p) = {} /\ booking_options(p) # {}

ResolveOutcome(p) ==
    IF AllRejected(p) THEN Raised("PartialItineraryCoverage")
    ELSE IF Kept(ref, p) = {} THEN Raised("NoBookingOptions")
    ELSE Returned(p[First(p, Kept(ref, p))])

AnswerResolve(p) ==
    /\ call = "resolve"
    /\ raw' = p
    /\ outcome' = ResolveOutcome(p)
    /\ UNCHANGED <<call, ref, built>>

Priceable(p, scope) ==
    {i \in Kept(ref, p) : p[i].scope = scope /\ p[i].price # NoPrice}

\* min() over option prices, and min() over options by Charge.
LeastPrice(p, S) == CHOOSE n \in {p[i].price : i \in S} : \A i \in S : n <= p[i].price
Cheapest(p, S) == CHOOSE i \in S : \A j \in S :
    Charge(p[i]) < Charge(p[j]) \/ (Charge(p[i]) = Charge(p[j]) /\ i <= j)

PricedArguments(p) ==
    LET together == Priceable(p, "together")
        legs == [s \in {"departing", "returning"} |-> Priceable(p, s)]
    IN  IF together # {} THEN
            [status |-> "available", price |-> p[Cheapest(p, together)].price,
             request |-> {Cheapest(p, together)}]
        ELSE IF \A s \in DOMAIN legs : legs[s] # {} THEN
            [status |-> "split_options_only",
             price |-> LeastPrice(p, legs["departing"]) + LeastPrice(p, legs["returning"]),
             request |-> {}]
        ELSE [status |-> "unavailable", price |-> NoPrice, request |-> {}]

\* The fields Priced declares without a default, of those modelled.
Required == {"status", "price_unit"}
Priced(args) ==
    IF Required \subseteq DOMAIN args THEN Returned(args) ELSE Raised("ValidationError")

AnswerReprice(p) ==
    /\ call = "reprice"
    /\ raw' = p
    /\ IF AllRejected(p)
       THEN outcome' = Raised("PartialItineraryCoverage") /\ UNCHANGED built
       ELSE /\ built' = <<PricedArguments(p)>>
            /\ outcome' = Priced(PricedArguments(p))
    /\ UNCHANGED <<call, ref>>

\* The call is over and the caller makes another, for any of its refs.
Again(pin) ==
    /\ call # "none" /\ outcome # Running
    /\ call' = "none" /\ ref' = pin
    /\ raw' = <<>> /\ built' = <<>> /\ outcome' = Running

Next ==
    \/ Start("resolve") \/ Start("reprice")
    \/ Refused \/ RequestFails
    \/ Waiting /\ \E p \in Payloads : AnswerResolve(p) \/ AnswerReprice(p)
    \/ \E pin \in Pins : Again(pin)

Spec == Init /\ [][Next]_vars

---------------------------------------------------------------------------
(* Properties *)

TypeOK ==
    /\ call \in {"none", "resolve", "reprice"} /\ ref \in Pins
    /\ raw \in Payloads \cup {<<>>}
    /\ built = <<>> \/ built[1].status \in {"available", "split_options_only", "unavailable"}
    /\ outcome = Running \/ outcome[1] \in {"returned", "raised", "refused"}
    /\ outcome # Running /\ outcome[1] = "returned" /\ call = "resolve" =>
          outcome[2] \in Block /\ outcome[2].link

Resolved == call = "resolve" /\ outcome # Running /\ outcome[1] = "returned"

\* The numbered segments of the trip, and whether a block provably sells them.
Trip == (ref.outbound \cup ref.return) \ {Unnumbered}
SellsTrip(b) == b.link /\ b.scope = "together" /\ (Trip = {} \/ \E sold \in b.marketed : Trip \subseteq sold)
SellsLeg(b, scope, leg) ==
    LET numbers == leg \ {Unnumbered}
    IN  b.link /\ b.scope = scope /\ (numbers = {} \/ \E sold \in b.marketed : numbers \subseteq sold)

\* resolve hands out a single link for the whole trip whenever the answer has
\* one, and none that is dearer than another such link with a known price.
BestWholeTrip ==
    Resolved /\ (\E i \in DOMAIN raw : SellsTrip(raw[i])) =>
        /\ SellsTrip(outcome[2])
        /\ \A i \in DOMAIN raw :
              SellsTrip(raw[i]) /\ raw[i].price \notin {NoPrice, 0} =>
                  outcome[2].price \notin {NoPrice, 0} /\ outcome[2].price <= raw[i].price

\* A refusal is honest: PartialItineraryCoverage and NoBookingOptions never
\* hide a link that sells the pinned trip, nor one that sells its pinned leg.
RefusalsHonest ==
    outcome \in {Raised("PartialItineraryCoverage"), Raised("NoBookingOptions")} =>
        \A i \in DOMAIN raw :
            /\ ~SellsTrip(raw[i])
            /\ ~SellsLeg(raw[i], "departing", ref.outbound)
            /\ ~SellsLeg(raw[i], "returning", ref.return)

\* What reprice puts in its answer is what the same response charges: one link
\* for the whole trip at that link's price; or, when no such link has a price,
\* the two legs at their cheapest and no link; or nothing.
PriceIsCharged ==
    \A a \in {built[i] : i \in DOMAIN built} :
        /\ a.status = "available" =>
              \A i \in a.request : SellsTrip(raw[i]) /\ raw[i].price = a.price
        /\ a.status # "available" =>
              /\ a.request = {}
              /\ ~\E i \in DOMAIN raw : SellsTrip(raw[i]) /\ raw[i].price # NoPrice
        /\ a.status = "split_options_only" =>
              \E i, j \in DOMAIN raw :
                 /\ SellsLeg(raw[i], "departing", ref.outbound)
                 /\ SellsLeg(raw[j], "returning", ref.return)
                 /\ NoPrice \notin {raw[i].price, raw[j].price}
                 /\ a.price = raw[i].price + raw[j].price
        /\ a.status = "unavailable" => a.price = NoPrice

\* FlightsAdapter: booking options that sell "less than the whole trip" are
\* refused, so what resolve returns buys the trip.
ResolveBuysTrip == Resolved => \E sold \in outcome[2].marketed : Trip \subseteq sold
=============================================================================
