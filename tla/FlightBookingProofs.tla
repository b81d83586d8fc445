------------------------ MODULE FlightBookingProofs ------------------------
(***************************************************************************)
(* Proofs about FlightBooking, for every set of pins and of answers.       *)
(***************************************************************************)
EXTENDS FlightBooking, SequenceTheorems, Induction

\* What a refusal says of the answer it was given for: no option was kept.
RefusedInv ==
    outcome \in {Raised("PartialItineraryCoverage"), Raised("NoBookingOptions")}
        => Kept(ref, raw) = {}

\* A block that sells the trip, or the leg of its scope, is an option the
\* coverage check keeps.
LEMMA SellersAreKept ==
    ASSUME NEW i \in DOMAIN raw,
           \/ SellsTrip(raw[i])
           \/ SellsLeg(raw[i], "departing", ref.outbound)
           \/ SellsLeg(raw[i], "returning", ref.return)
    PROVE  i \in Kept(ref, raw)
<1>1. CASE SellsTrip(raw[i])
  <2>1. itinerary_flight_numbers(ref, raw[i].scope) = Trip
    BY <1>1 DEF SellsTrip, itinerary_flight_numbers, Trip
  <2>2. QED  BY <1>1, <2>1 DEF SellsTrip, Kept, booking_options, covers
<1>2. CASE SellsLeg(raw[i], "departing", ref.outbound)
  <2>1. itinerary_flight_numbers(ref, raw[i].scope) = ref.outbound \ {Unnumbered}
    BY <1>2 DEF SellsLeg, itinerary_flight_numbers
  <2>2. QED  BY <1>2, <2>1 DEF SellsLeg, Kept, booking_options, covers
<1>3. CASE SellsLeg(raw[i], "returning", ref.return)
  <2>1. itinerary_flight_numbers(ref, raw[i].scope) = ref.return \ {Unnumbered}
    BY <1>3 DEF SellsLeg, itinerary_flight_numbers
  <2>2. QED  BY <1>3, <2>1 DEF SellsLeg, Kept, booking_options, covers
<1>4. QED  BY <1>1, <1>2, <1>3

LEMMA RefusedStep ==
    ASSUME RefusedInv, [Next]_vars
    PROVE  RefusedInv'
<1> USE DEF RefusedInv, Raised, Returned, Running, QuotaExceeded
<1>1. ASSUME NEW m \in {"resolve", "reprice"}, Start(m)  PROVE RefusedInv'
  BY <1>1 DEF Start
<1>2. CASE Refused
  BY <1>2 DEF Refused
<1>3. CASE RequestFails
  BY <1>3 DEF RequestFails
<1>4. ASSUME NEW p \in Payloads, AnswerResolve(p)  PROVE RefusedInv'
  BY <1>4 DEF AnswerResolve, ResolveOutcome, AllRejected
<1>5. ASSUME NEW p \in Payloads, AnswerReprice(p)  PROVE RefusedInv'
  BY <1>5 DEF AnswerReprice, AllRejected, Priced
<1>6. ASSUME NEW pin \in Pins, Again(pin)  PROVE RefusedInv'
  BY <1>6 DEF Again
<1>7. CASE UNCHANGED vars
  BY <1>7 DEF vars, Kept, booking_options
<1>8. QED  BY <1>1, <1>2, <1>3, <1>4, <1>5, <1>6, <1>7 DEF Next

\* For every pin and every answer, resolve and reprice refuse only what sells
\* neither the trip nor a leg: the coverage check loses no honest option.
THEOREM RefusalsHonestHolds == Spec => []RefusalsHonest
<1>1. Init => RefusedInv
  BY DEF Init, RefusedInv, Running, Raised
<1>2. RefusedInv /\ [Next]_vars => RefusedInv'
  BY RefusedStep
<1>3. RefusedInv => RefusalsHonest
  <2> SUFFICES ASSUME RefusedInv,
                      outcome \in {Raised("PartialItineraryCoverage"), Raised("NoBookingOptions")},
                      NEW i \in DOMAIN raw
               PROVE  /\ ~SellsTrip(raw[i])
                      /\ ~SellsLeg(raw[i], "departing", ref.outbound)
                      /\ ~SellsLeg(raw[i], "returning", ref.return)
    BY DEF RefusalsHonest
  <2>1. i \notin Kept(ref, raw)
    BY DEF RefusedInv
  <2>2. QED  BY <2>1, SellersAreKept
<1>4. QED  BY <1>1, <1>2, <1>3, PTL DEF Spec

---------------------------------------------------------------------------
(* Choosing the cheapest.                                                  *)

LEMMA BlockFacts ==
    ASSUME NEW p \in Payloads, NEW i \in DOMAIN p
    PROVE  /\ i \in Nat /\ p[i] \in Block /\ Charge(p[i]) \in Nat
           /\ SortKey(p[i])[1] = (IF p[i].scope = "together" THEN 0 ELSE 1)
           /\ SortKey(p[i])[2] = Charge(p[i])
           /\ p[i].price \notin {NoPrice, 0} => Charge(p[i]) = p[i].price /\ Charge(p[i]) < Unpriced
           /\ p[i].price \in {NoPrice, 0} => Charge(p[i]) = Unpriced
<1>1. p \in Seq(Block)
  BY InputsAssumption
<1>2. i \in Nat /\ p[i] \in Block
  BY <1>1
<1>3. p[i].price \in Nat \cup {NoPrice} /\ (p[i].price # NoPrice => p[i].price < Unpriced)
  BY <1>2, InputsAssumption DEF Block
<1>4. QED  BY <1>2, <1>3, InputsAssumption DEF Charge, SortKey

\* Of options that charge least, the one that was read first.
LEMMA LeastCharge ==
    ASSUME NEW p \in Payloads, NEW S, S \subseteq DOMAIN p, S # {}
    PROVE  \E i \in S : \A j \in S :
              Charge(p[i]) < Charge(p[j]) \/ (Charge(p[i]) = Charge(p[j]) /\ i <= j)
<1> DEFINE C == {Charge(p[i]) : i \in S}
<1>1. C \subseteq Nat /\ C # {}
  BY BlockFacts
<1>2. PICK m \in C : \A n \in C : m <= n
  <2> HIDE DEF C
  <2> QED BY <1>1, LeastNumber
<1> DEFINE T == {i \in S : Charge(p[i]) = m}
<1>3. T \subseteq Nat /\ T # {}
  BY BlockFacts
<1>4. PICK i \in T : \A j \in T : i <= j
  <2> HIDE DEF T
  <2> QED BY <1>3, LeastNumber
<1>5. ASSUME NEW j \in S
      PROVE  Charge(p[i]) < Charge(p[j]) \/ (Charge(p[i]) = Charge(p[j]) /\ i <= j)
  <2>1. Charge(p[i]) = m /\ m <= Charge(p[j]) /\ Charge(p[j]) \in Nat /\ m \in Nat
    BY <1>1, <1>2, <1>4, BlockFacts
  <2>2. Charge(p[j]) = m => i <= j
    BY <1>4
  <2> QED BY <2>1, <2>2
<1>6. QED  BY <1>4, <1>5

LEMMA CheapestIs ==
    ASSUME NEW p \in Payloads, NEW S, S \subseteq DOMAIN p, S # {}
    PROVE  Cheapest(p, S) \in S
BY LeastCharge DEF Cheapest

\* The sort puts an option first that no other option sorts before.
LEMMA FirstIs ==
    ASSUME NEW p \in Payloads, NEW S, S \subseteq DOMAIN p, S # {}
    PROVE  First(p, S) \in S /\ \A j \in S : ~SortsBefore(p[j], p[First(p, S)])
<1> DEFINE T == {i \in S : p[i].scope = "together"}
           Best(U) == {i \in U : \A j \in U :
              Charge(p[i]) < Charge(p[j]) \/ (Charge(p[i]) = Charge(p[j]) /\ i <= j)}
           Ahead(i, j) == ~SortsBefore(p[j], p[i]) /\ (SortsBefore(p[i], p[j]) \/ i <= j)
<1>1. ASSUME NEW i \in S, \A j \in S : Ahead(i, j)
      PROVE  First(p, S) \in S /\ \A j \in S : ~SortsBefore(p[j], p[First(p, S)])
  BY <1>1 DEF First
<1>2. CASE T # {}
  <2>1. PICK i \in T : i \in Best(T)
    BY <1>2, LeastCharge
  <2>2. ASSUME NEW j \in S PROVE Ahead(i, j)
    <3>1. /\ SortKey(p[i])[1] = 0 /\ SortKey(p[i])[2] = Charge(p[i])
          /\ SortKey(p[j])[1] = (IF j \in T THEN 0 ELSE 1) /\ SortKey(p[j])[2] = Charge(p[j])
          /\ Charge(p[i]) \in Nat /\ Charge(p[j]) \in Nat
      BY BlockFacts
    <3>2. CASE j \in T
      <4>1. Charge(p[i]) < Charge(p[j]) \/ (Charge(p[i]) = Charge(p[j]) /\ i <= j)
        BY <2>1, <3>2
      <4> QED BY <3>1, <3>2, <4>1 DEF SortsBefore
    <3>3. CASE j \notin T
      BY <3>1, <3>3 DEF SortsBefore
    <3> QED BY <3>2, <3>3
  <2> QED BY <1>1, <2>1, <2>2
<1>3. CASE T = {}
  <2>1. PICK i \in S : i \in Best(S)
    BY LeastCharge
  <2>2. ASSUME NEW j \in S PROVE Ahead(i, j)
    <3>1. /\ SortKey(p[i])[1] = 1 /\ SortKey(p[i])[2] = Charge(p[i])
          /\ SortKey(p[j])[1] = 1 /\ SortKey(p[j])[2] = Charge(p[j])
          /\ Charge(p[i]) \in Nat /\ Charge(p[j]) \in Nat
      BY <1>3, BlockFacts
    <3>2. Charge(p[i]) < Charge(p[j]) \/ (Charge(p[i]) = Charge(p[j]) /\ i <= j)
      BY <2>1
    <3> QED BY <3>1, <3>2 DEF SortsBefore
  <2> QED BY <1>1, <2>1, <2>2
<1>4. QED  BY <1>2, <1>3

LEMMA LeastPriceIs ==
    ASSUME NEW p \in Payloads, NEW S, S \subseteq DOMAIN p, S # {},
           \A i \in S : p[i].price # NoPrice
    PROVE  \E i \in S : LeastPrice(p, S) = p[i].price
<1> DEFINE C == {p[i].price : i \in S}
<1>1. C \subseteq Nat /\ C # {}
  BY BlockFacts DEF Block
<1>2. PICK m \in C : \A n \in C : m <= n
  <2> HIDE DEF C
  <2> QED BY <1>1, LeastNumber
<1>3. LeastPrice(p, S) \in C
  BY <1>2 DEF LeastPrice
<1>4. QED  BY <1>3

---------------------------------------------------------------------------
(* What an ended call has made of the provider's answer.                   *)

AnswerInv ==
    /\ call \in {"none", "resolve", "reprice"} /\ ref \in Pins
    /\ raw \in Payloads \cup {<<>>}
    /\ outcome = Running \/ \E k \in {"returned", "raised", "refused"} : outcome[1] = k
    /\ Resolved => /\ raw \in Payloads /\ Kept(ref, raw) # {}
                   /\ outcome[2] = raw[First(raw, Kept(ref, raw))]
    /\ built = <<>> \/ (raw \in Payloads /\ built = <<PricedArguments(raw)>>)
    /\ call = "none" => outcome = Running
    /\ outcome = Running => built = <<>>

\* What is charged depends on the pin and the answer alone.
LEMMA PinKeeps ==
    ASSUME NEW p, ref' = ref, raw' = p
    PROVE  Kept(ref, raw)' = Kept(ref, p) /\ PricedArguments(raw)' = PricedArguments(p)
<1>1. Kept(ref, raw)' = Kept(ref, p)
  BY DEF Kept, booking_options
<1>2. ASSUME NEW s PROVE Priceable(raw, s)' = Priceable(p, s)
  BY <1>1 DEF Priceable
<1>3. PricedArguments(raw)' = PricedArguments(p)
  BY <1>2 DEF PricedArguments, LeastPrice, Cheapest
<1> QED BY <1>1, <1>3

LEMMA AnswerStep ==
    ASSUME AnswerInv, [Next]_vars
    PROVE  AnswerInv'
<1> USE DEF AnswerInv, Raised, Returned, Running, QuotaExceeded, Resolved
<1>1. ASSUME NEW m \in {"resolve", "reprice"}, Start(m)  PROVE AnswerInv'
  BY <1>1 DEF Start
<1>2. CASE Refused
  BY <1>2 DEF Refused, Waiting
<1>3. CASE RequestFails
  BY <1>3 DEF RequestFails, Waiting
<1>4. ASSUME NEW p \in Payloads, Waiting, AnswerResolve(p)  PROVE AnswerInv'
  <2>1. /\ call = "resolve" /\ raw' = p /\ built = <<>> /\ outcome' = ResolveOutcome(p)
        /\ UNCHANGED <<call, ref, built>>
    BY <1>4 DEF AnswerResolve, Waiting
  <2>2. \/ ResolveOutcome(p) = Raised("PartialItineraryCoverage")
        \/ ResolveOutcome(p) = Raised("NoBookingOptions")
        \/ ResolveOutcome(p) = Returned(p[First(p, Kept(ref, p))]) /\ Kept(ref, p) # {}
    BY DEF ResolveOutcome
  <2>3. Kept(ref, p)' = Kept(ref, p)
    BY <2>1 DEF Kept, booking_options
  <2> QED BY <2>1, <2>2, <2>3
<1>5. ASSUME NEW p \in Payloads, Waiting, AnswerReprice(p)  PROVE AnswerInv'
  <2>1. /\ call' = "reprice" /\ raw' = p /\ ref' = ref
        /\ built' = <<>> \/ built' = <<PricedArguments(p)>>
        /\ outcome'[1] \in {"returned", "raised"} /\ outcome' # <<>>
    BY <1>5 DEF AnswerReprice, Waiting, Priced
  <2>2. PricedArguments(raw)' = PricedArguments(p)
    BY <2>1, PinKeeps
  <2> QED BY <2>1, <2>2
<1>6. ASSUME NEW pin \in Pins, Again(pin)  PROVE AnswerInv'
  BY <1>6 DEF Again
<1>7. CASE UNCHANGED vars
  <2>1. UNCHANGED <<call, ref, raw, outcome, built>>
    BY <1>7 DEF vars
  <2>2. Kept(ref, raw)' = Kept(ref, raw) /\ PricedArguments(raw)' = PricedArguments(raw)
    <3>1. PICK p : p = raw
      OBVIOUS
    <3>2. Kept(ref, raw)' = Kept(ref, p) /\ PricedArguments(raw)' = PricedArguments(p)
      BY <2>1, <3>1, PinKeeps
    <3> QED BY <3>1, <3>2
  <2> QED BY <2>1, <2>2
<1>8. QED  BY <1>1, <1>2, <1>3, <1>4, <1>5, <1>6, <1>7 DEF Next

LEMMA AnswerAlways == Spec => []AnswerInv
<1>1. Init => AnswerInv
  BY DEF Init, AnswerInv, Resolved, Running
<1>2. AnswerInv /\ [Next]_vars => AnswerInv'
  BY AnswerStep
<1>3. QED  BY <1>1, <1>2, PTL DEF Spec

\* An option that was kept for the whole trip, or for a leg, sells it.
LEMMA KeptSells ==
    ASSUME NEW i \in Kept(ref, raw)
    PROVE  /\ i \in DOMAIN raw /\ raw[i].link
           /\ raw[i].scope = "together" => SellsTrip(raw[i])
           /\ raw[i].scope = "departing" => SellsLeg(raw[i], "departing", ref.outbound)
           /\ raw[i].scope = "returning" => SellsLeg(raw[i], "returning", ref.return)
<1>1. /\ i \in DOMAIN raw /\ raw[i].link
      /\ covers(itinerary_flight_numbers(ref, raw[i].scope), raw[i].marketed)
  BY DEF Kept, booking_options
<1>2. raw[i].scope = "together" => SellsTrip(raw[i])
  BY <1>1 DEF SellsTrip, itinerary_flight_numbers, Trip, covers
<1>3. raw[i].scope = "departing" => SellsLeg(raw[i], "departing", ref.outbound)
  BY <1>1 DEF SellsLeg, itinerary_flight_numbers, covers
<1>4. raw[i].scope = "returning" => SellsLeg(raw[i], "returning", ref.return)
  BY <1>1 DEF SellsLeg, itinerary_flight_numbers, covers
<1>5. QED  BY <1>1, <1>2, <1>3, <1>4

\* What resolve returns is an option with a link; a re-price has a known status.
THEOREM TypeCorrect == Spec => []TypeOK
<1>1. AnswerInv => TypeOK
  <2> SUFFICES ASSUME AnswerInv PROVE TypeOK
    OBVIOUS
  <2>1. ASSUME Resolved PROVE outcome[2] \in Block /\ outcome[2].link
    <3>1. /\ raw \in Payloads /\ Kept(ref, raw) # {}
          /\ outcome[2] = raw[First(raw, Kept(ref, raw))]
      BY <2>1 DEF AnswerInv
    <3>2. Kept(ref, raw) \subseteq DOMAIN raw
      BY DEF Kept, booking_options
    <3>3. First(raw, Kept(ref, raw)) \in Kept(ref, raw)
      BY <3>1, <3>2, FirstIs
    <3> QED BY <3>1, <3>2, <3>3, KeptSells, BlockFacts
  <2>2. built = <<>> \/ built[1].status \in {"available", "split_options_only", "unavailable"}
    BY DEF AnswerInv, PricedArguments
  <2>3. outcome = Running \/ outcome[1] \in {"returned", "raised", "refused"}
    BY DEF AnswerInv
  <2> QED BY <2>1, <2>2, <2>3 DEF AnswerInv, TypeOK, Resolved
<1>2. QED  BY <1>1, AnswerAlways, PTL

\* For every pin and every answer, resolve hands out a link for the whole trip
\* whenever there is one, and none dearer than another with a known price.
THEOREM BestWholeTripHolds == Spec => []BestWholeTrip
<1>1. AnswerInv => BestWholeTrip
  <2> SUFFICES ASSUME AnswerInv, Resolved, NEW i \in DOMAIN raw, SellsTrip(raw[i])
               PROVE  /\ SellsTrip(outcome[2])
                      /\ raw[i].price \notin {NoPrice, 0} =>
                            /\ outcome[2].price \notin {NoPrice, 0}
                            /\ outcome[2].price <= raw[i].price
    BY DEF BestWholeTrip
  <2> DEFINE f == First(raw, Kept(ref, raw))
  <2>1. raw \in Payloads /\ Kept(ref, raw) # {} /\ outcome[2] = raw[f]
    BY DEF AnswerInv
  <2>2. Kept(ref, raw) \subseteq DOMAIN raw /\ i \in Kept(ref, raw)
    BY SellersAreKept DEF Kept, booking_options
  <2>3. f \in Kept(ref, raw) /\ f \in DOMAIN raw /\ ~SortsBefore(raw[i], raw[f])
    BY <2>1, <2>2, FirstIs
  <2> HIDE DEF f
  <2>4. SortKey(raw[i])[1] = 0
    BY <2>1, BlockFacts DEF SellsTrip
  <2>5. raw[f].scope = "together" /\ Charge(raw[f]) <= Charge(raw[i])
    BY <2>1, <2>3, <2>4, BlockFacts DEF SortsBefore
  <2>6. SellsTrip(raw[f])
    BY <2>3, <2>5, KeptSells
  <2>7. ASSUME raw[i].price \notin {NoPrice, 0}
        PROVE  raw[f].price \notin {NoPrice, 0} /\ raw[f].price <= raw[i].price
    <3>1. Charge(raw[i]) = raw[i].price /\ Charge(raw[i]) < Unpriced /\ Charge(raw[i]) \in Nat
      BY <2>1, <2>7, BlockFacts
    <3>2. raw[f].price \notin {NoPrice, 0}
      BY <2>1, <2>3, <2>5, <3>1, BlockFacts, InputsAssumption
    <3> QED BY <2>1, <2>3, <2>5, <3>1, <3>2, BlockFacts
  <2> QED BY <2>1, <2>6, <2>7
<1>2. QED  BY <1>1, AnswerAlways, PTL

\* For every pin and every answer, what reprice puts in its answer is what the
\* answer charges for the pinned trip, in one link or in two.
THEOREM PriceIsChargedHolds == Spec => []PriceIsCharged
<1>1. AnswerInv => PriceIsCharged
  <2>0. built = <<>> => PriceIsCharged
    BY DEF PriceIsCharged
  <2> SUFFICES ASSUME AnswerInv, built # <<>> PROVE PriceIsCharged
    BY <2>0
  <2> DEFINE a == PricedArguments(raw)
             P(scope) == Priceable(raw, scope)
  <2>1. raw \in Payloads /\ \A x \in {built[i] : i \in DOMAIN built} : x = a
    BY DEF AnswerInv
  <2>2. ASSUME NEW scope \in Scopes
        PROVE  /\ P(scope) \subseteq DOMAIN raw
               /\ \A i \in P(scope) : /\ i \in Kept(ref, raw) /\ raw[i].scope = scope
                                      /\ raw[i].price # NoPrice
    BY DEF Priceable, Kept, booking_options
  <2>3. /\ \A i \in P("together") : SellsTrip(raw[i])
        /\ \A i \in P("departing") : SellsLeg(raw[i], "departing", ref.outbound)
        /\ \A i \in P("returning") : SellsLeg(raw[i], "returning", ref.return)
    BY <2>2, KeptSells DEF Scopes
  <2>4. ASSUME P("together") = {}, NEW i \in DOMAIN raw, SellsTrip(raw[i])
        PROVE  raw[i].price = NoPrice
    BY <2>4, SellersAreKept DEF Priceable, SellsTrip
  <2>5. CASE P("together") # {}
    <3> DEFINE c == Cheapest(raw, P("together"))
    <3>1. c \in P("together")
      <4>1. P("together") \subseteq DOMAIN raw
        BY <2>2 DEF Scopes
      <4> HIDE DEF P
      <4> QED BY <2>1, <2>5, <4>1, CheapestIs
    <3>2. a = [status |-> "available", price |-> raw[c].price, request |-> {c}]
      BY <2>5 DEF PricedArguments
    <3> HIDE DEF a, c, P
    <3> QED BY <2>1, <2>3, <3>1, <3>2 DEF PriceIsCharged
  <2>6. CASE P("together") = {} /\ P("departing") # {} /\ P("returning") # {}
    <3> DEFINE d == LeastPrice(raw, P("departing"))
               r == LeastPrice(raw, P("returning"))
    <3>1. PICK i \in P("departing") : d = raw[i].price
      BY <2>1, <2>2, <2>6, LeastPriceIs DEF Scopes
    <3>2. PICK j \in P("returning") : r = raw[j].price
      BY <2>1, <2>2, <2>6, LeastPriceIs DEF Scopes
    <3>3. a = [status |-> "split_options_only", price |-> d + r, request |-> {}]
      BY <2>6 DEF PricedArguments
    <3>4. i \in DOMAIN raw /\ j \in DOMAIN raw /\ NoPrice \notin {raw[i].price, raw[j].price}
      BY <2>2 DEF Scopes
    <3> HIDE DEF a, d, r, P
    <3>5. /\ SellsLeg(raw[i], "departing", ref.outbound)
          /\ SellsLeg(raw[j], "returning", ref.return)
      BY <2>3
    <3>6. ~\E k \in DOMAIN raw : SellsTrip(raw[k]) /\ raw[k].price # NoPrice
      BY <2>4, <2>6
    <3> QED BY <2>1, <3>1, <3>2, <3>3, <3>4, <3>5, <3>6 DEF PriceIsCharged
  <2>7. CASE P("together") = {} /\ (P("departing") = {} \/ P("returning") = {})
    <3>1. a = [status |-> "unavailable", price |-> NoPrice, request |-> {}]
      BY <2>7 DEF PricedArguments
    <3> HIDE DEF a, P
    <3>2. ~\E k \in DOMAIN raw : SellsTrip(raw[k]) /\ raw[k].price # NoPrice
      BY <2>4, <2>7
    <3> QED BY <2>1, <3>1, <3>2 DEF PriceIsCharged
  <2> QED BY <2>5, <2>6, <2>7
<1>2. QED  BY <1>1, AnswerAlways, PTL
=============================================================================
