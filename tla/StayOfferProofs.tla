-------------------------- MODULE StayOfferProofs --------------------------
(***************************************************************************)
(* Proofs about StayOffer for every number of callers, every set of stays  *)
(* and offers, every price, quota and calendar.                            *)
(***************************************************************************)
EXTENDS StayOffer, Induction

---------------------------------------------------------------------------
(* Prices *)

\* round() is within half of what it divides by.
LEMMA NearestIs ==
    ASSUME NEW q \in Nat, NEW n \in Nat \ {0}
    PROVE  /\ Nearest(q, n) \in Nat
           /\ 2 * (Nearest(q, n) * n) <= 2 * q + n
           /\ 2 * q <= 2 * (Nearest(q, n) * n) + n
BY DEF Nearest

\* The first field that is there, of as many as the adapters look at.
LEMMA FirstKnownIs ==
    ASSUME NEW fields, NEW n \in 0..4, DOMAIN fields = 1..n
    PROVE  \/ FirstKnown(fields) = None /\ \A i \in 1..n : fields[i] = None
           \/ \E i \in 1..n : /\ FirstKnown(fields) = fields[i] /\ fields[i] # None
                              /\ \A j \in 1..n : fields[j] # None => i <= j
<1> DEFINE known == {i \in DOMAIN fields : fields[i] # None}
<1>1. CASE known = {}
  BY <1>1 DEF FirstKnown
<1>2. ASSUME known # {} PROVE \E i \in known : \A j \in known : i <= j
  <2>1. /\ 1 \in known \/ 2 \in known \/ 3 \in known \/ 4 \in known
        /\ known \subseteq {1, 2, 3, 4}
    BY <1>2
  <2> HIDE DEF known
  <2>2. CASE 1 \in known
    BY <2>1, <2>2
  <2>3. CASE 1 \notin known /\ 2 \in known
    BY <2>1, <2>3
  <2>4. CASE 1 \notin known /\ 2 \notin known /\ 3 \in known
    BY <2>1, <2>4
  <2>5. CASE 1 \notin known /\ 2 \notin known /\ 3 \notin known
    BY <2>1, <2>5
  <2> QED BY <2>2, <2>3, <2>4, <2>5
<1>3. CASE known # {}
  <2> DEFINE i == CHOOSE i \in known : \A j \in known : i <= j
  <2>1. i \in known /\ \A j \in known : i <= j
    BY <1>2, <1>3
  <2>2. FirstKnown(fields) = fields[i]
    BY <1>3 DEF FirstKnown
  <2> HIDE DEF i
  <2> QED BY <2>1, <2>2
<1> QED BY <1>1, <1>3

\* p times the nights is q, up to half of slack and half a cent per night.
Within(p, q, slack) ==
    /\ p \in Nat
    /\ 2 * (p * nights) <= 2 * q + slack + nights
    /\ 2 * q <= 2 * (p * nights) + slack + nights

LEMMA PerNightIs ==
    ASSUME NEW q \in Nat, nights \in Nat \ {0}
    PROVE  /\ PerNight(q) \in Nat /\ PerNight(q) # None /\ PerNight(None) = None
           /\ Within(PerNight(q), q, 0)
<1>1. q # None /\ ~(nights < 1)
  BY NoneAssumption
<1>2. PerNight(q) = Nearest(q, nights)
  BY <1>1 DEF PerNight
<1>3. Nearest(q, nights) \in Nat
  BY NearestIs
<1> QED BY <1>2, <1>3, NearestIs, NoneAssumption DEF Within, PerNight

LEMMA HotelRowIs ==
    ASSUME NEW o \in Offer, nights \in Nat \ {0}, NEW row \in HotelRows(o)
    PROVE  IF o.free /\ o.quote # None
           THEN /\ HotelPerNight(row) # None /\ o.quote \in Nat
                /\ Within(HotelPerNight(row), o.quote, 0)
           ELSE HotelPerNight(row) = None
<1> DEFINE cheapest == IF row.prices = {} THEN None ELSE Min(row.prices)
           fields == <<row.rate_per_night, PerNight(row.total_rate), cheapest>>
<1>0. /\ DOMAIN fields = 1..3 /\ HotelPerNight(row) = FirstKnown(fields)
      /\ fields[1] = row.rate_per_night /\ fields[2] = PerNight(row.total_rate)
      /\ fields[3] = cheapest
  BY DEF HotelPerNight
<1>1. CASE ~(o.free /\ o.quote # None)
  <2>1. row.rate_per_night = None /\ row.total_rate = None /\ row.prices = {}
    BY <1>1 DEF HotelRows
  <2>2. \A i \in 1..3 : fields[i] = None
    BY <2>1 DEF PerNight
  <2> HIDE DEF fields
  <2> QED BY <1>0, <1>1, <2>2, FirstKnownIs
<1>2. CASE o.free /\ o.quote # None
  <2> DEFINE rate == Nearest(o.quote, nights)
  <2>1. o.quote \in Nat
    BY <1>2 DEF Offer
  <2>2. rate \in Nat /\ rate # None /\ Within(rate, o.quote, 0)
    <3>1. /\ rate \in Nat /\ 2 * (rate * nights) <= 2 * o.quote + nights
          /\ 2 * o.quote <= 2 * (rate * nights) + nights
      BY <2>1, NearestIs
    <3> HIDE DEF rate
    <3> QED BY <2>1, <3>1, NoneAssumption DEF Within
  <2>3. /\ row.rate_per_night \in {None, rate} /\ row.total_rate \in {None, o.quote}
        /\ row.prices \in {{rate}, {rate, rate + OtherPrice}}
    BY <1>2 DEF HotelRows
  <2>4. PerNight(row.total_rate) \in {None, rate}
    BY <2>1, <2>3, NoneAssumption DEF PerNight
  <2>5. cheapest = rate
    <3>1. rate \in row.prices /\ \A y \in row.prices : rate <= y /\ y \in Int
      BY <2>2, <2>3, MoneyAssumption
    <3>2. \A x \in row.prices : (\A y \in row.prices : x <= y) => x = rate
      BY <2>2, <3>1
    <3> QED BY <3>1, <3>2 DEF Min
  <2> HIDE DEF rate, cheapest
  <2>6. \A i \in 1..3 : fields[i] \in {None, rate}
    BY <2>3, <2>4, <2>5
  <2>7. fields[3] # None
    BY <2>2, <2>5
  <2> HIDE DEF fields
  <2>8. HotelPerNight(row) = rate
    BY <1>0, <2>6, <2>7, FirstKnownIs
  <2> QED BY <1>2, <2>1, <2>2, <2>8
<1> QED BY <1>1, <1>2

\* What a dated details answer says.
LEMMA DetailsRowIs ==
    ASSUME NEW o \in Offer, nights \in Nat \ {0}, NEW row \in DetailsRows(o)
    PROVE  LET a == parse_details(row, TRUE)
           IN  /\ a.what = "AirbnbAvailability" /\ a.dates_applied
               /\ a.is_available \in {o.free, None}
               /\ a.stay_total \in Nat \cup {None}
               /\ a.per_night = None \/ Within(a.per_night, o.quote, 100)
               /\ a.per_night # None => /\ a.per_night \in Nat /\ o.quote \in Nat
                                        /\ a.is_available # FALSE => o.free
               /\ o.free /\ o.quote # None => a.per_night # None
<1> DEFINE a == parse_details(row, TRUE)
           fields == <<row.total, row.rate>>
           total == FirstKnown(fields)
<1>0. /\ DOMAIN fields = 1..2 /\ fields[1] = row.total /\ fields[2] = row.rate
      /\ a.what = "AirbnbAvailability" /\ a.dates_applied
      /\ a.is_available = row.is_available /\ a.stay_total = total
      /\ a.per_night = PerNight(total)
  BY DEF parse_details
<1>1. /\ row.is_available \in {o.free, None}
      /\ row.total \in {None, o.quote}
      /\ row.rate = None \/ (o.quote # None /\ row.rate = 100 * Nearest(o.quote, 100))
      /\ o.free /\ o.quote # None => row.total # None \/ row.rate # None
      /\ ~o.free /\ row.is_available = None => row.total = None /\ row.rate = None
  <2>1. /\ row \in [is_available : {o.free, None}, total : {None, o.quote},
                     rate : {None, IF o.quote = None THEN None
                                   ELSE 100 * Nearest(o.quote, 100)}]
        /\ o.free /\ o.quote # None => row.total # None \/ row.rate # None
        /\ ~o.free /\ row.is_available = None => row.total = None /\ row.rate = None
    BY DEF DetailsRows
  <2>2. /\ row.is_available \in {o.free, None} /\ row.total \in {None, o.quote}
        /\ row.rate \in {None, IF o.quote = None THEN None
                               ELSE 100 * Nearest(o.quote, 100)}
    BY <2>1, Zenon
  <2>3. row.rate = None \/ (o.quote # None /\ row.rate = 100 * Nearest(o.quote, 100))
    <3> DEFINE rounded == 100 * Nearest(o.quote, 100)
    <3>1. row.rate \in {None, IF o.quote = None THEN None ELSE rounded}
      BY <2>2
    <3> HIDE DEF rounded
    <3>2. row.rate = None \/ (o.quote # None /\ row.rate = rounded)
      BY <3>1
    <3> QED BY <3>2 DEF rounded
  <2> QED BY <2>1, <2>2, <2>3, Zenon
<1>2. \/ total = None /\ row.total = None /\ row.rate = None
      \/ total = row.total /\ total # None
      \/ total = row.rate /\ total # None
  <2> HIDE DEF fields
  <2> QED BY <1>0, FirstKnownIs
<1> HIDE DEF a, fields, total
<1>3. CASE total = None
  <2>1. PerNight(total) = None
    BY <1>3 DEF PerNight
  <2> QED BY <1>0, <1>1, <1>2, <1>3, <2>1 DEF a
<1>4. CASE total # None
  <2>1. o.quote \in Nat
    BY <1>1, <1>2, <1>4 DEF Offer
  <2>2. /\ total \in Nat
        /\ 2 * total <= 2 * o.quote + 100 /\ 2 * o.quote <= 2 * total + 100
    <3>1. CASE total = row.rate
      <4>1. Nearest(o.quote, 100) \in Nat /\ total = 100 * Nearest(o.quote, 100)
        <5>1. Nearest(o.quote, 100) \in Nat
          BY <2>1, NearestIs, 100 \in Nat \ {0}
        <5> QED BY <1>1, <1>4, <3>1, <5>1
      <4>2. /\ 2 * (Nearest(o.quote, 100) * 100) <= 2 * o.quote + 100
            /\ 2 * o.quote <= 2 * (Nearest(o.quote, 100) * 100) + 100
        BY <2>1, NearestIs
      <4> QED BY <4>1, <4>2, <2>1
    <3>2. CASE total = row.total
      BY <1>1, <1>4, <2>1, <3>2
    <3> QED BY <1>2, <1>4, <3>1, <3>2
  <2>3. /\ PerNight(total) \in Nat /\ PerNight(total) # None
        /\ Within(PerNight(total), total, 0)
    BY <2>2, PerNightIs
  <2>4. Within(PerNight(total), o.quote, 100)
    BY <2>1, <2>2, <2>3 DEF Within
  <2>5. row.is_available # FALSE => o.free
    BY <1>1, <1>2, <1>4 DEF Offer
  <2> QED BY <1>0, <1>1, <2>1, <2>2, <2>3, <2>4, <2>5 DEF a
<1> QED BY <1>3, <1>4

\* What an undated one says: nothing of the dates.
LEMMA UndatedRowIs ==
    ASSUME NEW row \in UndatedRows
    PROVE  LET a == parse_details(row, FALSE)
           IN  /\ a.what = "AirbnbAvailability" /\ ~a.dates_applied
               /\ a.is_available = None /\ a.per_night = None
               /\ a.stay_total \in Nat \cup {None}
<1> DEFINE fields == <<row.total, row.rate>>
<1>1. DOMAIN fields = 1..2 /\ \A i \in 1..2 : fields[i] \in Nat \cup {None}
  BY MoneyAssumption DEF UndatedRows
<1>2. FirstKnown(fields) \in Nat \cup {None}
  <2> HIDE DEF fields
  <2> QED BY <1>1, FirstKnownIs
<1> QED BY <1>2 DEF parse_details

LEMMA SearchRowIs ==
    ASSUME NEW o \in Offer, o.quote # None, nights \in Nat \ {0}, NEW row \in SearchRows(o),
           SearchPerNight(row) # None
    PROVE  /\ SearchPerNight(row) \in Nat
           /\ ~Adjusted(row) => Within(SearchPerNight(row), o.quote, 0)
<1> DEFINE fields == <<row.total_cost, row.nightly_rate>> \o row.cost_breakdown
           total == FirstKnown(fields)
<1>1. /\ row.total_cost \in {None, o.quote} /\ row.nightly_rate \in {None, o.quote}
      /\ \/ row.cost_breakdown = <<>> \/ row.cost_breakdown = <<o.quote>>
         \/ row.cost_breakdown = <<o.quote + Discount, Discount>>
  BY DEF SearchRows
<1>2. o.quote \in Nat /\ o.quote + Discount \in Nat /\ Discount \in Nat
  BY MoneyAssumption DEF Offer
<1>3. \E n \in 0..4 :
         /\ DOMAIN fields = 1..n
         /\ \A i \in 1..n : fields[i] \in Nat \cup {None}
         /\ ~Adjusted(row) => \A i \in 1..n : /\ i <= 3 \/ Len(row.cost_breakdown) > 1
                                              /\ i <= 2 => fields[i] \in {None, o.quote}
                                              /\ Len(row.cost_breakdown) <= 1 =>
                                                    fields[i] \in {None, o.quote}
         /\ n >= 2 /\ fields[1] = row.total_cost /\ fields[2] = row.nightly_rate
  <2>1. CASE row.cost_breakdown = <<>>
    <3>1. fields = <<row.total_cost, row.nightly_rate>>
      BY <2>1
    <3> QED BY <1>1, <1>2, <2>1, <3>1
  <2>2. CASE row.cost_breakdown = <<o.quote>>
    <3>1. /\ DOMAIN fields = 1..3 /\ fields[1] = row.total_cost
          /\ fields[2] = row.nightly_rate /\ fields[3] = o.quote
      BY <2>2
    <3> HIDE DEF fields
    <3> QED BY <1>1, <1>2, <2>2, <3>1
  <2>3. CASE row.cost_breakdown = <<o.quote + Discount, Discount>>
    <3>1. /\ DOMAIN fields = 1..4 /\ fields[1] = row.total_cost
          /\ fields[2] = row.nightly_rate /\ fields[3] = o.quote + Discount
          /\ fields[4] = Discount
      BY <2>3
    <3> HIDE DEF fields
    <3> QED BY <1>1, <1>2, <2>3, <3>1
  <2> QED BY <1>1, <2>1, <2>2, <2>3
<1>4. SearchPerNight(row) = PerNight(total)
  BY DEF SearchPerNight
<1>5. total # None
  BY <1>4 DEF PerNight
<1> HIDE DEF fields
<1>6. total \in Nat /\ (~Adjusted(row) => total = o.quote)
  <2>1. PICK n \in 0..4 :
         /\ DOMAIN fields = 1..n
         /\ \A i \in 1..n : fields[i] \in Nat \cup {None}
         /\ ~Adjusted(row) => \A i \in 1..n : /\ i <= 3 \/ Len(row.cost_breakdown) > 1
                                              /\ i <= 2 => fields[i] \in {None, o.quote}
                                              /\ Len(row.cost_breakdown) <= 1 =>
                                                    fields[i] \in {None, o.quote}
         /\ n >= 2 /\ fields[1] = row.total_cost /\ fields[2] = row.nightly_rate
    BY <1>3
  <2>2. PICK i \in 1..n : /\ total = fields[i] /\ fields[i] # None
                          /\ \A j \in 1..n : fields[j] # None => i <= j
    BY <1>5, <2>1, FirstKnownIs
  <2>3. total \in Nat
    BY <2>1, <2>2
  <2>4. ASSUME ~Adjusted(row) PROVE total = o.quote
    <3>1. CASE Len(row.cost_breakdown) <= 1
      BY <2>1, <2>2, <2>4, <3>1
    <3>2. CASE ~(Len(row.cost_breakdown) <= 1)
      <4>1. fields[1] # None \/ fields[2] # None
        BY <1>1, <2>1, <2>4, <3>2 DEF Adjusted
      <4>2. i <= 2
        BY <2>1, <2>2, <4>1
      <4> QED BY <2>1, <2>2, <2>4, <4>2
    <3> QED BY <3>1, <3>2
  <2> QED BY <2>3, <2>4
<1> QED BY <1>4, <1>6, PerNightIs

---------------------------------------------------------------------------
(* The inductive invariant.                                                *)

Told == [Callers -> Outcomes]
Built == [Callers -> {<<>>} \cup {<<a>> : a \in PricedArgs}]

Typing ==
    /\ stay \in Stays /\ offer \in Offers
    /\ today \in 0..LastDay
    /\ saved = <<>> \/ \E p \in Nat : saved = <<p>>
    /\ kept \in BOOLEAN
    /\ pc \in [Callers -> {"idle", "dated", "undated"} \cup Checking \cup Counting]
    /\ op \in [Callers -> Operations]
    /\ told \in Told /\ built \in Built
    /\ during \in [Callers -> SUBSET Offers]
    /\ answered \in [Callers -> BOOLEAN]

\* A call runs only once the stay was found for a night or more; until it ends
\* it has said nothing; it knows the offer of the moment.
Running(c) ==
    /\ saved = <<>> => pc[c] = "idle" /\ built[c] = <<>> /\ told[c] = Silence
    /\ pc[c] # "idle" => /\ told[c] = Silence /\ built[c] = <<>>
                         /\ offer \in during[c]
    /\ pc[c] \in {"spendAgain", "countAgain", "undated"} => stay.provider = "airbnb"

\* What an ended call says was so of an offer of the time of the call.
Truthful(c) ==
    /\ told[c].what = "AirbnbAvailability" =>
          /\ told[c].is_available = TRUE => \E o \in during[c] : o.free
          /\ told[c].is_available = FALSE => \E o \in during[c] : ~o.free
          /\ told[c].per_night # None =>
                \E o \in during[c] : o.quote \in Nat /\ Within(told[c].per_night, o.quote, 100)
    /\ Says(c, "available") =>
          \E o \in during[c] : /\ o.free /\ o.quote \in Nat
                               /\ Within(built[c][1].price_usd, o.quote, 100)
    /\ Says(c, "unavailable") => \E o \in during[c] : ~o.free \/ o.quote = None

\* While the offer stays what the search saw, no call has seen another one.
Steady ==
    kept => /\ saved # <<>> /\ offer.quote \in Nat /\ Within(saved[1], offer.quote, 0)
            /\ \A c \in Callers : pc[c] # "idle" \/ built[c] # <<>> => during[c] \subseteq {offer}

IInv ==
    /\ Typing
    /\ saved # <<>> => nights >= 1
    /\ \A c \in Callers : Running(c) /\ Truthful(c)
    /\ Steady

LEMMA StayFacts ==
    ASSUME Typing PROVE nights \in Int /\ offer \in Offer /\ stay.provider \in {"hotels", "airbnb"}
BY OffersAssumption DEF Typing, nights, nights_between, Stay

LEMMA InitIInv == Init => IInv
<1> SUFFICES ASSUME Init PROVE IInv
  OBVIOUS
<1>1. Typing
  <2>1. Silence \in Outcomes
    BY DEF Outcomes
  <2>2. today \in 0..LastDay
    BY BoundsAssumption DEF Init
  <2>3. told \in Told /\ built \in Built /\ op \in [Callers -> Operations]
    BY <2>1 DEF Init, Told, Built, Operations
  <2> QED BY <2>2, <2>3 DEF Init, Typing
<1>2. ASSUME NEW c \in Callers PROVE Running(c) /\ Truthful(c)
  BY DEF Init, Running, Truthful, Says, Silence
<1> QED BY <1>1, <1>2 DEF Init, IInv, Steady

\* A call says something, and only that call changes.
LEMMA Concludes ==
    ASSUME IInv, NEW c \in Callers, pc[c] # "idle",
           NEW outcome \in Outcomes, NEW b \in {<<>>} \cup {<<a>> : a \in PricedArgs},
           Tell(c, outcome), built' = [built EXCEPT ![c] = b],
           answered' \in [Callers -> BOOLEAN],
           UNCHANGED <<stay, today, offer, saved, kept, op, during>>,
           Truthful(c)'
    PROVE  IInv'
<1>1. Typing'
  BY DEF IInv, Typing, Told, Built, Tell
<1>2. nights' = nights
  BY DEF nights, nights_between
<1>3. saved # <<>>
  BY DEF IInv, Running
<1>4. ASSUME NEW d \in Callers PROVE Running(d)' /\ Truthful(d)'
  <2>1. CASE d = c
    BY <1>3, <2>1 DEF IInv, Typing, Running, Tell
  <2>2. CASE d # c
    <3>1. /\ pc'[d] = pc[d] /\ told'[d] = told[d] /\ built'[d] = built[d]
      BY <2>2 DEF IInv, Typing, Told, Built, Tell
    <3>2. Running(d)'
      BY <3>1 DEF IInv, Running
    <3>3. Truthful(d)'
      BY <1>2, <3>1 DEF IInv, Truthful, Says, Within
    <3> QED BY <3>2, <3>3
  <2> QED BY <2>1, <2>2
<1>5. Steady'
  BY <1>2, <1>3 DEF IInv, Steady, Typing, Tell, Within, Built
<1> QED BY <1>1, <1>2, <1>3, <1>4, <1>5 DEF IInv

\* A running call comes to its next await.
LEMMA Moves ==
    ASSUME IInv, NEW c \in Callers, pc[c] # "idle",
           NEW label \in {"dated", "undated"} \cup Checking \cup Counting,
           pc' = [pc EXCEPT ![c] = label],
           label \in {"spendAgain", "countAgain", "undated"} => stay.provider = "airbnb",
           UNCHANGED <<stay, today, offer, saved, kept, op, told, built, during, answered>>
    PROVE  IInv'
<1>1. Typing'
  BY DEF IInv, Typing
<1>2. nights' = nights
  BY DEF nights, nights_between
<1>3. ASSUME NEW d \in Callers PROVE Running(d)' /\ Truthful(d)'
  <2>1. Running(d)'
    BY DEF IInv, Typing, Running
  <2>2. Truthful(d)'
    BY <1>2 DEF IInv, Truthful, Says, Within
  <2> QED BY <2>1, <2>2
<1>4. Steady'
  BY <1>2 DEF IInv, Steady, Typing, Within
<1> QED BY <1>1, <1>2, <1>3, <1>4 DEF IInv

LEMMA SelectStep == ASSUME IInv, Select PROVE IInv'
<1>1. nights' = nights /\ nights \in Nat \ {0}
  BY StayFacts DEF IInv, Select, validate_stay_dates, nights, nights_between
<1>2. offer \in Offer /\ offer.quote \in Nat /\ offer.free /\ offer.quote # None
  BY StayFacts DEF IInv, Select, Offer
<1>3. \E p \in Nat : saved' = <<p>> /\ (kept' => Within(p, offer.quote, 0))
  <2>1. ASSUME NEW row \in HotelRows(offer)
        PROVE  HotelPerNight(row) \in Nat /\ Within(HotelPerNight(row), offer.quote, 0)
    BY <1>1, <1>2, HotelRowIs DEF Within
  <2>2. ASSUME NEW row \in SearchRows(offer), SearchPerNight(row) # None
        PROVE  /\ SearchPerNight(row) \in Nat
               /\ ~Adjusted(row) => Within(SearchPerNight(row), offer.quote, 0)
    BY <1>1, <1>2, <2>2, SearchRowIs
  <2>3. CASE \E row \in HotelRows(offer) : saved' = <<HotelPerNight(row)>>
    BY <2>1, <2>3
  <2>4. CASE \E row \in SearchRows(offer) : /\ SearchPerNight(row) # None
                                            /\ saved' = <<SearchPerNight(row)>>
                                            /\ kept' = ~Adjusted(row)
    BY <2>2, <2>4
  <2> QED BY <2>3, <2>4 DEF Select
<1>4. kept' \in BOOLEAN
  BY DEF Select, Adjusted
<1>5. Typing'
  BY <1>3, <1>4 DEF IInv, Typing, Select, callVars
<1>6. UNCHANGED <<stay, today, offer, callVars>> /\ saved = <<>>
  BY DEF Select
<1>7. ASSUME NEW c \in Callers PROVE Running(c)' /\ Truthful(c)' /\ pc[c] = "idle" /\ built[c] = <<>>
  <2>1. pc[c] = "idle" /\ built[c] = <<>>
    BY <1>6 DEF IInv, Running
  <2>2. Running(c)'
    BY <1>6, <2>1 DEF IInv, Running, callVars
  <2>3. Truthful(c)'
    BY <1>1, <1>6 DEF IInv, Truthful, Says, Within, callVars
  <2> QED BY <2>1, <2>2, <2>3
<1>8. Steady'
  BY <1>1, <1>2, <1>3, <1>6, <1>7 DEF Steady, Within, callVars
<1> QED BY <1>1, <1>5, <1>7, <1>8 DEF IInv

LEMMA BeginStep ==
    ASSUME IInv, NEW c \in Callers, NEW method \in Operations, Begin(c, method) PROVE IInv'
<1>1. nights' = nights /\ saved # <<>>
  BY DEF Begin, nights, nights_between
<1>2. /\ UNCHANGED <<stay, today, offer, saved, kept>>
      /\ op' = [op EXCEPT ![c] = method] /\ built' = [built EXCEPT ![c] = <<>>]
      /\ during' = [during EXCEPT ![c] = {offer}] /\ answered' = [answered EXCEPT ![c] = FALSE]
  BY DEF Begin
<1>3. \/ /\ pc' = [pc EXCEPT ![c] = "idle"]
         /\ told' = [told EXCEPT ![c] = [what |-> "LodgingProviderError",
                                         code |-> "use_persisted_booking_request"]]
      \/ /\ pc' = [pc EXCEPT ![c] = "spend"]
         /\ told' = [told EXCEPT ![c] = Silence]
  BY DEF Begin, Fail, Tell
<1>4. Typing'
  <2>1. /\ Silence \in Outcomes
        /\ [what |-> "LodgingProviderError", code |-> "use_persisted_booking_request"] \in Outcomes
    BY DEF Outcomes
  <2>2. /\ pc' \in [Callers -> {"idle", "dated", "undated"} \cup Checking \cup Counting]
        /\ told' \in Told
    BY <1>3, <2>1 DEF IInv, Typing, Told, Checking
  <2> QED BY <1>2, <2>2 DEF IInv, Typing, Built
<1>5. ASSUME NEW d \in Callers PROVE Running(d)' /\ Truthful(d)'
  <2>1. CASE d = c
    <3>1. /\ built'[c] = <<>> /\ during'[c] = {offer}
          /\ pc'[c] \in {"idle", "spend"}
          /\ pc'[c] = "spend" => told'[c] = Silence
          /\ told'[c].what \in {"nothing", "LodgingProviderError"}
      BY <1>2, <1>3 DEF IInv, Typing, Told, Built, Silence
    <3> QED BY <1>1, <1>2, <2>1, <3>1 DEF Running, Truthful, Says
  <2>2. CASE d # c
    <3>1. /\ pc'[d] = pc[d] /\ told'[d] = told[d] /\ built'[d] = built[d]
          /\ during'[d] = during[d]
      BY <1>2, <1>3, <2>2 DEF IInv, Typing, Told, Built
    <3>2. Running(d)'
      BY <1>2, <3>1 DEF IInv, Running
    <3>3. Truthful(d)'
      BY <1>1, <1>2, <3>1 DEF IInv, Truthful, Says, Within
    <3> QED BY <3>2, <3>3
  <2> QED BY <2>1, <2>2
<1>6. Steady'
  <2>1. ASSUME NEW d \in Callers, kept, pc'[d] # "idle" \/ built'[d] # <<>>
        PROVE  during'[d] \subseteq {offer}
    BY <1>2, <1>3, <2>1 DEF IInv, Typing, Built, Steady
  <2> QED BY <1>1, <1>2, <2>1 DEF IInv, Steady, Within
<1> QED BY <1>1, <1>4, <1>5, <1>6, <1>2 DEF IInv

LEMMA EnvironmentStep ==
    ASSUME IInv,
           DayPasses \/ NewWindow \/ UNCHANGED vars \/ \E o \in Offers : OfferChanges(o)
    PROVE  IInv'
<1>1. nights' = nights /\ UNCHANGED <<stay, saved, pc, op, told, built, answered>>
  BY DEF DayPasses, NewWindow, vars, OfferChanges, nights, nights_between, callVars
<1>2. /\ offer' \in Offers /\ kept' \in BOOLEAN
      /\ during' \in [Callers -> SUBSET Offers]
      /\ \A c \in Callers : /\ during[c] \subseteq during'[c]
                            /\ offer \in during[c] /\ pc[c] # "idle" => offer' \in during'[c]
      /\ kept' => UNCHANGED <<kept, offer, during>>
  <2>1. CASE DayPasses \/ NewWindow \/ UNCHANGED vars
    BY <2>1 DEF IInv, Typing, DayPasses, NewWindow, vars, callVars
  <2>2. ASSUME NEW o \in Offers, OfferChanges(o)
        PROVE  /\ offer' \in Offers /\ kept' = FALSE
               /\ during' \in [Callers -> SUBSET Offers]
               /\ \A c \in Callers : /\ during[c] \subseteq during'[c]
                                     /\ pc[c] # "idle" => offer' \in during'[c]
    BY <2>2 DEF IInv, Typing, OfferChanges
  <2> QED BY <2>1, <2>2
<1>3. today' \in 0..LastDay
  BY BoundsAssumption DEF IInv, Typing, DayPasses, NewWindow, vars, OfferChanges, callVars
<1>4. Typing'
  BY <1>1, <1>2, <1>3 DEF IInv, Typing
<1>5. ASSUME NEW c \in Callers PROVE Running(c)' /\ Truthful(c)'
  <2>1. Running(c)'
    BY <1>1, <1>2 DEF IInv, Running
  <2>2. Truthful(c)'
    BY <1>1, <1>2 DEF IInv, Truthful, Says, Within
  <2> QED BY <2>1, <2>2
<1>6. Steady'
  BY <1>1, <1>2 DEF IInv, Steady, Within
<1> QED BY <1>1, <1>4, <1>5, <1>6 DEF IInv

\* A running call fails, is refused or cancelled.
LEMMA GivesUp ==
    ASSUME IInv, NEW c \in Callers, pc[c] # "idle", NEW outcome \in Outcomes,
           outcome.what # "AirbnbAvailability", Tell(c, outcome),
           UNCHANGED <<stay, today, offer, saved, kept, op, built, during, answered>>
    PROVE  IInv'
<1>1. built[c] = <<>>
  BY DEF IInv, Running
<1>2. built' = [built EXCEPT ![c] = <<>>] /\ answered' \in [Callers -> BOOLEAN]
  BY <1>1 DEF IInv, Typing, Built
<1>3. Truthful(c)'
  <2>1. told'[c] = outcome
    BY DEF Tell, IInv, Typing, Told
  <2> QED BY <1>1, <2>1 DEF Truthful, Says
<1> QED BY <1>2, <1>3, Concludes

LEMMA AwaitStep ==
    ASSUME IInv, NEW c \in Callers,
           \/ Admitted(c) \/ AdmittedBlind(c) \/ Counted(c) \/ Uncounted(c)
           \/ Refused(c) \/ CallFails(c) \/ Cancel(c)
    PROVE  IInv'
<1>0. /\ Silence \in Outcomes /\ [what |-> "QuotaExceeded"] \in Outcomes
      /\ [what |-> "LodgingProviderError", code |-> "provider_error"] \in Outcomes
      /\ Silence.what # "AirbnbAvailability"
  BY DEF Outcomes, Silence
<1>1. CASE Admitted(c) \/ AdmittedBlind(c) \/ Counted(c) \/ Uncounted(c)
  <2>1. pc[c] \in Checking \cup Counting /\ GoOn(c)
    BY <1>1 DEF Admitted, AdmittedBlind, Counted, Uncounted
  <2>2. PICK label \in {"dated", "undated"} \cup Checking \cup Counting :
           /\ pc' = [pc EXCEPT ![c] = label]
           /\ label \in {"countAgain", "undated"} => pc[c] \in {"spendAgain", "countAgain"}
           /\ label # "spendAgain"
    <3>1. /\ pc[c] \in {"spend", "count", "spendAgain", "countAgain"}
          /\ pc' = [pc EXCEPT ![c] = After[pc[c]]]
      BY <2>1 DEF GoOn, Checking, Counting
    <3>2. /\ After["spend"] = "count" /\ After["count"] = "dated"
          /\ After["spendAgain"] = "countAgain" /\ After["countAgain"] = "undated"
      BY DEF After
    <3> HIDE DEF After
    <3> QED BY <3>1, <3>2 DEF Counting
  <2>3. label \in {"countAgain", "undated"} => stay.provider = "airbnb"
    BY <2>2 DEF IInv, Running
  <2>4. UNCHANGED <<stay, today, offer, saved, kept, op, told, built, during, answered>>
    BY <2>1 DEF GoOn
  <2>5. pc[c] # "idle"
    BY <2>1 DEF Checking, Counting
  <2> QED BY <2>2, <2>3, <2>4, <2>5, Moves
<1>2. CASE Refused(c)
  BY <1>0, <1>2, GivesUp DEF Refused, Checking
<1>3. CASE CallFails(c)
  <2>1. CASE pc[c] = "dated" /\ stay.provider = "airbnb"
             /\ pc' = [pc EXCEPT ![c] = "spendAgain"] /\ UNCHANGED told
    BY <1>3, <2>1, Moves DEF CallFails, Checking
  <2>2. CASE pc[c] # "idle" /\ Fail(c, "provider_error")
    BY <1>0, <1>3, <2>2, GivesUp DEF CallFails, Fail
  <2> QED BY <1>3, <2>1, <2>2 DEF CallFails
<1>4. CASE Cancel(c)
  BY <1>0, <1>4, GivesUp DEF Cancel
<1> QED BY <1>1, <1>2, <1>3, <1>4

\* A re-price says of an offer what is so.
PriceOfOffer(args, o) ==
    /\ args.status = "available" =>
          o.free /\ o.quote \in Nat /\ Within(args.price_usd, o.quote, 100)
    /\ args.status = "unavailable" => ~o.free \/ o.quote = None

LEMMA PricedIsTruthful ==
    ASSUME IInv, NEW c \in Callers, pc[c] # "idle", NEW args \in PricedArgs,
           PriceOfOffer(args, offer), Price(c, args),
           answered' = [answered EXCEPT ![c] = TRUE],
           UNCHANGED <<stay, today, offer, saved, kept, op, during>>
    PROVE  IInv'
<1>1. PICK outcome \in Outcomes :
         /\ Tell(c, outcome) /\ outcome.what \in {"Priced", "ValidationError"}
         /\ built' = [built EXCEPT ![c] = <<args>>]
  BY DEF Price, Outcomes
<1>2. /\ told'[c].what # "AirbnbAvailability"
      /\ built'[c] = <<args>> /\ built'[c][1] = args
      /\ answered' \in [Callers -> BOOLEAN]
  BY <1>1 DEF Tell, IInv, Typing, Told, Built
<1>3. Truthful(c)'
  <2>1. nights' = nights /\ during' = during /\ offer \in during[c]
    BY DEF nights, nights_between, IInv, Running
  <2>2. /\ args.status = "available" =>
              offer.free /\ offer.quote \in Nat /\ Within(args.price_usd, offer.quote, 100)
        /\ args.status = "unavailable" => ~offer.free \/ offer.quote = None
    BY DEF PriceOfOffer
  <2> QED BY <1>2, <2>1, <2>2 DEF Truthful, Says, Within
<1> QED BY <1>1, <1>2, <1>3, Concludes

LEMMA HotelAnswersStep ==
    ASSUME IInv, NEW c \in Callers, HotelAnswers(c) PROVE IInv'
<1>0. /\ pc[c] # "idle" /\ built[c] = <<>> /\ offer \in during[c]
      /\ nights \in Nat \ {0} /\ offer \in Offer
  BY StayFacts DEF IInv, Running, HotelAnswers
<1>1. PICK payload \in HotelPayloads(offer) :
         ResolveHotel(c, payload) \/ RepriceHotel(c, payload)
  BY DEF HotelAnswers
<1>2. /\ answered' = [answered EXCEPT ![c] = TRUE] /\ answered' \in [Callers -> BOOLEAN]
      /\ UNCHANGED <<stay, today, offer, saved, kept, op, during>>
  BY <1>0 DEF HotelAnswers, IInv, Typing
<1>3. CASE ResolveHotel(c, payload)
  <2>1. PICK outcome \in Outcomes : /\ Tell(c, outcome)
                                    /\ outcome.what # "AirbnbAvailability"
    BY <1>3 DEF ResolveHotel, Fail, Outcomes
  <2>2. built' = [built EXCEPT ![c] = <<>>]
    BY <1>0, <1>3 DEF ResolveHotel, IInv, Typing, Built
  <2>3. told'[c] = outcome /\ built'[c] = <<>>
    BY <2>1, <2>2 DEF Tell, IInv, Typing, Told, Built
  <2>4. Truthful(c)'
    BY <2>1, <2>3 DEF Truthful, Says
  <2> QED BY <1>0, <1>2, <2>1, <2>2, <2>4, Concludes
<1>4. CASE RepriceHotel(c, payload)
  <2> DEFINE args == PriceOfProperty(payload)
  <2>1. args \in PricedArgs /\ PriceOfOffer(args, offer)
    <3>1. payload.properties = <<>> => ~offer.free \/ offer.quote = None
      BY DEF HotelPayloads
    <3>2. payload.properties = <<>> \/ \E row \in HotelRows(offer) : payload.properties = <<row>>
      BY DEF HotelPayloads
    <3>3. CASE payload.properties = <<>>
      <4>1. args = [status |-> "unavailable", price_usd |-> None]
        BY <3>3 DEF PriceOfProperty, PropertyRecords
      <4> QED BY <3>1, <3>3, <4>1 DEF PricedArgs, Prices, PriceOfOffer
    <3>4. ASSUME NEW row \in HotelRows(offer), payload.properties = <<row>>
          PROVE  args \in PricedArgs /\ PriceOfOffer(args, offer)
      <4>1. args = [status |-> IF HotelPerNight(row) = None THEN "unavailable" ELSE "available",
                    price_usd |-> HotelPerNight(row)]
        BY <3>4 DEF PriceOfProperty, PropertyRecords
      <4> HIDE DEF args
      <4>2. IF offer.free /\ offer.quote # None
            THEN /\ HotelPerNight(row) # None /\ offer.quote \in Nat
                 /\ Within(HotelPerNight(row), offer.quote, 0)
            ELSE HotelPerNight(row) = None
        BY <1>0, HotelRowIs
      <4>3. Within(HotelPerNight(row), offer.quote, 0) =>
              /\ HotelPerNight(row) \in Nat
              /\ offer.quote \in Nat => Within(HotelPerNight(row), offer.quote, 100)
        BY <1>0 DEF Within
      <4> QED BY <4>1, <4>2, <4>3 DEF PricedArgs, Prices, PriceOfOffer
    <3> QED BY <3>2, <3>3, <3>4
  <2> QED BY <1>0, <1>2, <1>4, <2>1, PricedIsTruthful DEF RepriceHotel, HotelAnswers
<1> QED BY <1>1, <1>3, <1>4

LEMMA DatedDetailsStep ==
    ASSUME IInv, NEW c \in Callers, DatedDetails(c) PROVE IInv'
<1>0. /\ pc[c] # "idle" /\ built[c] = <<>> /\ offer \in during[c]
      /\ nights \in Nat \ {0} /\ offer \in Offer
  BY StayFacts DEF IInv, Running, DatedDetails
<1>1. PICK row \in DetailsRows(offer) : Conclude(c, parse_details(row, TRUE))
  BY DEF DatedDetails
<1> DEFINE a == parse_details(row, TRUE)
<1>2. /\ a.what = "AirbnbAvailability" /\ a.dates_applied
      /\ a.is_available \in {offer.free, None}
      /\ a.stay_total \in Nat \cup {None}
      /\ a.per_night = None \/ Within(a.per_night, offer.quote, 100)
      /\ a.per_night # None => /\ a.per_night \in Nat /\ offer.quote \in Nat
                               /\ a.is_available # FALSE => offer.free
      /\ offer.free /\ offer.quote # None => a.per_night # None
  BY <1>0, DetailsRowIs
<1>3. a \in Outcomes
  <2>1. a.per_night \in Prices /\ a.is_available \in BOOLEAN \cup {None}
    BY <1>0, <1>2 DEF Prices, Offer
  <2>2. a = [what |-> "AirbnbAvailability", is_available |-> a.is_available,
             stay_total |-> a.stay_total, per_night |-> a.per_night, dates_applied |-> TRUE]
    BY DEF parse_details
  <2> HIDE DEF a
  <2>3. a \in [what : {"AirbnbAvailability"}, is_available : BOOLEAN \cup {None},
               stay_total : Prices, per_night : Prices, dates_applied : BOOLEAN]
    BY <1>2, <2>1, <2>2 DEF Prices
  <2> QED BY <2>3 DEF Outcomes
<1> HIDE DEF a
<1>4. CASE op[c] = "availability" /\ Tell(c, a) /\ UNCHANGED built
  <2>1. /\ built' = [built EXCEPT ![c] = <<>>]
        /\ answered' \in [Callers -> BOOLEAN]
        /\ UNCHANGED <<stay, today, offer, saved, kept, op, during>>
    BY <1>0, <1>4 DEF IInv, Typing, Built, DatedDetails
  <2>2. told'[c] = a /\ built'[c] = <<>>
    BY <1>0, <1>4, <2>1 DEF Tell, IInv, Typing, Told, Built
  <2>3. Truthful(c)'
    <3>1. nights' = nights /\ during' = during
      BY <2>1 DEF nights, nights_between
    <3>2. /\ a.is_available = TRUE => offer.free
          /\ a.is_available = FALSE => ~offer.free
      BY <1>0, <1>2, NoneAssumption DEF Offer
    <3> QED BY <1>0, <1>2, <2>2, <3>1, <3>2 DEF Truthful, Says, Within
  <2> QED BY <1>0, <1>3, <1>4, <2>1, <2>3, Concludes
<1>5. CASE Price(c, PriceOfAvailability(a))
  <2>1. PriceOfAvailability(a) \in PricedArgs /\ PriceOfOffer(PriceOfAvailability(a), offer)
    <3>1. CASE a.is_available # FALSE /\ a.per_night # None
      BY <1>2, <3>1 DEF PriceOfAvailability, PriceOfOffer, PricedArgs, Prices
    <3>2. CASE a.is_available = FALSE
      <4>1. ~offer.free
        BY <1>0, <1>2, <3>2, NoneAssumption DEF Offer
      <4> QED BY <3>2, <4>1 DEF PriceOfAvailability, PriceOfOffer, PricedArgs, Prices
    <3>3. CASE a.per_night = None
      BY <1>2, <3>3 DEF PriceOfAvailability, PriceOfOffer, PricedArgs, Prices
    <3> QED BY <3>1, <3>2, <3>3
  <2> QED BY <1>0, <1>5, <2>1, PricedIsTruthful DEF DatedDetails
<1> QED BY <1>1, <1>2, <1>4, <1>5 DEF Conclude, a

LEMMA UndatedDetailsStep ==
    ASSUME IInv, NEW c \in Callers, UndatedDetails(c) PROVE IInv'
<1>0. pc[c] # "idle" /\ built[c] = <<>>
  BY DEF IInv, Running, UndatedDetails
<1>1. PICK row \in UndatedRows : Conclude(c, parse_details(row, FALSE))
  BY DEF UndatedDetails
<1> DEFINE a == parse_details(row, FALSE)
<1>2. /\ a.what = "AirbnbAvailability" /\ ~a.dates_applied
      /\ a.is_available = None /\ a.per_night = None
      /\ a.stay_total \in Nat \cup {None}
  BY UndatedRowIs
<1>3. a \in Outcomes
  <2>1. a = [what |-> "AirbnbAvailability", is_available |-> None,
             stay_total |-> a.stay_total, per_night |-> None, dates_applied |-> FALSE]
    BY DEF parse_details
  <2> DEFINE total == a.stay_total
  <2> HIDE DEF a
  <2>3. total \in Prices /\ None \in Prices /\ None \in BOOLEAN \cup {None}
    BY <1>2 DEF Prices
  <2>4. a = [what |-> "AirbnbAvailability", is_available |-> None,
             stay_total |-> total, per_night |-> None, dates_applied |-> FALSE]
    BY <2>1
  <2> HIDE DEF total
  <2>2. a \in [what : {"AirbnbAvailability"}, is_available : BOOLEAN \cup {None},
               stay_total : Prices, per_night : Prices, dates_applied : BOOLEAN]
    BY <2>3, <2>4
  <2> QED BY <2>2 DEF Outcomes
<1>4. PICK outcome \in Outcomes :
         /\ Tell(c, outcome) /\ UNCHANGED built
         /\ \/ outcome = a
            \/ outcome.what = "LodgingProviderError"
  <2>1. [what |-> "LodgingProviderError", code |-> "reprice_dates_not_applied"] \in Outcomes
    BY DEF Outcomes
  <2> HIDE DEF a
  <2> QED BY <1>1, <1>2, <1>3, <2>1 DEF Conclude, Fail, a
<1> HIDE DEF a
<1>5. /\ built' = [built EXCEPT ![c] = <<>>]
      /\ answered' \in [Callers -> BOOLEAN]
      /\ UNCHANGED <<stay, today, offer, saved, kept, op, during>>
  BY <1>0, <1>4 DEF IInv, Typing, Built, UndatedDetails
<1>6. told'[c] = outcome /\ built'[c] = <<>>
  BY <1>0, <1>4, <1>5 DEF Tell, IInv, Typing, Told, Built
<1>7. Truthful(c)'
  BY <1>2, <1>4, <1>6, NoneAssumption DEF Truthful, Says
<1> QED BY <1>0, <1>4, <1>5, <1>7, Concludes

LEMMA NextIInv == IInv /\ [Next]_vars => IInv'
BY SelectStep, BeginStep, EnvironmentStep, AwaitStep, HotelAnswersStep, DatedDetailsStep,
   UndatedDetailsStep DEF Next

LEMMA AlwaysIInv == Spec => []IInv
BY InitIInv, NextIInv, PTL DEF Spec

---------------------------------------------------------------------------
(* The quota under several calls.                                          *)

\* The calls that have passed the check of the quota and not counted the request.
Passed == {c \in Callers : pc[c] \in Counting}

Metered ==
    /\ used \in Nat /\ blind \in 0..MaxBlind
    /\ used + Cardinality(Passed) <= CallsPerWindow - 1 + Cardinality(Callers) + blind

LEMMA MeteredInit == Init => Metered
<1> SUFFICES ASSUME Init PROVE Metered
  OBVIOUS
<1>1. Passed = {} /\ used = 0 /\ blind = 0
  BY DEF Init, Passed, Counting
<1>2. Cardinality(Callers) \in Nat /\ Cardinality(Passed) = 0
  BY <1>1, QuotaAssumption, FS_CardinalityType, FS_EmptySet
<1> QED BY <1>1, <1>2, QuotaAssumption DEF Metered

\* What a step may do to the quota and to the calls on their way to count.
QuotaMoves ==
    \/ Passed' \subseteq Passed /\ used' <= used /\ blind' = blind
    \/ used' < CallsPerWindow /\ blind' <= blind
    \/ /\ blind' = blind + 1 /\ used' = used
       /\ \E c \in Callers : Passed' \subseteq Passed \cup {c}
    \/ /\ blind' = blind /\ used' = used + 1
       /\ \E c \in Passed : Passed' \subseteq Passed \ {c}

LEMMA QuotaStep ==
    ASSUME Typing, Metered, [Next]_vars
    PROVE  QuotaMoves /\ used' \in Nat /\ blind' \in 0..MaxBlind
<1>1. CASE UNCHANGED <<pc, quota>>
  BY <1>1 DEF QuotaMoves, Metered, Passed, quota
<1>2. ASSUME NEW c \in Callers, NEW label \in {"idle", "spend", "spendAgain"},
             pc' = [pc EXCEPT ![c] = label], UNCHANGED quota
      PROVE  QuotaMoves /\ used' \in Nat /\ blind' \in 0..MaxBlind
  <2>1. Passed' \subseteq Passed
    BY <1>2 DEF Typing, Passed, Counting
  <2> QED BY <1>2, <2>1 DEF QuotaMoves, Metered, quota
<1>3. ASSUME NEW c \in Callers, NEW method \in Operations, Begin(c, method)
      PROVE  QuotaMoves /\ used' \in Nat /\ blind' \in 0..MaxBlind
  BY <1>2, <1>3 DEF Begin, Fail, Tell
<1>4. ASSUME NEW c \in Callers, Refused(c) \/ CallFails(c) \/ Cancel(c)
      PROVE  QuotaMoves /\ used' \in Nat /\ blind' \in 0..MaxBlind
  BY <1>2, <1>4 DEF Refused, CallFails, Cancel, Fail, Tell
<1>5. ASSUME NEW c \in Callers, HotelAnswers(c) \/ DatedDetails(c) \/ UndatedDetails(c)
      PROVE  QuotaMoves /\ used' \in Nat /\ blind' \in 0..MaxBlind
  <2>1. pc' = [pc EXCEPT ![c] = "idle"] /\ UNCHANGED quota
    BY <1>5 DEF HotelAnswers, ResolveHotel, RepriceHotel, DatedDetails, UndatedDetails,
                Conclude, Price, Fail, Tell
  <2> QED BY <1>2, <2>1
<1>6. ASSUME NEW c \in Callers, Admitted(c)
      PROVE  QuotaMoves /\ used' \in Nat /\ blind' \in 0..MaxBlind
  BY <1>6 DEF Admitted, QuotaMoves, Metered, quota
<1>7. ASSUME NEW c \in Callers, AdmittedBlind(c)
      PROVE  QuotaMoves /\ used' \in Nat /\ blind' \in 0..MaxBlind
  <2>1. /\ pc' = [pc EXCEPT ![c] = After[pc[c]]]
        /\ blind' = blind + 1 /\ used' = used /\ blind < MaxBlind
    BY <1>7 DEF AdmittedBlind, GoOn
  <2>2. Passed' \subseteq Passed \cup {c}
    BY <2>1 DEF Passed, Typing
  <2> QED BY <2>1, <2>2, QuotaAssumption DEF QuotaMoves, Metered
<1>8. ASSUME NEW c \in Callers, pc[c] \in Counting, GoOn(c)
      PROVE  c \in Passed /\ Passed' \subseteq Passed \ {c}
  <2>1. pc' = [pc EXCEPT ![c] = After[pc[c]]] /\ After[pc[c]] \in {"dated", "undated"}
    BY <1>8 DEF GoOn, After, Counting
  <2> HIDE DEF After
  <2>2. pc'[c] \notin Counting
    BY <2>1 DEF Typing, Counting
  <2>3. \A d \in Callers \ {c} : pc'[d] = pc[d]
    BY <2>1 DEF Typing
  <2> QED BY <1>8, <2>2, <2>3 DEF Passed
<1>9. ASSUME NEW c \in Callers, Counted(c)
      PROVE  QuotaMoves /\ used' \in Nat /\ blind' \in 0..MaxBlind
  <2>1. c \in Passed /\ Passed' \subseteq Passed \ {c}
    BY <1>8, <1>9 DEF Counted
  <2>2. used' = used + 1 /\ blind' = blind
    BY <1>9 DEF Counted
  <2> QED BY <2>1, <2>2 DEF QuotaMoves, Metered
<1>10. ASSUME NEW c \in Callers, Uncounted(c)
       PROVE  QuotaMoves /\ used' \in Nat /\ blind' \in 0..MaxBlind
  <2>1. Passed' \subseteq Passed
    BY <1>8, <1>10 DEF Uncounted
  <2> QED BY <1>10, <2>1 DEF Uncounted, QuotaMoves, Metered, quota
<1>11. CASE NewWindow
  BY <1>11, QuotaAssumption DEF NewWindow, QuotaMoves, Metered
<1>12. CASE Select \/ DayPasses \/ \E o \in Offers : OfferChanges(o)
  BY <1>1, <1>12 DEF Select, DayPasses, OfferChanges, callVars
<1> QED
  BY <1>1, <1>3, <1>4, <1>5, <1>6, <1>7, <1>9, <1>10, <1>11, <1>12
     DEF Next, vars, callVars

LEMMA MeteredStep == Typing /\ Metered /\ [Next]_vars => Metered'
<1> SUFFICES ASSUME Typing, Metered, [Next]_vars PROVE Metered'
  OBVIOUS
<1>1. QuotaMoves /\ used' \in Nat /\ blind' \in 0..MaxBlind
  BY QuotaStep
<1>2. used \in Nat /\ blind \in Nat /\ blind' \in Nat
  BY <1>1, QuotaAssumption DEF Metered
<1>3. Passed \subseteq Callers /\ Passed' \subseteq Callers
  BY DEF Passed
<1>4. used + Cardinality(Passed) <= CallsPerWindow - 1 + Cardinality(Callers) + blind
  BY DEF Metered
<1> DEFINE E == Passed
           F == Passed'
<1> HIDE DEF E, F
<1>5. used' + Cardinality(F) <= CallsPerWindow - 1 + Cardinality(Callers) + blind'
  BY <1>1, <1>2, <1>3, <1>4, OverdrawStep, QuotaAssumption DEF QuotaMoves, E, F
<1> QED BY <1>1, <1>5 DEF Metered, F

---------------------------------------------------------------------------
(* The theorems.                                                           *)

\* Every variable keeps its type: what is told is one of the outcomes the
\* adapters have, prices are never negative, and the calls count no more requests
\* over the quota than one for each other call and one for each check that Redis
\* did not answer.
THEOREM TypeCorrect == Spec => []TypeOK
<1>1. Typing /\ Metered => TypeOK
  <2> SUFFICES ASSUME Typing, Metered PROVE TypeOK
    OBVIOUS
  <2>0. ASSUME NEW S PROVE <<>> \in Seq(S) /\ \A a \in S : <<a>> \in Seq(S)
    OBVIOUS
  <2>1. saved \in Seq(Nat) /\ Len(saved) <= 1
    <3>1. CASE saved = <<>>
      BY <3>1, <2>0
    <3>2. ASSUME NEW p \in Nat, saved = <<p>> PROVE saved \in Seq(Nat) /\ Len(saved) <= 1
      BY <3>2, <2>0
    <3> QED BY <3>1, <3>2 DEF Typing
  <2>2. ASSUME NEW c \in Callers PROVE built[c] \in Seq(PricedArgs)
    <3>1. built[c] = <<>> \/ \E a \in PricedArgs : built[c] = <<a>>
      BY DEF Typing, Built
    <3> QED BY <3>1, <2>0
  <2>3. used \in 0..(CallsPerWindow - 1 + Cardinality(Callers) + blind)
    <3>1. Cardinality(Passed) \in Nat /\ Cardinality(Callers) \in Nat
      BY QuotaAssumption, FS_Subset, FS_CardinalityType DEF Passed
    <3> QED BY <3>1, QuotaAssumption DEF Metered
  <2> QED BY <2>1, <2>2, <2>3 DEF Typing, Metered, TypeOK, Told, Built
<1> QED BY <1>1, AlwaysIInv, MeteredInit, MeteredStep, PTL DEF IInv, Spec

\* Whatever a call says of the dates was so at some moment of the call.
THEOREM LiveStatusHolds == Spec => []LiveStatus
<1>1. IInv => LiveStatus
  BY NoneAssumption DEF IInv, Truthful, LiveStatus, Says, Typing, Within
<1> QED BY <1>1, AlwaysIInv, PTL

LEMMA WithinIsPrice ==
    ASSUME nights \in Nat, NEW p, NEW o \in Offer, o.quote \in Nat, Within(p, o.quote, 100)
    PROVE  IsPriceOf(p, o)
<1> DEFINE m == p * nights
<1>1. m \in Nat /\ 2 * m <= 2 * o.quote + 100 + nights /\ 2 * o.quote <= 2 * m + 100 + nights
  BY DEF Within
<1>2. Absolute(m - o.quote) <= 50 + nights
  <2> HIDE DEF m
  <2> QED BY <1>1 DEF Absolute
<1> QED BY <1>2, NoneAssumption DEF IsPriceOf

\* A price told for the dates is per night, and was asked for at some moment of
\* the call: whichever field it is derived from, up to rounding.
THEOREM LivePriceHolds == Spec => []LivePrice
<1>1. IInv => LivePrice
  <2> SUFFICES ASSUME IInv, NEW c \in Callers
               PROVE /\ told[c].what = "AirbnbAvailability" =>
                           told[c].per_night = None
                              \/ \E o \in during[c] : IsPriceOf(told[c].per_night, o)
                     /\ Says(c, "available") =>
                           \E o \in during[c] : o.free /\ IsPriceOf(built[c][1].price_usd, o)
    BY DEF LivePrice
  <2>1. during[c] \subseteq Offer
    BY OffersAssumption DEF IInv, Typing
  <2>2. told[c].what = "AirbnbAvailability" \/ built[c] # <<>> => nights \in Nat
    BY StayFacts DEF IInv, Running, Silence
  <2> QED BY <2>1, <2>2, WithinIsPrice DEF IInv, Truthful, Says
<1> QED BY <1>1, AlwaysIInv, PTL

\* While the offer is what it was when the stay was found, search and re-price
\* agree up to rounding, though they read different fields of different answers.
THEOREM DriftMeansChangeHolds == Spec => []DriftMeansChange
<1>1. IInv => DriftMeansChange
  <2> SUFFICES ASSUME IInv, kept, NEW c \in Callers, Says(c, "available")
               PROVE  Absolute(built[c][1].price_usd - saved[1]) * nights <= 50 + 2 * nights
    BY DEF DriftMeansChange
  <2> DEFINE b == built[c][1].price_usd
             s == saved[1]
             q == offer.quote
             n == nights
  <2>1. Within(b, q, 100)
    BY DEF IInv, Steady, Truthful, Says
  <2>2. Within(s, q, 0) /\ q \in Nat /\ n \in Nat \ {0}
    BY StayFacts DEF IInv, Steady
  <2>3. /\ b \in Nat /\ 2 * (b * n) <= 2 * q + 100 + n /\ 2 * q <= 2 * (b * n) + 100 + n
        /\ s \in Nat /\ 2 * (s * n) <= 2 * q + n /\ 2 * q <= 2 * (s * n) + n
    BY <2>1, <2>2 DEF Within
  <2> HIDE DEF b, s, q, n
  <2>4. (b - s) * n = b * n - s * n /\ (s - b) * n = s * n - b * n
    BY <2>2, <2>3
  <2>5. b * n \in Nat /\ s * n \in Nat
    BY <2>2, <2>3
  <2>6. Absolute(b - s) * n <= 50 + 2 * n
    BY <2>2, <2>3, <2>4, <2>5 DEF Absolute
  <2> QED BY <2>6 DEF b, s, n
<1> QED BY <1>1, AlwaysIInv, PTL
=============================================================================
