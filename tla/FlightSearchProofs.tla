------------------------- MODULE FlightSearchProofs ------------------------
(***************************************************************************)
(* Proofs about the flight search, for any number of searches and prompts  *)
(* on one adapter: what its lists hold and how far they looked, what its   *)
(* side channel says of them, and that a ref in a caller's hands leads to  *)
(* its query's context.                                                    *)
(***************************************************************************)
EXTENDS FlightSearch, FiniteSetTheorems, SequenceTheorems, Induction

---------------------------------------------------------------------------
(* Ranks in order.                                                         *)

Ascending(s) == \A i, j \in DOMAIN s : i < j => s[i] < s[j]
Members(s) == {s[i] : i \in DOMAIN s}

\* A number above all others may be appended.
LEMMA AscendingGrows ==
    ASSUME NEW s \in Seq(Nat), NEW k \in Nat, Ascending(s), \A i \in Members(s) : i < k
    PROVE  /\ Append(s, k) \in Seq(Nat) /\ Ascending(Append(s, k))
           /\ Members(Append(s, k)) = Members(s) \cup {k}
<1> DEFINE t == Append(s, k)
<1>1. /\ t \in Seq(Nat) /\ Len(s) \in Nat /\ DOMAIN s = 1..Len(s)
      /\ DOMAIN t = 1..(Len(s) + 1) /\ t[Len(s) + 1] = k
      /\ \A i \in 1..Len(s) : t[i] = s[i] /\ s[i] \in Nat /\ s[i] \in Members(s)
  BY DEF Members
<1> HIDE DEF t
<1>2. ASSUME NEW i \in DOMAIN t, NEW j \in DOMAIN t, i < j PROVE t[i] < t[j]
  <2>1. i \in 1..Len(s)
    BY <1>1, <1>2
  <2>2. CASE j \in 1..Len(s)
    BY <1>1, <1>2, <2>1, <2>2 DEF Ascending
  <2>3. CASE j = Len(s) + 1
    BY <1>1, <2>1, <2>3
  <2> QED BY <1>1, <2>2, <2>3
<1>3. Members(t) = Members(s) \cup {k}
  <2>1. ASSUME NEW i \in 1..(Len(s) + 1) PROVE t[i] \in Members(s) \cup {k}
    BY <1>1
  <2>2. ASSUME NEW i \in 1..Len(s) PROVE s[i] \in Members(t)
    BY <1>1 DEF Members
  <2>3. k \in Members(t)
    BY <1>1 DEF Members
  <2> QED BY <1>1, <2>1, <2>2, <2>3 DEF Members
<1> QED BY <1>1, <1>2, <1>3 DEF Ascending, t

\* InOrder lists the ranks of the set, and lists them in order.
LEMMA InOrderLists ==
    ASSUME NEW n \in Nat, NEW S, S \subseteq 1..n
    PROVE  /\ InOrder(S, n) \in Seq(Nat)
           /\ Ascending(InOrder(S, n)) /\ Members(InOrder(S, n)) = S
<1> DEFINE Filters(f) ==
               f = [m \in 0..n |-> IF m = 0 THEN <<>>
                                  ELSE IF m \in S THEN Append(f[m - 1], m) ELSE f[m - 1]]
           step == [x \in Seq(Nat) \X (1..n) |-> IF x[2] \in S THEN Append(x[1], x[2]) ELSE x[1]]
<1>1. step \in Steps(Seq(Nat), n) /\ <<>> \in Seq(Nat)
  <2>1. ASSUME NEW s \in Seq(Nat), NEW m \in 1..n
        PROVE  (IF m \in S THEN Append(s, m) ELSE s) \in Seq(Nat)
    OBVIOUS
  <2> QED BY <2>1 DEF Steps
<1> HIDE DEF step
<1>2. PICK g : Values(g, Seq(Nat), <<>>, n, step)
  BY <1>1, RecursionHasValues
<1>3. ASSUME NEW m \in 1..n PROVE g[m] = IF m \in S THEN Append(g[m - 1], m) ELSE g[m - 1]
  <2>1. m - 1 \in 0..n /\ g[m - 1] \in Seq(Nat)
    BY <1>2 DEF Values
  <2> QED BY <1>2, <2>1 DEF Values, step
<1>4. Filters(g)
  <2>1. g = [m \in 0..n |-> g[m]] /\ g[0] = <<>>
    BY <1>2 DEF Values
  <2>2. ASSUME NEW m \in 0..n
        PROVE  g[m] = IF m = 0 THEN <<>>
                      ELSE IF m \in S THEN Append(g[m - 1], m) ELSE g[m - 1]
    <3>1. m # 0 => m \in 1..n
      OBVIOUS
    <3> QED BY <1>3, <2>1, <3>1
  <2> QED BY <2>1, <2>2
<1> DEFINE all == CHOOSE f : Filters(f)
<1>5. Filters(all)
  <2> HIDE DEF Filters
  <2> QED BY <1>4
<1>6. InOrder(S, n) = all[n]
  BY DEF InOrder
<1> HIDE DEF all
<1>7. /\ all[0] = <<>>
      /\ \A m \in 1..n : m \in S => all[m] = Append(all[m - 1], m)
      /\ \A m \in 1..n : m \notin S => all[m] = all[m - 1]
  <2>1. 0 \in 0..n /\ \A m \in 1..n : m \in 0..n /\ m # 0
    OBVIOUS
  <2> QED BY <1>5, <2>1, Zenon
<1> DEFINE Good(m) == /\ all[m] \in Seq(Nat) /\ Ascending(all[m])
                      /\ Members(all[m]) = S \cap (1..m)
           T == {m \in Nat : Good(m)}
<1>8. 0 \in T
  <2>1. Ascending(<<>>) /\ Members(<<>>) = {} /\ S \cap (1..0) = {}
    BY DEF Ascending, Members
  <2>2. all[0] = <<>> /\ <<>> \in Seq(Nat)
    BY <1>7
  <2>3. Good(0)
    BY <2>1, <2>2, Zenon
  <2> QED BY <2>3
<1>9. ASSUME NEW m \in 0..(n - 1), m \in T PROVE m + 1 \in T
  <2>1. m + 1 \in 1..n /\ m + 1 - 1 = m /\ m \in Nat
    OBVIOUS
  <2>2. CASE m + 1 \in S
    <3>1. all[m + 1] = Append(all[m], m + 1)
      <4>1. PICK k \in 1..n : k = m + 1
        BY <2>1
      <4>2. all[k] = Append(all[k - 1], k)
        BY <1>7, <2>2, <4>1, Zenon
      <4>3. k - 1 = m
        BY <4>1
      <4> QED BY <4>1, <4>2, <4>3, Zenon
    <3>2. \A i \in Members(all[m]) : i < m + 1
      BY <1>9
    <3>3. all[m + 1] \in Seq(Nat) /\ Ascending(all[m + 1])
          /\ Members(all[m + 1]) = (S \cap (1..m)) \cup {m + 1}
      BY <1>9, <2>1, <3>1, <3>2, AscendingGrows
    <3>4. (S \cap (1..m)) \cup {m + 1} = S \cap (1..(m + 1))
      BY <2>1, <2>2
    <3> QED BY <2>1, <3>3, <3>4
  <2>3. CASE m + 1 \notin S
    <3>1. all[m + 1] = all[m]
      BY <1>7, <2>1, <2>3
    <3>2. S \cap (1..m) = S \cap (1..(m + 1))
      BY <2>1, <2>3
    <3> QED BY <1>9, <2>1, <3>1, <3>2
  <2> QED BY <2>2, <2>3
<1> HIDE DEF T
<1>10. n \in T
  BY <1>8, <1>9, BoundedInduction
<1>11. S \cap (1..n) = S
  OBVIOUS
<1> QED BY <1>6, <1>10, <1>11 DEF T

---------------------------------------------------------------------------
(* What a list holds.                                                      *)

Found == [outbound : Nat, price : Nat, early : (-MaxRun)..MaxAge]
Ranks(found) == [i \in 1..Len(found) |-> found[i].outbound]

\* What a candidate costs: what it is that WholeOrTold asks of its price.
Cost(q, i) == IF q \in RoundTrips THEN CheapestLeg(Token(q, i)) ELSE {Entries[q][i].price}

\* found lists the ranks in S, in order and at their prices.
Lists(found, q, S) ==
    /\ found \in Seq(Found) /\ Ascending(Ranks(found)) /\ Members(Ranks(found)) = S
    /\ \A i \in 1..Len(found) : found[i].price \in Cost(q, found[i].outbound)

\* The ranks that the first n return fetches can be sold at.
Sold(q, n) == {Outbounds[q][k] : k \in {m \in 1..n : CheapestLeg(Token(q, Outbounds[q][m])) # {}}}

\* What a list is: the whole one or told to be cut short, of prices as old as
\* they may be.
RightList(q, most, found, truncated) ==
    LET n == Len(found)
        all == WholeList(q)
    IN  /\ n <= most
        /\ \A i \in 1..n :
              /\ {j \in all : j <= Ranks(found)[i]} = {Ranks(found)[k] : k \in 1..i}
              /\ \A k \in 1..(i - 1) : Ranks(found)[k] < Ranks(found)[i]
              /\ found[i].price \in Cost(q, Ranks(found)[i])
        /\ IF truncated THEN n > 0 ELSE n = most \/ all = {Ranks(found)[k] : k \in 1..n}
        /\ found \in Seq(Found)
Right(r) == r.kind = "list" => RightList(r.query, r.limit, r.found, r.context.quota_truncated)

\* An ascending list of the lowest ranks of a set has no gap.
LEMMA NoGap ==
    ASSUME NEW s \in Seq(Nat), Ascending(s), NEW all \in SUBSET Nat, Members(s) \subseteq all,
           \A i \in Members(s) : \A j \in all \ Members(s) : i < j,
           NEW i \in 1..Len(s)
    PROVE  /\ {j \in all : j <= s[i]} = {s[k] : k \in 1..i}
           /\ \A k \in 1..(i - 1) : s[k] < s[i]
<1>1. DOMAIN s = 1..Len(s) /\ Len(s) \in Nat /\ \A k \in 1..Len(s) : s[k] \in Nat /\ s[k] \in Members(s)
  BY DEF Members
<1>2. ASSUME NEW j \in all, j <= s[i] PROVE \E k \in 1..i : j = s[k]
  <2>1. j \in Members(s)
    BY <1>1, <1>2
  <2>2. PICK k \in 1..Len(s) : j = s[k]
    BY <1>1, <2>1 DEF Members
  <2>3. ~(i < k)
    BY <1>1, <1>2, <2>2 DEF Ascending
  <2> QED BY <1>1, <2>2, <2>3
<1>3. ASSUME NEW k \in 1..(i - 1) PROVE s[k] < s[i]
  BY <1>1 DEF Ascending
<1>4. ASSUME NEW k \in 1..i PROVE s[k] \in all /\ s[k] <= s[i]
  <2>1. k = i \/ k \in 1..(i - 1)
    OBVIOUS
  <2> QED BY <1>1, <1>3, <2>1
<1> QED BY <1>2, <1>3, <1>4

\* The context of a list tells whether there is more than it lists.
LEMMA ListIsRight ==
    ASSUME NEW q \in Queries, NEW most \in Nat, NEW found, NEW S, Lists(found, q, S),
           NEW truncated \in BOOLEAN, Len(found) <= most, WholeList(q) \subseteq Nat,
           S \subseteq WholeList(q), \A i \in S : \A j \in WholeList(q) \ S : i < j,
           IF truncated THEN Len(found) > 0 ELSE Len(found) = most \/ WholeList(q) = S
    PROVE  Right(Candidates(q, most, found, [query |-> q, quota_truncated |-> truncated]))
<1> DEFINE r == Candidates(q, most, found, [query |-> q, quota_truncated |-> truncated])
           n == Len(found)
           rank == Ranks(found)
<1>1. r.found = found /\ r.limit = most /\ r.query = q /\ r.context.quota_truncated = truncated
  BY DEF Candidates
<1>2. n \in Nat /\ rank \in Seq(Nat) /\ Len(rank) = n /\ DOMAIN rank = 1..n
  <2>0. found \in Seq(Found)
    BY DEF Lists
  <2>1. n \in Nat /\ \A i \in 1..n : found[i] \in Found
    BY <2>0
  <2>2. \A x \in Found : x.outbound \in Nat
    BY DEF Found
  <2> QED BY <2>1, <2>2 DEF Ranks
<1>3. \A i \in 1..n : rank[i] = found[i].outbound
  BY DEF Ranks
<1>4. Ascending(rank) /\ Members(rank) = S /\ found \in Seq(Found)
      /\ \A i \in 1..n : found[i].price \in Cost(q, rank[i])
  BY <1>3 DEF Lists
<1>5. S = {rank[k] : k \in 1..n}
  BY <1>2, <1>4 DEF Members
<1> HIDE DEF rank, r
<1>6. \A i \in 1..n : /\ {j \in WholeList(q) : j <= rank[i]} = {rank[k] : k \in 1..i}
                      /\ \A k \in 1..(i - 1) : rank[k] < rank[i]
  BY <1>2, <1>4, NoGap
<1>7. RightList(q, most, found, truncated)
  BY <1>2, <1>4, <1>5, <1>6, Zenon DEF RightList, rank
<1> QED BY <1>1, <1>7, Zenon DEF Right, r

---------------------------------------------------------------------------
(* What is on the screens.                                                 *)

LEMMA EntriesTyped ==
    ASSUME NEW q \in Queries
    PROVE  /\ Len(Entries[q]) \in Nat /\ DOMAIN Entries[q] = 1..Len(Entries[q])
           /\ Fares(q) \subseteq 1..Len(Entries[q])
           /\ \A i \in Fares(q) : Entries[q][i].price \in Nat
           /\ \A i \in Fares(q) : Token(q, i) # NoToken => Token(q, i) \in Tokens
<1>1. Entries[q] \in Seq(Entry)
  BY FlightSearchAssumption
<1>2. \A i \in 1..Len(Entries[q]) : Entries[q][i] \in Entry
  BY <1>1
<1> QED BY <1>1, <1>2 DEF Fares, Usable, Entry, Prices, Token

\* The outbounds worth a return fetch come in ranked order, and each has a token.
LEMMA OutboundsListed ==
    ASSUME NEW q \in Queries
    PROVE  /\ Outbounds[q] \in Seq(Nat) /\ Ascending(Outbounds[q])
           /\ DOMAIN Outbounds[q] = 1..Len(Outbounds[q]) /\ Len(Outbounds[q]) \in Nat
           /\ \A n \in 1..Len(Outbounds[q]) :
                 /\ Outbounds[q][n] \in Nat /\ Outbounds[q][n] \in Fares(q)
                 /\ Token(q, Outbounds[q][n]) \in Tokens
<1> DEFINE S == {i \in Fares(q) : Entries[q][i].token # NoToken}
           list == InOrder(S, Len(Entries[q]))
<1>1. S \subseteq 1..Len(Entries[q]) /\ Len(Entries[q]) \in Nat
  BY EntriesTyped
<1>2. Outbounds[q] = list
  BY DEF Outbounds
<1>3. \A i \in S : i \in Fares(q) /\ Token(q, i) \in Tokens
  BY EntriesTyped DEF Token
<1> HIDE DEF S
<1>4. list \in Seq(Nat) /\ Ascending(list) /\ Members(list) = S
  BY <1>1, InOrderLists
<1> HIDE DEF list
<1>5. DOMAIN list = 1..Len(list) /\ Len(list) \in Nat
      /\ \A n \in 1..Len(list) : list[n] \in Nat /\ list[n] \in S
  BY <1>4 DEF Members
<1> QED BY <1>2, <1>3, <1>4, <1>5

\* A return screen is sold at one price, if at any.
LEMMA OneCheapest ==
    ASSUME NEW token \in Tokens
    PROVE  CheapestLeg(token) = {} \/ \E p \in Nat : CheapestLeg(token) = {p}
<1>1. Returns[token] \in Seq(Prices)
  BY FlightSearchAssumption
<1>2. \A i \in DOMAIN Returns[token] : Returns[token][i] \in Nat \cup {NoPrice}
  BY <1>1 DEF Prices
<1> DEFINE legs == {Returns[token][i] : i \in DOMAIN Returns[token]} \ {NoPrice}
<1>3. legs \subseteq Nat
  BY <1>2
<1>4. CheapestLeg(token) = {p \in legs : \A r \in legs : p <= r}
  BY DEF CheapestLeg
<1> HIDE DEF legs
<1>5. ASSUME NEW p \in CheapestLeg(token), NEW m \in CheapestLeg(token)
      PROVE  p \in Nat /\ p = m
  <2>1. p \in Nat /\ m \in Nat /\ p <= m /\ m <= p
    BY <1>3, <1>4
  <2> QED BY <2>1
<1> QED BY <1>5

LEMMA SetToSeqOfOne ==
    /\ SetToSeq({}) = <<>>
    /\ \A x : SetToSeq({x}) = <<x>>
<1>1. SetToSeq({}) = <<>>
  <2>1. Cardinality({}) = 0
    BY FS_EmptySet
  <2>2. SetToSeq({}) = CHOOSE f \in [1..0 -> {}] : IsInjective(f)
    BY <2>1 DEF SetToSeq
  <2>3. \A f \in [1..0 -> {}] : f = <<>>
    OBVIOUS
  <2>4. <<>> \in [1..0 -> {}] /\ IsInjective(<<>>)
    BY DEF IsInjective
  <2> QED BY <2>2, <2>3, <2>4
<1>2. ASSUME NEW x PROVE SetToSeq({x}) = <<x>>
  <2>1. Cardinality({x}) = 1
    BY FS_Singleton
  <2>2. SetToSeq({x}) = CHOOSE f \in [1..1 -> {x}] : IsInjective(f)
    BY <2>1 DEF SetToSeq
  <2>3. \A f \in [1..1 -> {x}] : f = <<x>>
    <3>1. 1..1 = {1}
      OBVIOUS
    <3> QED BY <3>1
  <2>4. <<x>> \in [1..1 -> {x}] /\ IsInjective(<<x>>)
    BY DEF IsInjective
  <2> QED BY <2>2, <2>3, <2>4
<1> QED BY <1>1, <1>2

\* An outbound gives no candidate or one, at its cheapest return.
LEMMA CombineGivesOne ==
    ASSUME NEW q \in Queries, NEW n \in 1..Len(Outbounds[q]),
           NEW age \in 0..MaxAge, NEW ticks \in 0..MaxRun
    PROVE  LET i == Outbounds[q][n]
           IN  \/ CheapestLeg(Token(q, i)) = {} /\ Combine(q, n, age, ticks) = <<>>
               \/ \E x \in Found : /\ CheapestLeg(Token(q, i)) = {x.price} /\ x.outbound = i
                                   /\ Combine(q, n, age, ticks) = <<x>>
<1> DEFINE i == Outbounds[q][n]
           C == CheapestLeg(Token(q, i))
<1>1. i \in Nat /\ Token(q, i) \in Tokens
  BY OutboundsListed
<1>2. Combine(q, n, age, ticks) = SetToSeq({Pair(i, p, age - ticks) : p \in C})
  BY DEF Combine
<1>3. age - ticks \in (-MaxRun)..MaxAge
  BY FlightSearchAssumption
<1> HIDE DEF i
<1>4. CASE C = {}
  <2>1. {Pair(i, p, age - ticks) : p \in C} = {}
    BY <1>4
  <2>2. Combine(q, n, age, ticks) = <<>>
    BY <1>2, <2>1, SetToSeqOfOne
  <2> QED BY <1>4, <2>2 DEF i
<1>5. ASSUME NEW p \in Nat, C = {p} PROVE \E x \in Found : C = {x.price} /\ x.outbound = i
                                              /\ Combine(q, n, age, ticks) = <<x>>
  <2> DEFINE x == Pair(i, p, age - ticks)
  <2>1. x \in Found /\ x.price = p /\ x.outbound = i
    BY <1>1, <1>3 DEF Found, Pair
  <2>2. {Pair(i, m, age - ticks) : m \in C} = {x}
    BY <1>5
  <2> HIDE DEF x
  <2>3. Combine(q, n, age, ticks) = <<x>>
    BY <1>2, <2>2, SetToSeqOfOne
  <2> QED BY <1>5, <2>1, <2>3
<1> QED BY <1>1, <1>4, <1>5, OneCheapest DEF i

---------------------------------------------------------------------------
(* What a search makes of them.                                            *)

\* Sold outbounds are worth looking at, and those of later fetches rank higher.
LEMMA SoldFacts ==
    ASSUME NEW q \in Queries, NEW n \in 0..Len(Outbounds[q])
    PROVE  /\ Sold(q, n) \subseteq Fares(q) /\ Sold(q, n) \subseteq Nat
           /\ \A m \in (n + 1)..Len(Outbounds[q]) : \A i \in Sold(q, n) : i < Outbounds[q][m]
           /\ \A m \in n..Len(Outbounds[q]) : Sold(q, n) \subseteq Sold(q, m)
           /\ \A m \in n..Len(Outbounds[q]) : \A i \in Sold(q, n) :
                 \A j \in Sold(q, m) \ Sold(q, n) : i < j
<1> DEFINE N == Len(Outbounds[q])
           Sells(k) == CheapestLeg(Token(q, Outbounds[q][k])) # {}
<1>1. N \in Nat /\ \A k \in 1..N : Outbounds[q][k] \in Nat /\ Outbounds[q][k] \in Fares(q)
  BY OutboundsListed
<1>2. \A k, m \in 1..N : k < m => Outbounds[q][k] < Outbounds[q][m]
  BY OutboundsListed DEF Ascending
<1>3. \A m \in Int : Sold(q, m) = {Outbounds[q][k] : k \in {l \in 1..m : Sells(l)}}
  BY DEF Sold
<1> HIDE DEF N, Sells
<1>4. \A i \in Sold(q, n) : \E k \in 1..n : k \in 1..N /\ Sells(k) /\ i = Outbounds[q][k]
  BY <1>1, <1>3 DEF N
<1>5. ASSUME NEW m \in n..N, NEW i \in Sold(q, n), NEW j \in Sold(q, m) \ Sold(q, n)
      PROVE  i < j
  <2>1. PICK k \in 1..n : k \in 1..N /\ i = Outbounds[q][k]
    BY <1>4
  <2>2. PICK l \in 1..m : Sells(l) /\ j = Outbounds[q][l]
    BY <1>1, <1>3
  <2>3. l \notin 1..n
    BY <1>3, <2>2
  <2>4. l \in 1..N /\ k < l
    BY <1>1, <2>1, <2>2, <2>3
  <2> QED BY <1>2, <2>1, <2>2, <2>4
<1>6. ASSUME NEW m \in n..N, NEW i \in Sold(q, n) PROVE i \in Sold(q, m)
  BY <1>1, <1>3, <1>4
<1>7. ASSUME NEW m \in (n + 1)..N, NEW i \in Sold(q, n) PROVE i < Outbounds[q][m]
  <2>1. PICK k \in 1..n : k \in 1..N /\ i = Outbounds[q][k]
    BY <1>4
  <2> QED BY <1>1, <1>2, <2>1
<1> QED BY <1>1, <1>4, <1>5, <1>6, <1>7 DEF N

\* One more fetch sells at its own rank, or at none.
LEMMA SoldGrows ==
    ASSUME NEW q \in Queries, NEW n \in 1..Len(Outbounds[q])
    PROVE  LET i == Outbounds[q][n]
           IN  Sold(q, n) = IF CheapestLeg(Token(q, i)) = {} THEN Sold(q, n - 1)
                            ELSE Sold(q, n - 1) \cup {i}
<1>1. Len(Outbounds[q]) \in Nat
  BY OutboundsListed
<1> DEFINE Sells(k) == CheapestLeg(Token(q, Outbounds[q][k])) # {}
<1>2. \A m \in Int : Sold(q, m) = {Outbounds[q][k] : k \in {l \in 1..m : Sells(l)}}
  BY DEF Sold
<1> HIDE DEF Sells
<1>3. n \in Int /\ n - 1 \in Int /\ 1..n = (1..(n - 1)) \cup {n}
  BY <1>1
<1>4. {l \in 1..n : Sells(l)} =
          {l \in 1..(n - 1) : Sells(l)} \cup (IF Sells(n) THEN {n} ELSE {})
  BY <1>3
<1>5. Sold(q, n) = IF Sells(n) THEN Sold(q, n - 1) \cup {Outbounds[q][n]} ELSE Sold(q, n - 1)
  BY <1>2, <1>3, <1>4
<1> QED BY <1>5 DEF Sells

\* The whole list of a round trip is what all the fetches that may begin sell.
LEMMA WholeIsSold ==
    ASSUME NEW q \in RoundTrips
    PROVE  WholeList(q) = Sold(q, Least(MaxReturnFetches, Len(Outbounds[q])))
<1>1. q \in Queries
  BY DEF Queries
<1> DEFINE N == Least(MaxReturnFetches, Len(Outbounds[q]))
<1>2. WholeList(q) = {i \in {Outbounds[q][n] : n \in 1..N} : CheapestLeg(Token(q, i)) # {}}
  BY DEF WholeList, Frontier, Looked
<1> HIDE DEF N
<1>3. WholeList(q) = Sold(q, N)
  BY <1>2 DEF Sold
<1> QED BY <1>3 DEF N

\* A candidate of a higher rank goes to the end of the list.
LEMMA ListsGrows ==
    ASSUME NEW q \in Queries, NEW found, NEW S, Lists(found, q, S), NEW x \in Found,
           x.price \in Cost(q, x.outbound), \A i \in S : i < x.outbound
    PROVE  /\ Lists(Append(found, x), q, S \cup {x.outbound})
           /\ Len(Append(found, x)) = Len(found) + 1
<1>1. found \in Seq(Found) /\ Ascending(Ranks(found)) /\ Members(Ranks(found)) = S
      /\ \A i \in 1..Len(found) : found[i].price \in Cost(q, found[i].outbound)
  BY DEF Lists
<1> DEFINE n == Len(found)
           t == Append(found, x)
<1>2. n \in Nat /\ t \in Seq(Found) /\ Len(t) = n + 1 /\ t[n + 1] = x
      /\ \A i \in 1..n : t[i] = found[i] /\ found[i] \in Found
  BY <1>1
<1>3. \A y \in Found : y.outbound \in Nat
  BY DEF Found
<1>4. Ranks(found) \in Seq(Nat) /\ Len(Ranks(found)) = n /\ x.outbound \in Nat
  BY <1>2, <1>3 DEF Ranks
<1> HIDE DEF n, t
<1>5. Ranks(t) = Append(Ranks(found), x.outbound)
  <2> DEFINE u == Append(Ranks(found), x.outbound)
  <2>1. u \in Seq(Nat) /\ Len(u) = n + 1 /\ u[n + 1] = x.outbound
        /\ \A i \in 1..n : u[i] = Ranks(found)[i]
    BY <1>2, <1>4
  <2>2. \A i \in 1..n : Ranks(found)[i] = found[i].outbound
    BY DEF Ranks, n
  <2>3. DOMAIN Ranks(t) = 1..(n + 1) /\ \A i \in 1..(n + 1) : Ranks(t)[i] = t[i].outbound
    BY <1>2 DEF Ranks
  <2> HIDE DEF u
  <2>4. u = [i \in 1..(n + 1) |-> u[i]]
    BY <2>1
  <2>5. ASSUME NEW i \in 1..(n + 1) PROVE u[i] = t[i].outbound
    <3>1. i = n + 1 \/ i \in 1..n
      BY <1>2
    <3> QED BY <1>2, <2>1, <2>2, <3>1
  <2>6. u = Ranks(t)
    BY <1>2, <2>4, <2>5 DEF Ranks
  <2> QED BY <2>6 DEF u
<1>6. Ascending(Ranks(t)) /\ Members(Ranks(t)) = S \cup {x.outbound}
  BY <1>1, <1>4, <1>5, AscendingGrows
<1>7. ASSUME NEW i \in 1..Len(t) PROVE t[i].price \in Cost(q, t[i].outbound)
  <2>1. i = n + 1 \/ i \in 1..n
    BY <1>2
  <2> QED BY <1>1, <1>2, <2>1 DEF n
<1>8. Lists(t, q, S \cup {x.outbound})
  BY <1>2, <1>6, <1>7 DEF Lists
<1> QED BY <1>2, <1>8 DEF n, t

\* A return screen adds what its outbound sells.
LEMMA CombineLists ==
    ASSUME NEW q \in RoundTrips, NEW n \in 1..Len(Outbounds[q]), NEW found,
           Lists(found, q, Sold(q, n - 1)), NEW age \in 0..MaxAge, NEW ticks \in 0..MaxRun
    PROVE  LET more == found \o Combine(q, n, age, ticks)
           IN  Lists(more, q, Sold(q, n)) /\ Len(more) \in Len(found)..(Len(found) + 1)
<1> DEFINE i == Outbounds[q][n]
           C == CheapestLeg(Token(q, i))
           more == found \o Combine(q, n, age, ticks)
<1>1. q \in Queries /\ n - 1 \in 0..Len(Outbounds[q]) /\ n \in (n - 1 + 1)..Len(Outbounds[q])
  <2>1. q \in Queries
    BY DEF Queries
  <2>2. Len(Outbounds[q]) \in Nat
    BY <2>1, OutboundsListed
  <2> QED BY <2>1, <2>2
<1>2. found \in Seq(Found) /\ Len(found) \in Nat
  <2>1. found \in Seq(Found)
    BY DEF Lists
  <2> QED BY <2>1
<1>3. \A j \in Sold(q, n - 1) : j < i
  BY <1>1, SoldFacts
<1>4. Sold(q, n) = IF C = {} THEN Sold(q, n - 1) ELSE Sold(q, n - 1) \cup {i}
  BY <1>1, SoldGrows
<1>5. \/ C = {} /\ Combine(q, n, age, ticks) = <<>>
      \/ \E x \in Found : C = {x.price} /\ x.outbound = i /\ Combine(q, n, age, ticks) = <<x>>
  BY <1>1, CombineGivesOne
<1>6. Cost(q, i) = C
  BY DEF Cost
<1> HIDE DEF i, C
<1>7. CASE C = {} /\ Combine(q, n, age, ticks) = <<>>
  <2>1. more = found
    BY <1>2, <1>7
  <2> QED BY <1>2, <1>4, <1>7, <2>1
<1>8. ASSUME NEW x \in Found, C = {x.price}, x.outbound = i, Combine(q, n, age, ticks) = <<x>>
      PROVE  Lists(more, q, Sold(q, n)) /\ Len(more) \in Len(found)..(Len(found) + 1)
  <2>1. more = Append(found, x)
    BY <1>2, <1>8
  <2>2. Lists(Append(found, x), q, Sold(q, n - 1) \cup {i})
        /\ Len(Append(found, x)) = Len(found) + 1
    BY <1>1, <1>3, <1>6, <1>8, ListsGrows
  <2>3. Sold(q, n) = Sold(q, n - 1) \cup {i}
    BY <1>4, <1>8
  <2> HIDE DEF more
  <2> QED BY <1>2, <2>1, <2>2, <2>3
<1> QED BY <1>5, <1>7, <1>8

\* A one-way list is the best ranked fares, at their prices.
LEMMA OneWayListIsRight ==
    ASSUME NEW q \in OneWays, NEW most \in Nat, NEW age \in 0..MaxAge
    PROVE  LET found == OneWayList(q, most, age)
           IN  /\ Right(Candidates(q, most, found, [query |-> q, quota_truncated |-> FALSE]))
               /\ \A i \in DOMAIN found : found[i].outbound \in Fares(q)
<1> DEFINE ranks == InOrder(Fares(q), Len(Entries[q]))
           n == Least(most, Len(ranks))
           found == OneWayList(q, most, age)
           S == {ranks[k] : k \in 1..n}
<1>1. q \in Queries /\ q \notin RoundTrips /\ WholeList(q) = Fares(q)
  BY FlightSearchAssumption DEF Queries, WholeList
<1>2. Fares(q) \subseteq 1..Len(Entries[q]) /\ Len(Entries[q]) \in Nat
  BY <1>1, EntriesTyped
<1>3. ranks \in Seq(Nat) /\ Ascending(ranks) /\ Members(ranks) = Fares(q)
  BY <1>2, InOrderLists
<1>4. \A i \in Fares(q) : i \in Nat /\ Entries[q][i].price \in Nat
  BY <1>1, <1>2, EntriesTyped
<1> HIDE DEF ranks
<1>5. Len(ranks) \in Nat /\ DOMAIN ranks = 1..Len(ranks)
      /\ \A i \in 1..Len(ranks) : ranks[i] \in Nat /\ ranks[i] \in Fares(q)
  BY <1>3 DEF Members
<1>6. /\ n \in Nat /\ n <= most /\ n <= Len(ranks) /\ (n = most \/ n = Len(ranks))
      /\ \A k \in 1..n : k \in 1..Len(ranks)
  <2>1. \A m \in Nat : Least(most, m) \in Nat /\ Least(most, m) <= most /\ Least(most, m) <= m
                       /\ (Least(most, m) = most \/ Least(most, m) = m)
    BY DEF Least
  <2>2. Len(ranks) \in Nat
    BY <1>5
  <2> HIDE DEF ranks
  <2> QED BY <2>1, <2>2
<1>7. found = [i \in 1..n |-> Pair(ranks[i], Entries[q][ranks[i]].price, age)]
  BY DEF OneWayList, ranks
<1> HIDE DEF found, n
<1>8. \A i \in 1..n : /\ found[i].outbound = ranks[i] /\ ranks[i] \in Fares(q)
                      /\ found[i].price = Entries[q][ranks[i]].price
                      /\ found[i] \in Found
  <2>1. age \in (-MaxRun)..MaxAge
    BY FlightSearchAssumption
  <2> TAKE i \in 1..n
  <2>2. ranks[i] \in Nat /\ ranks[i] \in Fares(q)
    BY <1>5, <1>6
  <2>4. Entries[q][ranks[i]].price \in Nat
    BY <1>4, <2>2
  <2>3. found[i] = Pair(ranks[i], Entries[q][ranks[i]].price, age)
    BY <1>7
  <2> QED BY <2>1, <2>2, <2>3, <2>4 DEF Pair, Found
<1>9. found \in Seq(Found) /\ Len(found) = n /\ DOMAIN found = 1..n
  BY <1>6, <1>7, <1>8
<1>10. Ranks(found) = [i \in 1..n |-> ranks[i]]
  BY <1>8, <1>9 DEF Ranks
<1>11. Ascending(Ranks(found)) /\ Members(Ranks(found)) = S
  <2>1. DOMAIN Ranks(found) = 1..n /\ \A i \in 1..n : Ranks(found)[i] = ranks[i]
    BY <1>10
  <2> QED BY <1>3, <1>5, <1>6, <2>1 DEF Ascending, Members
<1>12. \A i \in 1..Len(found) : found[i].price \in Cost(q, found[i].outbound)
  BY <1>1, <1>8, <1>9 DEF Cost
<1>13. Lists(found, q, S)
  BY <1>9, <1>11, <1>12 DEF Lists
<1>14. S \subseteq Fares(q) /\ Fares(q) \subseteq Nat
  <2>1. \A k \in 1..n : ranks[k] \in Fares(q)
    BY <1>5, <1>6
  <2> QED BY <1>4, <2>1
<1>15. ASSUME NEW i \in S, NEW j \in Fares(q) \ S PROVE i < j
  <2>1. PICK k \in 1..n : i = ranks[k]
    OBVIOUS
  <2>2. PICK l \in 1..Len(ranks) : j = ranks[l]
    BY <1>3, <1>5 DEF Members
  <2>3. l \notin 1..n /\ k \in 1..Len(ranks)
    BY <1>6, <1>15, <2>2
  <2>4. l \in Nat /\ l >= 1
    BY <1>5
  <2>5. k < l
    <3> HIDE DEF ranks
    <3>1. n \in Nat
      BY <1>6
    <3> QED BY <2>3, <2>4, <3>1
  <2> QED BY <1>3, <1>5, <2>1, <2>2, <2>3, <2>5 DEF Ascending
<1>16. n = Len(ranks) => S = Fares(q)
  <2>1. Fares(q) = {ranks[k] : k \in 1..Len(ranks)}
    BY <1>3, <1>5 DEF Members
  <2> QED BY <2>1
<1> HIDE DEF S
<1>17. Right(Candidates(q, most, found, [query |-> q, quota_truncated |-> FALSE]))
  <2>1. S \subseteq WholeList(q) /\ \A i \in S : \A j \in WholeList(q) \ S : i < j
    BY <1>1, <1>14, <1>15
  <2>2. Len(found) <= most /\ WholeList(q) \subseteq Nat /\ FALSE \in BOOLEAN
    BY <1>1, <1>6, <1>9, <1>14
  <2>3. IF FALSE THEN Len(found) > 0 ELSE Len(found) = most \/ WholeList(q) = S
    BY <1>1, <1>6, <1>9, <1>16
  <2> QED BY <1>1, <1>13, <2>1, <2>2, <2>3, ListIsRight
<1> QED BY <1>8, <1>9, <1>17 DEF found

\* A list of a round trip: it ends when no fetch may follow, or is told to be cut
\* short.
LEMMA FanOutIsRight ==
    ASSUME NEW q \in RoundTrips, NEW most \in Nat, NEW n, NEW found,
           n \in 0..Least(MaxReturnFetches, Len(Outbounds[q])), Lists(found, q, Sold(q, n)),
           Len(found) <= most, NEW truncated \in BOOLEAN,
           IF truncated THEN Len(found) > 0
           ELSE Len(found) = most \/ n = Least(MaxReturnFetches, Len(Outbounds[q]))
    PROVE  Right(Candidates(q, most, found, [query |-> q, quota_truncated |-> truncated]))
<1> DEFINE N == Least(MaxReturnFetches, Len(Outbounds[q]))
<1>1. q \in Queries
  BY DEF Queries
<1>2. N \in n..Len(Outbounds[q]) /\ n \in 0..Len(Outbounds[q]) /\ N \in 0..Len(Outbounds[q])
  BY <1>1, OutboundsListed, FlightSearchAssumption DEF Least
<1>3. WholeList(q) = Sold(q, N)
  BY WholeIsSold
<1> HIDE DEF N
<1>4. /\ Sold(q, n) \subseteq Sold(q, N) /\ Sold(q, N) \subseteq Nat
      /\ \A i \in Sold(q, n) : \A j \in Sold(q, N) \ Sold(q, n) : i < j
  BY <1>1, <1>2, SoldFacts
<1>5. IF truncated THEN Len(found) > 0 ELSE Len(found) = most \/ WholeList(q) = Sold(q, n)
  BY <1>3 DEF N
<1> QED BY <1>1, <1>3, <1>4, <1>5, ListIsRight

---------------------------------------------------------------------------
(* The invariant.  A search between two awaits has listed what the fetches *)
(* before the one it is at have sold, and has not reached its limit.       *)

Typing ==
    /\ pc \in [Callers -> {"idle", "lookup", "fetching", "sent"}]
    /\ query \in [Callers -> Queries \cup {NoQuery}] /\ limit \in [Callers -> Nat]
    /\ fetches \in [Callers -> 0..MaxReturnFetches]
    /\ pairs \in [Callers -> Seq(Found)]
    /\ since \in [Callers -> 0..MaxRun]
Ages == {{}} \cup {{age} : age \in 0..MaxAge}
CacheTyped == stored \in [Screens -> Ages]
RefsTyped == \A ref \in DOMAIN byRef : ref[1] \in Queries /\ ref[2] \in DOMAIN Entries[ref[1]]

Between(q, most, n, found) ==
    /\ q \in Queries /\ most \in Limits
    /\ n \in 0..MaxReturnFetches /\ n <= Len(Outbounds[q])
    /\ q \in OneWays => n = 0
    /\ Lists(found, q, Sold(q, n - 1))
    /\ Len(found) < most /\ Len(found) <= n
Placed(label, q, most, n, found) ==
    IF label = "idle" THEN q = NoQuery /\ n = 0 /\ found = <<>>
    ELSE Between(q, most, n, found)

SearchInv ==
    /\ Typing /\ CacheTyped /\ RefsTyped
    /\ \A c \in Callers : Placed(pc[c], query[c], limit[c], fetches[c], pairs[c])
    /\ DOMAIN result = Callers /\ \A c \in Callers : Right(result[c])

Elsewhere(c) ==
    \A e \in Callers \ {c} :
        /\ pc'[e] = pc[e] /\ query'[e] = query[e] /\ limit'[e] = limit[e]
        /\ fetches'[e] = fetches[e] /\ pairs'[e] = pairs[e] /\ result'[e] = result[e]

\* A step of one caller keeps the invariant if it leaves that caller placed.
LEMMA CallerKeeps ==
    ASSUME SearchInv, NEW c \in Callers, Elsewhere(c), Typing', CacheTyped', RefsTyped',
           Placed(pc'[c], query'[c], limit'[c], fetches'[c], pairs'[c]),
           DOMAIN result' = Callers, Right(result'[c])
    PROVE  SearchInv'
<1>1. ASSUME NEW e \in Callers
      PROVE  Placed(pc'[e], query'[e], limit'[e], fetches'[e], pairs'[e]) /\ Right(result'[e])
  <2>1. CASE e = c
    BY <2>1
  <2>2. CASE e # c
    <3>1. /\ pc'[e] = pc[e] /\ query'[e] = query[e] /\ limit'[e] = limit[e]
          /\ fetches'[e] = fetches[e] /\ pairs'[e] = pairs[e] /\ result'[e] = result[e]
      BY <2>2 DEF Elsewhere
    <3>2. Placed(pc[e], query[e], limit[e], fetches[e], pairs[e]) /\ Right(result[e])
      BY DEF SearchInv
    <3> QED BY <3>1, <3>2
  <2> QED BY <2>1, <2>2
<1> QED BY <1>1 DEF SearchInv

\* A search ends, with a result that is right.
LEMMA EndKeepsSearch ==
    ASSUME SearchInv, NEW c \in Callers, NEW r, End(c, r), Right(r),
           since' \in [Callers -> 0..MaxRun], CacheTyped', RefsTyped'
    PROVE  SearchInv'
<1>1. Typing
  BY DEF SearchInv
<1>2. DOMAIN result = Callers
  BY DEF SearchInv
<1>3. <<>> \in Seq(Found) /\ 0 \in 0..MaxReturnFetches
  BY FlightSearchAssumption
<1>4. Typing' /\ pc'[c] = "idle" /\ query'[c] = NoQuery /\ fetches'[c] = 0 /\ pairs'[c] = <<>>
  BY <1>1, <1>3 DEF Typing, End, Goto
<1>5. DOMAIN result' = Callers /\ result'[c] = r
  BY <1>2 DEF End
<1>6. Elsewhere(c)
  BY <1>1, <1>2 DEF Typing, End, Goto, Elsewhere
<1>7. Placed(pc'[c], query'[c], limit'[c], fetches'[c], pairs'[c])
  BY <1>4 DEF Placed
<1> QED BY <1>4, <1>5, <1>6, <1>7, CallerKeeps

\* What is listed is on the first screen.
LEMMA RegisterKeepsSearch ==
    ASSUME RefsTyped, NEW q \in Queries, NEW found, NEW context, Register(q, found, context),
           \A i \in DOMAIN found : found[i].outbound \in Fares(q)
    PROVE  RefsTyped'
<1>1. \A i \in DOMAIN found : found[i].outbound \in DOMAIN Entries[q]
  BY DEF Fares
<1> DEFINE refs == {<<q, found[i].outbound>> : i \in DOMAIN found}
<1>2. \A ref \in refs : ref[1] = q /\ ref[2] \in DOMAIN Entries[q]
  BY <1>1
<1>3. DOMAIN byRef' = refs \cup DOMAIN byRef
  BY DEF Register
<1> HIDE DEF refs
<1> QED BY <1>2, <1>3 DEF RefsTyped

LEMMA EndWithListKeepsSearch ==
    ASSUME SearchInv, NEW c \in Callers, NEW found, NEW truncated,
           EndWithList(c, found, truncated), query[c] \in Queries,
           since' \in [Callers -> 0..MaxRun], CacheTyped',
           \A i \in DOMAIN found : found[i].outbound \in Fares(query[c]),
           Right(Candidates(query[c], limit[c], found,
                            [query |-> query[c], quota_truncated |-> truncated]))
    PROVE  SearchInv'
<1> DEFINE context == [query |-> query[c], quota_truncated |-> truncated]
           r == Candidates(query[c], limit[c], found, context)
<1>1. End(c, r) /\ Register(query[c], found, context)
  BY DEF EndWithList
<1>2. Right(r)
  OBVIOUS
<1> HIDE DEF context, r
<1>3. RefsTyped
  BY DEF SearchInv
<1>4. RefsTyped'
  BY <1>1, <1>3, RegisterKeepsSearch
<1> QED BY <1>1, <1>2, <1>4, EndKeepsSearch

LEMMA EndWithoutKeepsSearch ==
    ASSUME SearchInv, NEW c \in Callers, NEW r, r.kind # "list", EndWithout(c, r), CacheTyped'
    PROVE  SearchInv'
<1>1. End(c, r) /\ byRef' = byRef /\ since' = [since EXCEPT ![c] = 0]
  BY DEF EndWithout
<1>2. Typing /\ RefsTyped
  BY DEF SearchInv
<1>3. since' \in [Callers -> 0..MaxRun]
  BY <1>1, <1>2, FlightSearchAssumption DEF Typing
<1>4. RefsTyped' /\ Right(r)
  BY <1>1, <1>2 DEF RefsTyped, Right
<1> QED BY <1>1, <1>3, <1>4, EndKeepsSearch

\* What a list of returns holds is on the first screen.
LEMMA SoldOnScreen ==
    ASSUME NEW q \in Queries, NEW n \in 0..Len(Outbounds[q]), NEW found,
           Lists(found, q, Sold(q, n))
    PROVE  \A i \in DOMAIN found : found[i].outbound \in Fares(q)
<1>1. Sold(q, n) \subseteq Fares(q)
  BY SoldFacts
<1>2. found \in Seq(Found) /\ Members(Ranks(found)) = Sold(q, n)
  BY DEF Lists
<1>3. DOMAIN found = 1..Len(found)
  BY <1>2
<1>4. \A i \in 1..Len(found) : found[i].outbound \in Members(Ranks(found))
  BY DEF Ranks, Members
<1> QED BY <1>1, <1>2, <1>3, <1>4

\* The loop goes on to the next fetch, or ends with all that there is to sell.
LEMMA ContinueKeepsSearch ==
    ASSUME SearchInv, NEW c \in Callers, NEW found, Continue(c, found), pc[c] # "idle",
           query[c] \in RoundTrips, fetches[c] <= Len(Outbounds[query[c]]),
           Lists(found, query[c], Sold(query[c], fetches[c])),
           Len(found) <= limit[c], Len(found) <= fetches[c] + 1,
           since' \in [Callers -> 0..MaxRun], CacheTyped'
    PROVE  SearchInv'
<1> DEFINE q == query[c]
           most == limit[c]
           n == fetches[c]
           N == Len(Outbounds[q])
<1>1. Typing /\ RefsTyped /\ DOMAIN result = Callers /\ Right(result[c]) /\ Between(q, most, n, pairs[c])
  BY DEF SearchInv, Placed
<1>2. q \in Queries /\ N \in Nat /\ q \notin OneWays
  BY OutboundsListed, FlightSearchAssumption DEF Queries
<1>3. /\ n \in 0..MaxReturnFetches /\ n \in 0..N /\ most \in Limits /\ most \in Nat
      /\ MaxReturnFetches \in Nat /\ found \in Seq(Found)
  <2>1. found \in Seq(Found)
    BY DEF Lists
  <2>2. \A m \in Limits : m \in Nat
    BY FlightSearchAssumption
  <2>3. n \in 0..MaxReturnFetches /\ most \in Limits /\ n <= N
    BY <1>1 DEF Between
  <2>4. n \in 0..N /\ MaxReturnFetches \in Nat
    BY <1>2, <2>3, FlightSearchAssumption
  <2> QED BY <2>1, <2>2, <2>3, <2>4
<1>4. Len(found) \in Nat
  BY <1>3
<1>5. CASE GoesOn(q, most, n, found)
  <2>1. /\ fetches' = [fetches EXCEPT ![c] = n + 1] /\ pairs' = [pairs EXCEPT ![c] = found]
        /\ pc' = [pc EXCEPT ![c] = "lookup"]
        /\ query' = query /\ limit' = limit /\ result' = result /\ byRef' = byRef
    BY <1>5 DEF Continue, Goto
  <2>2. Len(found) < most /\ n < MaxReturnFetches /\ n < N
    BY <1>5 DEF GoesOn
  <2>3. n + 1 \in 0..MaxReturnFetches /\ n + 1 <= N /\ n + 1 - 1 = n /\ Len(found) <= n + 1
    BY <1>2, <1>3, <1>4, <2>2
  <2>4. Typing'
    BY <1>1, <1>3, <2>1, <2>3 DEF Typing
  <2>5. /\ pc'[c] = "lookup" /\ query'[c] = q /\ limit'[c] = most
        /\ fetches'[c] = n + 1 /\ pairs'[c] = found
    BY <1>1, <2>1 DEF Typing
  <2>6. Elsewhere(c)
    BY <1>1, <2>1 DEF Typing, Elsewhere
  <2> HIDE DEF q, most, n
  <2>7. Between(q, most, n + 1, found)
    BY <1>2, <1>3, <2>2, <2>3 DEF Between, q, n, N
  <2>8. Placed(pc'[c], query'[c], limit'[c], fetches'[c], pairs'[c])
    BY <2>5, <2>7 DEF Placed
  <2>9. RefsTyped' /\ DOMAIN result' = Callers /\ Right(result'[c])
    BY <1>1, <2>1 DEF RefsTyped
  <2> QED BY <2>4, <2>6, <2>8, <2>9, CallerKeeps
<1>6. CASE ~GoesOn(q, most, n, found)
  <2>1. EndWithList(c, found, FALSE)
    BY <1>6 DEF Continue
  <2>2. Len(found) = most \/ n = Least(MaxReturnFetches, N)
    <3>1. Len(found) >= most \/ n >= MaxReturnFetches \/ n >= N
      BY <1>2, <1>3, <1>4, <1>6 DEF GoesOn
    <3>2. Len(found) <= most /\ n <= MaxReturnFetches /\ n <= N
      BY <1>3
    <3> HIDE DEF most, n, N
    <3> QED BY <1>2, <1>3, <1>4, <3>1, <3>2 DEF Least
  <2>3. n \in 0..Least(MaxReturnFetches, N)
    BY <1>2, <1>3 DEF Least
  <2>4. Right(Candidates(q, most, found, [query |-> q, quota_truncated |-> FALSE]))
    <3>1. IF FALSE THEN Len(found) > 0
          ELSE Len(found) = most \/ n = Least(MaxReturnFetches, N)
      BY <2>2
    <3> QED BY <1>3, <2>3, <3>1, FanOutIsRight
  <2>5. \A i \in DOMAIN found : found[i].outbound \in Fares(q)
    BY <1>2, <1>3, SoldOnScreen
  <2> QED BY <1>2, <2>1, <2>4, <2>5, EndWithListKeepsSearch
<1> QED BY <1>5, <1>6

\* A screen arrives, of which the age is known.
LEMMA ArriveKeepsSearch ==
    ASSUME SearchInv, NEW c \in Callers, NEW age \in 0..MaxAge, Arrive(c, age), pc[c] # "idle",
           CacheTyped'
    PROVE  SearchInv'
<1> DEFINE q == query[c]
           most == limit[c]
           n == fetches[c]
<1>1. Typing /\ Between(q, most, n, pairs[c])
  BY DEF SearchInv, Placed
<1>2. /\ q \in Queries /\ most \in Nat /\ n \in Nat /\ n <= Len(Outbounds[q])
      /\ q \in OneWays => n = 0
      /\ Lists(pairs[c], q, Sold(q, n - 1)) /\ Len(pairs[c]) < most /\ Len(pairs[c]) <= n
      /\ pairs[c] \in Seq(Found) /\ Len(pairs[c]) \in Nat /\ since[c] \in 0..MaxRun
  <2>1. pairs[c] \in Seq(Found)
    BY <1>1 DEF Between, Lists
  <2>2. \A m \in Limits : m \in Nat
    BY FlightSearchAssumption
  <2> QED BY <1>1, <2>1, <2>2 DEF Between, Typing
<1>3. since' \in [Callers -> 0..MaxRun]
  BY <1>1, FlightSearchAssumption DEF Typing, Arrive
<1>4. CASE n > 0
  <2> DEFINE found == pairs[c] \o Combine(q, n, age, since[c])
  <2>1. Continue(c, found)
    BY <1>4 DEF Arrive
  <2>2. q \in RoundTrips /\ n \in 1..Len(Outbounds[q])
    BY <1>2, <1>4, OutboundsListed DEF Queries
  <2>3. Lists(found, q, Sold(q, n)) /\ Len(found) \in Len(pairs[c])..(Len(pairs[c]) + 1)
    BY <1>2, <2>2, CombineLists
  <2> HIDE DEF found
  <2>4. Len(found) <= most
    BY <1>2, <2>3
  <2>5. Len(found) <= n + 1
    BY <1>2, <2>3
  <2>6. n <= Len(Outbounds[q]) /\ Lists(found, q, Sold(q, n))
    BY <1>2, <2>3
  <2> HIDE DEF q, most, n
  <2>7. /\ query[c] \in RoundTrips /\ fetches[c] <= Len(Outbounds[query[c]])
        /\ Lists(found, query[c], Sold(query[c], fetches[c]))
        /\ Len(found) <= limit[c] /\ Len(found) <= fetches[c] + 1
    BY <2>2, <2>4, <2>5, <2>6, Zenon DEF q, most, n
  <2> QED BY <1>3, <2>1, <2>7, ContinueKeepsSearch
<1>5. CASE n = 0 /\ q \in OneWays
  <2> DEFINE found == OneWayList(q, most, age)
  <2>1. EndWithList(c, found, FALSE)
    <3>1. ~(fetches[c] > 0)
      BY <1>5
    <3> QED BY <1>5, <3>1, Zenon DEF Arrive
  <2>2. /\ Right(Candidates(q, most, found, [query |-> q, quota_truncated |-> FALSE]))
        /\ \A i \in DOMAIN found : found[i].outbound \in Fares(q)
    BY <1>2, <1>5, OneWayListIsRight
  <2> HIDE DEF found
  <2> QED BY <1>2, <1>3, <2>1, <2>2, EndWithListKeepsSearch
<1>6. CASE n = 0 /\ q \notin OneWays
  <2>1. Continue(c, <<>>) /\ q \in RoundTrips
    BY <1>2, <1>6 DEF Arrive, Queries
  <2>2. Sold(q, 0) = {} /\ <<>> \in Seq(Found) /\ Len(<<>>) = 0
    BY DEF Sold
  <2>3. Lists(<<>>, q, Sold(q, n))
    BY <1>6, <2>2 DEF Lists, Ranks, Ascending, Members
  <2> QED BY <1>2, <1>3, <1>6, <2>1, <2>2, <2>3, ContinueKeepsSearch
<1> QED BY <1>2, <1>4, <1>5, <1>6

\* The screen a search asks for is one the provider has.
LEMMA ScreenExists ==
    ASSUME SearchInv, NEW c \in Callers, pc[c] # "idle"
    PROVE  Screen(c) \in Screens
<1>1. Between(query[c], limit[c], fetches[c], pairs[c])
  BY DEF SearchInv, Placed
<1>2. query[c] \in Queries /\ fetches[c] \in Nat /\ fetches[c] <= Len(Outbounds[query[c]])
  BY <1>1, FlightSearchAssumption DEF Between
<1>3. CASE fetches[c] = 0
  BY <1>2, <1>3 DEF Screen, Screens
<1>4. CASE fetches[c] # 0
  <2>1. fetches[c] \in 1..Len(Outbounds[query[c]])
    BY <1>2, <1>4, OutboundsListed
  <2>2. Token(query[c], Outbounds[query[c]][fetches[c]]) \in Tokens
    BY <1>2, <2>1, OutboundsListed
  <2> QED BY <1>4, <2>2 DEF Screen, Screens
<1> QED BY <1>3, <1>4

LEMMA SearchStep == SearchInv /\ [Next]_vars => SearchInv'
<1> SUFFICES ASSUME SearchInv, [Next]_vars PROVE SearchInv'
  OBVIOUS
<1> USE DEF Ages
<1>0. /\ Typing /\ CacheTyped /\ RefsTyped /\ DOMAIN result = Callers
      /\ \A c \in Callers : Placed(pc[c], query[c], limit[c], fetches[c], pairs[c]) /\ Right(result[c])
  BY DEF SearchInv
<1>1. ASSUME NEW c \in Callers, NEW q \in Queries, NEW most \in Limits, Search(c, q, most)
      PROVE  SearchInv'
  <2>1. most \in Nat /\ most > 0
    BY FlightSearchAssumption
  <2>2. pc[c] = "idle" /\ fetches[c] = 0 /\ pairs[c] = <<>>
    BY <1>0, <1>1 DEF Search, Placed
  <2>3. Typing' /\ CacheTyped' /\ RefsTyped'
    BY <1>0, <1>1, <2>1 DEF Search, Goto, Typing, CacheTyped, RefsTyped
  <2>4. Elsewhere(c) /\ pc'[c] = "lookup" /\ query'[c] = q /\ limit'[c] = most
        /\ fetches'[c] = 0 /\ pairs'[c] = <<>>
    BY <1>0, <1>1, <2>2 DEF Search, Goto, Typing, Elsewhere
  <2>5. DOMAIN result' = Callers /\ result'[c] = NoResult
    BY <1>0, <1>1 DEF Search
  <2>6. Between(q, most, 0, <<>>)
    <3>1. Sold(q, 0 - 1) = {} /\ <<>> \in Seq(Found) /\ Len(<<>>) = 0
      BY DEF Sold
    <3>2. Lists(<<>>, q, Sold(q, 0 - 1))
      BY <3>1 DEF Lists, Ranks, Ascending, Members
    <3>3. 0 <= Len(Outbounds[q])
      BY OutboundsListed
    <3> QED BY <2>1, <3>1, <3>2, <3>3, FlightSearchAssumption DEF Between
  <2>7. Placed(pc'[c], query'[c], limit'[c], fetches'[c], pairs'[c]) /\ Right(result'[c])
    BY <2>4, <2>5, <2>6 DEF Placed, Right, NoResult
  <2> QED BY <2>3, <2>4, <2>5, <2>7, CallerKeeps
<1>2. ASSUME NEW c \in Callers, Hit(c) PROVE SearchInv'
  <2>1. pc[c] # "idle" /\ CacheTyped'
    BY <1>0, <1>2 DEF Hit, CacheTyped
  <2>2. stored[Screen(c)] \in Ages
    BY <1>0, <2>1, ScreenExists DEF CacheTyped
  <2>3. \E age \in 0..MaxAge : Arrive(c, age)
    BY <1>2, <2>2 DEF Hit
  <2> QED BY <2>1, <2>3, ArriveKeepsSearch
<1>3. ASSUME NEW c \in Callers, Miss(c) \/ Admit(c) \/ AdmitBlind(c) PROVE SearchInv'
  <2>1. PICK label \in {"fetching", "sent"} :
            /\ pc' = [pc EXCEPT ![c] = label]
            /\ UNCHANGED <<query, limit, fetches, pairs, since, result, stored, byRef>>
    BY <1>3 DEF Miss, Admit, AdmitBlind, Goto
  <2>2. pc[c] # "idle"
    BY <1>3 DEF Miss, Admit, AdmitBlind
  <2>3. Typing' /\ CacheTyped' /\ RefsTyped' /\ Elsewhere(c) /\ pc'[c] = label
    BY <1>0, <2>1 DEF Typing, CacheTyped, RefsTyped, Elsewhere
  <2>4. Placed(pc'[c], query'[c], limit'[c], fetches'[c], pairs'[c])
    BY <1>0, <2>1, <2>2, <2>3 DEF Placed
  <2> QED BY <1>0, <2>1, <2>3, <2>4, CallerKeeps
<1>4. ASSUME NEW c \in Callers, Refused(c) PROVE SearchInv'
  <2>1. pc[c] = "fetching" /\ CacheTyped'
    BY <1>0, <1>4 DEF Refused, CacheTyped
  <2>2. CASE EndWithout(c, QuotaExceeded)
    BY <2>1, <2>2, EndWithoutKeepsSearch DEF QuotaExceeded
  <2>3. CASE pairs[c] # <<>> /\ EndWithList(c, pairs[c], TRUE) /\ since' = [since EXCEPT ![c] = 0]
    <3> DEFINE q == query[c]
               n == fetches[c]
               found == pairs[c]
    <3>1. Between(q, limit[c], n, found)
      BY <1>0, <2>1 DEF Placed
    <3>2. found \in Seq(Found) /\ Len(found) \in Nat /\ Len(found) > 0
      <4>1. found \in Seq(Found)
        BY <3>1 DEF Between, Lists
      <4> QED BY <2>3, <4>1
    <3>3. limit[c] \in Nat
      BY <1>0 DEF Typing
    <3>4. q \in Queries /\ Len(Outbounds[q]) \in Nat /\ n \in 1..Len(Outbounds[q]) /\ q \notin OneWays
          /\ n <= MaxReturnFetches
      <4>1. q \in Queries /\ n \in Nat /\ n <= Len(Outbounds[q]) /\ Len(found) <= n /\ n <= MaxReturnFetches
            /\ (q \in OneWays => n = 0)
        BY <3>1, FlightSearchAssumption DEF Between
      <4> QED BY <3>2, <4>1, OutboundsListed
    <3>5. q \in RoundTrips /\ n - 1 \in 0..Len(Outbounds[q])
          /\ n - 1 \in 0..Least(MaxReturnFetches, Len(Outbounds[q]))
      BY <3>4, FlightSearchAssumption DEF Queries, Least
    <3>6. Lists(found, q, Sold(q, n - 1)) /\ Len(found) <= limit[c]
      BY <3>1, <3>2, <3>3 DEF Between
    <3>7. Right(Candidates(q, limit[c], found, [query |-> q, quota_truncated |-> TRUE]))
      <4>1. IF TRUE THEN Len(found) > 0
            ELSE Len(found) = limit[c] \/ n - 1 = Least(MaxReturnFetches, Len(Outbounds[q]))
        BY <3>2
      <4> QED BY <3>3, <3>5, <3>6, <4>1, FanOutIsRight
    <3>8. \A i \in DOMAIN found : found[i].outbound \in Fares(q)
      BY <3>4, <3>5, <3>6, SoldOnScreen
    <3>9. since' \in [Callers -> 0..MaxRun]
      BY <1>0, <2>3, FlightSearchAssumption DEF Typing
    <3> QED BY <2>1, <2>3, <3>4, <3>7, <3>8, <3>9, EndWithListKeepsSearch
  <2> QED BY <1>4, <2>2, <2>3 DEF Refused
<1>5. ASSUME NEW c \in Callers, Answer(c) PROVE SearchInv'
  <2>1. pc[c] # "idle" /\ Arrive(c, 0)
    BY <1>5 DEF Answer
  <2>2. Screen(c) \in Screens /\ 0 \in 0..MaxAge
    BY <2>1, ScreenExists, FlightSearchAssumption
  <2>3. stored' \in [Screens -> Ages]
    <3>1. PICK kept \in {stored[Screen(c)], {0}} : stored' = [stored EXCEPT ![Screen(c)] = kept]
      BY <1>5 DEF Answer
    <3>2. kept \in Ages
      BY <1>0, <2>2, <3>1 DEF CacheTyped
    <3> HIDE DEF Ages
    <3> QED BY <1>0, <3>1, <3>2 DEF CacheTyped
  <2>4. CacheTyped'
    BY <2>3 DEF CacheTyped
  <2> QED BY <2>1, <2>2, <2>4, ArriveKeepsSearch
<1>6. ASSUME NEW c \in Callers, RequestFails(c) \/ Crash(c) PROVE SearchInv'
  <2>1. CacheTyped' /\ (EndWithout(c, Failed) \/ EndWithout(c, NoResult))
    BY <1>0, <1>6 DEF RequestFails, Crash, CacheTyped
  <2>2. Failed.kind # "list" /\ NoResult.kind # "list"
    BY DEF Failed, NoResult
  <2> QED BY <2>1, <2>2, EndWithoutKeepsSearch
<1>7. ASSUME UNCHANGED <<pc, query, limit, fetches, pairs, result, byRef>>,
             since' \in [Callers -> 0..MaxRun], CacheTyped'
      PROVE  SearchInv'
  <2>1. Typing' /\ RefsTyped'
    BY <1>0, <1>7 DEF Typing, RefsTyped
  <2> QED BY <1>0, <1>7, <2>1 DEF SearchInv
<1>8. ASSUME NEW s \in Screens, Forget(s) PROVE SearchInv'
  <2>1. CacheTyped' /\ since' \in [Callers -> 0..MaxRun]
    BY <1>0, <1>8 DEF Forget, CacheTyped, Typing, searchVars
  <2> QED BY <1>7, <1>8, <2>1 DEF Forget, searchVars
<1>9. CASE Tick
  <2>1. \A c \in Callers : since[c] \in Nat /\ (pc[c] # "idle" => since[c] < MaxRun)
    BY <1>0, <1>9 DEF Tick, Typing
  <2>2. since' \in [Callers -> 0..MaxRun]
    BY <1>9, <2>1, FlightSearchAssumption DEF Tick
  <2>3. \A S \in Ages : Older(S) \in Ages
    <3>1. ASSUME NEW a \in 0..MaxAge PROVE Older({a}) \in Ages
      <4>1. CASE a < MaxAge
        <5>1. Older({a}) = {a + 1} /\ a + 1 \in 0..MaxAge
          BY <4>1, FlightSearchAssumption DEF Older
        <5> QED BY <5>1
      <4>2. CASE ~(a < MaxAge)
        <5>1. Older({a}) = {}
          BY <4>2 DEF Older
        <5> QED BY <5>1
      <4> QED BY <4>1, <4>2
    <3>2. Older({}) = {}
      BY DEF Older
    <3> QED BY <3>1, <3>2
  <2>4. stored' = [s \in Screens |-> Older(stored[s])]
    BY <1>9 DEF Tick
  <2>5. CacheTyped'
    <3> HIDE DEF Ages
    <3> QED BY <1>0, <2>3, <2>4 DEF CacheTyped
  <2>6. UNCHANGED <<pc, query, limit, fetches, pairs, result, byRef>>
    BY <1>9 DEF Tick
  <2> QED BY <1>7, <2>2, <2>5, <2>6
<1>10. CASE NewWindow
  <2>1. stored' = stored /\ since' = since
    BY <1>10 DEF NewWindow, searchVars
  <2>2. CacheTyped' /\ since' \in [Callers -> 0..MaxRun]
    BY <1>0, <2>1 DEF CacheTyped, Typing
  <2> QED BY <1>7, <1>10, <2>2 DEF NewWindow, searchVars
<1>11. CASE UNCHANGED vars
  <2>1. CacheTyped' /\ since' \in [Callers -> 0..MaxRun]
    BY <1>0, <1>11 DEF vars, searchVars, CacheTyped, Typing
  <2> QED BY <1>7, <1>11, <2>1 DEF vars, searchVars
<1> QED BY <1>1, <1>2, <1>3, <1>4, <1>5, <1>6, <1>8, <1>9, <1>10, <1>11 DEF Next, Proceed

LEMMA SearchStarts == Init => SearchInv
<1> SUFFICES ASSUME Init PROVE SearchInv
  OBVIOUS
<1>1. <<>> \in Seq(Found) /\ 0 \in 0..MaxReturnFetches /\ 0 \in 0..MaxRun
  BY FlightSearchAssumption
<1>2. Typing /\ CacheTyped
  BY <1>1 DEF Init, Typing, CacheTyped, Ages
<1>3. RefsTyped
  BY DEF Init, RefsTyped
<1>4. \A c \in Callers : Placed(pc[c], query[c], limit[c], fetches[c], pairs[c])
  BY DEF Init, Placed
<1>5. DOMAIN result = Callers /\ \A c \in Callers : Right(result[c])
  BY DEF Init, Right, NoResult
<1> QED BY <1>2, <1>3, <1>4, <1>5 DEF SearchInv

LEMMA SearchAlways == Spec => []SearchInv
BY SearchStarts, SearchStep, PTL DEF Spec

---------------------------------------------------------------------------
(* The quota under several searches.                                       *)

\* The searches whose call has passed the check of the quota and is not counted.
Passed == {c \in Callers : pc[c] = "sent"}

Metered ==
    /\ used \in Nat /\ blind \in 0..MaxBlind
    /\ used + Cardinality(Passed) <= CallsPerWindow - 1 + Cardinality(Callers) + blind

LEMMA MeteredStarts == Init => Metered
<1> SUFFICES ASSUME Init PROVE Metered
  OBVIOUS
<1>1. Passed = {} /\ used = 0 /\ blind = 0
  BY DEF Init, Passed
<1>2. Cardinality(Callers) \in Nat /\ Cardinality(Passed) = 0
  BY <1>1, QuotaAssumption, FS_CardinalityType, FS_EmptySet
<1> QED BY <1>1, <1>2, QuotaAssumption DEF Metered

\* What a step may do to the quota and to the calls on their way to be counted.
QuotaMoves ==
    \/ Passed' \subseteq Passed /\ used' <= used /\ blind' = blind
    \/ used' < CallsPerWindow /\ blind' <= blind
    \/ /\ blind' = blind + 1 /\ used' = used
       /\ \E c \in Callers : Passed' \subseteq Passed \cup {c}
    \/ /\ blind' = blind /\ used' = used + 1
       /\ \E c \in Passed : Passed' \subseteq Passed \ {c}

\* A screen that arrives leaves no call of the search behind.
LEMMA ArriveMoves ==
    ASSUME NEW c \in Callers, NEW age, Arrive(c, age)
    PROVE  \E label \in {"idle", "lookup"} : pc' = [pc EXCEPT ![c] = label]
<1>1. ASSUME NEW found, Continue(c, found)
      PROVE  \E label \in {"idle", "lookup"} : pc' = [pc EXCEPT ![c] = label]
  <2>1. Goto(c, "lookup") \/ EndWithList(c, found, FALSE)
    BY <1>1 DEF Continue
  <2> QED BY <2>1 DEF EndWithList, End, Goto
<1>2. ASSUME NEW found, EndWithList(c, found, FALSE)
      PROVE  \E label \in {"idle", "lookup"} : pc' = [pc EXCEPT ![c] = label]
  BY <1>2 DEF EndWithList, End, Goto
<1>3. \/ \E found : Continue(c, found)
      \/ \E found : EndWithList(c, found, FALSE)
  BY DEF Arrive
<1> QED BY <1>1, <1>2, <1>3

LEMMA QuotaStep ==
    ASSUME Typing, Metered, [Next]_vars
    PROVE  QuotaMoves /\ used' \in Nat /\ blind' \in 0..MaxBlind
<1>1. ASSUME UNCHANGED <<pc, quota>>
      PROVE  QuotaMoves /\ used' \in Nat /\ blind' \in 0..MaxBlind
  BY <1>1 DEF QuotaMoves, Metered, Passed, quota
<1>2. ASSUME NEW c \in Callers, NEW label \in {"idle", "lookup", "fetching"},
             pc' = [pc EXCEPT ![c] = label]
      PROVE  Passed' \subseteq Passed \ {c}
  BY <1>2 DEF Typing, Passed
<1>3. ASSUME NEW c \in Callers, NEW label \in {"idle", "lookup", "fetching"},
             pc' = [pc EXCEPT ![c] = label], UNCHANGED quota
      PROVE  QuotaMoves /\ used' \in Nat /\ blind' \in 0..MaxBlind
  <2>1. Passed' \subseteq Passed
    BY <1>2, <1>3
  <2> QED BY <1>3, <2>1 DEF QuotaMoves, Metered, quota
<1>4. ASSUME NEW c \in Callers, NEW q \in Queries, NEW most \in Limits, Search(c, q, most)
      PROVE  QuotaMoves /\ used' \in Nat /\ blind' \in 0..MaxBlind
  BY <1>3, <1>4 DEF Search, Goto, quota
<1>5. ASSUME NEW c \in Callers, Hit(c)
      PROVE  QuotaMoves /\ used' \in Nat /\ blind' \in 0..MaxBlind
  <2>1. \E label \in {"idle", "lookup"} : pc' = [pc EXCEPT ![c] = label]
    BY <1>5, ArriveMoves DEF Hit
  <2> QED BY <1>3, <1>5, <2>1 DEF Hit
<1>6. ASSUME NEW c \in Callers, Miss(c)
      PROVE  QuotaMoves /\ used' \in Nat /\ blind' \in 0..MaxBlind
  BY <1>3, <1>6 DEF Miss, Goto, quota
<1>7. ASSUME NEW c \in Callers, Admit(c)
      PROVE  QuotaMoves /\ used' \in Nat /\ blind' \in 0..MaxBlind
  BY <1>7 DEF Admit, QuotaMoves, Metered, quota
<1>8. ASSUME NEW c \in Callers, AdmitBlind(c)
      PROVE  QuotaMoves /\ used' \in Nat /\ blind' \in 0..MaxBlind
  <2>1. pc' = [pc EXCEPT ![c] = "sent"] /\ blind' = blind + 1 /\ used' = used /\ blind < MaxBlind
    BY <1>8 DEF AdmitBlind, Goto
  <2>2. Passed' \subseteq Passed \cup {c}
    BY <2>1 DEF Typing, Passed
  <2> QED BY <2>1, <2>2, QuotaAssumption DEF QuotaMoves, Metered
<1>9. ASSUME NEW c \in Callers, Refused(c) \/ RequestFails(c) \/ Crash(c)
      PROVE  QuotaMoves /\ used' \in Nat /\ blind' \in 0..MaxBlind
  <2>1. pc' = [pc EXCEPT ![c] = "idle"] /\ UNCHANGED quota
    BY <1>9 DEF Refused, RequestFails, Crash, EndWithout, EndWithList, End, Goto
  <2> QED BY <1>3, <2>1
<1>10. ASSUME NEW c \in Callers, Answer(c)
       PROVE  QuotaMoves /\ used' \in Nat /\ blind' \in 0..MaxBlind
  <2>1. PICK label \in {"idle", "lookup"} : pc' = [pc EXCEPT ![c] = label]
    BY <1>10, ArriveMoves DEF Answer
  <2>2. c \in Passed /\ Passed' \subseteq Passed \ {c}
    BY <1>2, <1>10, <2>1 DEF Answer, Passed
  <2>3. used' \in {used, used + 1} /\ blind' = blind
    BY <1>10 DEF Answer
  <2> QED BY <2>2, <2>3 DEF QuotaMoves, Metered
<1>11. CASE NewWindow
  BY <1>11, QuotaAssumption DEF NewWindow, QuotaMoves, Metered
<1>12. CASE Tick \/ UNCHANGED vars \/ \E s \in Screens : Forget(s)
  BY <1>1, <1>12 DEF Tick, vars, Forget, searchVars
<1> QED
  BY <1>4, <1>5, <1>6, <1>7, <1>8, <1>9, <1>10, <1>11, <1>12 DEF Next, Proceed

LEMMA MeteredStep == Typing /\ Metered /\ [Next]_vars => Metered'
<1> SUFFICES ASSUME Typing, Metered, [Next]_vars PROVE Metered'
  OBVIOUS
<1>1. QuotaMoves /\ used' \in Nat /\ blind' \in 0..MaxBlind
  BY QuotaStep
<1>2. used \in Nat /\ blind \in Nat /\ blind' \in Nat
  BY <1>1, QuotaAssumption DEF Metered
<1>3. Passed \subseteq Callers /\ Passed' \subseteq Callers
  BY DEF Passed
<1>4. used + Cardinality(Passed) <= CallsPerWindow - 1 + Cardinality(Callers) + blind
  BY DEF Metered
<1> DEFINE E == Passed
           F == Passed'
<1> HIDE DEF E, F
<1>5. used' + Cardinality(F) <= CallsPerWindow - 1 + Cardinality(Callers) + blind'
  BY <1>1, <1>2, <1>3, <1>4, OverdrawStep, QuotaAssumption DEF QuotaMoves, E, F
<1> QED BY <1>1, <1>5 DEF Metered, F

\* A search is between two awaits of its own query, below its limit, the cache
\* and the side channel hold what they may, and the searches count no more calls
\* over the quota than one for each other search and one for each check that Redis
\* did not answer.
THEOREM TypeCorrect == Spec => []TypeOK
<1>1. SearchInv /\ Metered => TypeOK
  <2> SUFFICES ASSUME SearchInv, Metered PROVE TypeOK
    OBVIOUS
  <2>1. /\ Typing /\ CacheTyped /\ RefsTyped
        /\ \A c \in Callers : Placed(pc[c], query[c], limit[c], fetches[c], pairs[c])
    BY DEF SearchInv
  <2>2. \A c \in Callers :
           /\ IF pc[c] = "idle" THEN query[c] = NoQuery ELSE query[c] \in Queries /\ limit[c] \in Limits
           /\ query[c] \in OneWays => fetches[c] = 0
           /\ IF pc[c] = "idle" THEN fetches[c] = 0 /\ pairs[c] = <<>>
              ELSE Len(pairs[c]) < limit[c] /\ Len(pairs[c]) <= fetches[c]
    BY <2>1 DEF Placed, Between
  <2>3. \A s \in Screens : stored[s] = {} \/ \E age \in 0..MaxAge : stored[s] = {age}
    BY <2>1 DEF CacheTyped, Ages
  <2>4. used \in 0..(CallsPerWindow - 1 + Cardinality(Callers) + blind)
    <3>1. Cardinality(Passed) \in Nat /\ Cardinality(Callers) \in Nat
      BY QuotaAssumption, FS_Subset, FS_CardinalityType DEF Passed
    <3> QED BY <3>1, QuotaAssumption DEF Metered
  <2> QED BY <2>1, <2>2, <2>3, <2>4 DEF TypeOK, Typing, CacheTyped, RefsTyped, Metered
<1>2. SearchInv => Typing
  BY DEF SearchInv
<1> QED BY <1>1, <1>2, SearchAlways, MeteredStarts, MeteredStep, PTL DEF Spec

\* A list is the best ranked part of all that could be sold, with no gap, at the
\* totals of the cheapest returns, and whole unless its context says otherwise.
THEOREM WholeOrToldHolds == Spec => []WholeOrTold
<1>1. SearchInv => WholeOrTold
  <2> SUFFICES ASSUME SearchInv, NEW c \in Callers, result[c].kind = "list"
               PROVE  LET r == result[c]
                          n == Len(r.found)
                          rank == [i \in 1..n |-> r.found[i].outbound]
                          all == WholeList(r.query)
                      IN  /\ n <= r.limit
                          /\ \A i \in 1..n :
                                /\ {j \in all : j <= rank[i]} = {rank[k] : k \in 1..i}
                                /\ \A k \in 1..(i - 1) : rank[k] < rank[i]
                                /\ r.found[i].price \in
                                      IF r.query \in RoundTrips
                                      THEN CheapestLeg(Token(r.query, rank[i]))
                                      ELSE {Entries[r.query][rank[i]].price}
                          /\ IF r.context.quota_truncated THEN n > 0
                             ELSE n = r.limit \/ all = {rank[k] : k \in 1..n}
    BY Zenon DEF WholeOrTold
  <2>1. RightList(result[c].query, result[c].limit, result[c].found,
                  result[c].context.quota_truncated)
    BY DEF SearchInv, Right
  <2> QED BY <2>1, Zenon DEF RightList, Ranks, Cost
<1> QED BY <1>1, SearchAlways, PTL

\* Every price was quoted at most MaxAge before the stamp it carries.
THEOREM StampHonestHolds == Spec => []StampHonest
<1>1. SearchInv => StampHonest
  <2> SUFFICES ASSUME SearchInv, NEW c \in Callers, result[c].kind = "list",
                      NEW i \in DOMAIN result[c].found
               PROVE  result[c].found[i].early \in (-MaxRun)..MaxAge
    BY DEF StampHonest
  <2>1. result[c].found \in Seq(Found)
    BY DEF SearchInv, Right, RightList
  <2>2. result[c].found[i] \in Found
    BY <2>1
  <2> QED BY <2>2 DEF Found
<1> QED BY <1>1, SearchAlways, PTL

---------------------------------------------------------------------------
(* The refs of a search.                                                   *)

\* In the channel b, the refs of a result lead to contexts of its query.
KnownIn(b, r) ==
    r.kind = "list" =>
        \A i \in DOMAIN r.found :
            LET ref == <<r.query, r.found[i].outbound>>
            IN  ref \in DOMAIN b /\ b[ref].query = r.query
RefsInv == DOMAIN result = Callers /\ \A c \in Callers : KnownIn(byRef, result[c])

\* From the channel b to d, refs stay, and keep the query they are of.
KeepsRefs(b, d) ==
    \A ref \in DOMAIN b :
        /\ ref \in DOMAIN d
        /\ d[ref].query = b[ref].query \/ d[ref].query = ref[1]

\* What is known stays known, whatever context replaces the one it led to.
LEMMA KnownStays ==
    ASSUME NEW r, NEW b, NEW d, KeepsRefs(b, d), KnownIn(b, r)
    PROVE  KnownIn(d, r)
<1> SUFFICES ASSUME r.kind = "list", NEW i \in DOMAIN r.found
             PROVE  LET ref == <<r.query, r.found[i].outbound>>
                    IN  ref \in DOMAIN d /\ d[ref].query = r.query
  BY DEF KnownIn
<1> DEFINE ref == <<r.query, r.found[i].outbound>>
<1>1. ref \in DOMAIN b /\ b[ref].query = r.query
  BY DEF KnownIn
<1>2. ref[1] = r.query
  OBVIOUS
<1> HIDE DEF ref
<1>3. ref \in DOMAIN d /\ d[ref].query = r.query
  BY <1>1, <1>2 DEF KeepsRefs
<1> QED BY <1>3 DEF ref

\* A result whose refs are known may take the place of a caller's last one.
LEMMA ResultKeeps ==
    ASSUME RefsInv, NEW c \in Callers, NEW r, result' = [result EXCEPT ![c] = r],
           KeepsRefs(byRef, byRef'), KnownIn(byRef', r)
    PROVE  RefsInv'
<1>1. ASSUME NEW e \in Callers PROVE KnownIn(byRef', result'[e])
  <2>1. CASE e = c
    BY <2>1 DEF RefsInv
  <2>2. CASE e # c
    <3>1. result'[e] = result[e] /\ KnownIn(byRef, result[e])
      BY <2>2 DEF RefsInv
    <3> QED BY <3>1, KnownStays
  <2> QED BY <2>1, <2>2
<1>2. DOMAIN result' = Callers
  BY DEF RefsInv
<1> QED BY <1>1, <1>2 DEF RefsInv

LEMMA SameKeeps ==
    ASSUME RefsInv, result' = result, byRef' = byRef
    PROVE  RefsInv'
BY DEF RefsInv

\* A search that ends without a list.
LEMMA EndWithoutKeeps ==
    ASSUME RefsInv, NEW c \in Callers, NEW r, r.kind # "list", EndWithout(c, r)
    PROVE  RefsInv'
<1>1. result' = [result EXCEPT ![c] = r] /\ byRef' = byRef
  BY DEF EndWithout, End
<1>2. KeepsRefs(byRef, byRef') /\ KnownIn(byRef', r)
  BY <1>1 DEF KeepsRefs, KnownIn
<1> QED BY <1>1, <1>2, ResultKeeps

\* A search that ends with a list registers its refs, and overwrites others'
\* by contexts of the same query only: the query is part of the ref.
LEMMA EndWithListKeeps ==
    ASSUME RefsInv, NEW c \in Callers, NEW found, NEW truncated,
           EndWithList(c, found, truncated)
    PROVE  RefsInv'
<1> DEFINE q == query[c]
           context == [query |-> q, quota_truncated |-> truncated]
           r == Candidates(q, limit[c], found, context)
           refs == {<<q, found[i].outbound>> : i \in DOMAIN found}
<1>1. result' = [result EXCEPT ![c] = r]
  BY DEF EndWithList, End
<1>2. byRef' = [ref \in refs \cup DOMAIN byRef |-> IF ref \in refs THEN context ELSE byRef[ref]]
  BY DEF EndWithList, Register
<1>3. r.query = q /\ r.found = found /\ context.query = q
  BY DEF Candidates
<1>4. \A ref \in refs : ref[1] = q
  OBVIOUS
<1>5. \A i \in DOMAIN found : <<q, found[i].outbound>> \in refs
  OBVIOUS
<1> HIDE DEF q, context, r, refs
<1>6. KeepsRefs(byRef, byRef')
  BY <1>2, <1>3, <1>4 DEF KeepsRefs
<1>7. KnownIn(byRef', r)
  BY <1>2, <1>3, <1>5 DEF KnownIn
<1> QED BY <1>1, <1>6, <1>7, ResultKeeps

\* A screen that arrives either ends the search with a list or only moves it on.
LEMMA ArriveKeeps ==
    ASSUME RefsInv, NEW c \in Callers, NEW age, Arrive(c, age)
    PROVE  RefsInv'
<1>1. ASSUME NEW found, Continue(c, found) PROVE RefsInv'
  <2>1. UNCHANGED <<result, byRef>> \/ EndWithList(c, found, FALSE)
    BY <1>1 DEF Continue
  <2> QED BY <2>1, SameKeeps, EndWithListKeeps
<1>2. \/ \E found : Continue(c, found)
      \/ \E found : EndWithList(c, found, FALSE)
  BY DEF Arrive
<1> QED BY <1>1, <1>2, EndWithListKeeps

LEMMA StepKeeps == RefsInv /\ [Next]_vars => RefsInv'
<1> SUFFICES ASSUME RefsInv, [Next]_vars PROVE RefsInv'
  OBVIOUS
<1>1. ASSUME NEW c \in Callers, NEW q, NEW most, Search(c, q, most) PROVE RefsInv'
  <2>1. result' = [result EXCEPT ![c] = NoResult] /\ byRef' = byRef
    BY <1>1 DEF Search
  <2>2. KeepsRefs(byRef, byRef') /\ KnownIn(byRef', NoResult)
    BY <2>1 DEF KeepsRefs, KnownIn, NoResult
  <2> QED BY <2>1, <2>2, ResultKeeps
<1>2. ASSUME NEW c \in Callers, Hit(c) PROVE RefsInv'
  BY <1>2, ArriveKeeps DEF Hit
<1>3. ASSUME NEW c \in Callers, Miss(c) \/ Admit(c) \/ AdmitBlind(c) PROVE RefsInv'
  BY <1>3, SameKeeps DEF Miss, Admit, AdmitBlind
<1>4. ASSUME NEW c \in Callers, Refused(c) PROVE RefsInv'
  <2>1. EndWithout(c, QuotaExceeded) \/ EndWithList(c, pairs[c], TRUE)
    BY <1>4 DEF Refused
  <2>2. QuotaExceeded.kind # "list"
    BY DEF QuotaExceeded
  <2> QED BY <2>1, <2>2, EndWithoutKeeps, EndWithListKeeps
<1>5. ASSUME NEW c \in Callers, Answer(c) PROVE RefsInv'
  BY <1>5, ArriveKeeps DEF Answer
<1>6. ASSUME NEW c \in Callers, RequestFails(c) \/ Crash(c) PROVE RefsInv'
  <2>1. EndWithout(c, Failed) \/ EndWithout(c, NoResult)
    BY <1>6 DEF RequestFails, Crash
  <2>2. Failed.kind # "list" /\ NoResult.kind # "list"
    BY DEF Failed, NoResult
  <2> QED BY <2>1, <2>2, EndWithoutKeeps
<1>7. ASSUME (\E s \in Screens : Forget(s)) \/ Tick \/ NewWindow PROVE RefsInv'
  BY <1>7, SameKeeps DEF Forget, Tick, NewWindow
<1>8. CASE UNCHANGED vars
  BY <1>8, SameKeeps DEF vars
<1> QED BY <1>1, <1>2, <1>3, <1>4, <1>5, <1>6, <1>7, <1>8 DEF Next, Proceed

\* A caller that holds a candidate finds a context of its query by its ref.
THEOREM RefsKnownHolds == Spec => []RefsKnown
<1>1. Init => RefsInv
  BY DEF Init, RefsInv, KnownIn, NoResult
<1>2. RefsInv => RefsKnown
  BY DEF RefsInv, RefsKnown, KnownIn
<1> QED BY <1>1, <1>2, StepKeeps, PTL DEF Spec
=============================================================================
