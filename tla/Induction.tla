----------------------------- MODULE Induction -----------------------------
(***************************************************************************)
(* Induction and recursion over numbers, for the modules whose models loop *)
(* over sequences.  The library states both for an operator; here a set    *)
(* and a function take its place, which a prover can instantiate: a set    *)
(* that has 0 and the successor of each of its numbers has all of them,    *)
(* and a function on 1..n is found whose value at each number is computed  *)
(* from the one before.  Last comes the induction step that every model of *)
(* the quota shares: a counter that is checked before it is counted.       *)
(***************************************************************************)
EXTENDS Integers, FiniteSetTheorems, WellFoundedInduction, TLAPS

\* Every set of numbers that is not empty has a least one.
LEMMA LeastNumber ==
    ASSUME NEW S, S \subseteq Nat, S # {}
    PROVE  \E m \in S : \A n \in S : m <= n
<1>1. IsWellFoundedOn(OpToRel(<, Nat), Nat)
  BY NatLessThanWellFounded
<1>2. PICK m \in S : \A n \in S : ~(<<n, m>> \in OpToRel(<, Nat))
  BY <1>1, WFMin
<1>3. \A n \in S : ~(n < m)
  BY <1>2 DEF OpToRel
<1>4. QED  BY <1>3

\* Induction, with the set of the numbers that satisfy the claim.
LEMMA NumberInduction ==
    ASSUME NEW T, 0 \in T, \A n \in Nat : n \in T => n + 1 \in T
    PROVE  \A n \in Nat : n \in T
<1> DEFINE S == Nat \ T
<1> SUFFICES ASSUME S # {} PROVE FALSE
  OBVIOUS
<1>1. PICK m \in S : \A n \in S : m <= n
  BY LeastNumber
<1>2. m # 0 /\ m - 1 \in Nat /\ m - 1 \notin S
  BY <1>1
<1> QED BY <1>1, <1>2

\* The same up to a number.
LEMMA BoundedInduction ==
    ASSUME NEW N \in Nat, NEW T, 0 \in T, \A n \in 0..(N - 1) : n \in T => n + 1 \in T
    PROVE  \A n \in 0..N : n \in T
<1> DEFINE U == {n \in Nat : n <= N => n \in T}
<1>1. 0 \in U /\ \A n \in Nat : n \in U => n + 1 \in U
  OBVIOUS
<1> HIDE DEF U
<1>2. \A n \in Nat : n \in U
  BY <1>1, NumberInduction
<1> QED BY <1>2 DEF U

\* Steps that compute a value in D from the one before and from its number, and
\* the values that they lead to from d on.
Steps(D, N) == [D \X (1..N) -> D]
Values(g, D, d, N, step) ==
    g \in [0..N -> D] /\ g[0] = d /\ \A n \in 1..N : g[n] = step[<<g[n - 1], n>>]

\* There are such values: what a recursive function over 0..N needs to be one.
LEMMA RecursionHasValues ==
    ASSUME NEW D, NEW d \in D, NEW N \in Nat, NEW step \in Steps(D, N)
    PROVE  \E g : Values(g, D, d, N, step)
<1> USE DEF Steps, Values
<1> DEFINE Through(h, n) ==
             h \in [0..N -> D] /\ h[0] = d /\ \A i \in 1..n : h[i] = step[<<h[i - 1], i>>]
           T == {n \in 0..N : \E h : Through(h, n)}
<1>1. 0 \in T
  <2> DEFINE h == [i \in 0..N |-> d]
  <2>1. 0 \in 0..N /\ Through(h, 0)
    OBVIOUS
  <2> HIDE DEF h
  <2> QED BY <2>1
<1>2. ASSUME NEW n \in 0..(N - 1), n \in T PROVE n + 1 \in T
  <2>1. PICK h : Through(h, n)
    BY <1>2
  <2> DEFINE k == [i \in 0..N |-> IF i = n + 1 THEN step[<<h[n], n + 1>>] ELSE h[i]]
  <2>2. h \in [0..N -> D] /\ n \in 0..N /\ n + 1 \in 1..N
    BY <2>1
  <2>3. step[<<h[n], n + 1>>] \in D
    BY <2>2
  <2>4. k \in [0..N -> D]
    BY <2>2, <2>3
  <2>5. k[0] = d
    BY <2>1, <2>2
  <2>6. ASSUME NEW i \in 1..(n + 1) PROVE k[i] = step[<<k[i - 1], i>>]
    <3>1. CASE i = n + 1
      <4>1. k[i] = step[<<h[n], i>>] /\ k[n] = h[n] /\ i - 1 = n
        BY <3>1, <2>2
      <4> HIDE DEF k
      <4> QED BY <4>1
    <3>2. CASE i # n + 1
      <4>1. k[i] = h[i] /\ k[i - 1] = h[i - 1] /\ i \in 1..n
        BY <3>2, <2>2
      <4> QED BY <4>1, <2>1
    <3> QED BY <3>1, <3>2
  <2> HIDE DEF k
  <2>7. Through(k, n + 1)
    BY <2>4, <2>5, <2>6
  <2> QED BY <2>2, <2>7
<1> HIDE DEF T
<1>3. N \in T
  BY <1>1, <1>2, BoundedInduction
<1> QED BY <1>3 DEF T

---------------------------------------------------------------------------
(* Callers who check a counter against a limit, and count later.           *)

\* S are the callers between the two and m the count, T and n the same a step
\* later; b and d are the checks passed blind.  The step puts nobody between and
\* counts nothing, or finds the counter below the limit, or lets a caller pass
\* blind, or is a count.  Then the counter, all that are on their way counted,
\* still exceeds the limit by no more than the other callers and the blind checks.
LEMMA OverdrawStep ==
    ASSUME NEW C, IsFiniteSet(C), NEW S, NEW T, S \subseteq C, T \subseteq C,
           NEW m \in Nat, NEW n \in Nat, NEW b \in Nat, NEW d \in Nat,
           NEW L \in Nat \ {0},
           m + Cardinality(S) <= L - 1 + Cardinality(C) + b,
           \/ T \subseteq S /\ n <= m /\ d >= b
           \/ n < L
           \/ d = b + 1 /\ n <= m /\ \E c \in C : T \subseteq S \cup {c}
           \/ d = b /\ n <= m + 1 /\ \E c \in S : T \subseteq S \ {c}
    PROVE  n + Cardinality(T) <= L - 1 + Cardinality(C) + d
<1> DEFINE all == Cardinality(C)
           s == Cardinality(S)
           t == Cardinality(T)
<1>1. /\ IsFiniteSet(C) /\ IsFiniteSet(S) /\ IsFiniteSet(T)
      /\ all \in Nat /\ s \in Nat /\ t \in Nat /\ t <= all
  BY FS_Subset, FS_CardinalityType
<1>2. m + s <= L - 1 + all + b
  OBVIOUS
<1>3. ASSUME T \subseteq S PROVE t <= s
  BY <1>1, <1>3, FS_Subset
<1>4. ASSUME NEW c \in C, T \subseteq S \cup {c} PROVE t <= s + 1
  <2>1. t <= Cardinality(S \cup {c})
    BY <1>1, <1>4, FS_AddElement, FS_Subset
  <2>2. Cardinality(S \cup {c}) \in {s, s + 1}
    BY <1>1, FS_AddElement
  <2> QED BY <1>1, <2>1, <2>2
<1>5. ASSUME NEW c \in S, T \subseteq S \ {c} PROVE t <= s - 1
  <2>1. t <= Cardinality(S \ {c})
    BY <1>1, <1>5, FS_RemoveElement, FS_Subset
  <2>2. Cardinality(S \ {c}) = s - 1
    BY <1>1, FS_RemoveElement
  <2> QED BY <2>1, <2>2
<1> HIDE DEF all, s, t
<1>6. \/ t <= s /\ n <= m /\ d >= b
      \/ n < L
      \/ d = b + 1 /\ n <= m /\ t <= s + 1
      \/ d = b /\ n <= m + 1 /\ t <= s - 1
  BY <1>3, <1>4, <1>5
<1>7. n + t <= L - 1 + all + d
  BY <1>1, <1>2, <1>6
<1> QED BY <1>7 DEF all, t
=============================================================================
