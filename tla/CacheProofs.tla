---------------------------- MODULE CacheProofs ----------------------------
(***************************************************************************)
(* Proofs about Cache for every number of callers, every tier, every set   *)
(* of answers and model shapes, and every combination of faults.           *)
(***************************************************************************)
EXTENDS Cache, TLAPS

\* The records a caller holds or Redis stores: none or one.
Slot == {{}} \cup {{e} : e \in Stored}

LEMMA OlderSlot ==
    ASSUME NEW S \in Slot
    PROVE  /\ Older(S) \in Slot
           /\ \A e \in Older(S) : \E d \in S :
                /\ e.answer = d.answer /\ e.shape = d.shape
                /\ e.age = IF d.age < AgeCap THEN d.age + 1 ELSE d.age
<1>1. CASE S = {}
  BY <1>1 DEF Slot, Older
<1>2. ASSUME NEW d \in Stored, S = {d} PROVE Older(S) \in Slot
  <2> DEFINE e == [d EXCEPT !.age = IF @ < AgeCap THEN @ + 1 ELSE @]
  <2>1. e \in Stored
    BY CacheAssumption DEF Stored
  <2>2. Older(S) = {e}
    BY <1>2 DEF Older
  <2> QED BY <2>1, <2>2 DEF Slot
<1>3. ASSUME NEW d \in S, S \subseteq Stored, NEW e,
             e = [d EXCEPT !.age = IF @ < AgeCap THEN @ + 1 ELSE @]
      PROVE  /\ e.answer = d.answer /\ e.shape = d.shape
             /\ e.age = IF d.age < AgeCap THEN d.age + 1 ELSE d.age
  BY <1>3 DEF Stored
<1>4. S \subseteq Stored
  BY DEF Slot
<1> QED BY <1>1, <1>2, <1>3, <1>4 DEF Slot, Older

Results ==
    {NoResult, Failed, Undecodable} \cup
    [kind : {"value"}, answer : Answers, age : 0..AgeCap]

\* TypeOK with the slots and results as sets.
Typing ==
    /\ pc \in [Callers -> {"idle", "reading", "fetching", "writing"}]
    /\ shape \in [Callers -> Shapes]
    /\ held \in [Callers -> Slot]
    /\ entry \in Slot
    /\ ttl \in 0..TTL
    /\ result \in [Callers -> Results]

LEMMA ValueIsResult == \A e \in Stored : Value(e) \in Results
BY DEF Value, Stored, Results

LEMMA TypingInit == Init => Typing
BY CacheAssumption DEF Init, Typing, Slot, Results

LEMMA TypingStep == Typing /\ [Next]_vars => Typing'
<1> SUFFICES ASSUME Typing, [Next]_vars PROVE Typing'
  OBVIOUS
<1> USE CacheAssumption
<1> USE DEF Typing, Goto, End
<1>0. /\ \A S \in Slot : \A e \in S : Value(e) \in Results
      /\ NoResult \in Results /\ Failed \in Results /\ Undecodable \in Results
      /\ {} \in Slot
  BY ValueIsResult DEF Slot, Results
<1>1. ASSUME NEW c \in Callers, Call(c) PROVE Typing'
  BY <1>0, <1>1 DEF Call
<1>2. ASSUME NEW c \in Callers, Hit(c) PROVE Typing'
  BY <1>0, <1>2 DEF Hit
<1>3. ASSUME NEW c \in Callers, Miss(c) PROVE Typing'
  BY <1>0, <1>3 DEF Miss
<1>4. ASSUME NEW c \in Callers, DecodeRaises(c) PROVE Typing'
  BY <1>0, <1>4 DEF DecodeRaises
<1>5. ASSUME NEW c \in Callers, NEW a \in Answers, NEW n \in 0..Lag, FetchReturns(c, a, n)
      PROVE  Typing'
  <2>1. {[answer |-> a, age |-> n, shape |-> shape[c]]} \in Slot
    BY DEF Slot, Stored
  <2> QED BY <1>5, <2>1 DEF FetchReturns
<1>6. ASSUME NEW c \in Callers, FetchRaises(c) PROVE Typing'
  BY <1>0, <1>6 DEF FetchRaises
<1>7. ASSUME NEW c \in Callers, Write(c) PROVE Typing'
  BY <1>0, <1>7 DEF Write
<1>8. ASSUME NEW c \in Callers, WriteFails(c) PROVE Typing'
  BY <1>0, <1>8 DEF WriteFails
<1>9. ASSUME NEW c \in Callers, Crash(c) PROVE Typing'
  BY <1>0, <1>9 DEF Crash
<1>10. ASSUME NEW c \in Callers, NEW s \in Shapes, Deploy(c, s) PROVE Typing'
  BY <1>10 DEF Deploy
<1>11. ASSUME Wipe PROVE Typing'
  BY <1>0, <1>11 DEF Wipe
<1>12. ASSUME Tick PROVE Typing'
  BY <1>0, <1>12, OlderSlot DEF Tick
<1>13. CASE UNCHANGED vars
  BY <1>13 DEF vars
<1> QED
  BY <1>1, <1>2, <1>3, <1>4, <1>5, <1>6, <1>7, <1>8, <1>9, <1>10, <1>11, <1>12,
     <1>13 DEF Next, Proceed

\* Every variable keeps its type: at most one entry, well formed, whose TTL is
\* that of its tier or less.
THEOREM TypeCorrect == Spec => []TypeOK
<1>1. Typing => TypeOK
  BY DEF Typing, TypeOK, Slot, Results, NoResult, Failed, Undecodable
<1> QED BY <1>1, TypingInit, TypingStep, PTL DEF Spec

(***************************************************************************)
(* The age of what is handed out.                                          *)
(***************************************************************************)
LEMMA SlotRecords ==
    \A S \in Slot : /\ \A e \in S : e \in Stored
                    /\ \A d, e \in S : d = e
BY DEF Slot

LEMMA AgeStep == Typing /\ Typing' /\ AgeBound /\ [Next]_vars => AgeBound'
<1> SUFFICES ASSUME Typing, Typing', AgeBound, [Next]_vars PROVE AgeBound'
  OBVIOUS
<1> USE CacheAssumption
<1> USE DEF Typing, AgeBound, MaxAge, Goto, End
<1>0. /\ \A S \in Slot : \A e \in S : e \in Stored /\ e.age \in Nat
      /\ \A e : Value(e).age = e.age
  BY DEF Slot, Stored, Value
<1>1. ASSUME NEW c \in Callers, Call(c) PROVE AgeBound'
  BY <1>1 DEF Call, NoResult
<1>2. ASSUME NEW c \in Callers, Hit(c) PROVE AgeBound'
  BY <1>0, <1>2 DEF Hit
<1>3. ASSUME NEW c \in Callers, Miss(c) PROVE AgeBound'
  BY <1>3 DEF Miss
<1>4. ASSUME NEW c \in Callers, DecodeRaises(c) PROVE AgeBound'
  BY <1>4 DEF DecodeRaises, Undecodable
<1>5. ASSUME NEW c \in Callers, NEW a \in Answers, NEW n \in 0..Lag, FetchReturns(c, a, n)
      PROVE  AgeBound'
  BY <1>5 DEF FetchReturns
<1>6. ASSUME NEW c \in Callers, FetchRaises(c) PROVE AgeBound'
  BY <1>6 DEF FetchRaises, Failed
<1>7. ASSUME NEW c \in Callers, Write(c) PROVE AgeBound'
  BY <1>0, <1>7 DEF Write
<1>8. ASSUME NEW c \in Callers, WriteFails(c) PROVE AgeBound'
  BY <1>0, <1>8 DEF WriteFails
<1>9. ASSUME NEW c \in Callers, Crash(c) PROVE AgeBound'
  BY <1>9 DEF Crash, NoResult
<1>10. ASSUME NEW c \in Callers, NEW s \in Shapes, Deploy(c, s) PROVE AgeBound'
  BY <1>10 DEF Deploy
<1>11. ASSUME Wipe PROVE AgeBound'
  BY <1>11 DEF Wipe
<1>12. ASSUME Tick PROVE AgeBound'
  <2>1. ASSUME NEW c \in Callers, NEW e \in held'[c] PROVE e.age <= Lag
    <3>1. PICK d \in held[c] : e.age = IF d.age < AgeCap THEN d.age + 1 ELSE d.age
      BY <1>12, <2>1, OlderSlot DEF Tick
    <3>2. d.age < Lag /\ d.age \in Nat
      BY <1>0, <1>12, <3>1 DEF Tick
    <3> QED BY <3>1, <3>2
  <2>2. ASSUME TTL > 0, NEW e \in entry' PROVE ttl' > 0 /\ e.age + ttl' <= TTL + Lag
    <3>1. ttl # 1 /\ entry' = Older(entry)
      BY <1>12, <2>2 DEF Tick
    <3>2. PICK d \in entry : e.age = IF d.age < AgeCap THEN d.age + 1 ELSE d.age
      BY <2>2, <3>1, OlderSlot
    <3>3. ttl > 0 /\ d.age + ttl <= TTL + Lag /\ d.age \in Nat /\ ttl \in Nat
      BY <1>0, <2>2, <3>2
    <3>4. ttl' = ttl - 1
      BY <1>12, <3>3 DEF Tick
    <3> QED BY <3>1, <3>2, <3>3, <3>4
  <2>3. result' = result
    BY <1>12 DEF Tick
  <2> QED BY <2>1, <2>2, <2>3
<1>13. CASE UNCHANGED vars
  BY <1>13 DEF vars
<1> QED
  BY <1>1, <1>2, <1>3, <1>4, <1>5, <1>6, <1>7, <1>8, <1>9, <1>10, <1>11, <1>12,
     <1>13 DEF Next, Proceed

\* No value is handed out that the provider gave more than the TTL and the lag
\* of one fetch ago, however many callers overwrite each other's answers.
THEOREM AgeBoundHolds == Spec => []AgeBound
<1>1. Init => AgeBound
  BY CacheAssumption DEF Init, AgeBound, NoResult
<1> QED BY <1>1, AgeStep, TypingInit, TypingStep, PTL DEF Spec

(***************************************************************************)
(* How far an overwrite sets the clock back.                               *)
(***************************************************************************)
RewindMove == \A old \in entry, new \in entry' : new.age <= old.age + 1 + Lag

LEMMA RewindStep ==
    ASSUME Typing, AgeBound, [Next]_vars
    PROVE  RewindMove
<1> SUFFICES ASSUME NEW old \in entry, NEW new \in entry'
             PROVE  new.age <= old.age + 1 + Lag
  BY DEF RewindMove
<1> USE CacheAssumption
<1>1. old.age \in Nat
  BY DEF Typing, Slot, Stored
<1>2. CASE entry' = entry
  <2>1. new = old
    BY <1>2, SlotRecords DEF Typing
  <2> QED BY <1>1, <2>1
<1>3. ASSUME NEW c \in Callers, Write(c) PROVE new.age <= old.age + 1 + Lag
  <2>1. new \in held[c]
    BY <1>3 DEF Write
  <2>2. new.age <= Lag /\ new.age \in Nat
    BY <2>1 DEF AgeBound, Typing, Slot, Stored
  <2> QED BY <1>1, <2>2
<1>4. CASE Tick
  <2>1. new \in Older(entry)
    BY <1>4 DEF Tick
  <2>2. PICK d \in entry : new.age = IF d.age < AgeCap THEN d.age + 1 ELSE d.age
    BY <2>1, OlderSlot DEF Typing
  <2>3. d = old
    BY SlotRecords DEF Typing
  <2> QED BY <1>1, <2>2, <2>3
<1>5. entry' = entry \/ entry' = {} \/ Tick \/ \E c \in Callers : Write(c)
  BY DEF Next, Proceed, Call, Hit, Miss, DecodeRaises, FetchReturns, FetchRaises,
     WriteFails, Crash, Deploy, Wipe, vars
<1> QED BY <1>2, <1>3, <1>4, <1>5

\* However many callers overwrite each other, an entry is replaced by one older
\* than itself by no more than the lag of a fetch.
THEOREM RewindBoundHolds == Spec => RewindBound
<1>1. Init => AgeBound
  BY CacheAssumption DEF Init, AgeBound, NoResult
<1>2. Typing /\ AgeBound /\ [Next]_vars => [RewindMove]_vars
  BY RewindStep
<1> QED
  BY <1>1, <1>2, AgeStep, TypingInit, TypingStep, PTL DEF Spec, RewindBound, RewindMove

(***************************************************************************)
(* Refinement: the cache keeps the promise of ReadThrough for every tier   *)
(* with a TTL, provided that no entry names a class its reader lacks.      *)
(***************************************************************************)
Loadable == \A r, w \in Shapes : Decoding[r][w] # "unloadable"

Pool == entry \cup UNION {held[c] : c \in Callers}
Seen(e) == [answer |-> e.answer, age |-> e.age]
Known == {Seen(e) : e \in Pool}
Waiting == {c \in Callers : pc[c] # "idle"}
Asked == {c \in Callers : pc[c] = "fetching"}

LEMMA PoolMembers ==
    /\ \A e : e \in Pool <=> e \in entry \/ \E c \in Callers : e \in held[c]
    /\ \A e : e \in Pool' <=> e \in entry' \/ \E c \in Callers : e \in held'[c]
BY DEF Pool

LEMMA KnownShrinks == ASSUME Pool' \subseteq Pool PROVE Known' \subseteq Known
BY DEF Known

LEMMA KnownMembers ==
    /\ \A e \in Pool : Seen(e) \in Known
    /\ \A g \in Known : \E e \in Pool : g = Seen(e)
    /\ \A g \in Known' : \E e \in Pool' : g = Seen(e)
BY DEF Known

\* The actions of ReadThrough, in terms of the mapping.
LEMMA PromiseActions ==
    ASSUME NEW c \in Callers
    PROVE
    /\ Promise!Call(c) <=>
         /\ c \notin Waiting /\ Waiting' = Waiting \cup {c} /\ Asked' = Asked
         /\ result' = [result EXCEPT ![c] = NoResult] /\ Known' \subseteq Known
    /\ Promise!Ask(c) <=>
         /\ c \in Waiting /\ Asked' = Asked \cup {c} /\ Waiting' = Waiting
         /\ result' = result /\ Known' \subseteq Known
    /\ Promise!Return(c) <=>
         /\ c \in Waiting \ Asked /\ Waiting' = Waiting \ {c} /\ Asked' = Asked
         /\ \E g \in Known : result' = [result EXCEPT ![c] = Value(g)]
         /\ Known' \subseteq Known
    /\ Promise!Fail(c) <=>
         /\ c \in Asked /\ Asked' = Asked \ {c} /\ Waiting' = Waiting \ {c}
         /\ result' = [result EXCEPT ![c] = Failed] /\ Known' \subseteq Known
    /\ Promise!Vanish(c) <=>
         /\ c \in Waiting /\ Asked' = Asked \ {c} /\ Waiting' = Waiting \ {c}
         /\ result' = [result EXCEPT ![c] = NoResult] /\ Known' \subseteq Known
    /\ \A a \in Answers, age \in 0..MaxAge : Promise!Give(c, a, age) <=>
         /\ c \in Asked /\ Asked' = Asked \ {c}
         /\ Known' \subseteq Known \cup {[answer |-> a, age |-> age]}
         /\ Waiting' = Waiting /\ result' = result
BY DEF Promise!Call, Promise!Ask, Promise!Return, Promise!Fail, Promise!Give, Promise!Vanish,
       Promise!Forget, Promise!NoResult, Promise!Failed, Promise!Value,
       NoResult, Failed, Value, Known, Seen, Pool, Waiting, Asked

LEMMA PromiseOthers ==
    /\ Promise!Lose <=>
         /\ Known' \subseteq Known /\ Waiting' = Waiting /\ Asked' = Asked
         /\ result' = result
    /\ Promise!Tick <=>
         /\ \A g \in Known' : g.age \in 1..MaxAge /\ [g EXCEPT !.age = @ - 1] \in Known
         /\ Waiting' = Waiting /\ Asked' = Asked /\ result' = result
BY DEF Promise!Lose, Promise!Tick, Promise!Forget, Known, Seen, Pool, Waiting, Asked

LEMMA PcMoves ==
    ASSUME Typing, NEW c \in Callers, NEW label, Goto(c, label)
    PROVE  /\ label = "idle" => Waiting' = Waiting \ {c}
           /\ label # "idle" => Waiting' = Waiting \cup {c}
           /\ label # "idle" /\ c \in Waiting => Waiting' = Waiting
           /\ label = "fetching" => Asked' = Asked \cup {c}
           /\ label # "fetching" => Asked' = Asked \ {c}
           /\ label # "fetching" /\ c \notin Asked => Asked' = Asked
BY DEF Typing, Goto, Waiting, Asked

LEMMA SeenValue ==
    ASSUME NEW c \in Callers, NEW e \in Pool, End(c, Value(e))
    PROVE  \E g \in Known : result' = [result EXCEPT ![c] = Value(g)]
<1>1. Value(Seen(e)) = Value(e)
  BY DEF Seen, Value
<1> QED BY <1>1, KnownMembers DEF End

LEMMA PromiseStep ==
    ASSUME Typing, Typing', AgeBound, AgeBound', TTL > 0, Loadable, [Next]_vars
    PROVE  Promise!Next \/ UNCHANGED Promise!vars
<1> USE CacheAssumption
<1> USE DEF Typing
<1>0. \A S \in Slot : \A e \in S : e \in Stored /\ e.age \in Nat
  BY DEF Slot, Stored
<1>1. ASSUME NEW c \in Callers, Call(c) PROVE Promise!Call(c)
  <2>1. Known' \subseteq Known
    BY <1>1, PoolMembers, KnownShrinks DEF Call
  <2>2. c \notin Waiting /\ c \notin Asked
    BY <1>1 DEF Call, Waiting, Asked
  <2>3. Waiting' = Waiting \cup {c} /\ Asked' = Asked
    BY <1>1, <2>2, PcMoves DEF Call
  <2> QED BY <1>1, <2>1, <2>2, <2>3, PromiseActions DEF Call
<1>2. ASSUME NEW c \in Callers, Hit(c) PROVE Promise!Return(c)
  <2>1. Known' \subseteq Known
    BY <1>2, PoolMembers, KnownShrinks DEF Hit
  <2>2. PICK e \in entry : End(c, Value(e))
    BY <1>2 DEF Hit
  <2>3. \E g \in Known : result' = [result EXCEPT ![c] = Value(g)]
    BY <2>2, PoolMembers, SeenValue
  <2>4. c \in Waiting \ Asked
    BY <1>2 DEF Hit, Waiting, Asked
  <2>5. Waiting' = Waiting \ {c} /\ Asked' = Asked
    BY <2>2, <2>4, PcMoves DEF End
  <2> QED BY <2>1, <2>3, <2>4, <2>5, PromiseActions
<1>3. ASSUME NEW c \in Callers, Miss(c) PROVE Promise!Ask(c)
  <2>1. Known' \subseteq Known
    BY <1>3, PoolMembers, KnownShrinks DEF Miss
  <2>2. c \in Waiting
    BY <1>3 DEF Miss, Waiting
  <2>3. Waiting' = Waiting /\ Asked' = Asked \cup {c}
    BY <1>3, <2>2, PcMoves DEF Miss
  <2> QED BY <1>3, <2>1, <2>2, <2>3, PromiseActions DEF Miss
<1>4. ASSUME NEW c \in Callers, DecodeRaises(c) PROVE FALSE
  BY <1>0, <1>4 DEF DecodeRaises, Loadable, Stored
<1>5. ASSUME NEW c \in Callers, NEW a \in Answers, NEW n \in 0..Lag, FetchReturns(c, a, n)
      PROVE  \E age \in 0..MaxAge : Promise!Give(c, a, age)
  <2>1. \A e \in Pool' : e \in Pool \/ e = [answer |-> a, age |-> n, shape |-> shape[c]]
    BY <1>5, PoolMembers DEF FetchReturns
  <2>2. Known' \subseteq Known \cup {[answer |-> a, age |-> n]}
    BY <2>1, KnownMembers DEF Seen
  <2>3. c \in Asked /\ c \in Waiting
    BY <1>5 DEF FetchReturns, Waiting, Asked
  <2>4. Waiting' = Waiting /\ Asked' = Asked \ {c}
    BY <1>5, <2>3, PcMoves DEF FetchReturns
  <2>5. n \in 0..MaxAge
    BY <1>5 DEF MaxAge
  <2>6. Promise!Give(c, a, n)
    BY <1>5, <2>2, <2>3, <2>4, <2>5, PromiseActions DEF FetchReturns
  <2> QED BY <2>5, <2>6
<1>6. ASSUME NEW c \in Callers, FetchRaises(c) PROVE Promise!Fail(c)
  <2>1. Known' \subseteq Known
    BY <1>6, PoolMembers, KnownShrinks DEF FetchRaises
  <2>2. c \in Asked
    BY <1>6 DEF FetchRaises, Asked
  <2>3. Waiting' = Waiting \ {c} /\ Asked' = Asked \ {c}
    BY <1>6, PcMoves DEF FetchRaises, End
  <2> QED BY <1>6, <2>1, <2>2, <2>3, PromiseActions DEF FetchRaises, End
<1>7. ASSUME NEW c \in Callers, Write(c) PROVE Promise!Return(c)
  <2>1. Known' \subseteq Known
    BY <1>7, PoolMembers, KnownShrinks DEF Write
  <2>2. PICK e \in held[c] : End(c, Value(e))
    BY <1>7 DEF Write
  <2>3. \E g \in Known : result' = [result EXCEPT ![c] = Value(g)]
    BY <2>2, PoolMembers, SeenValue
  <2>4. c \in Waiting \ Asked
    BY <1>7 DEF Write, Waiting, Asked
  <2>5. Waiting' = Waiting \ {c} /\ Asked' = Asked
    BY <2>2, <2>4, PcMoves DEF End
  <2> QED BY <2>1, <2>3, <2>4, <2>5, PromiseActions
<1>8. ASSUME NEW c \in Callers, WriteFails(c) PROVE Promise!Return(c)
  <2>1. Known' \subseteq Known
    BY <1>8, PoolMembers, KnownShrinks DEF WriteFails
  <2>2. PICK e \in held[c] : End(c, Value(e))
    BY <1>8 DEF WriteFails
  <2>3. \E g \in Known : result' = [result EXCEPT ![c] = Value(g)]
    BY <2>2, PoolMembers, SeenValue
  <2>4. c \in Waiting \ Asked
    BY <1>8 DEF WriteFails, Waiting, Asked
  <2>5. Waiting' = Waiting \ {c} /\ Asked' = Asked
    BY <2>2, <2>4, PcMoves DEF End
  <2> QED BY <2>1, <2>3, <2>4, <2>5, PromiseActions
<1>9. ASSUME NEW c \in Callers, Crash(c) PROVE Promise!Vanish(c)
  <2>1. Known' \subseteq Known
    BY <1>9, PoolMembers, KnownShrinks DEF Crash
  <2>2. c \in Waiting
    BY <1>9 DEF Crash, Waiting
  <2>3. Waiting' = Waiting \ {c} /\ Asked' = Asked \ {c}
    BY <1>9, PcMoves DEF Crash, End
  <2> QED BY <1>9, <2>1, <2>2, <2>3, PromiseActions DEF Crash, End
<1>10. ASSUME NEW c \in Callers, NEW s \in Shapes, Deploy(c, s) PROVE Promise!Lose
  <2>1. Known' \subseteq Known
    BY <1>10, PoolMembers, KnownShrinks DEF Deploy
  <2> QED BY <1>10, <2>1, PromiseOthers DEF Deploy, Waiting, Asked
<1>11. ASSUME Wipe PROVE Promise!Lose
  <2>1. Known' \subseteq Known
    BY <1>11, PoolMembers, KnownShrinks DEF Wipe
  <2> QED BY <1>11, <2>1, PromiseOthers DEF Wipe, Waiting, Asked
<1>12. ASSUME Tick PROVE Promise!Tick
  <2>1. ASSUME NEW S \in Slot, NEW e \in Older(S), S \subseteq Pool,
               \A d \in S : d.age < MaxAge
        PROVE  Seen(e).age \in 1..MaxAge /\ [Seen(e) EXCEPT !.age = @ - 1] \in Known
    <3>1. PICK d \in S : /\ e.answer = d.answer
                         /\ e.age = IF d.age < AgeCap THEN d.age + 1 ELSE d.age
      BY <2>1, OlderSlot
    <3>2. d.age \in Nat /\ e.age = d.age + 1 /\ d.age < MaxAge
      BY <1>0, <2>1, <3>1 DEF MaxAge
    <3>3. [Seen(e) EXCEPT !.age = @ - 1] = Seen(d)
      <4>1. Seen(e) = [answer |-> d.answer, age |-> d.age + 1]
        BY <3>1, <3>2 DEF Seen
      <4>2. (d.age + 1) - 1 = d.age
        BY <3>2
      <4> QED BY <4>1, <4>2 DEF Seen
    <3>4. MaxAge \in Nat
      BY DEF MaxAge
    <3> QED BY <2>1, <3>1, <3>2, <3>3, <3>4, KnownMembers DEF Seen
  <2>2. ASSUME NEW c \in Callers
        PROVE  held[c] \subseteq Pool /\ \A d \in held[c] : d.age < MaxAge
    BY <1>0, <1>12, <2>2, PoolMembers DEF Tick, MaxAge
  <2>3. ASSUME ttl # 1
        PROVE  entry \subseteq Pool /\ \A d \in entry : d.age < MaxAge
    <3>1. \A d \in entry : ttl > 0 /\ d.age + ttl <= MaxAge /\ d.age \in Nat /\ ttl \in Nat
      BY <1>0 DEF AgeBound
    <3> QED BY <3>1, PoolMembers DEF MaxAge
  <2>4. ASSUME NEW g \in Known'
        PROVE  g.age \in 1..MaxAge /\ [g EXCEPT !.age = @ - 1] \in Known
    <3>1. PICK e \in Pool' : g = Seen(e)
      BY KnownMembers
    <3>2. CASE e \in entry'
      BY <1>12, <2>1, <2>3, <3>1, <3>2 DEF Tick
    <3>3. CASE \E c \in Callers : e \in held'[c]
      BY <1>12, <2>1, <2>2, <3>1, <3>3 DEF Tick
    <3> QED BY <3>1, <3>2, <3>3, PoolMembers
  <2> QED BY <1>12, <2>4, PromiseOthers DEF Tick, Waiting, Asked
<1>13. CASE UNCHANGED vars
  BY <1>13 DEF vars, Promise!vars
<1> QED
  BY <1>1, <1>2, <1>3, <1>4, <1>5, <1>6, <1>7, <1>8, <1>9, <1>10, <1>11, <1>12,
     <1>13 DEF Next, Proceed, Promise!Next

\* The cache implements the promise: a call ends with an answer of the provider
\* no older than the TTL and the lag of a fetch, or fails because its own fetch did.
THEOREM KeepsPromise ==
    ASSUME TTL > 0, Loadable PROVE Spec => ReadThrough
<1>1. Init => Promise!Init
  BY DEF Init, Promise!Init, NoResult, Promise!NoResult
<1>2. Typing /\ Typing' /\ AgeBound /\ AgeBound' /\ [Next]_vars
        => Promise!Next \/ UNCHANGED Promise!vars
  BY PromiseStep, TTL > 0, Loadable
<1>3. Init => AgeBound
  BY CacheAssumption DEF Init, AgeBound, NoResult
<1> QED
  BY <1>1, <1>2, <1>3, AgeStep, TypingInit, TypingStep, PTL
     DEF Spec, ReadThrough, Promise!Spec
=============================================================================
