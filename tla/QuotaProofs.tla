---------------------------- MODULE QuotaProofs ----------------------------
(***************************************************************************)
(* Proofs about Quota for every number of callers and turns, both call     *)
(* orders, every limit, every TTL and every combination of faults.         *)
(***************************************************************************)
EXTENDS Quota, Induction

USE DEF redis, clock, ghosts, orphans

(***************************************************************************)
(* Type correctness.                                                       *)
(***************************************************************************)
LEMMA AgedType ==
    ASSUME NEW K, NEW N \in Nat, NEW ttl \in [K -> 0..N]
    PROVE  Aged(ttl) \in [K -> 0..N]
BY DEF Aged

LEMMA KeptType ==
    ASSUME NEW K, NEW count \in [K -> Nat], NEW ttl
    PROVE  /\ Kept(count, ttl) \in [K -> Nat]
           /\ \A k \in K : Kept(count, ttl)[k] <= count[k]
BY DEF Kept

\* Every variable keeps its type, whatever fails.
THEOREM TypeCorrect == Spec => []TypeOK
<1> USE CallersAssumption, TurnsAssumption, LimitsAssumption, ClockAssumption,
        OrderAssumption
<1>1. Init => TypeOK
  BY DEF Init, TypeOK, Hours, PCs
<1>2. TypeOK /\ [Next]_vars => TypeOK'
  <2> SUFFICES ASSUME TypeOK, [Next]_vars PROVE TypeOK'
    OBVIOUS
  <2> USE DEF TypeOK, Goto, BuildHourKey, Admitted, Counted, PCs, Incrementing
  <2>1. ASSUME NEW c \in Callers, Begin(c) PROVE TypeOK'
    BY <2>1 DEF Begin
  <2>2. ASSUME NEW c \in Callers, CheckTurn(c) PROVE TypeOK'
    BY <2>2 DEF CheckTurn
  <2>3. ASSUME NEW c \in Callers, CheckHour(c) PROVE TypeOK'
    BY <2>3 DEF CheckHour
  <2>19. ASSUME NEW c \in Callers, Miss(c) PROVE TypeOK'
    BY <2>19 DEF Miss
  <2>20. ASSUME NEW c \in Callers, Hit(c) PROVE TypeOK'
    BY <2>20 DEF Hit
  <2>4. ASSUME NEW c \in Callers, IncrTurn(c) PROVE TypeOK'
    BY <2>4 DEF IncrTurn
  <2>5. ASSUME NEW c \in Callers, ExpireTurn(c) PROVE TypeOK'
    BY <2>5 DEF ExpireTurn
  <2>6. ASSUME NEW c \in Callers, IncrHour(c) PROVE TypeOK'
    BY <2>6 DEF IncrHour
  <2>7. ASSUME NEW c \in Callers, ExpireHour(c) PROVE TypeOK'
    BY <2>7 DEF ExpireHour
  <2>8. ASSUME NEW c \in Callers, Send(c) PROVE TypeOK'
    BY <2>8 DEF Send
  <2>9. ASSUME NEW c \in Callers, Answer(c) PROVE TypeOK'
    BY <2>9 DEF Answer
  <2>10. ASSUME NEW c \in Callers, AnswerError(c) PROVE TypeOK'
    BY <2>10 DEF AnswerError, Uncounted
  <2>11. ASSUME NEW c \in Callers, CheckOutage(c) PROVE TypeOK'
    BY <2>11 DEF CheckOutage
  <2>12. ASSUME NEW c \in Callers, IncrOutage(c) PROVE TypeOK'
    BY <2>12 DEF IncrOutage, Uncounted, LosesExpire
  <2>13. ASSUME NEW c \in Callers, Crash(c) PROVE TypeOK'
    BY <2>13 DEF Crash, Uncounted, LosesExpire
  <2>14. ASSUME NEW c \in Callers, NEW t \in Turns, StartTurn(c, t) PROVE TypeOK'
    BY <2>14 DEF StartTurn
  <2>15. ASSUME NEW c \in Callers, NEW t \in Turns, ResetTurn(c, t) PROVE TypeOK'
    BY <2>15 DEF ResetTurn
  <2>16. ASSUME Wipe PROVE TypeOK'
    BY <2>16 DEF Wipe
  <2>17. ASSUME Tick PROVE TypeOK'
    <3>1. /\ turnTTL' \in [Turns -> 0..TurnTTL] /\ turnCount' \in [Turns -> Nat]
          /\ hourTTL' \in [Hours -> 0..HourTTL] /\ hourCount' \in [Hours -> Nat]
      BY <2>17, AgedType, KeptType DEF Tick
    <3>2. hour' \in Hours /\ phase' \in 0..(HourTTL - 1) /\ sent' \in Nat
      <4>1. CASE phase + 1 < HourTTL
        BY <2>17, <4>1 DEF Tick, Hours
      <4>2. CASE ~(phase + 1 < HourTTL)
        BY <2>17, <4>2 DEF Tick, Hours
      <4> QED BY <4>1, <4>2
    <3> QED BY <2>17, <3>1, <3>2 DEF Tick, Hours
  <2>18. CASE UNCHANGED vars
    BY <2>18 DEF vars
  <2> QED
    BY <2>1, <2>2, <2>3, <2>4, <2>5, <2>6, <2>7, <2>8, <2>9, <2>10, <2>11,
       <2>12, <2>13, <2>14, <2>15, <2>16, <2>17, <2>18, <2>19, <2>20 DEF Next, Proceed, Fail
<1> QED BY <1>1, <1>2, PTL DEF Spec

(***************************************************************************)
(* The overshoot bounds.  The same argument, OverdrawStep, serves a turn   *)
(* counter and an hour counter: E and F are the callers exposed to it      *)
(* before and after a step.                                                *)
(***************************************************************************)
\* How one step may move the counter of turn t and the callers exposed to it.
TurnMove(t) ==
    \/ /\ TurnExposed(t)' \subseteq TurnExposed(t)
       /\ turnCount'[t] <= turnCount[t] /\ blind' >= blind
    \/ turnCount'[t] < TurnLimit
    \/ /\ blind' = blind + 1 /\ turnCount'[t] <= turnCount[t]
       /\ \E c \in Callers : TurnExposed(t)' \subseteq TurnExposed(t) \cup {c}
    \/ /\ blind' = blind /\ turnCount'[t] <= turnCount[t] + 1
       /\ \E c \in TurnExposed(t) : TurnExposed(t)' \subseteq TurnExposed(t) \ {c}

LEMMA TurnMoves ==
    ASSUME TypeOK, TypeOK', [Next]_vars, NEW t \in Turns
    PROVE  TurnMove(t)
<1> USE OrderAssumption
<1> USE DEF TypeOK, Goto, BuildHourKey, Admitted, Counted, PCs, Incrementing, Uncommitted, TurnExposed, TurnMove
<1>1. ASSUME NEW c \in Callers, Begin(c) PROVE TurnMove(t)
  BY <1>1 DEF Begin
<1>2. ASSUME NEW c \in Callers, CheckTurn(c) PROVE TurnMove(t)
  <2>1. turnCount' = turnCount /\ turn' = turn /\ blind' = blind
    BY <1>2 DEF CheckTurn
  <2>2. CASE turn[c] # t \/ turnCount[t] >= TurnLimit
    <3>1. TurnExposed(t)' \subseteq TurnExposed(t)
      BY <1>2, <2>2 DEF CheckTurn
    <3> QED BY <2>1, <3>1
  <2>3. CASE turnCount[t] < TurnLimit
    BY <2>1, <2>3
  <2> QED BY <2>2, <2>3, LimitsAssumption
<1>3. ASSUME NEW c \in Callers, CheckHour(c) PROVE TurnMove(t)
  <2>1. turnCount' = turnCount /\ turn' = turn /\ blind' = blind
    BY <1>3 DEF CheckHour
  <2>2. pc' = [pc EXCEPT ![c] = pc'[c]] /\ pc[c] = "checkHour"
    BY <1>3 DEF CheckHour
  <2>3. TurnExposed(t)' \subseteq TurnExposed(t)
    BY <2>1, <2>2
  <2> QED BY <2>1, <2>3
<1>19. ASSUME NEW c \in Callers, Miss(c) PROVE TurnMove(t)
  BY <1>19 DEF Miss
<1>20. ASSUME NEW c \in Callers, Hit(c) PROVE TurnMove(t)
  BY <1>20 DEF Hit
<1>4. ASSUME NEW c \in Callers, IncrTurn(c) PROVE TurnMove(t)
  BY <1>4 DEF IncrTurn
<1>5. ASSUME NEW c \in Callers, ExpireTurn(c) PROVE TurnMove(t)
  BY <1>5 DEF ExpireTurn
<1>6. ASSUME NEW c \in Callers, IncrHour(c) PROVE TurnMove(t)
  BY <1>6 DEF IncrHour
<1>7. ASSUME NEW c \in Callers, ExpireHour(c) PROVE TurnMove(t)
  BY <1>7 DEF ExpireHour
<1>8. ASSUME NEW c \in Callers, Send(c) PROVE TurnMove(t)
  BY <1>8 DEF Send
<1>9. ASSUME NEW c \in Callers, Answer(c) PROVE TurnMove(t)
  BY <1>9 DEF Answer
<1>10. ASSUME NEW c \in Callers, AnswerError(c) PROVE TurnMove(t)
  BY <1>10 DEF AnswerError, Uncounted
<1>11. ASSUME NEW c \in Callers, CheckOutage(c) PROVE TurnMove(t)
  BY <1>11 DEF CheckOutage
<1>12. ASSUME NEW c \in Callers, IncrOutage(c) PROVE TurnMove(t)
  BY <1>12 DEF IncrOutage, Uncounted, LosesExpire
<1>13. ASSUME NEW c \in Callers, Crash(c) PROVE TurnMove(t)
  BY <1>13 DEF Crash, Uncounted, LosesExpire
<1>14. ASSUME NEW c \in Callers, NEW u \in Turns, StartTurn(c, u) PROVE TurnMove(t)
  BY <1>14 DEF StartTurn
<1>15. ASSUME NEW c \in Callers, NEW u \in Turns, ResetTurn(c, u) PROVE TurnMove(t)
  BY <1>15 DEF ResetTurn
<1>16. ASSUME Wipe PROVE TurnMove(t)
  BY <1>16, KeptType DEF Wipe
<1>17. ASSUME Tick PROVE TurnMove(t)
  BY <1>17, KeptType DEF Tick
<1>18. CASE UNCHANGED vars
  BY <1>18 DEF vars
<1> HIDE DEF TurnMove
<1> QED
  BY <1>1, <1>2, <1>3, <1>4, <1>5, <1>6, <1>7, <1>8, <1>9, <1>10, <1>11, <1>12, <1>13, <1>14, <1>15, <1>16, <1>17, <1>18,
     <1>19, <1>20 DEF Next, Proceed, Fail

\* A turn's counter overshoots its limit by at most the calls in flight.
THEOREM TurnBoundHolds == Spec => []TurnBound
<1>1. Init => TurnBound
  <2> SUFFICES ASSUME Init, NEW t \in Turns
               PROVE  turnCount[t] + Cardinality(TurnExposed(t))
                          <= TurnLimit - 1 + Cardinality(Callers) + blind
    BY DEF TurnBound
  <2>1. TurnExposed(t) = {} /\ turnCount[t] = 0 /\ blind = 0
    BY OrderAssumption DEF Init, TurnExposed, Uncommitted
  <2> QED
    BY <2>1, FS_EmptySet, FS_CardinalityType, CallersAssumption, LimitsAssumption
<1>2. TypeOK /\ TypeOK' /\ TurnBound /\ [Next]_vars => TurnBound'
  <2> SUFFICES ASSUME TypeOK, TypeOK', TurnBound, [Next]_vars, NEW t \in Turns
               PROVE  turnCount'[t] + Cardinality(TurnExposed(t)')
                          <= TurnLimit - 1 + Cardinality(Callers) + blind'
    BY DEF TurnBound
  <2>1. TurnMove(t)
    BY TurnMoves
  <2>2. turnCount[t] \in Nat /\ turnCount'[t] \in Nat /\ blind \in Nat /\ blind' \in Nat
    BY DEF TypeOK
  <2>3. TurnExposed(t) \subseteq Callers /\ TurnExposed(t)' \subseteq Callers
    BY DEF TurnExposed
  <2>4. turnCount[t] + Cardinality(TurnExposed(t))
            <= TurnLimit - 1 + Cardinality(Callers) + blind
    BY DEF TurnBound
  <2> DEFINE E == TurnExposed(t)
             F == TurnExposed(t)'
  <2> HIDE DEF E, F
  <2>5. turnCount'[t] + Cardinality(F) <= TurnLimit - 1 + Cardinality(Callers) + blind'
    BY <2>1, <2>2, <2>3, <2>4, OverdrawStep, CallersAssumption, LimitsAssumption DEF TurnMove, E, F
  <2> QED BY <2>5 DEF F
<1> QED BY <1>1, <1>2, TypeCorrect, PTL DEF Spec

\* Only buckets of hours that have begun are counted or named by a caller.
BucketsInPast ==
    /\ \A h \in Hours : h > hour => hourCount[h] = 0
    /\ \A c \in Callers : bucket[c] <= hour

HourMove(h) ==
    \/ /\ HourExposed(h)' \subseteq HourExposed(h)
       /\ hourCount'[h] <= hourCount[h] /\ blind' >= blind
    \/ hourCount'[h] < HourLimit
    \/ /\ blind' = blind + 1 /\ hourCount'[h] <= hourCount[h]
       /\ \E c \in Callers : HourExposed(h)' \subseteq HourExposed(h) \cup {c}
    \/ /\ blind' = blind /\ hourCount'[h] <= hourCount[h] + 1
       /\ \E c \in HourExposed(h) : HourExposed(h)' \subseteq HourExposed(h) \ {c}

LEMMA HoursAreNumbers == \A h \in Hours : h \in Nat
BY ClockAssumption DEF Hours

LEMMA BucketsMove ==
    ASSUME TypeOK, TypeOK', BucketsInPast, [Next]_vars
    PROVE  BucketsInPast'
<1> USE HoursAreNumbers, LimitsAssumption, OrderAssumption
<1> USE DEF TypeOK, Goto, BuildHourKey, Admitted, Counted, PCs, Incrementing, BucketsInPast
<1>1. ASSUME NEW c \in Callers, Begin(c) PROVE BucketsInPast'
  BY <1>1 DEF Begin
<1>2. ASSUME NEW c \in Callers, CheckTurn(c) PROVE BucketsInPast'
  BY <1>2 DEF CheckTurn
<1>3. ASSUME NEW c \in Callers, CheckHour(c) PROVE BucketsInPast'
  BY <1>3 DEF CheckHour
<1>19. ASSUME NEW c \in Callers, Miss(c) PROVE BucketsInPast'
  BY <1>19 DEF Miss
<1>20. ASSUME NEW c \in Callers, Hit(c) PROVE BucketsInPast'
  BY <1>20 DEF Hit
<1>4. ASSUME NEW c \in Callers, IncrTurn(c) PROVE BucketsInPast'
  BY <1>4 DEF IncrTurn
<1>5. ASSUME NEW c \in Callers, ExpireTurn(c) PROVE BucketsInPast'
  BY <1>5 DEF ExpireTurn
<1>6. ASSUME NEW c \in Callers, IncrHour(c) PROVE BucketsInPast'
  BY <1>6 DEF IncrHour
<1>7. ASSUME NEW c \in Callers, ExpireHour(c) PROVE BucketsInPast'
  BY <1>7 DEF ExpireHour
<1>8. ASSUME NEW c \in Callers, Send(c) PROVE BucketsInPast'
  BY <1>8 DEF Send
<1>9. ASSUME NEW c \in Callers, Answer(c) PROVE BucketsInPast'
  BY <1>9 DEF Answer
<1>10. ASSUME NEW c \in Callers, AnswerError(c) PROVE BucketsInPast'
  BY <1>10 DEF AnswerError, Uncounted
<1>11. ASSUME NEW c \in Callers, CheckOutage(c) PROVE BucketsInPast'
  BY <1>11 DEF CheckOutage
<1>12. ASSUME NEW c \in Callers, IncrOutage(c) PROVE BucketsInPast'
  BY <1>12 DEF IncrOutage, Uncounted, LosesExpire
<1>13. ASSUME NEW c \in Callers, Crash(c) PROVE BucketsInPast'
  BY <1>13 DEF Crash, Uncounted, LosesExpire
<1>14. ASSUME NEW c \in Callers, NEW u \in Turns, StartTurn(c, u) PROVE BucketsInPast'
  BY <1>14 DEF StartTurn
<1>15. ASSUME NEW c \in Callers, NEW u \in Turns, ResetTurn(c, u) PROVE BucketsInPast'
  BY <1>15 DEF ResetTurn
<1>16. ASSUME Wipe PROVE BucketsInPast'
  BY <1>16, KeptType DEF Wipe
<1>17. ASSUME Tick PROVE BucketsInPast'
  BY <1>17, KeptType DEF Tick
<1>18. CASE UNCHANGED vars
  BY <1>18 DEF vars
<1> HIDE DEF BucketsInPast
<1> QED
  BY <1>1, <1>2, <1>3, <1>4, <1>5, <1>6, <1>7, <1>8, <1>9, <1>10, <1>11, <1>12, <1>13, <1>14, <1>15, <1>16, <1>17, <1>18,
     <1>19, <1>20 DEF Next, Proceed, Fail

LEMMA HourMoves ==
    ASSUME TypeOK, TypeOK', BucketsInPast, [Next]_vars, NEW h \in Hours
    PROVE  HourMove(h)
<1> USE HoursAreNumbers, LimitsAssumption, OrderAssumption
<1> USE DEF TypeOK, Goto, BuildHourKey, Admitted, Counted, PCs, Incrementing, BucketsInPast, Uncommitted, HourExposed, HourMove
<1>1. ASSUME NEW c \in Callers, Begin(c) PROVE HourMove(h)
  BY <1>1 DEF Begin
<1>2. ASSUME NEW c \in Callers, CheckTurn(c) PROVE HourMove(h)
  BY <1>2 DEF CheckTurn
<1>3. ASSUME NEW c \in Callers, CheckHour(c) PROVE HourMove(h)
  <2>1. hourCount' = hourCount /\ bucket' = bucket /\ blind' = blind
    BY <1>3 DEF CheckHour
  <2>2. pc[c] = "checkHour" /\ pc' = [pc EXCEPT ![c] = pc'[c]]
    BY <1>3 DEF CheckHour
  <2>3. CASE hourCount[bucket[c]] >= HourLimit
    <3>1. pc'[c] = "idle"
      BY <1>3, <2>3 DEF CheckHour
    <3>2. HourExposed(h)' \subseteq HourExposed(h)
      BY <2>1, <2>2, <3>1
    <3> QED BY <2>1, <3>2
  <2>4. CASE hourCount[bucket[c]] < HourLimit
    <3>1. CASE bucket[c] = h
      BY <2>1, <2>4, <3>1
    <3>2. CASE bucket[c] # h
      <4>1. pc'[c] \in Uncommitted
        BY <1>3, <2>4 DEF CheckHour
      <4>2. HourExposed(h)' \subseteq HourExposed(h)
        BY <2>1, <2>2, <3>2, <4>1
      <4> QED BY <2>1, <4>2
    <3> QED BY <3>1, <3>2
  <2> QED BY <2>3, <2>4
<1>19. ASSUME NEW c \in Callers, Miss(c) PROVE HourMove(h)
  BY <1>19 DEF Miss
<1>20. ASSUME NEW c \in Callers, Hit(c) PROVE HourMove(h)
  BY <1>20 DEF Hit
<1>4. ASSUME NEW c \in Callers, IncrTurn(c) PROVE HourMove(h)
  BY <1>4 DEF IncrTurn
<1>5. ASSUME NEW c \in Callers, ExpireTurn(c) PROVE HourMove(h)
  BY <1>5 DEF ExpireTurn
<1>6. ASSUME NEW c \in Callers, IncrHour(c) PROVE HourMove(h)
  BY <1>6 DEF IncrHour
<1>7. ASSUME NEW c \in Callers, ExpireHour(c) PROVE HourMove(h)
  BY <1>7 DEF ExpireHour
<1>8. ASSUME NEW c \in Callers, Send(c) PROVE HourMove(h)
  BY <1>8 DEF Send
<1>9. ASSUME NEW c \in Callers, Answer(c) PROVE HourMove(h)
  BY <1>9 DEF Answer
<1>10. ASSUME NEW c \in Callers, AnswerError(c) PROVE HourMove(h)
  BY <1>10 DEF AnswerError, Uncounted
<1>11. ASSUME NEW c \in Callers, CheckOutage(c) PROVE HourMove(h)
  BY <1>11 DEF CheckOutage
<1>12. ASSUME NEW c \in Callers, IncrOutage(c) PROVE HourMove(h)
  BY <1>12 DEF IncrOutage, Uncounted, LosesExpire
<1>13. ASSUME NEW c \in Callers, Crash(c) PROVE HourMove(h)
  BY <1>13 DEF Crash, Uncounted, LosesExpire
<1>14. ASSUME NEW c \in Callers, NEW u \in Turns, StartTurn(c, u) PROVE HourMove(h)
  BY <1>14 DEF StartTurn
<1>15. ASSUME NEW c \in Callers, NEW u \in Turns, ResetTurn(c, u) PROVE HourMove(h)
  BY <1>15 DEF ResetTurn
<1>16. ASSUME Wipe PROVE HourMove(h)
  BY <1>16, KeptType DEF Wipe
<1>17. ASSUME Tick PROVE HourMove(h)
  BY <1>17, KeptType DEF Tick
<1>18. CASE UNCHANGED vars
  BY <1>18 DEF vars
<1> HIDE DEF HourMove
<1> QED
  BY <1>1, <1>2, <1>3, <1>4, <1>5, <1>6, <1>7, <1>8, <1>9, <1>10, <1>11, <1>12, <1>13, <1>14, <1>15, <1>16, <1>17, <1>18,
     <1>19, <1>20 DEF Next, Proceed, Fail

\* The counter of an hour bucket overshoots its limit by at most the calls in
\* flight, those checked against the bucket of an earlier hour included.
THEOREM HourBoundHolds == Spec => []HourBound
<1> DEFINE Inv == BucketsInPast /\ HourBound
<1>1. Init => Inv
  <2> SUFFICES ASSUME Init PROVE Inv
    OBVIOUS
  <2>1. BucketsInPast
    BY DEF Init, BucketsInPast
  <2>2. ASSUME NEW h \in Hours
        PROVE  hourCount[h] + Cardinality(HourExposed(h))
                   <= HourLimit - 1 + Cardinality(Callers) + blind
    <3>1. HourExposed(h) = {} /\ hourCount[h] = 0 /\ blind = 0
      BY <2>2, OrderAssumption DEF Init, HourExposed, Uncommitted
    <3> QED
      BY <3>1, FS_EmptySet, FS_CardinalityType, CallersAssumption, LimitsAssumption
  <2> QED BY <2>1, <2>2 DEF HourBound
<1>2. TypeOK /\ TypeOK' /\ Inv /\ [Next]_vars => Inv'
  <2> SUFFICES ASSUME TypeOK, TypeOK', Inv, [Next]_vars PROVE Inv'
    OBVIOUS
  <2>1. BucketsInPast'
    BY BucketsMove
  <2>2. ASSUME NEW h \in Hours
        PROVE  hourCount'[h] + Cardinality(HourExposed(h)')
                   <= HourLimit - 1 + Cardinality(Callers) + blind'
    <3>1. HourMove(h)
      BY HourMoves
    <3>2. hourCount[h] \in Nat /\ hourCount'[h] \in Nat /\ blind \in Nat /\ blind' \in Nat
      BY DEF TypeOK
    <3>3. HourExposed(h) \subseteq Callers /\ HourExposed(h)' \subseteq Callers
      BY DEF HourExposed
    <3>4. hourCount[h] + Cardinality(HourExposed(h))
              <= HourLimit - 1 + Cardinality(Callers) + blind
      BY DEF HourBound
    <3> DEFINE E == HourExposed(h)
               F == HourExposed(h)'
    <3> HIDE DEF E, F
    <3>5. hourCount'[h] + Cardinality(F) <= HourLimit - 1 + Cardinality(Callers) + blind'
      BY <3>1, <3>2, <3>3, <3>4, OverdrawStep, CallersAssumption, LimitsAssumption DEF HourMove, E, F
    <3> QED BY <3>5 DEF F
  <2> QED BY <2>1, <2>2 DEF HourBound
<1> QED BY <1>1, <1>2, TypeCorrect, PTL DEF Spec

(***************************************************************************)
(* What is spent in an hour.  A request that left in this hour is counted  *)
(* in this hour's bucket, known lost, or made by a caller whose account is *)
(* unsettled.                                                              *)
(***************************************************************************)
Counting(c) == pc[c] \in {"incrTurn", "expireTurn", "incrHour"}

\* Callers that may have sent a request of this hour that is not counted in
\* its bucket: where the count comes first, all but those that are counted and
\* have not sent; else those that have sent and not counted.
Unsettled ==
    {c \in Callers :
        IF CountFirst
        THEN pc[c] \notin {"expireHour", "send"} /\ ~(Counting(c) /\ bucket[c] < hour)
        ELSE pc[c] = "awaiting" \/ (Counting(c) /\ bucket[c] = hour)}

\* The counter of the hour does not run out within the hour.
FreshKey ==
    /\ hour < MaxHour => hourTTL[hour] = 0 \/ hourTTL[hour] + phase >= HourTTL
    /\ \A h \in Hours : h > hour => hourTTL[h] = 0

SpendInv ==
    /\ hour < MaxHour => sent <= hourCount[hour] + lost + Cardinality(Unsettled)
    /\ hour = MaxHour => sent = 0

LEMMA FreshKeyMove ==
    ASSUME TypeOK, TypeOK', BucketsInPast, FreshKey, [Next]_vars
    PROVE  FreshKey'
<1> USE HoursAreNumbers, LimitsAssumption, ClockAssumption, OrderAssumption
<1> USE DEF TypeOK, Goto, BuildHourKey, Admitted, Counted, PCs, Incrementing, BucketsInPast, FreshKey
<1>1. ASSUME NEW c \in Callers, Begin(c) PROVE FreshKey'
  BY <1>1 DEF Begin
<1>2. ASSUME NEW c \in Callers, CheckTurn(c) PROVE FreshKey'
  BY <1>2 DEF CheckTurn
<1>3. ASSUME NEW c \in Callers, CheckHour(c) PROVE FreshKey'
  BY <1>3 DEF CheckHour
<1>19. ASSUME NEW c \in Callers, Miss(c) PROVE FreshKey'
  BY <1>19 DEF Miss
<1>20. ASSUME NEW c \in Callers, Hit(c) PROVE FreshKey'
  BY <1>20 DEF Hit
<1>4. ASSUME NEW c \in Callers, IncrTurn(c) PROVE FreshKey'
  BY <1>4 DEF IncrTurn
<1>5. ASSUME NEW c \in Callers, ExpireTurn(c) PROVE FreshKey'
  BY <1>5 DEF ExpireTurn
<1>6. ASSUME NEW c \in Callers, IncrHour(c) PROVE FreshKey'
  BY <1>6 DEF IncrHour
<1>7. ASSUME NEW c \in Callers, ExpireHour(c) PROVE FreshKey'
  BY <1>7 DEF ExpireHour
<1>8. ASSUME NEW c \in Callers, Send(c) PROVE FreshKey'
  BY <1>8 DEF Send
<1>9. ASSUME NEW c \in Callers, Answer(c) PROVE FreshKey'
  BY <1>9 DEF Answer
<1>10. ASSUME NEW c \in Callers, AnswerError(c) PROVE FreshKey'
  BY <1>10 DEF AnswerError, Uncounted
<1>11. ASSUME NEW c \in Callers, CheckOutage(c) PROVE FreshKey'
  BY <1>11 DEF CheckOutage
<1>12. ASSUME NEW c \in Callers, IncrOutage(c) PROVE FreshKey'
  BY <1>12 DEF IncrOutage, Uncounted, LosesExpire
<1>13. ASSUME NEW c \in Callers, Crash(c) PROVE FreshKey'
  BY <1>13 DEF Crash, Uncounted, LosesExpire
<1>14. ASSUME NEW c \in Callers, NEW u \in Turns, StartTurn(c, u) PROVE FreshKey'
  BY <1>14 DEF StartTurn
<1>15. ASSUME NEW c \in Callers, NEW u \in Turns, ResetTurn(c, u) PROVE FreshKey'
  BY <1>15 DEF ResetTurn
<1>16. ASSUME Wipe PROVE FreshKey'
  BY <1>16 DEF Wipe
<1>17. ASSUME Tick PROVE FreshKey'
  <2>1. hourTTL' = [h \in Hours |-> IF hourTTL[h] > 0 THEN hourTTL[h] - 1 ELSE 0]
    BY <1>17 DEF Tick, Aged
  <2>2. CASE phase + 1 < HourTTL
    BY <1>17, <2>1, <2>2 DEF Tick
  <2>3. CASE ~(phase + 1 < HourTTL) /\ hour < MaxHour
    BY <1>17, <2>1, <2>3 DEF Tick, Hours
  <2>4. CASE ~(phase + 1 < HourTTL) /\ ~(hour < MaxHour)
    BY <1>17, <2>1, <2>4 DEF Tick, Hours
  <2> QED BY <2>2, <2>3, <2>4
<1>18. CASE UNCHANGED vars
  BY <1>18 DEF vars
<1> HIDE DEF FreshKey
<1> QED
  BY <1>1, <1>2, <1>3, <1>4, <1>5, <1>6, <1>7, <1>8, <1>9, <1>10, <1>11, <1>12, <1>13, <1>14, <1>15, <1>16, <1>17, <1>18,
     <1>19, <1>20 DEF Next, Proceed, Fail

\* How one step may move what was sent in this hour, what is known of it and
\* the callers that are unsettled.
Known == hourCount[hour] + lost
SpendMove ==
    \/ sent' = 0
    \/ sent' = sent /\ Known' >= Known /\ Unsettled \subseteq Unsettled'
    \/ /\ sent' = sent + 1 /\ Known' >= Known
       /\ \E c \in Callers \ Unsettled : Unsettled \cup {c} \subseteq Unsettled'
    \/ /\ sent' = sent /\ Known' >= Known + 1
       /\ \E c \in Callers : Unsettled \ {c} \subseteq Unsettled'

LEMMA SpendMoves ==
    ASSUME TypeOK, TypeOK', BucketsInPast, FreshKey, hour < MaxHour, [Next]_vars
    PROVE  SpendMove
<1> USE HoursAreNumbers, LimitsAssumption, ClockAssumption, OrderAssumption
<1> USE DEF TypeOK, Goto, BuildHourKey, Admitted, Counted, PCs, Incrementing, BucketsInPast, Counting, Unsettled, Known, SpendMove
<1>1. ASSUME NEW c \in Callers, Begin(c) PROVE SpendMove
  BY <1>1 DEF Begin
<1>2. ASSUME NEW c \in Callers, CheckTurn(c) PROVE SpendMove
  BY <1>2 DEF CheckTurn
<1>3. ASSUME NEW c \in Callers, CheckHour(c) PROVE SpendMove
  BY <1>3 DEF CheckHour
<1>19. ASSUME NEW c \in Callers, Miss(c) PROVE SpendMove
  BY <1>19 DEF Miss
<1>20. ASSUME NEW c \in Callers, Hit(c) PROVE SpendMove
  BY <1>20 DEF Hit
<1>4. ASSUME NEW c \in Callers, IncrTurn(c) PROVE SpendMove
  BY <1>4 DEF IncrTurn
<1>5. ASSUME NEW c \in Callers, ExpireTurn(c) PROVE SpendMove
  BY <1>5 DEF ExpireTurn
<1>6. ASSUME NEW c \in Callers, IncrHour(c) PROVE SpendMove
  BY <1>6 DEF IncrHour
<1>7. ASSUME NEW c \in Callers, ExpireHour(c) PROVE SpendMove
  BY <1>7 DEF ExpireHour
<1>8. ASSUME NEW c \in Callers, Send(c) PROVE SpendMove
  BY <1>8 DEF Send
<1>9. ASSUME NEW c \in Callers, Answer(c) PROVE SpendMove
  BY <1>9 DEF Answer
<1>10. ASSUME NEW c \in Callers, AnswerError(c) PROVE SpendMove
  BY <1>10 DEF AnswerError, Uncounted
<1>11. ASSUME NEW c \in Callers, CheckOutage(c) PROVE SpendMove
  BY <1>11 DEF CheckOutage
<1>12. ASSUME NEW c \in Callers, IncrOutage(c) PROVE SpendMove
  BY <1>12 DEF IncrOutage, Uncounted, LosesExpire
<1>13. ASSUME NEW c \in Callers, Crash(c) PROVE SpendMove
  BY <1>13 DEF Crash, Uncounted, LosesExpire
<1>14. ASSUME NEW c \in Callers, NEW u \in Turns, StartTurn(c, u) PROVE SpendMove
  BY <1>14 DEF StartTurn
<1>15. ASSUME NEW c \in Callers, NEW u \in Turns, ResetTurn(c, u) PROVE SpendMove
  BY <1>15 DEF ResetTurn
<1>16. ASSUME Wipe PROVE SpendMove
  BY <1>16 DEF Wipe
<1>17. ASSUME Tick PROVE SpendMove
  <2>1. CASE phase + 1 < HourTTL
    <3>1. hour' = hour /\ sent' = sent /\ lost' = lost /\ pc' = pc /\ bucket' = bucket
      BY <1>17, <2>1 DEF Tick
    <3>2. hourCount'[hour] = hourCount[hour]
      BY <1>17, <2>1 DEF Tick, Kept, FreshKey
    <3> QED BY <3>1, <3>2
  <2>2. CASE ~(phase + 1 < HourTTL)
    BY <1>17, <2>2 DEF Tick
  <2> QED BY <2>1, <2>2
<1>18. CASE UNCHANGED vars
  BY <1>18 DEF vars
<1> HIDE DEF SpendMove
<1> QED
  BY <1>1, <1>2, <1>3, <1>4, <1>5, <1>6, <1>7, <1>8, <1>9, <1>10, <1>11, <1>12, <1>13, <1>14, <1>15, <1>16, <1>17, <1>18,
     <1>19, <1>20 DEF Next, Proceed, Fail

\* The requests of an hour that are neither counted nor known lost are at most
\* one for each unsettled caller.
LEMMA SpendStep ==
    ASSUME NEW E, NEW F, E \subseteq Callers, F \subseteq Callers,
           NEW s \in Nat, NEW r \in Nat, NEW k \in Nat, NEW l \in Nat,
           s <= k + Cardinality(E),
           \/ r = 0
           \/ r = s /\ l >= k /\ E \subseteq F
           \/ r = s + 1 /\ l >= k /\ \E c \in Callers \ E : E \cup {c} \subseteq F
           \/ r = s /\ l >= k + 1 /\ \E c \in Callers : E \ {c} \subseteq F
    PROVE  r <= l + Cardinality(F)
<1> DEFINE e == Cardinality(E)
           f == Cardinality(F)
<1>1. IsFiniteSet(E) /\ IsFiniteSet(F) /\ e \in Nat /\ f \in Nat
  BY CallersAssumption, FS_Subset, FS_CardinalityType
<1> HIDE DEF e, f
<1>2. CASE r = 0
  BY <1>1, <1>2 DEF f
<1>3. CASE r = s /\ l >= k /\ E \subseteq F
  <2>1. e <= f
    BY <1>1, <1>3, FS_Subset DEF e, f
  <2> QED BY <1>1, <1>3, <2>1 DEF e, f
<1>4. CASE r = s + 1 /\ l >= k /\ \E c \in Callers \ E : E \cup {c} \subseteq F
  <2>1. PICK c \in Callers \ E : E \cup {c} \subseteq F
    BY <1>4
  <2>2. Cardinality(E \cup {c}) <= f
    BY <1>1, <2>1, FS_Subset DEF f
  <2>3. Cardinality(E \cup {c}) = e + 1
    BY <1>1, <2>1, FS_AddElement DEF e
  <2> QED BY <1>1, <1>4, <2>2, <2>3 DEF e, f
<1>5. CASE r = s /\ l >= k + 1 /\ \E c \in Callers : E \ {c} \subseteq F
  <2>1. PICK c \in Callers : E \ {c} \subseteq F
    BY <1>5
  <2>2. Cardinality(E \ {c}) <= f
    BY <1>1, <2>1, FS_Subset DEF f
  <2>3. Cardinality(E \ {c}) \in {e, e - 1}
    BY <1>1, FS_RemoveElement DEF e
  <2> QED BY <1>1, <1>5, <2>2, <2>3 DEF e, f
<1> QED BY <1>2, <1>3, <1>4, <1>5

LEMMA SpendInvMoves ==
    ASSUME TypeOK, TypeOK', BucketsInPast, FreshKey, SpendInv, [Next]_vars
    PROVE  SpendInv'
<1> USE HoursAreNumbers, ClockAssumption
<1>1. ASSUME hour' = MaxHour PROVE sent' = 0
  <2>1. CASE hour = MaxHour
    BY <2>1, LimitsAssumption DEF SpendInv, Next, Proceed, Fail, Begin, CheckTurn, CheckHour, Miss, Hit,
       IncrTurn, ExpireTurn, IncrHour, ExpireHour, Send, Answer, AnswerError,
       CheckOutage, IncrOutage, Crash, StartTurn, ResetTurn, Wipe, Tick, vars
  <2>2. CASE hour # MaxHour
    BY <1>1, <2>2 DEF Next, Proceed, Fail, Begin, CheckTurn, CheckHour, Miss, Hit,
       IncrTurn, ExpireTurn, IncrHour, ExpireHour, Send, Answer, AnswerError,
       CheckOutage, IncrOutage, Crash, StartTurn, ResetTurn, Wipe, Tick, vars
  <2> QED BY <2>1, <2>2
<1>2. ASSUME hour' < MaxHour
      PROVE  sent' <= hourCount'[hour'] + lost' + Cardinality(Unsettled')
  <2>1. hour < MaxHour
    BY <1>2 DEF TypeOK, Hours, Next, Proceed, Fail, Begin, CheckTurn, CheckHour, Miss, Hit,
       IncrTurn, ExpireTurn, IncrHour, ExpireHour, Send, Answer, AnswerError,
       CheckOutage, IncrOutage, Crash, StartTurn, ResetTurn, Wipe, Tick, vars
  <2>2. SpendMove
    BY <2>1, SpendMoves
  <2>3. sent \in Nat /\ sent' \in Nat /\ Known \in Nat /\ Known' \in Nat
    BY DEF TypeOK, Known
  <2>4. Unsettled \subseteq Callers /\ Unsettled' \subseteq Callers
    BY DEF Unsettled
  <2>5. sent <= Known + Cardinality(Unsettled)
    BY <2>1 DEF SpendInv, Known
  <2> DEFINE E == Unsettled
             F == Unsettled'
             k == Known
             l == Known'
  <2> HIDE DEF E, F, k, l
  <2>6. sent' <= l + Cardinality(F)
    BY <2>2, <2>3, <2>4, <2>5, SpendStep DEF SpendMove, E, F, k, l
  <2> QED BY <2>6 DEF F, l, Known
<1> QED BY <1>1, <1>2 DEF SpendInv

\* At the end of it: the hour's counter bounds what is known, and the callers
\* that are unsettled are exposed to it, or, where the count comes first, at
\* most all.
LEMMA SpendBoundFollows ==
    ASSUME TypeOK, BucketsInPast, SpendInv, HourBound
    PROVE  SpendBound
<1> DEFINE N == Cardinality(Callers)
           u == Cardinality(Unsettled)
           x == Cardinality(HourExposed(hour))
<1>1. Unsettled \subseteq Callers /\ HourExposed(hour) \subseteq Callers
  BY DEF Unsettled, HourExposed
<1>2. N \in Nat /\ u \in Nat /\ x \in Nat /\ u <= N
  BY <1>1, CallersAssumption, FS_Subset, FS_CardinalityType
<1>3. hour \in Hours /\ hour \in Nat /\ hour <= MaxHour
      /\ sent \in Nat /\ lost \in Nat /\ blind \in Nat /\ hourCount[hour] \in Nat
  BY ClockAssumption DEF TypeOK, Hours
<1>4. hourCount[hour] + x <= HourLimit - 1 + N + blind
  BY <1>3 DEF HourBound
<1>5. CASE hour = MaxHour
  BY <1>2, <1>3, <1>5, LimitsAssumption DEF SpendInv, SpendBound
<1>6. CASE hour < MaxHour
  <2>1. sent <= hourCount[hour] + lost + u
    BY <1>6 DEF SpendInv
  <2>2. ~CountFirst => u <= x
    <3> SUFFICES ASSUME ~CountFirst PROVE Unsettled \subseteq HourExposed(hour)
      BY <1>1, CallersAssumption, FS_Subset
    <3> QED BY DEF Unsettled, HourExposed, Uncommitted, Counting, BucketsInPast
  <2> HIDE DEF N, u, x
  <2> QED BY <1>2, <1>3, <1>4, <2>1, <2>2, LimitsAssumption DEF SpendBound, N
<1> QED BY <1>3, <1>5, <1>6, ClockAssumption

\* Requests of one hour stay within the limit, one overshoot per caller (two
\* where the count comes first), and what faults keep from the counter.
THEOREM SpendBoundHolds == Spec => []SpendBound
<1> DEFINE Inv == BucketsInPast /\ FreshKey /\ SpendInv
<1>1. Init => Inv
  BY ClockAssumption, FS_EmptySet, FS_CardinalityType, FS_Subset, CallersAssumption
     DEF Init, BucketsInPast, FreshKey, SpendInv, Unsettled, Hours
<1>2. TypeOK /\ TypeOK' /\ Inv /\ [Next]_vars => Inv'
  BY BucketsMove, FreshKeyMove, SpendInvMoves
<1>3. TypeOK /\ Inv /\ HourBound => SpendBound
  BY SpendBoundFollows
<1> QED BY <1>1, <1>2, <1>3, TypeCorrect, HourBoundHolds, PTL DEF Spec

(***************************************************************************)
(* The windows, under every combination of faults: a counter without a TTL *)
(* has its creator about to set one, or lost exactly that EXPIRE to an     *)
(* outage or a crash.                                                      *)
(***************************************************************************)
LEMMA TurnWindowMoves ==
    ASSUME TypeOK, TypeOK', TurnWindowEnds, [Next]_vars
    PROVE  TurnWindowEnds'
<1> USE LimitsAssumption, ClockAssumption, OrderAssumption
<1> USE DEF TypeOK, Goto, BuildHourKey, Admitted, Counted, PCs, Incrementing, TurnWindowEnds
<1>1. ASSUME NEW c \in Callers, Begin(c) PROVE TurnWindowEnds'
  BY <1>1 DEF Begin
<1>2. ASSUME NEW c \in Callers, CheckTurn(c) PROVE TurnWindowEnds'
  BY <1>2 DEF CheckTurn
<1>3. ASSUME NEW c \in Callers, CheckHour(c) PROVE TurnWindowEnds'
  BY <1>3 DEF CheckHour
<1>19. ASSUME NEW c \in Callers, Miss(c) PROVE TurnWindowEnds'
  BY <1>19 DEF Miss
<1>20. ASSUME NEW c \in Callers, Hit(c) PROVE TurnWindowEnds'
  BY <1>20 DEF Hit
<1>4. ASSUME NEW c \in Callers, IncrTurn(c) PROVE TurnWindowEnds'
  BY <1>4 DEF IncrTurn
<1>5. ASSUME NEW c \in Callers, ExpireTurn(c) PROVE TurnWindowEnds'
  BY <1>5 DEF ExpireTurn
<1>6. ASSUME NEW c \in Callers, IncrHour(c) PROVE TurnWindowEnds'
  BY <1>6 DEF IncrHour
<1>7. ASSUME NEW c \in Callers, ExpireHour(c) PROVE TurnWindowEnds'
  BY <1>7 DEF ExpireHour
<1>8. ASSUME NEW c \in Callers, Send(c) PROVE TurnWindowEnds'
  BY <1>8 DEF Send
<1>9. ASSUME NEW c \in Callers, Answer(c) PROVE TurnWindowEnds'
  BY <1>9 DEF Answer
<1>10. ASSUME NEW c \in Callers, AnswerError(c) PROVE TurnWindowEnds'
  BY <1>10 DEF AnswerError, Uncounted
<1>11. ASSUME NEW c \in Callers, CheckOutage(c) PROVE TurnWindowEnds'
  BY <1>11 DEF CheckOutage
<1>12. ASSUME NEW c \in Callers, IncrOutage(c) PROVE TurnWindowEnds'
  BY <1>12 DEF IncrOutage, Uncounted, LosesExpire
<1>13. ASSUME NEW c \in Callers, Crash(c) PROVE TurnWindowEnds'
  BY <1>13 DEF Crash, Uncounted, LosesExpire
<1>14. ASSUME NEW c \in Callers, NEW u \in Turns, StartTurn(c, u) PROVE TurnWindowEnds'
  BY <1>14 DEF StartTurn
<1>15. ASSUME NEW c \in Callers, NEW u \in Turns, ResetTurn(c, u) PROVE TurnWindowEnds'
  BY <1>15 DEF ResetTurn
<1>16. ASSUME Wipe PROVE TurnWindowEnds'
  BY <1>16 DEF Wipe
<1>17. ASSUME Tick PROVE TurnWindowEnds'
  BY <1>17 DEF Tick, Aged, Kept
<1>18. CASE UNCHANGED vars
  BY <1>18 DEF vars
<1> HIDE DEF TurnWindowEnds
<1> QED
  BY <1>1, <1>2, <1>3, <1>4, <1>5, <1>6, <1>7, <1>8, <1>9, <1>10, <1>11, <1>12, <1>13, <1>14, <1>15, <1>16, <1>17, <1>18,
     <1>19, <1>20 DEF Next, Proceed, Fail

LEMMA HourWindowMoves ==
    ASSUME TypeOK, TypeOK', HourWindowEnds, [Next]_vars
    PROVE  HourWindowEnds'
<1> USE LimitsAssumption, ClockAssumption, OrderAssumption
<1> USE DEF TypeOK, Goto, BuildHourKey, Admitted, Counted, PCs, Incrementing, HourWindowEnds
<1>1. ASSUME NEW c \in Callers, Begin(c) PROVE HourWindowEnds'
  BY <1>1 DEF Begin
<1>2. ASSUME NEW c \in Callers, CheckTurn(c) PROVE HourWindowEnds'
  BY <1>2 DEF CheckTurn
<1>3. ASSUME NEW c \in Callers, CheckHour(c) PROVE HourWindowEnds'
  BY <1>3 DEF CheckHour
<1>19. ASSUME NEW c \in Callers, Miss(c) PROVE HourWindowEnds'
  BY <1>19 DEF Miss
<1>20. ASSUME NEW c \in Callers, Hit(c) PROVE HourWindowEnds'
  BY <1>20 DEF Hit
<1>4. ASSUME NEW c \in Callers, IncrTurn(c) PROVE HourWindowEnds'
  BY <1>4 DEF IncrTurn
<1>5. ASSUME NEW c \in Callers, ExpireTurn(c) PROVE HourWindowEnds'
  BY <1>5 DEF ExpireTurn
<1>6. ASSUME NEW c \in Callers, IncrHour(c) PROVE HourWindowEnds'
  BY <1>6 DEF IncrHour
<1>7. ASSUME NEW c \in Callers, ExpireHour(c) PROVE HourWindowEnds'
  BY <1>7 DEF ExpireHour
<1>8. ASSUME NEW c \in Callers, Send(c) PROVE HourWindowEnds'
  BY <1>8 DEF Send
<1>9. ASSUME NEW c \in Callers, Answer(c) PROVE HourWindowEnds'
  BY <1>9 DEF Answer
<1>10. ASSUME NEW c \in Callers, AnswerError(c) PROVE HourWindowEnds'
  BY <1>10 DEF AnswerError, Uncounted
<1>11. ASSUME NEW c \in Callers, CheckOutage(c) PROVE HourWindowEnds'
  BY <1>11 DEF CheckOutage
<1>12. ASSUME NEW c \in Callers, IncrOutage(c) PROVE HourWindowEnds'
  BY <1>12 DEF IncrOutage, Uncounted, LosesExpire
<1>13. ASSUME NEW c \in Callers, Crash(c) PROVE HourWindowEnds'
  BY <1>13 DEF Crash, Uncounted, LosesExpire
<1>14. ASSUME NEW c \in Callers, NEW u \in Turns, StartTurn(c, u) PROVE HourWindowEnds'
  BY <1>14 DEF StartTurn
<1>15. ASSUME NEW c \in Callers, NEW u \in Turns, ResetTurn(c, u) PROVE HourWindowEnds'
  BY <1>15 DEF ResetTurn
<1>16. ASSUME Wipe PROVE HourWindowEnds'
  BY <1>16 DEF Wipe
<1>17. ASSUME Tick PROVE HourWindowEnds'
  BY <1>17 DEF Tick, Aged, Kept
<1>18. CASE UNCHANGED vars
  BY <1>18 DEF vars
<1> HIDE DEF HourWindowEnds
<1> QED
  BY <1>1, <1>2, <1>3, <1>4, <1>5, <1>6, <1>7, <1>8, <1>9, <1>10, <1>11, <1>12, <1>13, <1>14, <1>15, <1>16, <1>17, <1>18,
     <1>19, <1>20 DEF Next, Proceed, Fail

\* No turn counter lives for ever but one whose creator was stopped by an
\* outage or a crash between INCR and EXPIRE.
THEOREM TurnWindowHolds == Spec => []TurnWindowEnds
<1>1. Init => TurnWindowEnds
  BY DEF Init, TurnWindowEnds
<1>2. TypeOK /\ TypeOK' /\ TurnWindowEnds /\ [Next]_vars => TurnWindowEnds'
  BY TurnWindowMoves
<1> QED BY <1>1, <1>2, TypeCorrect, PTL DEF Spec

\* Nor does an hour counter.
THEOREM HourWindowHolds == Spec => []HourWindowEnds
<1>1. Init => HourWindowEnds
  BY DEF Init, HourWindowEnds
<1>2. TypeOK /\ TypeOK' /\ HourWindowEnds /\ [Next]_vars => HourWindowEnds'
  BY HourWindowMoves
<1> QED BY <1>1, <1>2, TypeCorrect, PTL DEF Spec

(***************************************************************************)
(* A window is never extended, as long as no key is dropped behind the     *)
(* back of the caller that created it.                                     *)
(***************************************************************************)
NoDrop == Faults \cap {"wipe", "reset"} = {}

\* A key that does not exist has no TTL; a caller at an EXPIRE is alone there
\* for its key, which exists without TTL.
Creators ==
    /\ \A t \in Turns : turnCount[t] = 0 => turnTTL[t] = 0
    /\ \A h \in Hours : hourCount[h] = 0 => hourTTL[h] = 0
    /\ \A c \in Callers : pc[c] = "expireTurn" =>
         /\ turnCount[turn[c]] > 0 /\ turnTTL[turn[c]] = 0
         /\ \A d \in Callers : pc[d] = "expireTurn" /\ turn[d] = turn[c] => d = c
    /\ \A c \in Callers : pc[c] = "expireHour" =>
         /\ hourCount[bucket[c]] > 0 /\ hourTTL[bucket[c]] = 0
         /\ \A d \in Callers : pc[d] = "expireHour" /\ bucket[d] = bucket[c] => d = c

LEMMA CreatorsMove ==
    ASSUME TypeOK, TypeOK', NoDrop, Creators, [Next]_vars
    PROVE  Creators'
<1> USE LimitsAssumption, ClockAssumption, OrderAssumption
<1> USE DEF TypeOK, NoDrop, Goto, BuildHourKey, Admitted, Counted, PCs, Incrementing, Creators
<1>1. ASSUME NEW c \in Callers, Begin(c) PROVE Creators'
  BY <1>1 DEF Begin
<1>2. ASSUME NEW c \in Callers, CheckTurn(c) PROVE Creators'
  BY <1>2 DEF CheckTurn
<1>3. ASSUME NEW c \in Callers, CheckHour(c) PROVE Creators'
  BY <1>3 DEF CheckHour
<1>19. ASSUME NEW c \in Callers, Miss(c) PROVE Creators'
  BY <1>19 DEF Miss
<1>20. ASSUME NEW c \in Callers, Hit(c) PROVE Creators'
  BY <1>20 DEF Hit
<1>4. ASSUME NEW c \in Callers, IncrTurn(c) PROVE Creators'
  BY <1>4 DEF IncrTurn
<1>5. ASSUME NEW c \in Callers, ExpireTurn(c) PROVE Creators'
  BY <1>5 DEF ExpireTurn
<1>6. ASSUME NEW c \in Callers, IncrHour(c) PROVE Creators'
  BY <1>6 DEF IncrHour
<1>7. ASSUME NEW c \in Callers, ExpireHour(c) PROVE Creators'
  BY <1>7 DEF ExpireHour
<1>8. ASSUME NEW c \in Callers, Send(c) PROVE Creators'
  BY <1>8 DEF Send
<1>9. ASSUME NEW c \in Callers, Answer(c) PROVE Creators'
  BY <1>9 DEF Answer
<1>10. ASSUME NEW c \in Callers, AnswerError(c) PROVE Creators'
  BY <1>10 DEF AnswerError, Uncounted
<1>11. ASSUME NEW c \in Callers, CheckOutage(c) PROVE Creators'
  BY <1>11 DEF CheckOutage
<1>12. ASSUME NEW c \in Callers, IncrOutage(c) PROVE Creators'
  BY <1>12 DEF IncrOutage, Uncounted, LosesExpire
<1>13. ASSUME NEW c \in Callers, Crash(c) PROVE Creators'
  BY <1>13 DEF Crash, Uncounted, LosesExpire
<1>14. ASSUME NEW c \in Callers, NEW u \in Turns, StartTurn(c, u) PROVE Creators'
  BY <1>14 DEF StartTurn
<1>15. ASSUME NEW c \in Callers, NEW u \in Turns, ResetTurn(c, u) PROVE Creators'
  BY <1>15 DEF ResetTurn
<1>16. ASSUME Wipe PROVE Creators'
  BY <1>16 DEF Wipe
<1>17. ASSUME Tick PROVE Creators'
  BY <1>17 DEF Tick, Aged, Kept
<1>18. CASE UNCHANGED vars
  BY <1>18 DEF vars
<1> HIDE DEF Creators
<1> QED
  BY <1>1, <1>2, <1>3, <1>4, <1>5, <1>6, <1>7, <1>8, <1>9, <1>10, <1>11, <1>12, <1>13, <1>14, <1>15, <1>16, <1>17, <1>18,
     <1>19, <1>20 DEF Next, Proceed, Fail

\* How one step may move the TTLs: none that runs is raised.
TTLMove ==
    /\ \A t \in Turns : turnTTL[t] > 0 => turnTTL'[t] <= turnTTL[t]
    /\ \A h \in Hours : hourTTL[h] > 0 => hourTTL'[h] <= hourTTL[h]

LEMMA TTLMoves ==
    ASSUME TypeOK, TypeOK', NoDrop, Creators, [Next]_vars
    PROVE  TTLMove
<1> USE LimitsAssumption, ClockAssumption, OrderAssumption
<1> USE DEF TypeOK, NoDrop, Goto, BuildHourKey, Admitted, Counted, PCs, Incrementing, Creators, TTLMove
<1>1. ASSUME NEW c \in Callers, Begin(c) PROVE TTLMove
  BY <1>1 DEF Begin
<1>2. ASSUME NEW c \in Callers, CheckTurn(c) PROVE TTLMove
  BY <1>2 DEF CheckTurn
<1>3. ASSUME NEW c \in Callers, CheckHour(c) PROVE TTLMove
  BY <1>3 DEF CheckHour
<1>19. ASSUME NEW c \in Callers, Miss(c) PROVE TTLMove
  BY <1>19 DEF Miss
<1>20. ASSUME NEW c \in Callers, Hit(c) PROVE TTLMove
  BY <1>20 DEF Hit
<1>4. ASSUME NEW c \in Callers, IncrTurn(c) PROVE TTLMove
  BY <1>4 DEF IncrTurn
<1>5. ASSUME NEW c \in Callers, ExpireTurn(c) PROVE TTLMove
  BY <1>5 DEF ExpireTurn
<1>6. ASSUME NEW c \in Callers, IncrHour(c) PROVE TTLMove
  BY <1>6 DEF IncrHour
<1>7. ASSUME NEW c \in Callers, ExpireHour(c) PROVE TTLMove
  BY <1>7 DEF ExpireHour
<1>8. ASSUME NEW c \in Callers, Send(c) PROVE TTLMove
  BY <1>8 DEF Send
<1>9. ASSUME NEW c \in Callers, Answer(c) PROVE TTLMove
  BY <1>9 DEF Answer
<1>10. ASSUME NEW c \in Callers, AnswerError(c) PROVE TTLMove
  BY <1>10 DEF AnswerError, Uncounted
<1>11. ASSUME NEW c \in Callers, CheckOutage(c) PROVE TTLMove
  BY <1>11 DEF CheckOutage
<1>12. ASSUME NEW c \in Callers, IncrOutage(c) PROVE TTLMove
  BY <1>12 DEF IncrOutage, Uncounted, LosesExpire
<1>13. ASSUME NEW c \in Callers, Crash(c) PROVE TTLMove
  BY <1>13 DEF Crash, Uncounted, LosesExpire
<1>14. ASSUME NEW c \in Callers, NEW u \in Turns, StartTurn(c, u) PROVE TTLMove
  BY <1>14 DEF StartTurn
<1>15. ASSUME NEW c \in Callers, NEW u \in Turns, ResetTurn(c, u) PROVE TTLMove
  BY <1>15 DEF ResetTurn
<1>16. ASSUME Wipe PROVE TTLMove
  BY <1>16 DEF Wipe
<1>17. ASSUME Tick PROVE TTLMove
  BY <1>17 DEF Tick, Aged, Kept
<1>18. CASE UNCHANGED vars
  BY <1>18 DEF vars
<1> HIDE DEF TTLMove
<1> QED
  BY <1>1, <1>2, <1>3, <1>4, <1>5, <1>6, <1>7, <1>8, <1>9, <1>10, <1>11, <1>12, <1>13, <1>14, <1>15, <1>16, <1>17, <1>18,
     <1>19, <1>20 DEF Next, Proceed, Fail

\* EXPIRE never raises a TTL that is already running.
THEOREM WindowNeverExtendedHolds ==
    ASSUME NoDrop PROVE Spec => WindowNeverExtended
<1>1. Init => Creators
  BY DEF Init, Creators
<1>2. TypeOK /\ TypeOK' /\ Creators /\ [Next]_vars => Creators'
  BY CreatorsMove, NoDrop
<1>3. TypeOK /\ TypeOK' /\ Creators /\ [Next]_vars => [TTLMove]_vars
  BY TTLMoves, NoDrop
<1> QED BY <1>1, <1>2, <1>3, TypeCorrect, PTL DEF Spec, WindowNeverExtended, TTLMove
=============================================================================
