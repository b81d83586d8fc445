------------------------------- MODULE Quota -------------------------------
(***************************************************************************)
(* The Redis-backed quota counter of app/shared/quota.py, for one provider *)
(* and one trip, as the adapters drive it: check, then count and send in   *)
(* the adapter's own order.  hotels, airbnb and activities count first and *)
(* send second; flights and places send first and count after the answer.  *)
(*                                                                         *)
(* A caller is one adapter call on a cache miss: an asyncio task of the    *)
(* web service or of the worker.  Callers share nothing but Redis, where   *)
(* every GET, INCR, EXPIRE and DEL is atomic; everything between two of    *)
(* them interleaves.  A counter that is 0 is a key that does not exist; a  *)
(* TTL of 0 is a key without expiry.                                       *)
(***************************************************************************)
EXTENDS Integers, FiniteSets

CONSTANTS
    Callers,     \* concurrent adapter calls, over all processes
    Turns,       \* agent turn ids (quota_turn_id)
    CountFirst,  \* TRUE: increment before the request; FALSE: after the answer
    TurnLimit,   \* settings.quota_calls_per_turn
    HourLimit,   \* settings.quota_calls_per_trip_hour
    TurnTTL,     \* _TURN_TTL_SECONDS, in clock ticks
    HourTTL,     \* _HOUR_TTL_SECONDS, in clock ticks: also the ticks of an hour
    MaxHour,     \* bound: hour buckets told apart, the clock stays in the last
    MaxSlack,    \* bound: on blind, and on what faults add to lost
    Faults       \* which of "outage", "crash", "wipe", "httpError", "reset"
                 \* can happen

ASSUME CallersAssumption == IsFiniteSet(Callers) /\ Callers # {}
ASSUME TurnsAssumption == Turns # {}
ASSUME LimitsAssumption == TurnLimit \in Nat \ {0} /\ HourLimit \in Nat \ {0}
ASSUME ClockAssumption == /\ TurnTTL \in Nat \ {0} /\ HourTTL \in Nat \ {0}
                          /\ MaxHour \in Nat /\ MaxSlack \in Nat
ASSUME OrderAssumption == CountFirst \in BOOLEAN

VARIABLES
    pc,         \* the await each caller is suspended at
    turn,       \* _current_turn in the caller's context
    bucket,     \* hour bucket of the hour key the caller last built
    turnCount, turnTTL,   \* quota:turn:{turn}:{provider}
    hourCount, hourTTL,   \* quota:{provider}:{trip}:{hour}
    hour, phase,          \* the UTC hour, and ticks gone in it
    sent,       \* ghost: requests that left for the provider in this hour
    blind,      \* ghost: checks passed with Redis unreachable
    lost,       \* ghost: requests the hour counter does not (any longer) know
    orphanTurns, orphanHours
                \* ghost: counters whose EXPIRE was lost after their INCR

redis == <<turnCount, turnTTL, hourCount, hourTTL>>
clock == <<hour, phase>>
orphans == <<orphanTurns, orphanHours>>
ghosts == <<sent, blind, lost, orphans>>
vars == <<pc, turn, bucket, redis, clock, ghosts>>

Hours == 0..MaxHour
Incrementing == {"incrTurn", "expireTurn", "incrHour", "expireHour"}
PCs == {"idle", "checkTurn", "checkHour", "admitted", "send", "awaiting"}
           \cup Incrementing

TypeOK ==
    /\ pc \in [Callers -> PCs]
    /\ turn \in [Callers -> Turns]
    /\ bucket \in [Callers -> Hours]
    /\ turnCount \in [Turns -> Nat] /\ turnTTL \in [Turns -> 0..TurnTTL]
    /\ hourCount \in [Hours -> Nat] /\ hourTTL \in [Hours -> 0..HourTTL]
    /\ hour \in Hours /\ phase \in 0..(HourTTL - 1)
    /\ sent \in Nat /\ blind \in Nat /\ lost \in Nat
    /\ orphanTurns \subseteq Turns /\ orphanHours \subseteq Hours

Init ==
    /\ pc = [c \in Callers |-> "idle"]
    /\ turn \in [Callers -> Turns]
    /\ bucket = [c \in Callers |-> 0]
    /\ turnCount = [t \in Turns |-> 0] /\ turnTTL = [t \in Turns |-> 0]
    /\ hourCount = [h \in Hours |-> 0] /\ hourTTL = [h \in Hours |-> 0]
    /\ hour = 0 /\ phase = 0
    /\ sent = 0 /\ blind = 0 /\ lost = 0
    /\ orphanTurns = {} /\ orphanHours = {}

---------------------------------------------------------------------------
(* Helpers *)

Goto(c, label) == pc' = [pc EXCEPT ![c] = label]

\* The hour key is built from datetime.now when it is needed, not when used.
BuildHourKey(c) == bucket' = [bucket EXCEPT ![c] = hour]

\* What an adapter does once check() has returned None.
Admitted(c) ==
    IF CountFirst THEN Goto(c, "admitted") ELSE Goto(c, "send")

\* What an adapter does once increment() has returned.
Counted(c) ==
    IF CountFirst THEN Goto(c, "send") ELSE Goto(c, "idle")

---------------------------------------------------------------------------
(* Plausible slips in the code, each of which a property below must catch.  *)
(* None of them is part of the specification.                               *)

\* `>` for `>=` in the turn check.
CheckTurnOffByOne(c) ==
    /\ pc[c] = "checkTurn"
    /\ IF turnCount[turn[c]] > TurnLimit
       THEN Goto(c, "idle") /\ UNCHANGED bucket
       ELSE Goto(c, "checkHour") /\ BuildHourKey(c)
    /\ UNCHANGED <<turn, redis, clock, ghosts>>

\* `>` for `>=` in the hour check.
CheckHourOffByOne(c) ==
    /\ pc[c] = "checkHour"
    /\ IF hourCount[bucket[c]] > HourLimit
       THEN Goto(c, "idle")
       ELSE Admitted(c)
    /\ UNCHANGED <<turn, bucket, redis, clock, ghosts>>

\* EXPIRE on no INCR, or the loop left after the turn key.
IncrTurnThen(c, label) ==
    /\ pc[c] = "incrTurn"
    /\ turnCount' = [turnCount EXCEPT ![turn[c]] = @ + 1]
    /\ Goto(c, label)
    /\ UNCHANGED <<turn, bucket, turnTTL, hourCount, hourTTL, clock, ghosts>>
IncrTurnNeverExpires(c) == IncrTurnThen(c, "incrHour")
IncrTurnOnly(c) == IncrTurnThen(c, IF CountFirst THEN "send" ELSE "idle")

\* The same for the hour key, and EXPIRE on every INCR.
IncrHourNeverExpires(c) ==
    /\ pc[c] = "incrHour"
    /\ hourCount' = [hourCount EXCEPT ![bucket[c]] = @ + 1]
    /\ Counted(c)
    /\ UNCHANGED <<turn, bucket, turnCount, turnTTL, hourTTL, clock, ghosts>>
IncrHourAlwaysExpires(c) ==
    /\ pc[c] = "incrHour"
    /\ hourCount' = [hourCount EXCEPT ![bucket[c]] = @ + 1]
    /\ Goto(c, "expireHour")
    /\ UNCHANGED <<turn, bucket, turnCount, turnTTL, hourTTL, clock, ghosts>>

\* The hour's TTL on the turn key.
ExpireTurnWithHourTTL(c) ==
    /\ pc[c] = "expireTurn"
    /\ turnTTL' = [turnTTL EXCEPT ![turn[c]] = HourTTL]
    /\ Goto(c, "incrHour")
    /\ UNCHANGED <<turn, bucket, turnCount, hourCount, hourTTL, clock, ghosts>>

---------------------------------------------------------------------------
(* One adapter call *)

\* The adapter reaches its network boundary: check() sends the GET of the
\* turn key.
Begin(c) ==
    /\ pc[c] = "idle"
    /\ Goto(c, "checkTurn")
    /\ UNCHANGED <<turn, bucket, redis, clock, ghosts>>

\* The GET of the turn key answers: refuse at the limit, else build the hour
\* key and GET it.
CheckTurn(c) ==
    /\ pc[c] = "checkTurn"
    /\ IF turnCount[turn[c]] >= TurnLimit
       THEN Goto(c, "idle") /\ UNCHANGED bucket
       ELSE Goto(c, "checkHour") /\ BuildHourKey(c)
    /\ UNCHANGED <<turn, redis, clock, ghosts>>

\* The GET of the hour key answers: refuse at the limit, else admit.
CheckHour(c) ==
    /\ pc[c] = "checkHour"
    /\ IF hourCount[bucket[c]] >= HourLimit
       THEN Goto(c, "idle")
       ELSE Admitted(c)
    /\ UNCHANGED <<turn, bucket, redis, clock, ghosts>>

\* Where the count comes first, activities still looks the page up in the
\* cache.  A miss goes on to increment(), which builds its keys before it sends
\* the first INCR; hotels and airbnb get there at once.
Miss(c) ==
    /\ CountFirst /\ pc[c] = "admitted"
    /\ Goto(c, "incrTurn")
    /\ BuildHourKey(c)
    /\ UNCHANGED <<turn, redis, clock, ghosts>>

\* A hit costs nothing: the check was made for no request.
Hit(c) ==
    /\ CountFirst /\ pc[c] = "admitted"
    /\ Goto(c, "idle")
    /\ UNCHANGED <<turn, bucket, redis, clock, ghosts>>

\* INCR of the turn key; the caller that created the key goes on to EXPIRE.
IncrTurn(c) ==
    /\ pc[c] = "incrTurn"
    /\ turnCount' = [turnCount EXCEPT ![turn[c]] = @ + 1]
    /\ IF turnCount[turn[c]] = 0
       THEN Goto(c, "expireTurn") /\ orphanTurns' = orphanTurns \ {turn[c]}
       ELSE Goto(c, "incrHour") /\ UNCHANGED orphanTurns
    /\ UNCHANGED <<turn, bucket, turnTTL, hourCount, hourTTL, clock,
                   sent, blind, lost, orphanHours>>

\* EXPIRE of the turn key: nothing happens to a key that is gone.
ExpireTurn(c) ==
    /\ pc[c] = "expireTurn"
    /\ turnTTL' = [turnTTL EXCEPT ![turn[c]] =
                     IF turnCount[turn[c]] > 0 THEN TurnTTL ELSE @]
    /\ Goto(c, "incrHour")
    /\ UNCHANGED <<turn, bucket, turnCount, hourCount, hourTTL, clock, ghosts>>

IncrHour(c) ==
    /\ pc[c] = "incrHour"
    /\ hourCount' = [hourCount EXCEPT ![bucket[c]] = @ + 1]
    /\ IF hourCount[bucket[c]] = 0
       THEN Goto(c, "expireHour") /\ orphanHours' = orphanHours \ {bucket[c]}
       ELSE Counted(c) /\ UNCHANGED orphanHours
    /\ UNCHANGED <<turn, bucket, turnCount, turnTTL, hourTTL, clock,
                   sent, blind, lost, orphanTurns>>

ExpireHour(c) ==
    /\ pc[c] = "expireHour"
    /\ hourTTL' = [hourTTL EXCEPT ![bucket[c]] =
                     IF hourCount[bucket[c]] > 0 THEN HourTTL ELSE @]
    /\ Counted(c)
    /\ UNCHANGED <<turn, bucket, turnCount, turnTTL, hourCount, clock, ghosts>>

\* The request leaves.  The last hour of the bound is not metered: the clock
\* stays in it for ever.
Send(c) ==
    /\ pc[c] = "send"
    /\ Goto(c, "awaiting")
    /\ sent' = IF hour = MaxHour THEN 0 ELSE sent + 1
    /\ UNCHANGED <<turn, bucket, redis, clock, blind, lost, orphans>>

\* The provider answers: a counted call is over, an uncounted one is counted.
Answer(c) ==
    /\ pc[c] = "awaiting"
    /\ IF CountFirst
       THEN Goto(c, "idle") /\ UNCHANGED bucket
       ELSE Goto(c, "incrTurn") /\ BuildHourKey(c)
    /\ UNCHANGED <<turn, redis, clock, ghosts>>

---------------------------------------------------------------------------
(* What can go wrong *)

Uncounted(c) ==
    /\ lost < MaxSlack
    /\ lost' = lost + 1

\* The caller goes no further between INCR and EXPIRE: the key it created has
\* no TTL, and nobody sets one later, since count = 1 was its creator's to see.
LosesExpire(c) ==
    /\ orphanTurns' = IF pc[c] = "expireTurn" THEN orphanTurns \cup {turn[c]}
                                             ELSE orphanTurns
    /\ orphanHours' = IF pc[c] = "expireHour" THEN orphanHours \cup {bucket[c]}
                                             ELSE orphanHours

\* The provider fails or answers an error status: the call raises, and the
\* increment written after raise_for_status never runs.
AnswerError(c) ==
    /\ "httpError" \in Faults
    /\ pc[c] = "awaiting"
    /\ Goto(c, "idle")
    /\ IF CountFirst THEN UNCHANGED lost ELSE Uncounted(c)
    /\ UNCHANGED <<turn, bucket, redis, clock, sent, blind, orphans>>

\* Redis fails during check(): it returns None, whichever GET it was.
CheckOutage(c) ==
    /\ "outage" \in Faults
    /\ pc[c] \in {"checkTurn", "checkHour"}
    /\ blind < MaxSlack
    /\ blind' = blind + 1
    /\ Admitted(c)
    /\ UNCHANGED <<turn, bucket, redis, clock, sent, lost, orphans>>

\* Redis fails during increment(): the rest of it is skipped and the adapter
\* goes on.  A command that ran and whose answer was lost (socket_timeout) is
\* the command's own step, and then this one.
IncrOutage(c) ==
    /\ "outage" \in Faults
    /\ pc[c] \in Incrementing
    /\ Counted(c)
    /\ LosesExpire(c)
    /\ IF pc[c] = "expireHour" THEN UNCHANGED lost ELSE Uncounted(c)
    /\ UNCHANGED <<turn, bucket, redis, clock, sent, blind>>

\* The caller's process dies or its task is cancelled at an await.
Crash(c) ==
    /\ "crash" \in Faults
    /\ pc[c] # "idle"
    /\ Goto(c, "idle")
    /\ LosesExpire(c)
    /\ IF ~CountFirst /\ pc[c] \in {"awaiting", "incrTurn", "expireTurn", "incrHour"}
       THEN Uncounted(c)
       ELSE UNCHANGED lost
    /\ UNCHANGED <<turn, bucket, redis, clock, sent, blind>>

\* The in-memory Key Value instance restarts empty.
Wipe ==
    /\ "wipe" \in Faults
    /\ lost + hourCount[hour] <= MaxSlack
    /\ lost' = lost + hourCount[hour]
    /\ turnCount' = [t \in Turns |-> 0] /\ turnTTL' = [t \in Turns |-> 0]
    /\ hourCount' = [h \in Hours |-> 0] /\ hourTTL' = [h \in Hours |-> 0]
    /\ UNCHANGED <<pc, turn, bucket, clock, sent, blind, orphans>>

---------------------------------------------------------------------------
(* Turns and time *)

StartTurn(c, t) ==
    /\ pc[c] = "idle"
    /\ turn' = [turn EXCEPT ![c] = t]
    /\ UNCHANGED <<pc, bucket, redis, clock, ghosts>>

\* reset_turn drops the counters of the caller's turn and starts another.
ResetTurn(c, t) ==
    /\ "reset" \in Faults
    /\ pc[c] = "idle"
    /\ turnCount' = [turnCount EXCEPT ![turn[c]] = 0]
    /\ turnTTL' = [turnTTL EXCEPT ![turn[c]] = 0]
    /\ turn' = [turn EXCEPT ![c] = t]
    /\ UNCHANGED <<pc, bucket, hourCount, hourTTL, clock, ghosts>>

\* Redis counts a TTL down and drops the key when it runs out.
Aged(ttl) == [k \in DOMAIN ttl |-> IF ttl[k] > 0 THEN ttl[k] - 1 ELSE 0]
Kept(count, ttl) == [k \in DOMAIN count |-> IF ttl[k] = 1 THEN 0 ELSE count[k]]

Tick ==
    /\ turnTTL' = Aged(turnTTL) /\ turnCount' = Kept(turnCount, turnTTL)
    /\ hourTTL' = Aged(hourTTL) /\ hourCount' = Kept(hourCount, hourTTL)
    /\ IF phase + 1 < HourTTL
       THEN phase' = phase + 1 /\ UNCHANGED <<hour, sent>>
       ELSE /\ phase' = 0
            /\ hour' = IF hour < MaxHour THEN hour + 1 ELSE hour
            /\ sent' = 0
    /\ UNCHANGED <<pc, turn, bucket, blind, lost, orphans>>

---------------------------------------------------------------------------
(* Specification *)

Proceed(c) ==
    \/ CheckTurn(c) \/ CheckHour(c) \/ Miss(c) \/ Hit(c)
    \/ IncrTurn(c) \/ ExpireTurn(c) \/ IncrHour(c) \/ ExpireHour(c)
    \/ Send(c) \/ Answer(c)

Fail(c) == AnswerError(c) \/ CheckOutage(c) \/ IncrOutage(c) \/ Crash(c)

Next ==
    \/ \E c \in Callers : Begin(c) \/ Proceed(c) \/ Fail(c)
    \/ \E c \in Callers, t \in Turns : StartTurn(c, t) \/ ResetTurn(c, t)
    \/ Wipe
    \/ Tick

Spec == Init /\ [][Next]_vars

\* Every await ends (Redis and httpx time out) and time goes on.
Fairness == WF_vars(Tick) /\ \A c \in Callers : WF_vars(Proceed(c))
FairSpec == Spec /\ Fairness

---------------------------------------------------------------------------
(* Properties *)

\* Where an admitted call is that has not begun to count.
Uncommitted == IF CountFirst THEN {"admitted"} ELSE {"send", "awaiting"}

\* Callers that passed the turn check of turn t and have not yet counted it.
TurnExposed(t) ==
    {c \in Callers : /\ turn[c] = t
                     /\ pc[c] \in {"checkHour", "incrTurn"} \cup Uncommitted}

\* Check-then-act over the network cannot keep the ceiling, but overshoots it
\* by no more than the calls in flight: what a turn has counted and what it
\* has admitted and not counted stay within the limit, one call per other
\* caller, and one per check that ran while Redis was away.
TurnBound ==
    \A t \in Turns :
        turnCount[t] + Cardinality(TurnExposed(t))
            <= TurnLimit - 1 + Cardinality(Callers) + blind

\* Callers that may still count in bucket h though its counter did not, or
\* will not, stop them: admitted callers, and callers about to be admitted by
\* the counter of an earlier hour.
HourExposed(h) ==
    {c \in Callers :
        \/ pc[c] \in {"incrTurn", "expireTurn", "incrHour"} /\ bucket[c] = h
        \/ pc[c] \in Uncommitted /\ bucket[c] <= h
        \/ pc[c] = "checkHour" /\ bucket[c] < h}

\* The same bound for every hour bucket, across the rollover of the hour: a
\* call checked against one bucket and counted in the next is included.
HourBound ==
    \A h \in Hours :
        hourCount[h] + Cardinality(HourExposed(h))
            <= HourLimit - 1 + Cardinality(Callers) + blind

\* Requests that leave within one hour: the limit, one overshoot per caller,
\* what faults kept from the counter, and, where the count comes first, one
\* request per caller that was counted in the hour before and leaves in this.
SpendBound ==
    LET stragglers == IF CountFirst THEN Cardinality(Callers) ELSE 0
    IN  sent <= HourLimit - 1 + Cardinality(Callers) + stragglers + blind + lost

\* A counter without a TTL refuses until somebody deletes it.  Whatever fails,
\* a turn counter has none only while the caller that created it is about to
\* set one, or because an outage or a crash met exactly that caller between
\* INCR and EXPIRE.
TurnWindowEnds ==
    \A t \in Turns :
        turnCount[t] > 0 /\ turnTTL[t] = 0
            => \/ \E c \in Callers : pc[c] = "expireTurn" /\ turn[c] = t
               \/ t \in orphanTurns

\* The same for the hour counters.
HourWindowEnds ==
    \A h \in Hours :
        hourCount[h] > 0 /\ hourTTL[h] = 0
            => \/ \E c \in Callers : pc[c] = "expireHour" /\ bucket[c] = h
               \/ h \in orphanHours

\* EXPIRE rides on the creation of a key only: a running TTL is never extended,
\* however busy the counter, so a window lasts its length and no longer.
WindowNeverExtended ==
    [][/\ \A t \in Turns : turnTTL[t] > 0 => turnTTL'[t] <= turnTTL[t]
       /\ \A h \in Hours : hourTTL[h] > 0 => hourTTL'[h] <= hourTTL[h]]_vars

\* A turn at its limit is admitted again: its counter runs out in the end, the
\* leak-stopper the TTL is there for.  Only a counter whose creator a fault met
\* between INCR and EXPIRE refuses for ever.
RefusalEnds ==
    \A t \in Turns :
        (turnCount[t] >= TurnLimit) ~> (turnCount[t] < TurnLimit \/ t \in orphanTurns)
=============================================================================
