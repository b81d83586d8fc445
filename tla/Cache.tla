------------------------------- MODULE Cache -------------------------------
(***************************************************************************)
(* get_or_fetch of app/shared/cache.py, for one key in Redis and the calls *)
(* that ask for it.  There is no lock and no single flight: every caller   *)
(* that misses fetches, and the last SET wins, whichever answer is older.  *)
(*                                                                         *)
(* An entry carries the shape it was encoded in: the model class of the    *)
(* code version that wrote it, or plain JSON.  The readers' versions and   *)
(* the entry's decide what _decode does.                                   *)
(***************************************************************************)
EXTENDS Integers, FiniteSets

CONSTANTS
    Callers,    \* concurrent calls, over all processes
    Answers,    \* what the provider can answer
    TTL,        \* the tier's seconds in clock ticks; 0: the indefinite tier
    Lag,        \* ticks from a fetch's first answer to its SET: later pages,
                \* the count of the quota, the timeouts of the sockets
    AgeCap,     \* bound: ages above it are not told apart
    Shapes,     \* model shapes over the code versions deployed
    Decoding,   \* Decoding[reader][entry] \in {"ok", "invalid", "unloadable"}
    Faults      \* which of "outage", "crash", "wipe", "deploy" can happen

ASSUME CacheAssumption ==
    /\ TTL \in Nat /\ Lag \in Nat
    /\ AgeCap \in Nat /\ AgeCap >= TTL + Lag
    /\ Decoding \in [Shapes -> [Shapes -> {"ok", "invalid", "unloadable"}]]
    /\ \A s \in Shapes : Decoding[s][s] = "ok"

VARIABLES
    pc,        \* the await each caller is suspended at
    shape,     \* model shape in the code each caller runs
    held,      \* the answer a caller is about to store, and its age: that of
               \* the oldest page of it
    entry,     \* the Redis entry: {} or a singleton
    ttl,       \* ticks until Redis drops it; 0: never
    result     \* how each caller's last call ended

vars == <<pc, shape, held, entry, ttl, result>>

Stored == [answer : Answers, age : 0..AgeCap, shape : Shapes]

TypeOK ==
    /\ pc \in [Callers -> {"idle", "reading", "fetching", "writing"}]
    /\ shape \in [Callers -> Shapes]
    /\ \A c \in Callers : held[c] = {} \/ \E e \in Stored : held[c] = {e}
    /\ entry = {} \/ \E e \in Stored : entry = {e}
    /\ ttl \in 0..TTL
    /\ \A c \in Callers : result[c].kind \in {"none", "value", "failed", "undecodable"}

NoResult == [kind |-> "none"]
Failed == [kind |-> "failed"]
Undecodable == [kind |-> "undecodable"]
Value(e) == [kind |-> "value", answer |-> e.answer, age |-> e.age]

Init ==
    /\ pc = [c \in Callers |-> "idle"]
    /\ shape \in [Callers -> Shapes]
    /\ held = [c \in Callers |-> {}]
    /\ entry = {} /\ ttl = 0
    /\ result = [c \in Callers |-> NoResult]

Goto(c, label) == pc' = [pc EXCEPT ![c] = label]
End(c, r) == Goto(c, "idle") /\ result' = [result EXCEPT ![c] = r]

---------------------------------------------------------------------------
(* Plausible slips in the code, each of which a property below must catch.  *)
(* None of them is part of the specification.                               *)

\* The TTL of a longer tier, or none: SET without EX.
WriteFor(c, ticks) ==
    /\ pc[c] = "writing"
    /\ entry' = held[c] /\ ttl' = ticks
    /\ \E e \in held[c] : End(c, Value(e))
    /\ held' = [held EXCEPT ![c] = {}]
    /\ UNCHANGED shape
WriteLongerTier(c) == WriteFor(c, TTL + 1)
WriteWithoutEx(c) == WriteFor(c, 0)

\* Sliding expiry: a hit is written back.
HitWritesBack(c) ==
    /\ pc[c] = "reading"
    /\ \E e \in entry : Decoding[shape[c]][e.shape] = "ok"
    /\ held' = [held EXCEPT ![c] = entry]
    /\ Goto(c, "writing")
    /\ UNCHANGED <<shape, entry, ttl, result>>

\* The except clause for ValueError is lost.
AnyDecodeErrorRaises(c) ==
    /\ pc[c] = "reading"
    /\ \E e \in entry : Decoding[shape[c]][e.shape] # "ok"
    /\ End(c, Undecodable)
    /\ UNCHANGED <<shape, held, entry, ttl>>

---------------------------------------------------------------------------
(* One call of get_or_fetch *)

Call(c) ==
    /\ pc[c] = "idle"
    /\ Goto(c, "reading")
    /\ result' = [result EXCEPT ![c] = NoResult]
    /\ UNCHANGED <<shape, held, entry, ttl>>

\* The GET answers with an entry this version of the code can decode.
Hit(c) ==
    /\ pc[c] = "reading"
    /\ \E e \in entry : Decoding[shape[c]][e.shape] = "ok" /\ End(c, Value(e))
    /\ UNCHANGED <<shape, held, entry, ttl>>

\* No entry, Redis away, or an entry that raises ValueError on decoding.
Miss(c) ==
    /\ pc[c] = "reading"
    /\ \/ entry = {}
       \/ "outage" \in Faults
       \/ \E e \in entry : Decoding[shape[c]][e.shape] = "invalid"
    /\ Goto(c, "fetching")
    /\ UNCHANGED <<shape, held, entry, ttl, result>>

\* The entry names a module or class this version does not have: ImportError
\* and AttributeError are not caught, and the call raises.
DecodeRaises(c) ==
    /\ pc[c] = "reading"
    /\ \E e \in entry : Decoding[shape[c]][e.shape] = "unloadable"
    /\ End(c, Undecodable)
    /\ UNCHANGED <<shape, held, entry, ttl>>

\* fetch() returns what the provider answered, some ticks ago if it has gone on
\* to another page or to Redis since.
FetchReturns(c, a, age) ==
    /\ pc[c] = "fetching"
    /\ held' = [held EXCEPT ![c] = {[answer |-> a, age |-> age, shape |-> shape[c]]}]
    /\ Goto(c, "writing")
    /\ UNCHANGED <<shape, entry, ttl, result>>

\* fetch() raises: a refusal or failure unwinds past the write.
FetchRaises(c) ==
    /\ pc[c] = "fetching"
    /\ End(c, Failed)
    /\ UNCHANGED <<shape, held, entry, ttl>>

\* SET with EX, or without for the indefinite tier; then the value is returned.
Write(c) ==
    /\ pc[c] = "writing"
    /\ entry' = held[c]
    /\ ttl' = TTL
    /\ \E e \in held[c] : End(c, Value(e))
    /\ held' = [held EXCEPT ![c] = {}]
    /\ UNCHANGED shape

\* The SET fails, or was never sent because the value does not serialize:
\* the value is returned all the same.
WriteFails(c) ==
    /\ "outage" \in Faults
    /\ pc[c] = "writing"
    /\ \E e \in held[c] : End(c, Value(e))
    /\ held' = [held EXCEPT ![c] = {}]
    /\ UNCHANGED <<shape, entry, ttl>>

---------------------------------------------------------------------------
(* The environment *)

\* The caller's process dies or its task is cancelled.
Crash(c) ==
    /\ "crash" \in Faults
    /\ pc[c] # "idle"
    /\ End(c, NoResult)
    /\ held' = [held EXCEPT ![c] = {}]
    /\ UNCHANGED <<shape, entry, ttl>>

\* A process restarts with another version of the models.
Deploy(c, s) ==
    /\ "deploy" \in Faults
    /\ pc[c] = "idle"
    /\ shape' = [shape EXCEPT ![c] = s]
    /\ UNCHANGED <<pc, held, entry, ttl, result>>

\* clear_cache, or the in-memory instance restarting empty.
Wipe ==
    /\ "wipe" \in Faults
    /\ entry' = {} /\ ttl' = 0
    /\ UNCHANGED <<pc, shape, held, result>>

Older(S) == {[e EXCEPT !.age = IF @ < AgeCap THEN @ + 1 ELSE @] : e \in S}

\* Time passes, but not while a SET is due: it fails within the socket timeout.
Tick ==
    /\ \A c \in Callers : \A e \in held[c] : e.age < Lag
    /\ held' = [c \in Callers |-> Older(held[c])]
    /\ entry' = IF ttl = 1 THEN {} ELSE Older(entry)
    /\ ttl' = IF ttl > 0 THEN ttl - 1 ELSE 0
    /\ UNCHANGED <<pc, shape, result>>

---------------------------------------------------------------------------
Proceed(c) ==
    \/ Hit(c) \/ Miss(c) \/ DecodeRaises(c)
    \/ \E a \in Answers, age \in 0..Lag : FetchReturns(c, a, age)
    \/ FetchRaises(c)
    \/ Write(c) \/ WriteFails(c)

Next ==
    \/ \E c \in Callers : Call(c) \/ Proceed(c) \/ Crash(c)
    \/ \E c \in Callers, s \in Shapes : Deploy(c, s)
    \/ Wipe
    \/ Tick

Spec == Init /\ [][Next]_vars

\* Every await ends (Redis and httpx time out) and time goes on.
Fairness == WF_vars(Tick) /\ \A c \in Callers : WF_vars(Proceed(c))
FairSpec == Spec /\ Fairness

---------------------------------------------------------------------------
(* Properties *)

MaxAge == TTL + Lag

\* The promise of the cache to its callers, kept without a lock, across
\* overwrites by slower fetches, outages, crashes and restarts: every value
\* was answered by the provider at most MaxAge ago, and a call fails only if
\* its own fetch did.
Promise == INSTANCE ReadThrough WITH
    given <- {[answer |-> e.answer, age |-> e.age] :
                 e \in entry \cup UNION {held[c] : c \in Callers}},
    waiting <- {c \in Callers : pc[c] # "idle"},
    asked <- {c \in Callers : pc[c] = "fetching"}
ReadThrough == Promise!Spec

\* What bounds the age of a hit: an entry that is k ticks from expiry is at
\* least k ticks younger than MaxAge, though any caller may have re-armed its
\* TTL with an answer it had been holding.
AgeBound ==
    /\ \A c \in Callers : \A e \in held[c] : e.age <= Lag
    /\ TTL > 0 => \A e \in entry : ttl > 0 /\ e.age + ttl <= MaxAge
    /\ TTL > 0 => \A c \in Callers :
                     result[c].kind = "value" => result[c].age <= MaxAge

\* Without single flight a slow caller may overwrite a newer answer by its own
\* older one, but sets the clock back by no more than the lag of a fetch.
RewindBound ==
    [][\A old \in entry, new \in entry' : new.age <= old.age + 1 + Lag]_vars

\* The entry raises for every call of this caller.
Poisoned(c) == \E e \in entry : Decoding[shape[c]][e.shape] = "unloadable"

\* In a tier with a TTL an entry that only raises is gone in the end, even
\* while processes of both versions keep calling: the raising calls neither
\* replace it nor keep it alive.
PoisonEnds == TTL > 0 => \A c \in Callers : Poisoned(c) ~> ~Poisoned(c)
=============================================================================
