---------------------------- MODULE ReadThrough ----------------------------
(***************************************************************************)
(* What a reader is promised by a cache in front of a provider, whatever   *)
(* the store behind it does: a call ends with an answer that the provider  *)
(* really gave, no longer ago than MaxAge, or fails because the provider   *)
(* was asked for this very call and did not answer.  There is no store in  *)
(* this specification; answers may be forgotten at any time.               *)
(***************************************************************************)
EXTENDS Naturals

CONSTANTS
    Callers,
    Answers,   \* what the provider can answer
    MaxAge     \* ticks an answer may be old when it is handed out

VARIABLES
    given,     \* remembered answers of the provider, and the ticks since
    waiting,   \* callers whose call is running
    asked,     \* callers for whom the provider has been asked
    result     \* how each caller's last call ended

vars == <<given, waiting, asked, result>>

NoResult == [kind |-> "none"]
Failed == [kind |-> "failed"]
Value(g) == [kind |-> "value", answer |-> g.answer, age |-> g.age]

Init ==
    /\ given = {} /\ waiting = {} /\ asked = {}
    /\ result \in [Callers -> {NoResult}]

Forget == given' \subseteq given

Call(c) ==
    /\ c \notin waiting
    /\ waiting' = waiting \cup {c}
    /\ result' = [result EXCEPT ![c] = NoResult]
    /\ Forget /\ UNCHANGED asked

Ask(c) ==
    /\ c \in waiting
    /\ asked' = asked \cup {c}
    /\ Forget /\ UNCHANGED <<waiting, result>>

\* The caller is given what the provider answered, some ticks ago.
Give(c, a, age) ==
    /\ c \in asked
    /\ asked' = asked \ {c}
    /\ given' \subseteq given \cup {[answer |-> a, age |-> age]}
    /\ UNCHANGED <<waiting, result>>

Return(c) ==
    /\ c \in waiting \ asked
    /\ waiting' = waiting \ {c}
    /\ \E g \in given : result' = [result EXCEPT ![c] = Value(g)]
    /\ Forget /\ UNCHANGED asked

\* The provider refuses or fails.
Fail(c) ==
    /\ c \in asked
    /\ asked' = asked \ {c} /\ waiting' = waiting \ {c}
    /\ result' = [result EXCEPT ![c] = Failed]
    /\ Forget

\* The caller dies.
Vanish(c) ==
    /\ c \in waiting
    /\ asked' = asked \ {c} /\ waiting' = waiting \ {c}
    /\ result' = [result EXCEPT ![c] = NoResult]
    /\ Forget

Lose == Forget /\ UNCHANGED <<waiting, asked, result>>

\* Time passes; what is too old is never handed out again.
Tick ==
    /\ \A g \in given' : /\ g.age \in 1..MaxAge
                         /\ [g EXCEPT !.age = @ - 1] \in given
    /\ UNCHANGED <<waiting, asked, result>>

Next ==
    \/ \E c \in Callers : \/ Call(c) \/ Ask(c) \/ Return(c) \/ Fail(c) \/ Vanish(c)
                          \/ \E a \in Answers, age \in 0..MaxAge : Give(c, a, age)
    \/ Lose
    \/ Tick

Spec == Init /\ [][Next]_vars
=============================================================================
