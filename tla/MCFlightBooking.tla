-------------------------- MODULE MCFlightBooking --------------------------
\* Finite instances of FlightBooking for TLC.
EXTENDS FlightBooking, TLC

CONSTANTS out, ret   \* one flight number for each leg

B(scope, marketed, price) ==
    [scope |-> scope, link |-> TRUE, marketed |-> marketed, price |-> price]

\* For each scope the coverage that matters to it: all it should sell, less,
\* or nothing said; with no price, a zero one, and two that differ.
MCBlocks ==
    {B("together", m, p) : m \in {{{out, ret}}, {{out}}, {}}, p \in {NoPrice, 0, 1, 2}}
    \cup {B("departing", m, p) : m \in {{{out}}, {{ret}}, {}}, p \in {NoPrice, 1, 2}}
    \cup {B("returning", m, p) : m \in {{{ret}}, {{}}}, p \in {NoPrice, 1}}
    \cup {[B("together", {{out, ret}}, 1) EXCEPT !.link = FALSE]}

MCPayloads == UNION {[1..n -> MCBlocks] : n \in 0..3}

\* A round trip and a one-way, as search() builds them; one with a leg
\* missing; and round trips with segments that carry no number.
MCPins ==
    {[round |-> TRUE, outbound |-> {out}, return |-> {ret}],
     [round |-> FALSE, outbound |-> {out}, return |-> {}],
     [round |-> TRUE, outbound |-> {out}, return |-> {}],
     [round |-> TRUE, outbound |-> {out}, return |-> {Unnumbered}]}

\* Round trips every segment of which has its number.
RoundTrips == {p \in MCPins : p.round /\ Unnumbered \notin p.outbound \cup p.return}
=============================================================================
