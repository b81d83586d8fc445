--------------------------- MODULE MCFlightSearch ---------------------------
\* A finite instance of FlightSearch for TLC.
EXTENDS FlightSearch, TLC

Symmetry == Permutations(Callers)

Ranking(token) == [price |-> 3, token |-> token]

\* A round trip whose second entry has no price, whose third has no token and
\* whose fourth sells no return; six entries, of which four are worth a call.
MCEntries ==
    [round |-> <<Ranking("t1"), [price |-> NoPrice, token |-> "t4"],
                 Ranking(NoToken), Ranking("t2"), Ranking("t3"), Ranking("t4")>>,
     oneway |-> <<[price |-> NoPrice, token |-> NoToken], Ranking(NoToken),
                  Ranking(NoToken), Ranking(NoToken), Ranking(NoToken)>>]

MCReturns == [t1 |-> <<9, NoPrice, 7>>, t2 |-> <<NoPrice>>, t3 |-> <<8>>, t4 |-> <<6>>]
=============================================================================
