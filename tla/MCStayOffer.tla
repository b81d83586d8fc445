----------------------------- MODULE MCStayOffer -----------------------------
\* A finite instance of StayOffer for TLC.
EXTENDS StayOffer, TLC

\* Callers differ in nothing but their name.
Symmetry == Permutations(Callers)

\* Three nights from today, which are in the past from tomorrow; no nights.
MCStays ==
    [provider : {"hotels", "airbnb"}, check_in : {0}, check_out : {3}]
    \cup [provider : {"airbnb"}, check_in : {1}, check_out : {1}]

\* Two prices, one of them an odd amount for three nights; dates that are taken,
\* with a price that is still shown.
MCOffers ==
    {[free |-> TRUE, quote |-> 30000], [free |-> TRUE, quote |-> 45049],
     [free |-> FALSE, quote |-> 30000]}
=============================================================================
