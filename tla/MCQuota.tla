------------------------------ MODULE MCQuota ------------------------------
\* Finite instances of Quota for TLC.
EXTENDS Quota, TLC

\* Callers differ in nothing but their name, and so do turns.
Symmetry == Permutations(Callers) \cup Permutations(Turns)
=============================================================================
