------------------------------ MODULE MCCache ------------------------------
\* Finite instances of Cache for TLC.
EXTENDS Cache, TLC

Symmetry == Permutations(Callers) \cup Permutations(Answers)

\* A model that gained a required field between two versions, which new code
\* rejects and old code still reads.
FieldShapes == {"old", "new"}
FieldDecoding ==
    [r \in FieldShapes |->
        [e \in FieldShapes |-> IF r = "new" /\ e = "old" THEN "invalid" ELSE "ok"]]

\* A model class renamed between two versions: neither finds the other's.
RenamedDecoding ==
    [r \in FieldShapes |->
        [e \in FieldShapes |-> IF r = e THEN "ok" ELSE "unloadable"]]
=============================================================================
