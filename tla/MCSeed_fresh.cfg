SPECIFICATION Spec
CONSTANTS
    Seeders = {s1, s2}
    NoPlace = NoPlace
INVARIANT OnlySeededRefuses
