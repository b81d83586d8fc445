SPECIFICATION Spec
CONSTANTS
    Callers = {c1, c2, c3}
    Answers = {a1, a2}
    TTL = 2
    Lag = 1
    AgeCap = 3
    Shapes <- FieldShapes
    Decoding <- FieldDecoding
    Faults = {"outage", "crash", "wipe", "deploy"}
INVARIANTS TypeOK AgeBound
PROPERTIES ReadThrough RewindBound
