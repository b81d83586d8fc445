SPECIFICATION FairSpec
CONSTANTS
    Callers = {c1, c2}
    Answers = {a1}
    TTL = 2
    Lag = 1
    AgeCap = 3
    Shapes <- FieldShapes
    Decoding <- RenamedDecoding
    Faults = {"deploy"}
PROPERTY PoisonEnds
