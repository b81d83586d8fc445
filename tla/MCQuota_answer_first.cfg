SPECIFICATION Spec
CONSTANTS
    Callers = {c1, c2}
    Turns = {t1}
    CountFirst = FALSE
    TurnLimit = 2
    HourLimit = 2
    TurnTTL = 1
    HourTTL = 2
    MaxHour = 2
    MaxSlack = 1
    Faults = {"outage", "crash", "httpError", "reset", "wipe"}
SYMMETRY Symmetry
INVARIANTS TypeOK TurnBound HourBound SpendBound
