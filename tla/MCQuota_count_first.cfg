SPECIFICATION FairSpec
CONSTANTS
    Callers = {c1, c2}
    Turns = {t1}
    CountFirst = TRUE
    TurnLimit = 1
    HourLimit = 1
    TurnTTL = 1
    HourTTL = 2
    MaxHour = 2
    MaxSlack = 1
    Faults = {"outage"}
INVARIANTS HourBound SpendBound TurnWindowEnds HourWindowEnds
PROPERTIES WindowNeverExtended RefusalEnds
