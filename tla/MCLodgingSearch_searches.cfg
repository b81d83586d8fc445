SPECIFICATION FairSpec
CONSTANTS
    Callers = {c1, c2}
    Sites <- MCSites
    Limit = 5
    CallsPerWindow = 2
    MaxBlind = 1
    TTL = 2
    Lag = 1
    Faults = {"crash", "wipe", "provider", "quotaOutage"}
INVARIANTS TypeOK WholeMeansAll PartialBeatsNone NoFailureCached
PROPERTIES IsReadThrough ShortenedEnds
