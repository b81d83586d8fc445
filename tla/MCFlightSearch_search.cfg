SPECIFICATION Spec
CONSTANTS
    Callers = {c1, c2}
    RoundTrips = {"round"}
    OneWays = {"oneway"}
    Entries <- MCEntries
    Returns <- MCReturns
    NoQuery = NoQuery
    NoPrice = NoPrice
    NoToken = NoToken
    Limits = {3}
    MaxReturnFetches = 2
    CallsPerWindow = 2
    MaxAge = 1
    MaxRun = 1
    MaxBlind = 1
    Faults = {"outage", "provider", "crash"}
SYMMETRY Symmetry
INVARIANTS TypeOK WholeOrTold StampHonest RefsKnown
