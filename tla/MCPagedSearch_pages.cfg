SPECIFICATION Spec
CONSTANTS
    a1 = a1
    a2 = a2
    a3 = a3
    a4 = a4
    a5 = a5
    a6 = a6
    Callers = {c1, c2}
    Sources <- MCSources
    Items = {a1, a2, a3, a4, a5, a6}
    Lists <- MCLists
    Kinds <- MCKinds
    Windows <- MCWindows
    NoWindow = NoWindow
    StartDate <- MCStartDate
    NoDate = NoDate
    YearEnd = 6
    LeapDay = 2
    LeapYears = {1}
    Limits = {1, 3, 4}
    CallsPerWindow = 1
    MaxBlind = 1
SYMMETRY Symmetry
INVARIANTS TypeOK OneList NoDuplicates PartialBeatsNone WholeMeansAll
