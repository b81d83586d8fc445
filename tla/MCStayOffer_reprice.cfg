SPECIFICATION Spec
CONSTANTS
    Callers = {c1}
    Stays <- MCStays
    Offers <- MCOffers
    BasePrice = 21000
    OtherPrice = 4400
    Discount = 2500
    CallsPerWindow = 1
    MaxBlind = 1
    LastDay = 1
    None = None
SYMMETRY Symmetry
INVARIANT RepriceAnswers
