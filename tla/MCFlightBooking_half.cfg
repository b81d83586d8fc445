SPECIFICATION Spec
CONSTANTS
    out = out
    ret = ret
    Numbers = {out, ret}
    Unnumbered = Unnumbered
    NoPrice = NoPrice
    Unpriced = 9
    Pins <- RoundTrips
    Payloads <- MCPayloads
INVARIANT ResolveBuysTrip
