SPECIFICATION Spec
CONSTANTS
    out = out
    ret = ret
    Numbers = {out, ret}
    Unnumbered = Unnumbered
    NoPrice = NoPrice
    Unpriced = 9
    Pins <- MCPins
    Payloads <- MCPayloads
INVARIANTS TypeOK BestWholeTrip RefusalsHonest PriceIsCharged
