CONSTANTS
    Places <- MCPlaces
    Specific = {"US"}
    Least = {}
    MaxFallback = 2
    Static <- MCStatic
    Skipped = {}
    Requests = {r1, r2}
    Ttl <- MCTtl
    MaxTtl = 3
    Day = 3
SPECIFICATION Spec
INVARIANTS ServedIsItsOwn MissingForAReason KeptNoLonger
SYMMETRY Symmetry
CONSTRAINT OneCountry
