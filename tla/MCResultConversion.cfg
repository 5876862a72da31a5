\* Two calls, results of every shape, each step may fail.
CONSTANTS
    Calls = {c1, c2}
    NoCall = NoCall
    NoResponse = NoResponse
    p1 = p1
    p2 = p2
    Principals = {p1, p2}
    Results <- AllResults
SPECIFICATION Spec
INVARIANTS TypeOK LocksScoped NestNeverBlocks ResultFaithful DenyUntilComplete
PROPERTY EveryConversionEnds
