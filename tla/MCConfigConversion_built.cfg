\* What the builder returned, with one call before it.
CONSTANTS
    Null = Null
    Unusable = Unusable
    MaxLong = 7
    SomeLongs <- BoundaryLongs
    Cost <- Costs
    MaxEdits = 2
    MaxList = 3
SPECIFICATION Spec
INVARIANT BuiltIsAccepted
