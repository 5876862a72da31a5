\* The signature validation that the engine is told.
CONSTANTS
    Null = Null
    Unusable = Unusable
    MaxLong = 7
    SomeLongs <- BoundaryLongs
    Cost <- Costs
    MaxEdits = 2
    MaxList = 3
SPECIFICATION Spec
INVARIANT SignValidationDelivered
