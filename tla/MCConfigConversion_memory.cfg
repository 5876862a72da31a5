\* The setter of the memory configuration.
CONSTANTS
    Null = Null
    Unusable = Unusable
    MaxLong = 7
    SomeLongs <- BoundaryLongs
    Cost <- Costs
    MaxEdits = 2
    MaxList = 3
SPECIFICATION Spec
PROPERTY MemorySettingTakesEffect
