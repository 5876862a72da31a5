\* Any one change, or two changes of some sections, before or during the call.
CONSTANTS
    Null = Null
    Unusable = Unusable
    MaxLong = 7
    SomeLongs <- BoundaryLongs
    Cost <- Costs
    MaxEdits = 2
    MaxList = 3
SPECIFICATION Spec
INVARIANTS TypeOK DeliveredFaithfully AcceptedIffWellFormed
           EngineNeverIllFormed SettingsWereHeld ListsWereHeld
           LimitsNeverTighten RejectedForCause
