\* Three threads contend for one instance, twice each.
CONSTANTS
    Threads = {t1, t2, t3}
    Objects = {c1}
    NoThread = NoThread
    NoObject = NoObject
    MaxCalls = 2
SPECIFICATION Spec
SYMMETRY Symmetry
INVARIANTS TypeOK EngineInUseIsLive EngineExclusive DroppedOnce
           WaitsOnlyForEngine NoSilentFailure PublishedHadEngine IInv
PROPERTY ServiceSafe
