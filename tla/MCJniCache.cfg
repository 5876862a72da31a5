\* Two threads use the class first; every name may be the one that is missing.
CONSTANTS
    Threads = {t1, t2}
    NoThread = NoThread
SPECIFICATION Spec
INVARIANTS TypeOK NoPartialCache EveryLookupHits
PROPERTIES EveryoneGetsIn
