\* One thread: closing twice.
CONSTANTS
    Threads = {t1}
    Objects = {c1}
    NoThread = NoThread
    NoObject = NoObject
    MaxCalls = 3
SPECIFICATION Spec
INVARIANT CloseIsIdempotent
