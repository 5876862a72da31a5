\* Two threads, one instance: the detailed specification implements the
\* abstract one, and every call returns.
CONSTANTS
    Threads = {t1, t2}
    Objects = {c1}
    NoThread = NoThread
    NoObject = NoObject
    MaxCalls = 3
SPECIFICATION Spec
PROPERTIES ServiceSpec EveryCallReturns
