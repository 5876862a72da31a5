\* Two threads, two instances that share the mutexes of the process.
CONSTANTS
    Threads = {t1, t2}
    Objects = {c1, c2}
    t1 = t1
    NoThread = NoThread
    NoObject = NoObject
    MaxCalls = 2
    MaxHelp = 1
    NoCall = NoCall
    NoResponse = NoResponse
    Principals = {}
    Results <- TwoAnswers
SPECIFICATION MCSpec
SYMMETRY Symmetry
INVARIANTS BridgeTypeOK LocksClimb SharedLocksAlone AnswerIsOwn
