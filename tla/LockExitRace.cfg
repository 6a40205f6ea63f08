CONSTANTS
    t1 = t1
    t2 = t2
    t3 = t3
    p1 = p1
    p2 = p2
    p3 = p3
    NoThread = NoThread
    NoProc = NoProc
    Threads <- ThreeThreads
    Procs <- ThreeProcs
    ProcOf <- OneEach
    Caller = "qmd"
    Foreign = {}
    Exiting = {p1}
    Crashing = {}
    Forcers = {}
    Operators = {}
SPECIFICATION Spec
INVARIANT MutualExclusion
CHECK_DEADLOCK FALSE
