CONSTANTS
    t1 = t1
    t2 = t2
    t3 = t3
    p1 = p1
    p2 = p2
    p3 = p3
    NoThread = NoThread
    NoProc = NoProc
    Threads <- ThreeThreads
    Procs <- ThreeProcs
    ProcOf <- TwoInOne
    Caller = "qmd"
    Foreign = {p3}
    Exiting = {}
    Crashing = {}
    Forcers = {}
    Operators = {}
SPECIFICATION Spec
INVARIANTS
    MutualExclusion
    CooperativeInv
PROPERTY Implements
