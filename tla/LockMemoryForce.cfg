CONSTANTS
    t1 = t1
    t2 = t2
    t3 = t3
    p1 = p1
    p2 = p2
    p3 = p3
    NoThread = NoThread
    NoProc = NoProc
    Threads <- ThreeThreads
    Procs <- ThreeProcs
    ProcOf <- OneEach
    Caller = "memory"
    Foreign = {p2}
    Exiting = {}
    Crashing = {p1}
    Forcers = {t2}
    Operators = {t3}
SPECIFICATION RepairSpec
PROPERTY OrphanReaped
