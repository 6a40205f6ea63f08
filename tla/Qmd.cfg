SPECIFICATION MCSpec
CONSTANTS
    Clients = {c1, c2}
    NoClient = NoClient
    LockPaths = {here, there}
    Budget = 1
    MaxDepth = 2
    MaxStarts = 2
    Paths = 2
    Total = 4
    Idle = 2
    PipeCap = 2
    CaptureCap = 3
    Names = {n1, n2}
    Dirs = {d1, d2}
    Absent = Absent
    MaxOps = 2
CHECK_DEADLOCK FALSE
INVARIANTS
    OneAtATime
    ResultsAreReal
    IndexIsTold
PROPERTIES
    
    IndexKept
    CallsEnd
