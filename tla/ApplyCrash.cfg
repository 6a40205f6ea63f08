SPECIFICATION Spec
CONSTANTS
    p1 = p1  p2 = p2  new = new
    Index = Index  Log = Log  Report = Report
    Absent = Absent  Seed = Seed  Hand = Hand
    Conflicted = Conflicted  Unmerged = Unmerged  Nobody = Nobody  Unnamed = Unnamed
    Pages <- TwoPages
    Bodies <- AllBodies
    InitialPages <- OnlyFirst
    Plans <- ShortPlans
    Appliers = {a1, a2}
    Crashing = {a1}
    Faults = {"register", "sha", "catalog", "receipt", "qmd"}
    Others = {"editor", "commit"}
    EditDuring = TRUE
    MaxCalls = 2
    MaxEdits = 2
CHECK_DEADLOCK FALSE
INVARIANT StashHoldsOwed
INVARIANT EarlierStashKept
INVARIANT ApplyInv
