SPECIFICATION Spec
CONSTANTS
    p1 = p1  p2 = p2  new = new
    Index = Index  Log = Log  Report = Report
    Absent = Absent  Seed = Seed  Hand = Hand
    Conflicted = Conflicted  Unmerged = Unmerged  Nobody = Nobody  Unnamed = Unnamed
    Pages <- TwoPages
    Bodies <- AllBodies
    InitialPages <- OnlyFirst
    Plans <- AllPlans
    Appliers = {a1, a2}
    Crashing = {}
    Faults = {"snapshot", "write", "add", "commit"}
    Others = {"editor", "lint", "reconcile"}
    EditDuring = FALSE
    MaxCalls = 2
    MaxEdits = 2
CHECK_DEADLOCK FALSE
INVARIANT RestoredOnFailure
PROPERTY NoLostUpdate
INVARIANT AppliedIsCataloged
INVARIANT DerivedInStep
PROPERTY Implements
