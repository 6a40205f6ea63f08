SPECIFICATION MCSpec
CONSTANTS
    Evidence = {e1, e2}
    NoEvidence = NoEvidence
    MaxAttempts = 2
    MaxTurns = 5
    Queries = {query}
    Writes = {write}
    Slugs = {s1, s2}
    MaxEdits = 2
    Linters = {l1}
    WikiPages = {p1, p2}
    Nothing = Nothing
    LintRuns = 2
    LintEdits = 1
CHECK_DEADLOCK FALSE
INVARIANTS
    EvidenceAccounted
    
PROPERTIES
    VerdictsStand
    WritesAreAsked
    FilingSettles
