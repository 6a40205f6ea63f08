SPECIFICATION MCSpec
CONSTANTS
    Callers = {c1, c2}
    Pids = {p1, p2}
    NoPid = NoPid
    MaxCalls = 3
    Syncs = {s1, s2}
    Nobody = Nobody
    MaxSyncs = 4
    Requests = {r1}
    Collections = {k1, k2}
    Relevant = {k1, k2}
    Fabricated = fabricated
    Unscoped = Unscoped
    MaxSearches = 2
    MaxChanges = 1
    Words <- MCWords
    Names = {"a", "b", "c"}
    TagsOf <- MCTagsOf
    MaxWords = 4
    Tokens <- MCTokens
    MaxTokens = 4
    Documents = {d1, d2}
    TopN = 2
    Everything = Everything
    MaxRows = 3
    MaxFiles = 1
CHECK_DEADLOCK FALSE
INVARIANTS
    DaemonTracked
    SyncExclusive
    AnswersAreFounded
    FiltersMeanWhatTheySay
    TailsAreKept
PROPERTIES
    TrackedUntilGone
    CommandsEnd
