SPECIFICATION MCSpec
CONSTANTS
    Parts = {"ingest"}
    Ingests = {"i1", "i2"}
    Mirrors = {"p", "q"}
    Claims <- EachItsOwn
    MaxVersion = 1
    MaxIngests = 2
    MaxHands = 0
    WikiOrder <- MCWikiOrder
    CollOf <- MCCollOf
    StemOf <- MCStemOf
    Texts = {"t1", "t2"}
    MaxMigrations = 2
    MaxWikiEdits = 2
    Collections = {c1, c2}
    Tags = {tag}
    Sources = {url}
    Placeholder = placeholder
    Kept = {c1}
    Yamls <- MCYamls
    MaxClock = 4
    Docs = {d1, d2}
    MaxDoc = 2
    MaxEtlRuns = 2
    Services = {v1, v2}
    Colls = {a, b}
    MaxServices = 3
    MaxLapses = 2
    MaxCommits = 3
    MaxRewrites = 2
    Registrars = {r1, r2}
    MaxRegistrars = 3
CHECK_DEADLOCK FALSE
INVARIANTS
    RowsFollowCommit
