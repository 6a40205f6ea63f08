SPECIFICATION MCSpec
CONSTANTS
    Parts = {"ingest", "migration", "configs", "etl", "registry", "receipts", "layout"}
    Ingests = {"i1"}
    Mirrors = {"p", "q"}
    Claims <- AllPages
    MaxVersion = 2
    MaxIngests = 3
    MaxHands = 1
    WikiOrder <- MCWikiOrder
    CollOf <- MCCollOf
    StemOf <- MCStemOf
    Texts = {"t1", "t2"}
    MaxMigrations = 2
    MaxWikiEdits = 2
    Collections = {c1, c2}
    Tags = {tag}
    Sources = {url}
    Placeholder = placeholder
    Kept = {c1}
    Yamls <- MCYamls
    MaxClock = 4
    Docs = {d1, d2}
    MaxDoc = 2
    MaxEtlRuns = 2
    Services = {v1, v2}
    Colls = {a, b}
    MaxServices = 3
    MaxLapses = 2
    MaxCommits = 3
    MaxRewrites = 2
    Registrars = {r1, r2}
    MaxRegistrars = 3
CHECK_DEADLOCK FALSE
INVARIANTS
    RowsFollowCommit
    TextIsDurable
    PipelineIsDurable
    RegistryKeeps
    ReceiptsMirror
    SentinelHolds
PROPERTIES
    NothingReplaced
