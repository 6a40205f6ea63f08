------------------------------ MODULE EtlPipeline ------------------------------
(* SyncOrchestrator: scrape, normalize, write and register one collection of  *)
(* a wiki.  The write stage skips what the hash manifest knows, and flushes   *)
(* the manifest before it commits.  etl/pipeline.py, etl/stages/*.py,         *)
(* wiki/hash_manifest.py.  A document's content is its version; 0 is absence, *)
(* or a file cut short.  The source never serves an earlier content again.     *)
EXTENDS Naturals, FiniteSets

CONSTANTS
    Docs,
    MaxDoc,      \* versions of a document
    MaxEtlRuns

VARIABLES
    upstream,    \* what the source serves
    wikiDoc, headDoc,   \* the wiki's working tree and HEAD
    catalogued,  \* documents with a catalog row
    manifest,    \* the hash manifest on disk
    known,       \* the run's copy of it
    state,       \* PipelineState
    at,          \* step within the write stage
    batch,       \* documents normalized and not yet considered
    written, skipped,
    registered,
    missed,      \* documents whose commit failed after the manifest was flushed
    marred,      \* known documents that a forced run rewrote, and cut short
    etlResult, etlRuns

etlVars == <<upstream, wikiDoc, headDoc, catalogued, manifest, known, state, at, batch, written,
             skipped, registered, missed, marred, etlResult, etlRuns>>
disk == <<wikiDoc, headDoc, catalogued, manifest>>
local == <<known, batch, written, skipped>>

EtlInit ==
    /\ upstream = [d \in Docs |-> 1]
    /\ wikiDoc = [d \in Docs |-> 0] /\ headDoc = wikiDoc /\ manifest = wikiDoc /\ known = wikiDoc
    /\ catalogued = {} /\ registered = FALSE /\ missed = {} /\ marred = {}
    /\ state = "idle" /\ at = "none" /\ batch = {} /\ written = {} /\ skipped = {}
    /\ etlResult = "none" /\ etlRuns = 0

\* Every exception ends in FAILED; BudgetExceeded leaves the state where it was.
Fails(how) == /\ state' = (IF how = "budget" THEN state ELSE "failed")
              /\ etlResult' = how /\ at' = "none"

\* The manifest is written in place: cut short, it is no JSON and reads as empty.
FlushCut == manifest' \in {manifest, [d \in Docs |-> 0]}

StartEtl ==
    /\ at = "none" /\ etlRuns < MaxEtlRuns /\ etlRuns' = etlRuns + 1
    /\ known' = manifest /\ state' = "scraping" /\ at' = "scrape" /\ etlResult' = "none"
    /\ batch' = {} /\ written' = {} /\ skipped' = {}
    /\ UNCHANGED <<upstream, disk, registered, missed, marred>>

\* The scraper answers in whole, or fails; over budget, the manifest just loaded
\* is written back.
Scrapes ==
    /\ at = "scrape"
    /\ \/ Fails("error") /\ UNCHANGED <<batch, manifest>>
       \/ Fails("budget") /\ FlushCut /\ UNCHANGED batch
       \/ /\ batch' = {<<d, upstream[d]>> : d \in Docs}
          /\ state' = "normalizing" /\ at' = "normalize" /\ UNCHANGED <<etlResult, manifest>>
    /\ UNCHANGED <<upstream, wikiDoc, headDoc, catalogued, known, written, skipped, registered, missed,
                   marred, etlRuns>>

\* A document that cannot be built or converted is quarantined, whatever the
\* reason.
Normalizes ==
    /\ at = "normalize"
    /\ batch' \in SUBSET batch
    /\ state' = "writing" /\ at' = "write"
    /\ UNCHANGED <<upstream, disk, known, written, skipped, registered, missed, marred, etlResult, etlRuns>>

\* run_write, a document: known and unchanged ones are skipped unless the run is
\* forced; one that cannot be written is quarantined, or ends the run's process,
\* untouched or cut short: open("w") empties the file first.
Writes ==
    /\ at = "write" /\ batch # {}
    /\ \E doc \in batch :
          LET d == doc[1]
          IN /\ batch' = batch \ {doc}
             /\ \/ known[d] = doc[2] /\ skipped' = skipped \cup {d}
                   /\ UNCHANGED <<wikiDoc, known, written, marred>>
                \/ /\ wikiDoc' = [wikiDoc EXCEPT ![d] = doc[2]]
                   /\ known' = [known EXCEPT ![d] = doc[2]]
                   /\ written' = written \cup {d} /\ marred' = marred \ {d}
                   /\ UNCHANGED skipped
                \/ /\ wikiDoc' = [wikiDoc EXCEPT ![d] = 0]
                   /\ marred' = IF known[d] = doc[2] THEN marred \cup {d} ELSE marred
                   /\ UNCHANGED <<known, written, skipped>>
                \/ UNCHANGED <<wikiDoc, known, written, skipped, marred>>
    /\ UNCHANGED <<upstream, headDoc, catalogued, manifest, state, at, registered, missed, etlResult, etlRuns>>

\* Nothing written: straight to the registration.
Flushes ==
    /\ at = "write" /\ batch = {}
    /\ \/ /\ written = {} /\ at' = "register" /\ state' = "registering"
          /\ UNCHANGED <<manifest, etlResult>>
       \/ written # {} /\ manifest' = known /\ at' = "commit" /\ UNCHANGED <<state, etlResult>>
       \/ written # {} /\ FlushCut /\ Fails("error")
    /\ UNCHANGED <<upstream, wikiDoc, headDoc, catalogued, local, registered, missed, marred, etlRuns>>

\* Mutant: the catalog is updated whether the commit worked or not.
CommitsAnyway ==
    /\ at = "commit"
    /\ \/ headDoc' = [d \in Docs |-> IF d \in written THEN wikiDoc[d] ELSE headDoc[d]] /\ UNCHANGED missed
       \/ missed' = missed \cup written /\ UNCHANGED headDoc
    /\ at' = "hooks"
    /\ UNCHANGED <<upstream, wikiDoc, catalogued, manifest, local, state, registered, marred, etlResult, etlRuns>>

\* atomic_commit: a failure leaves documents that the manifest knows and HEAD
\* does not have, unless it is the rev-parse after the commit; a diff that turns
\* out empty needs no hooks.
CommitsDocs ==
    /\ at = "commit"
    /\ \/ Fails("error") /\ missed' = missed \cup written /\ UNCHANGED headDoc
       \/ /\ headDoc' = [d \in Docs |-> IF d \in written THEN wikiDoc[d] ELSE headDoc[d]]
          /\ missed' = missed \ written
          /\ \/ /\ headDoc' = headDoc /\ at' = "register" /\ state' = "registering"
                /\ UNCHANGED etlResult
             \/ headDoc' # headDoc /\ at' = "hooks" /\ UNCHANGED <<state, etlResult>>
             \/ headDoc' # headDoc /\ Fails("error")
    /\ UNCHANGED <<upstream, wikiDoc, catalogued, manifest, local, registered, marred, etlRuns>>

\* qmd's registration, update and embedding may fail; then the catalog, whose
\* failure is a warning too.
PostCommitHooks ==
    /\ at = "hooks"
    /\ \/ catalogued' = catalogued \cup written \/ UNCHANGED catalogued
    /\ at' = "register" /\ state' = "registering"
    /\ UNCHANGED <<upstream, wikiDoc, headDoc, manifest, local, registered, missed, marred, etlResult, etlRuns>>

\* A collection with nothing written or skipped is not registered; a failing
\* registration is only counted.
Registers ==
    /\ at = "register"
    /\ \/ registered' = (registered \/ written \cup skipped # {})
       \/ UNCHANGED registered
    /\ state' = "idle" /\ at' = "none" /\ etlResult' = "ok"
    /\ UNCHANGED <<upstream, disk, local, missed, marred, etlRuns>>

EtlDies ==
    /\ at # "none" /\ at' = "none" /\ state' = "idle" /\ etlResult' = "died"
    /\ missed' = missed \cup (IF at = "commit" THEN written ELSE {})
    /\ UNCHANGED <<upstream, disk, local, registered, marred, etlRuns>>

NewVersion(d) ==
    /\ upstream[d] < MaxDoc /\ upstream' = [upstream EXCEPT ![d] = @ + 1]
    /\ UNCHANGED <<disk, local, state, at, registered, missed, marred, etlResult, etlRuns>>

EtlNext ==
    \/ StartEtl \/ Scrapes \/ Normalizes \/ Writes \/ Flushes \/ CommitsDocs \/ PostCommitHooks \/ Registers
    \/ EtlDies
    \/ \E d \in Docs : NewVersion(d)

EtlTypeOK ==
    /\ {wikiDoc, headDoc, manifest, known} \subseteq [Docs -> 0 .. MaxDoc]
    /\ batch \subseteq Docs \X (1 .. MaxDoc) /\ catalogued \cup written \cup skipped \cup missed \cup marred \subseteq Docs
    /\ state \in {"idle", "scraping", "normalizing", "writing", "registering", "failed"}

\* A document the next run would skip as unchanged is on disk with that content,
\* whichever step a run failed or died at, whatever file it left cut short and
\* however many documents were quarantined - but for one that a forced run was
\* rewriting, unchanged, when it was cut short.
SkippedIsOnDisk ==
    \A d \in Docs \ marred : manifest[d] # 0 /\ manifest[d] = upstream[d] => wikiDoc[d] = manifest[d]

\* Between runs, what the manifest lets the next run skip is committed, but for
\* documents whose own commit failed or was cut short (the manifest is flushed
\* before it): nothing else makes a document stay out of the history for good.
KnownIsCommitted ==
    \A d \in Docs : manifest[d] # 0 /\ at = "none" /\ d \notin missed => headDoc[d] = manifest[d]

\* A document has a catalog row only once a commit holds it: a failed commit
\* leaves no row behind (_bulk_update_catalog runs after the commit).
RowsAreCommitted == \A d \in catalogued : headDoc[d] # 0
=============================================================================
