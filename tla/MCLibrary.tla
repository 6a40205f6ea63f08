------------------------------- MODULE MCLibrary -------------------------------
(* What LIES keeps on disk: the library (ingest, the migration of wiki pages, *)
(* the collection configs) and the wiki's own stores (the ETL pipeline, the   *)
(* registry of collections, the receipts, the qmd sentinel).  `part` picks    *)
(* the one a behaviour runs.                                                  *)
EXTENDS Ingest, Sequences

CONSTANTS
    Parts,
    WikiOrder, CollOf, StemOf, Texts, MaxMigrations, MaxWikiEdits,
    Collections, Tags, Sources, Placeholder, Kept, Yamls, MaxClock,
    Docs, MaxDoc, MaxEtlRuns,
    Services, Colls, MaxServices, MaxLapses,
    MaxCommits, MaxRewrites,
    Registrars, MaxRegistrars

ASSUME LibraryAssumption ==
    /\ WikiOrder \in Seq(DOMAIN CollOf)
    /\ MaxDoc \in Nat \ {0}
    /\ Kept \subseteq Collections
    /\ Yamls \subseteq [stem : Collections, name : Collections, source : Sources, tags : SUBSET Tags,
                       words : BOOLEAN]

VARIABLES
    part,
    wikiText, library, libraryHead, rows, backup, mpc, moves, dups, planned, moved, held, overwritten,
    displaced, unsaved, migrations, wikiEdits,
    config, stamp, drafts, dirs, rootStamp, clock, commands, loaded, cache, looking, seen, late,
    yamls, phase, force, parsed, saved, yaml, touched,
    upstream, wikiDoc, headDoc, catalogued, manifest, known, state, at, batch, written, skipped,
    registered, missed, marred, etlResult, etlRuns,
    inRegistry, configured, rpc, copy, view, staged, kept, services, lapses,
    history, lines, appending, rewrite, from, excused, rewrites,
    sentinel, temporary, inQmd, lost, wpc, inInit, answer, registrars

M == INSTANCE Migration
C == INSTANCE CollectionConfigs
E == INSTANCE EtlPipeline
G == INSTANCE Registrations
T == INSTANCE Receipts
W == INSTANCE WikiLayout

migration == <<wikiText, library, libraryHead, rows, backup, mpc, moves, dups, planned, moved,
               held, overwritten, displaced, unsaved, migrations, wikiEdits>>
configs == <<config, stamp, drafts, dirs, rootStamp, clock, commands, loaded, cache, looking, seen, late,
             yamls, phase, force, parsed, saved, yaml, touched>>
etl == <<upstream, wikiDoc, headDoc, catalogued, manifest, known, state, at, batch, written, skipped,
         registered, missed, marred, etlResult, etlRuns>>
registry == <<inRegistry, configured, rpc, copy, view, staged, kept, services, lapses>>
receipts == <<history, lines, appending, rewrite, from, excused, rewrites>>
layout == <<sentinel, temporary, inQmd, lost, wpc, inInit, answer, registrars>>
allVars == <<part, ingestVars, migration, configs, etl, registry, receipts, layout>>

\* The parts that do not run stand still in one initial state.
MCInit ==
    /\ part \in Parts
    /\ IngestInit /\ M!MigrationInit /\ C!ConfigInit /\ E!EtlInit /\ G!RegistryInit /\ T!ReceiptInit
    /\ W!LayoutInit
    /\ part # "migration" => /\ wikiText = [f \in DOMAIN wikiText |-> CHOOSE t \in Texts : TRUE]
                             /\ library = backup
    /\ part # "configs" => yamls = {}

MCNext ==
    \/ part = "ingest" /\ IngestNext
       /\ UNCHANGED <<part, migration, configs, etl, registry, receipts, layout>>
    \/ part = "migration" /\ M!MigrationNext
       /\ UNCHANGED <<part, ingestVars, configs, etl, registry, receipts, layout>>
    \/ part = "configs" /\ C!ConfigNext
       /\ UNCHANGED <<part, ingestVars, migration, etl, registry, receipts, layout>>
    \/ part = "etl" /\ E!EtlNext
       /\ UNCHANGED <<part, ingestVars, migration, configs, registry, receipts, layout>>
    \/ part = "registry" /\ G!RegistryNext
       /\ UNCHANGED <<part, ingestVars, migration, configs, etl, receipts, layout>>
    \/ part = "receipts" /\ T!ReceiptNext
       /\ UNCHANGED <<part, ingestVars, migration, configs, etl, registry, layout>>
    \/ part = "layout" /\ W!LayoutNext
       /\ UNCHANGED <<part, ingestVars, migration, configs, etl, registry, receipts>>

MCSpec == MCInit /\ [][MCNext]_allVars

\* What a run of the library reports, or a migration takes away, is not lost: the
\* pages of a run that passed its commit point are in a commit, and every text the
\* wiki held is in the wiki or in the backup, but for the two losses TextSurvives
\* names and what an editor overwrote (library/ingest.py, migrate.py).
TextIsDurable ==
    IngestTypeOK /\ EndsDurable /\ M!MigrationTypeOK /\ M!TextSurvives

\* What the ETL manifest lets the next sync skip is on disk and - but for failed
\* or interrupted commits - in the history, and a row follows its commit
\* (etl/pipeline.py).
PipelineIsDurable ==
    E!EtlTypeOK /\ E!SkippedIsOnDisk /\ E!KnownIsCommitted /\ E!RowsAreCommitted

\* The registry keeps every registration that was saved, but one that another
\* service's save, of an older reading, replaced (wiki/registry.py).
RegistryKeeps == C!ConfigTypeOK /\ G!RegistryTypeOK /\ G!RegistrationsKept

\* The receipts list every commit of a plan, but for the losses ReceiptsComplete
\* names (memory/sidecar.py).
ReceiptsMirror == T!ReceiptTypeOK /\ T!ReceiptsComplete

\* The sentinel means that qmd knows the wiki (wiki/layout.py).
SentinelHolds == W!LayoutTypeOK /\ W!SentinelMeansRegistered

\* Nothing is replaced behind its owner's back: a mirror, by an ingest without
\* --force that saw it; a tag, by a cache that is out of date; a wiki's YAML, by
\* nothing.  Each property names what it does not cover; the migration of wiki
\* pages is outside it, and replaces a mirror that differs without asking.
NothingReplaced ==
    KeptUnlessForced /\ C!NoTagMissing /\ C!YamlSurvives

-------------------------------------------------------------------------------
\* Values of the constants.
f1 == "f1"
f2 == "f2"
f3 == "f3"
MCWikiOrder == <<f1, f2, f3>>
MCCollOf == [f \in {f1, f2, f3} |-> IF f = f3 THEN "y" ELSE "x"]
MCStemOf == [f \in {f1, f2, f3} |-> IF f = f3 THEN "t" ELSE "s"]
AllPages == [i \in Ingests |-> Mirrors]
EachItsOwn == [i \in Ingests |-> IF i = "i1" THEN {"p"} ELSE {"q"}]
\* Files that name the same collection; the stem of one is another.
MCYamls == {[stem |-> c, name |-> n, source |-> s, tags |-> IF c = n THEN Tags ELSE {}, words |-> TRUE] :
               c \in Collections, n \in Kept, s \in Sources}
=============================================================================
