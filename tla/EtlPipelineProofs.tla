--------------------------- MODULE EtlPipelineProofs ---------------------------
(* The sync pipeline, for any number of documents, versions, runs and crashes. *)
EXTENDS EtlPipeline, TLAPS

EtlSpec == EtlInit /\ [][EtlNext]_etlVars

Steps == {"none", "scrape", "normalize", "write", "commit", "hooks", "register"}

EtlTypes ==
    /\ upstream \in [Docs -> Nat] /\ wikiDoc \in [Docs -> Nat] /\ headDoc \in [Docs -> Nat]
    /\ manifest \in [Docs -> Nat] /\ known \in [Docs -> Nat]
    /\ batch \in SUBSET (Docs \X Nat)
    /\ catalogued \in SUBSET Docs /\ written \in SUBSET Docs /\ missed \in SUBSET Docs
    /\ skipped \in SUBSET Docs /\ marred \in SUBSET Docs
    /\ at \in Steps /\ state \in {"idle", "scraping", "normalizing", "writing", "registering", "failed"}

\* Nothing is newer than what the source serves, and a run's batch has one
\* version of a document, no older than the run's own copy of the manifest.
Newer ==
    /\ \A d \in Docs : manifest[d] <= known[d] /\ known[d] <= upstream[d]
    /\ \A d \in Docs : wikiDoc[d] <= upstream[d] /\ headDoc[d] <= upstream[d] /\ upstream[d] # 0
    /\ \A b \in batch : b[2] # 0 /\ known[b[1]] <= b[2] /\ b[2] <= upstream[b[1]]
    /\ \A b, c \in batch : b[1] = c[1] => b = c

\* Version v of document d is absent, on disk, or older than what the source has.
Settled(d, v) == v = 0 \/ wikiDoc[d] = v \/ v < upstream[d]

\* The manifest and the run's copy of it.
OnDisk == \A d \in Docs \ marred : Settled(d, manifest[d]) /\ Settled(d, known[d])

\* What the run has written, seen from the step it is at.
WrittenSoFar ==
    /\ at \in {"scrape", "normalize"} => written = {}
    /\ at = "write" => \A b \in batch : b[1] \notin written
    /\ at \in {"scrape", "normalize", "write"} =>
          \A d \in Docs : IF d \in written THEN known[d] = wikiDoc[d] /\ known[d] # 0
                          ELSE known[d] = manifest[d]
    /\ at \in {"commit", "hooks"} => \A d \in written : manifest[d] = wikiDoc[d] /\ wikiDoc[d] # 0
    /\ at = "hooks" => \A d \in written : headDoc[d] = wikiDoc[d]

\* What the manifest knows is in HEAD, but for the documents of a commit that
\* is about to be made, or was not.
InHead ==
    \A d \in Docs : manifest[d] # 0 /\ d \notin missed /\ ~(at = "commit" /\ d \in written)
                       => headDoc[d] = manifest[d]

EtlInv == EtlTypes /\ Newer /\ OnDisk /\ WrittenSoFar /\ InHead /\ RowsAreCommitted

LEMMA EtlInductive == EtlSpec => []EtlInv
<1>1. EtlInit => EtlInv
  BY DEF EtlInit, EtlInv, EtlTypes, Steps, Newer, OnDisk, Settled, WrittenSoFar, InHead,
         RowsAreCommitted
<1>2. EtlInv /\ [EtlNext]_etlVars => EtlInv'
  <2> SUFFICES ASSUME EtlInv, [EtlNext]_etlVars PROVE EtlInv'
    OBVIOUS
  <2> USE DEF EtlInv, EtlTypes, Steps, Newer, OnDisk, Settled, WrittenSoFar, InHead,
             RowsAreCommitted, disk, local
  <2>1. CASE StartEtl
    BY <2>1 DEF StartEtl
  <2>2. CASE Scrapes
    BY <2>2 DEF Scrapes, Fails, FlushCut
  <2>3. CASE Normalizes
    BY <2>3 DEF Normalizes
  <2>4. CASE Writes
    <3>1. PICK doc \in batch :
            /\ batch' = batch \ {doc}
            /\ \/ UNCHANGED <<wikiDoc, known, written, marred>>
               \/ /\ wikiDoc' = [wikiDoc EXCEPT ![doc[1]] = doc[2]]
                  /\ known' = [known EXCEPT ![doc[1]] = doc[2]]
                  /\ written' = written \cup {doc[1]} /\ marred' = marred \ {doc[1]}
               \/ /\ wikiDoc' = [wikiDoc EXCEPT ![doc[1]] = 0]
                  /\ marred' = IF known[doc[1]] = doc[2] THEN marred \cup {doc[1]} ELSE marred
                  /\ UNCHANGED <<known, written>>
      BY <2>4 DEF Writes
    <3>2. /\ at = "write"
          /\ UNCHANGED <<upstream, headDoc, catalogued, manifest, at, state, missed>>
          /\ skipped' \in SUBSET Docs
      BY <2>4 DEF Writes
    <3>3. /\ doc[1] \in Docs /\ doc[2] \in Nat
          /\ known[doc[1]] <= doc[2] /\ doc[2] <= upstream[doc[1]] /\ doc[2] # 0 /\ doc[1] \notin written
      BY <3>1, <3>2
    <3>4. EtlTypes'
      BY <3>1, <3>2, <3>3
    <3>5. Newer'
      BY <3>1, <3>2, <3>3
    <3>6. OnDisk'
      BY <3>1, <3>2, <3>3
    <3>7. WrittenSoFar'
      BY <3>1, <3>2, <3>3
    <3>8. InHead' /\ RowsAreCommitted'
      BY <3>1, <3>2, <3>3
    <3>9. QED
      BY <3>4, <3>5, <3>6, <3>7, <3>8
  <2>5. CASE Flushes
    BY <2>5 DEF Flushes, Fails, FlushCut
  <2>6. CASE CommitsDocs
    BY <2>6 DEF CommitsDocs, Fails
  <2>7. CASE PostCommitHooks
    BY <2>7 DEF PostCommitHooks
  <2>8. CASE Registers
    BY <2>8 DEF Registers
  <2>9. CASE EtlDies
    BY <2>9 DEF EtlDies
  <2>10. ASSUME NEW d \in Docs, NewVersion(d) PROVE EtlInv'
    BY <2>10 DEF NewVersion
  <2>11. CASE UNCHANGED etlVars
    BY <2>11 DEF etlVars
  <2>12. QED
    BY <2>1, <2>2, <2>3, <2>4, <2>5, <2>6, <2>7, <2>8, <2>9, <2>10, <2>11 DEF EtlNext
<1>3. QED
  BY <1>1, <1>2, PTL DEF EtlSpec

\* A document the next run would skip as unchanged is on disk with that content,
\* whichever step a run failed or died at and whatever file it cut short
\* (run_write, HashManifest), but for one that a forced run was rewriting unchanged.
THEOREM ManifestIsOnDisk == EtlSpec => []SkippedIsOnDisk
<1>1. EtlInv => SkippedIsOnDisk
  BY DEF EtlInv, EtlTypes, OnDisk, Settled, SkippedIsOnDisk
<1>2. QED
  BY <1>1, EtlInductive, PTL

\* Between runs, what the manifest lets the next run skip is committed, unless
\* its own commit failed or was cut short (the manifest is saved before it).
THEOREM ManifestIsCommitted == EtlSpec => []KnownIsCommitted
<1>1. EtlInv => KnownIsCommitted
  BY DEF EtlInv, InHead, KnownIsCommitted
<1>2. QED
  BY <1>1, EtlInductive, PTL

\* A document has a catalog row only once a commit held it (_bulk_update_catalog
\* runs after atomic_commit).
THEOREM RowsHaveCommits == EtlSpec => []RowsAreCommitted
<1>1. EtlInv => RowsAreCommitted
  BY DEF EtlInv
<1>2. QED
  BY <1>1, EtlInductive, PTL

\* Every value is one the pipeline can hold.
THEOREM EtlTypesHold == ASSUME MaxDoc \in Nat \ {0} PROVE EtlSpec => []EtlTypeOK
<1>1. EtlInit => \A d \in Docs : upstream[d] <= MaxDoc
  BY DEF EtlInit
<1>2. (\A d \in Docs : upstream[d] <= MaxDoc) /\ EtlTypes /\ [EtlNext]_etlVars
         => (\A d \in Docs : upstream[d] <= MaxDoc)'
  <2> SUFFICES ASSUME \A d \in Docs : upstream[d] <= MaxDoc, EtlTypes, [EtlNext]_etlVars
               PROVE  \A d \in Docs : upstream'[d] <= MaxDoc
    OBVIOUS
  <2>1. ASSUME NEW d \in Docs, NewVersion(d) PROVE \A e \in Docs : upstream'[e] <= MaxDoc
    BY <2>1 DEF NewVersion, EtlTypes
  <2>2. (~\E d \in Docs : NewVersion(d)) => UNCHANGED upstream
    BY DEF EtlNext, StartEtl, Scrapes, Normalizes, Writes, Flushes, CommitsDocs, PostCommitHooks,
           Registers, EtlDies, etlVars
  <2>3. QED
    BY <2>1, <2>2
<1>3. EtlInv /\ (\A d \in Docs : upstream[d] <= MaxDoc) => EtlTypeOK
  <2> SUFFICES ASSUME EtlInv, \A d \in Docs : upstream[d] <= MaxDoc PROVE EtlTypeOK
    OBVIOUS
  <2> USE DEF EtlInv, EtlTypes, Newer
  <2>1. \A d \in Docs : wikiDoc[d] \in 0 .. MaxDoc /\ headDoc[d] \in 0 .. MaxDoc
                        /\ manifest[d] \in 0 .. MaxDoc /\ known[d] \in 0 .. MaxDoc
    OBVIOUS
  <2>2. \A b \in batch : b[1] \in Docs /\ b[2] \in 1 .. MaxDoc /\ b = <<b[1], b[2]>>
    OBVIOUS
  <2>3. /\ wikiDoc \in [Docs -> 0 .. MaxDoc] /\ headDoc \in [Docs -> 0 .. MaxDoc]
        /\ manifest \in [Docs -> 0 .. MaxDoc] /\ known \in [Docs -> 0 .. MaxDoc]
    BY <2>1
  <2>4. batch \subseteq Docs \X (1 .. MaxDoc)
    BY <2>2
  <2>5. QED
    BY <2>3, <2>4 DEF EtlTypeOK
<1>4. EtlInv => EtlTypes
  BY DEF EtlInv
<1>5. QED
  BY <1>1, <1>2, <1>3, <1>4, EtlInductive, PTL DEF EtlSpec
=============================================================================
