----------------------------- MODULE LibraryProofs -----------------------------
(* The stores of the library and the wiki, for any values of their constants: *)
(* each store's inductive invariant, and what MCLibrary states of them all.   *)
(* The invariants of the ingest and of the ETL pipeline have modules of their *)
(* own.                                                                       *)
EXTENDS MCLibrary, IngestProofs, FiniteSetTheorems, SequenceTheorems

EP == INSTANCE EtlPipelineProofs

-------------------------------------------------------------------------------
(* Numbers and lists *)

\* A set of naturals that is not empty has a least member.
LEMMA LeastNatural ==
    ASSUME NEW S \in SUBSET Nat, S # {}
    PROVE  \E m \in S : \A n \in S : m <= n
<1> DEFINE Segments == {0 .. n : n \in S}
<1>1. Segments \subseteq FiniteSubsetsOf(Nat) /\ Segments # {}
  <2>1. \A n \in S : IsFiniteSet(0 .. n) /\ 0 .. n \in SUBSET Nat
    BY FS_Interval
  <2>2. \A n \in S : 0 .. n \in FiniteSubsetsOf(Nat)
    BY <2>1 DEF FiniteSubsetsOf
  <2>3. PICK n \in S : TRUE
    OBVIOUS
  <2>4. 0 .. n \in Segments
    BY <2>3
  <2>5. QED
    BY <2>2, <2>4
<1>2. PICK x \in Segments : \A y \in Segments : ~(<<y, x>> \in StrictSubsetOrdering(Nat))
  <2> HIDE DEF Segments
  <2>1. QED
    BY <1>1, FS_StrictSubsetOrderingWellFounded, WFMin
<1>3. PICK m \in S : x = 0 .. m
  OBVIOUS
<1>4. ASSUME NEW n \in S, n < m PROVE FALSE
  <2>1. 0 .. n \in Segments /\ 0 .. n \subseteq 0 .. m /\ m \notin 0 .. n
    BY <1>4
  <2>2. <<0 .. n, 0 .. m>> \in StrictSubsetOrdering(Nat)
    BY <2>1 DEF StrictSubsetOrdering
  <2>3. QED
    BY <1>2, <1>3, <2>1, <2>2
<1>5. QED
  BY <1>4

\* One that is bounded has a greatest.
LEMMA GreatestNatural ==
    ASSUME NEW S \in SUBSET Nat, S # {}, NEW b \in Nat, \A n \in S : n <= b
    PROVE  \E m \in S : \A n \in S : n <= m
<1> DEFINE Below == {b - n : n \in S}
<1>1. Below \in SUBSET Nat /\ Below # {}
  <2>1. \A n \in S : b - n \in Nat
    OBVIOUS
  <2>2. PICK n \in S : TRUE
    OBVIOUS
  <2>3. b - n \in Below
    BY <2>2
  <2>4. QED
    BY <2>1, <2>3
<1>2. PICK k \in Below : \A n \in Below : k <= n
  BY <1>1, LeastNatural
<1>3. PICK m \in S : k = b - m
  OBVIOUS
<1>4. \A n \in S : b - m <= b - n
  BY <1>2, <1>3
<1>5. QED
  BY <1>4

-------------------------------------------------------------------------------
(* The migration of wiki pages *)

\* One file of a set comes first in the walk.
LEMMA FirstIsOne ==
    ASSUME NEW files \in SUBSET M!WikiFiles, NEW f, NEW g, M!First(f, files), M!First(g, files)
    PROVE  f = g
<1> USE LibraryAssumption
<1>1. f \in M!WikiFiles /\ g \in M!WikiFiles
  BY DEF M!First
<1>2. \A h \in M!WikiFiles : M!Position(h) \in DOMAIN WikiOrder /\ WikiOrder[M!Position(h)] = h
  BY DEF M!Position, M!WikiFiles, M!Range
<1>3. M!Position(f) \in Nat /\ M!Position(g) \in Nat
  BY <1>1, <1>2
<1>4. M!Position(f) <= M!Position(g) /\ M!Position(g) <= M!Position(f)
  BY DEF M!First
<1>5. M!Position(f) = M!Position(g)
  BY <1>3, <1>4
<1>6. QED
  BY <1>1, <1>2, <1>5

\* The duplicate that is about to be removed is in the backup, unless an editor
\* saved it since.
MigrationInv ==
    /\ M!MigrationTypeOK /\ M!TextSurvives
    /\ mpc = "drop" => \A f \in dups : M!First(f, dups) =>
                          backup[M!Slot(f)] = wikiText[f] \/ wikiText[f] \in unsaved

LEMMA MigrationStart == M!MigrationInit => MigrationInv
<1> SUFFICES ASSUME M!MigrationInit PROVE MigrationInv
  OBVIOUS
<1>1. M!MigrationTypeOK
  BY DEF M!MigrationInit, M!MigrationTypeOK, M!Range
<1>2. M!TextSurvives
  BY DEF M!MigrationInit, M!TextSurvives, M!Somewhere
<1>3. mpc # "drop"
  BY DEF M!MigrationInit
<1>4. QED
  BY <1>1, <1>2, <1>3 DEF MigrationInv

LEMMA MigrationStep == MigrationInv /\ [M!MigrationNext]_(M!migrationVars) => MigrationInv'
<1> SUFFICES ASSUME MigrationInv, [M!MigrationNext]_(M!migrationVars) PROVE MigrationInv'
  OBVIOUS
<1> USE DEF MigrationInv, M!MigrationTypeOK, M!TextSurvives, M!Somewhere, M!Range, M!outside
<1>0. \A f \in M!WikiFiles : M!Slot(f) \in M!Slots
  BY DEF M!Slots
<1>1. CASE M!PlanMigration
  <2>1. moves' \subseteq M!WikiFiles /\ dups' \subseteq M!WikiFiles /\ planned' = {M!Slot(f) : f \in moves'}
        /\ moved' = {} /\ mpc' = "move"
    BY <1>1 DEF M!PlanMigration
  <2>2. UNCHANGED <<wikiText, library, libraryHead, rows, backup, held, overwritten, displaced, unsaved>>
    BY <1>1 DEF M!PlanMigration
  <2>3. planned' \subseteq M!Slots
    BY <1>0, <2>1
  <2>4. QED
    BY <2>1, <2>2, <2>3
<1>2. CASE M!Move
  <2>1. PICK f \in moves :
          /\ moves' = moves \ {f}
          /\ \/ UNCHANGED <<library, moved>>
             \/ library' = [library EXCEPT ![M!Slot(f)] = wikiText[f]] /\ moved' = moved \cup {M!Slot(f)}
    BY <1>2 DEF M!Move
  <2>2. /\ UNCHANGED <<wikiText, libraryHead, rows, backup, dups, planned, held, overwritten, displaced, unsaved>>
        /\ mpc' = mpc /\ mpc = "move"
    BY <1>2 DEF M!Move
  <2>3. M!Slot(f) \in M!Slots /\ wikiText[f] \in Texts \cup {M!Missing}
    BY <1>0, <2>1
  <2>4. library' \in [M!Slots -> Texts \cup {M!Missing, M!Ingested}] /\ moved' \subseteq M!Slots
    BY <2>1, <2>3
  <2>5. QED
    BY <2>1, <2>2, <2>4
<1>3. CASE M!SetAside
  <2>1. PICK f \in dups, how \in {"whole", M!Cut} :
          /\ M!First(f, dups)
          /\ backup' = [backup EXCEPT ![M!Slot(f)] = IF how = M!Cut THEN M!Cut ELSE wikiText[f]]
          /\ displaced' = displaced \cup ({backup[M!Slot(f)]} \ M!Somewhere')
          /\ mpc' = IF how = M!Cut THEN "done" ELSE "drop"
    BY <1>3 DEF M!SetAside
  <2>2. UNCHANGED <<wikiText, library, libraryHead, rows, moves, dups, planned, moved, held, overwritten, unsaved>>
    BY <1>3 DEF M!SetAside
  <2>3. M!Slot(f) \in M!Slots /\ wikiText[f] \in Texts \cup {M!Missing}
    BY <1>0, <2>1
  <2>4. backup' \in [M!Slots -> Texts \cup {M!Missing, M!Cut}]
    BY <2>1, <2>3
  <2>5. M!MigrationTypeOK'
    BY <2>2, <2>4
  <2>6. \A s \in M!Slots : backup[s] \in {backup'[s], backup[M!Slot(f)]}
    BY <2>1
  <2>7. M!TextSurvives'
    <3>1. M!Somewhere \subseteq M!Somewhere' \cup {backup[M!Slot(f)]}
      BY <2>2, <2>4, <2>6
    <3> HIDE DEF M!Somewhere
    <3>2. QED
      BY <2>1, <2>2, <3>1
  <2>8. mpc' = "drop" => \A g \in dups' : M!First(g, dups)' =>
                            backup'[M!Slot(g)] = wikiText'[g] \/ wikiText'[g] \in unsaved'
    <3> SUFFICES ASSUME mpc' = "drop", NEW g \in dups', M!First(g, dups)' PROVE backup'[M!Slot(g)] = wikiText'[g]
      OBVIOUS
    <3>1. M!First(g, dups)
      BY <2>2 DEF M!First, M!Position
    <3>2. g = f
      BY <2>1, <3>1, FirstIsOne
    <3>3. how # M!Cut
      BY <2>1
    <3>4. QED
      BY <2>1, <2>2, <2>3, <3>2, <3>3
  <2>9. QED
    BY <2>5, <2>7, <2>8
<1>4. CASE M!DropDuplicate
  <2>1. PICK f \in dups :
          M!First(f, dups) /\ dups' = dups \ {f} /\ wikiText' = [wikiText EXCEPT ![f] = M!Missing]
    BY <1>4 DEF M!DropDuplicate
  <2>2. /\ UNCHANGED <<library, libraryHead, rows, backup, moves, planned, moved, held, overwritten, displaced, unsaved>>
        /\ mpc = "drop" /\ mpc' = "move"
    BY <1>4 DEF M!DropDuplicate
  <2>3. backup[M!Slot(f)] = wikiText[f] \/ wikiText[f] \in unsaved
    BY <2>1, <2>2
  <2>4. M!Somewhere \subseteq M!Somewhere' \cup {wikiText[f]}
    BY <2>1, <2>2
  <2>5. M!TextSurvives'
    <3>1. backup[M!Slot(f)] = wikiText[f] => wikiText[f] \in M!Somewhere'
      BY <1>0, <2>1, <2>2
    <3> HIDE DEF M!Somewhere
    <3>2. QED
      BY <2>2, <2>3, <2>4, <3>1
  <2>6. QED
    BY <2>1, <2>2, <2>5
<1>5. CASE M!UpsertRows
  BY <1>5 DEF M!UpsertRows
<1>6. CASE M!CommitMoved
  <2>1. libraryHead' \in [M!Slots -> Texts \cup {M!Missing, M!Ingested}]
    BY <1>6 DEF M!CommitMoved
  <2>2. QED
    BY <1>6, <2>1 DEF M!CommitMoved
<1>7. CASE M!MigrationDies
  BY <1>7 DEF M!MigrationDies
<1>8. ASSUME NEW f \in M!WikiFiles, NEW t \in Texts, M!EditsWiki(f, t) PROVE MigrationInv'
  <2>1. /\ wikiText' = [wikiText EXCEPT ![f] = t] /\ held' = held \cup {t}
        /\ overwritten' = (overwritten \ {t}) \cup ({wikiText[f]} \ M!Somewhere')
        /\ displaced' = displaced \ {t} /\ wikiText[f] # M!Missing
        /\ unsaved' = IF mpc = "drop" /\ M!First(f, dups) THEN unsaved \cup {t} ELSE unsaved
        /\ UNCHANGED <<library, libraryHead, rows, backup, mpc, moves, dups, planned, moved>>
    BY <1>8 DEF M!EditsWiki
  <2>2. wikiText[f] \in Texts /\ t \in M!Somewhere'
    BY <2>1
  <2>3. M!Somewhere \subseteq M!Somewhere' \cup {wikiText[f]}
    BY <2>1
  <2>4. M!MigrationTypeOK'
    BY <2>1, <2>2
  <2>5. M!TextSurvives'
    <3> HIDE DEF M!Somewhere
    <3>1. QED
      BY <2>1, <2>2, <2>3
  <2>6. mpc' = "drop" => \A g \in dups' : M!First(g, dups)' =>
                            backup'[M!Slot(g)] = wikiText'[g] \/ wikiText'[g] \in unsaved'
    <3> SUFFICES ASSUME mpc' = "drop", NEW g \in dups', M!First(g, dups)'
                 PROVE  backup'[M!Slot(g)] = wikiText'[g] \/ wikiText'[g] \in unsaved'
      OBVIOUS
    <3>1. M!First(g, dups) /\ g \in M!WikiFiles
      BY <2>1 DEF M!First, M!Position
    <3>2. CASE g = f
      BY <2>1, <3>1, <3>2
    <3>3. CASE g # f
      BY <2>1, <3>1, <3>3
    <3>4. QED
      BY <3>2, <3>3
  <2>7. QED
    BY <2>4, <2>5, <2>6
<1>9. CASE UNCHANGED M!migrationVars
  BY <1>9 DEF M!migrationVars, M!First, M!Position
<1>10. QED
  BY <1>1, <1>2, <1>3, <1>4, <1>5, <1>6, <1>7, <1>8, <1>9 DEF M!MigrationNext

-------------------------------------------------------------------------------
(* The registry of collections *)

\* A registration that is kept has a config, and whoever is about to replace the
\* file, and the temporary file, have it or know it as late.
RegistryInv ==
    /\ G!RegistryTypeOK
    /\ rpc \in [Services -> {"none", "idle", "load", "save", "replace"}]
    /\ view \in [Services -> [coll : SUBSET Colls, new : SUBSET Colls, late : SUBSET Colls]]
    /\ staged \subseteq [coll : SUBSET Colls, late : SUBSET Colls]
    /\ kept \subseteq inRegistry \cap configured
    /\ \A s \in Services : rpc[s] = "save" => kept \subseteq view[s].coll \cup view[s].late
    /\ \A file \in staged : kept \subseteq file.coll \cup file.late

LEMMA RegistryStart == G!RegistryInit => RegistryInv
BY DEF G!RegistryInit, RegistryInv, G!RegistryTypeOK, G!NoView

LEMMA RegistryStep == RegistryInv /\ [G!RegistryNext]_(G!registryVars) => RegistryInv'
<1> SUFFICES ASSUME RegistryInv, [G!RegistryNext]_(G!registryVars) PROVE RegistryInv'
  OBVIOUS
<1> USE DEF RegistryInv, G!RegistryTypeOK, G!Goes, G!NoView
<1>1. ASSUME NEW s \in Services, G!Constructs(s) PROVE RegistryInv'
  BY <1>1 DEF G!Constructs
<1>2. ASSUME NEW s \in Services, NEW c \in Colls, G!RegistersIn(s, c) PROVE RegistryInv'
  BY <1>2 DEF G!RegistersIn
<1>3. ASSUME NEW s \in Services, G!LoadsAndMerges(s) PROVE RegistryInv'
  BY <1>3 DEF G!LoadsAndMerges
<1>4. ASSUME NEW s \in Services, G!WritesTemporary(s) PROVE RegistryInv'
  BY <1>4 DEF G!WritesTemporary
<1>5. ASSUME NEW s \in Services, G!Saves(s) PROVE RegistryInv'
  <2>1. /\ rpc' = [rpc EXCEPT ![s] = "idle"] /\ rpc[s] = "replace"
        /\ UNCHANGED <<configured, copy>>
    BY <1>5 DEF G!Saves
  <2>2. CASE staged' \in {staged, {}} /\ UNCHANGED <<inRegistry, kept, view>>
    BY <2>1, <2>2
  <2>3. CASE G!Installs(s)
    <3>1. PICK file \in staged :
            LET new == view[s].new \cap file.coll \cap configured
            IN /\ inRegistry' = file.coll /\ staged' = {}
               /\ kept' = (kept \ file.late) \cup new
               /\ view' = [t \in Services |-> IF rpc[t] = "save"
                                              THEN [view[t] EXCEPT !.late = @ \cup (new \ view[t].coll)]
                                              ELSE view[t]]
      BY <2>3 DEF G!Installs
    <3> DEFINE new == view[s].new \cap file.coll \cap configured
    <3>2. /\ inRegistry' = file.coll /\ staged' = {} /\ kept' = (kept \ file.late) \cup new
          /\ \A t \in Services : view'[t] = IF rpc[t] = "save"
                                            THEN [view[t] EXCEPT !.late = @ \cup (new \ view[t].coll)]
                                            ELSE view[t]
          /\ DOMAIN view' = Services /\ view' = [t \in Services |-> view'[t]]
      BY <3>1
    <3>3. /\ new \subseteq Colls /\ new \subseteq file.coll /\ new \subseteq configured
          /\ file.coll \subseteq Colls /\ kept \subseteq file.coll \cup file.late
      OBVIOUS
    <3> HIDE DEF new
    <3>4. \A t \in Services : view'[t] \in [coll : SUBSET Colls, new : SUBSET Colls, late : SUBSET Colls]
      <4> SUFFICES ASSUME NEW t \in Services
                   PROVE  view'[t] \in [coll : SUBSET Colls, new : SUBSET Colls, late : SUBSET Colls]
        OBVIOUS
      <4>1. view[t] \in [coll : SUBSET Colls, new : SUBSET Colls, late : SUBSET Colls]
        OBVIOUS
      <4>2. CASE rpc[t] = "save"
        <5>1. view'[t] = [view[t] EXCEPT !.late = view[t].late \cup (new \ view[t].coll)]
          BY <3>2, <4>2
        <5>2. view[t].late \cup (new \ view[t].coll) \in SUBSET Colls
          BY <3>3, <4>1
        <5>3. QED
          BY <4>1, <5>1, <5>2
      <4>3. CASE rpc[t] # "save"
        BY <3>2, <4>1, <4>3
      <4>4. QED
        BY <4>2, <4>3
    <3>5. view' \in [Services -> [coll : SUBSET Colls, new : SUBSET Colls, late : SUBSET Colls]]
      BY <3>2, <3>4
    <3>6. kept' \subseteq inRegistry' \cap configured'
      BY <2>1, <3>2, <3>3
    <3>7. \A t \in Services : rpc'[t] = "save" => kept' \subseteq view'[t].coll \cup view'[t].late
      <4> SUFFICES ASSUME NEW t \in Services, rpc'[t] = "save"
                   PROVE  kept' \subseteq view'[t].coll \cup view'[t].late
        OBVIOUS
      <4>1. rpc[t] = "save"
        BY <2>1
      <4>2. view'[t].coll = view[t].coll /\ view'[t].late = view[t].late \cup (new \ view[t].coll)
        BY <3>2, <4>1
      <4>3. kept \subseteq view[t].coll \cup view[t].late
        BY <4>1
      <4>4. QED
        BY <3>2, <4>2, <4>3
    <3>8. G!RegistryTypeOK' /\ rpc' \in [Services -> {"none", "idle", "load", "save", "replace"}]
      BY <2>1, <3>2, <3>3, <3>6
    <3>9. QED
      BY <3>2, <3>5, <3>6, <3>7, <3>8
  <2>4. QED
    BY <1>5, <2>2, <2>3 DEF G!Saves
<1>6. ASSUME NEW s \in Services, G!ServiceEnds(s) PROVE RegistryInv'
  BY <1>6 DEF G!ServiceEnds
<1>7. ASSUME NEW c \in Colls, G!ConfigLapses(c) PROVE RegistryInv'
  BY <1>7 DEF G!ConfigLapses
<1>8. CASE UNCHANGED G!registryVars
  BY <1>8 DEF G!registryVars
<1>9. QED
  BY <1>1, <1>2, <1>3, <1>4, <1>5, <1>6, <1>7, <1>8 DEF G!RegistryNext

-------------------------------------------------------------------------------
(* The registration of a wiki's own collection *)

\* Whoever is past its registration, and the shared temporary file, mean what
\* the sentinel means.
LayoutInv ==
    /\ W!LayoutTypeOK
    /\ wpc \in [Registrars -> {"idle", "register", "open", "rename", "tidy"}]
    /\ W!SentinelMeansRegistered
    /\ ~lost /\ (temporary \/ \E r \in Registrars : wpc[r] \in {"open", "rename"}) => inQmd

LEMMA LayoutStart == W!LayoutInit => LayoutInv
BY DEF W!LayoutInit, LayoutInv, W!LayoutTypeOK, W!SentinelMeansRegistered

LEMMA LayoutStepKeeps == LayoutInv /\ [W!LayoutNext]_(W!layoutVars) => LayoutInv'
<1> SUFFICES ASSUME LayoutInv, [W!LayoutNext]_(W!layoutVars) PROVE LayoutInv'
  OBVIOUS
<1> USE DEF LayoutInv, W!LayoutTypeOK, W!SentinelMeansRegistered, W!On, W!Answers, W!Gives
<1>1. ASSUME NEW r \in Registrars, W!Asks(r) PROVE LayoutInv'
  BY <1>1 DEF W!Asks
<1>2. ASSUME NEW r \in Registrars, W!RegistersWiki(r) PROVE LayoutInv'
  BY <1>2 DEF W!RegistersWiki
<1>3. ASSUME NEW r \in Registrars, W!OpensTemporary(r) PROVE LayoutInv'
  BY <1>3 DEF W!OpensTemporary
<1>4. ASSUME NEW r \in Registrars, W!Renames(r) PROVE LayoutInv'
  BY <1>4 DEF W!Renames
<1>5. ASSUME NEW r \in Registrars, W!Tidies(r) PROVE LayoutInv'
  BY <1>5 DEF W!Tidies
<1>6. ASSUME NEW r \in Registrars, W!RegistrarDies(r) PROVE LayoutInv'
  BY <1>6 DEF W!RegistrarDies
<1>7. CASE W!QmdLoses
  BY <1>7 DEF W!QmdLoses
<1>8. CASE UNCHANGED W!layoutVars
  BY <1>8 DEF W!layoutVars
<1>9. QED
  BY <1>1, <1>2, <1>3, <1>4, <1>5, <1>6, <1>7, <1>8 DEF W!LayoutNext, W!LayoutStep

-------------------------------------------------------------------------------
(* The receipts of the memory sidecar *)

\* Whatever was committed since a reconcile read the log is still to be appended
\* or excused.
ReceiptInv ==
    /\ T!ReceiptTypeOK /\ T!ReceiptsComplete
    /\ lines \in Seq(Nat) /\ rewrite \in [kind : {"none", "reconcile", "truncate"}, lines : Seq(Nat)]
    /\ T!Range(rewrite.lines) \subseteq T!CommitIds
    /\ from \subseteq T!WithTrailer
    /\ rewrite.kind = "reconcile" => T!WithTrailer \ from \subseteq appending \cup excused

LEMMA ReceiptStart == T!ReceiptInit => ReceiptInv
BY DEF T!ReceiptInit, ReceiptInv, T!ReceiptTypeOK, T!ReceiptsComplete, T!Range, T!CommitIds, T!WithTrailer

\* What the git log lists is a sequence of commits.
LEMMA LogIsSequence ==
    ASSUME ReceiptInv, NEW log \in T!Logs
    PROVE  log \in Seq(Nat) /\ T!Range(log) \subseteq T!WithTrailer
<1>1. Len(history) \in Nat /\ T!WithTrailer \in SUBSET Nat
  BY DEF ReceiptInv, T!ReceiptTypeOK, T!WithTrailer, T!CommitIds
<1>2. log \in UNION {[1 .. k -> T!WithTrailer] : k \in 0 .. Len(history)}
  BY Zenon DEF T!Logs
<1>3. PICK k \in 0 .. Len(history) : log \in [1 .. k -> T!WithTrailer]
  BY Zenon, <1>2
<1>4. k \in Nat
  BY <1>1
<1>5. log \in [1 .. k -> Nat] /\ T!Range(log) \subseteq T!WithTrailer
  BY <1>1, <1>3 DEF T!Range
<1>6. QED
  BY <1>4, <1>5

LEMMA ReceiptStep == ReceiptInv /\ [T!ReceiptNext]_(T!receiptVars) => ReceiptInv'
<1> SUFFICES ASSUME ReceiptInv, [T!ReceiptNext]_(T!receiptVars) PROVE ReceiptInv'
  OBVIOUS
<1> USE DEF ReceiptInv, T!ReceiptTypeOK, T!ReceiptsComplete, T!Range, T!CommitIds, T!WithTrailer
<1>1. CASE T!CommitsPlan
  <2>1. PICK plan \in BOOLEAN :
          /\ history' = Append(history, plan)
          /\ appending' = IF plan THEN appending \cup {Len(history) + 1} ELSE appending
          /\ UNCHANGED <<lines, rewrite, from, excused>>
    BY <1>1 DEF T!CommitsPlan
  <2>2. /\ history' \in Seq(BOOLEAN) /\ DOMAIN history' = DOMAIN history \cup {Len(history) + 1}
        /\ \A n \in DOMAIN history : history'[n] = history[n]
        /\ history'[Len(history) + 1] = plan
    BY <2>1
  <2>3. QED
    BY <2>1, <2>2
<1>2. CASE T!ReadsLog
  <2>1. PICK log \in T!Logs : rewrite' = [kind |-> "reconcile", lines |-> log]
    BY <1>2 DEF T!ReadsLog
  <2>2. from' = T!WithTrailer /\ UNCHANGED <<history, lines, appending, excused>>
    BY <1>2 DEF T!ReadsLog
  <2>3. log \in Seq(Nat) /\ T!Range(log) \subseteq T!WithTrailer
    BY LogIsSequence
  <2>4. QED
    BY <2>1, <2>2, <2>3
<1>3. CASE T!ReadsLines
  <2>1. PICK keep \in 1 .. Len(lines) :
          rewrite' = [kind |-> "truncate", lines |-> SubSeq(lines, Len(lines) - keep + 1, Len(lines))]
    BY <1>3 DEF T!ReadsLines
  <2>2. from' = T!WithTrailer /\ UNCHANGED <<history, lines, appending, excused>>
    BY <1>3 DEF T!ReadsLines
  <2>3. /\ rewrite'.lines \in Seq(Nat)
        /\ \A n \in DOMAIN rewrite'.lines : \E m \in DOMAIN lines : rewrite'.lines[n] = lines[m]
    <3> DEFINE first == Len(lines) - keep + 1
    <3>1. first \in 1 .. Len(lines) /\ lines \in Seq(Nat) /\ rewrite'.lines = SubSeq(lines, first, Len(lines))
      BY <2>1
    <3> HIDE DEF first, ReceiptInv
    <3>2. /\ first \in Int /\ Len(lines) \in Int /\ first <= Len(lines)
          /\ \A n \in first .. Len(lines) : lines[n] \in Nat
      BY <3>1
    <3>3. /\ SubSeq(lines, first, Len(lines)) \in Seq(Nat)
          /\ Len(SubSeq(lines, first, Len(lines))) = Len(lines) - first + 1
          /\ \A n \in 1 .. Len(lines) - first + 1 : SubSeq(lines, first, Len(lines))[n] = lines[first + n - 1]
      BY <3>2, SubSeqProperties
    <3>4. DOMAIN SubSeq(lines, first, Len(lines)) = 1 .. Len(lines) - first + 1
      BY <3>3
    <3>5. \A n \in 1 .. Len(lines) - first + 1 : first + n - 1 \in DOMAIN lines
      BY <3>1
    <3>6. QED
      BY <3>1, <3>3, <3>4, <3>5
  <2>4. QED
    BY <2>1, <2>2, <2>3
<1>4. CASE T!Replaces
  <2>1. /\ rewrite' = [kind |-> "none", lines |-> <<>>] /\ from' = {}
        /\ UNCHANGED <<history, appending>> /\ rewrite.kind # "none"
    BY <1>4 DEF T!Replaces
  <2>2. CASE UNCHANGED <<lines, excused>>
    BY <2>1, <2>2
  <2>3. CASE /\ lines' = rewrite.lines
             /\ excused' = IF rewrite.kind = "reconcile"
                           THEN (excused \ T!Range(rewrite.lines))
                                   \cup (from \ (T!Range(rewrite.lines) \cup appending))
                           ELSE excused \cup (T!Range(lines) \ T!Range(rewrite.lines))
    <3>1. lines' \in Seq(Nat) /\ T!Range(lines)' \subseteq T!CommitIds /\ T!CommitIds' = T!CommitIds
      BY <2>1, <2>3
    <3>2. T!WithTrailer \subseteq T!Range(rewrite.lines) \cup appending \cup excused'
      BY <2>3
    <3>3. QED
      BY <2>1, <2>3, <3>1, <3>2
  <2>4. QED
    BY <1>4, <2>2, <2>3 DEF T!Replaces
<1>5. ASSUME NEW n \in T!CommitIds, T!AppendsReceipt(n) PROVE ReceiptInv'
  <2>1. /\ appending' = appending \ {n} /\ UNCHANGED <<history, rewrite, from>>
        /\ n \in appending
    BY <1>5 DEF T!AppendsReceipt
  <2>2. \/ /\ lines' = IF T!Duplicate(n) THEN lines ELSE Append(lines, n)
           /\ excused' = IF rewrite.kind = "none" THEN excused ELSE excused \cup {n}
        \/ lines' = lines /\ excused' = excused \cup {n}
    BY <1>5 DEF T!AppendsReceipt
  <2>3. T!Duplicate(n) => n \in T!Range(lines)
    BY DEF T!Duplicate, T!Last
  <2>4. /\ Append(lines, n) \in Seq(Nat)
        /\ T!Range(Append(lines, n)) = T!Range(lines) \cup {n}
    <3>1. n \in Nat /\ lines \in Seq(Nat)
      OBVIOUS
    <3>2. /\ Append(lines, n) \in Seq(Nat) /\ DOMAIN Append(lines, n) = DOMAIN lines \cup {Len(lines) + 1}
          /\ \A m \in DOMAIN lines : Append(lines, n)[m] = lines[m]
          /\ Append(lines, n)[Len(lines) + 1] = n /\ Len(lines) + 1 \notin DOMAIN lines
      BY <3>1
    <3>3. QED
      BY <3>2
  <2>5. CASE lines' = lines
    <3>1. excused \subseteq excused' /\ excused' \subseteq excused \cup {n}
      BY <2>2
    <3>2. n \in T!Range(lines) \cup excused'
      BY <2>2, <2>3, <2>5, <2>4
    <3>3. rewrite.kind = "reconcile" => n \in excused'
      BY <2>2
    <3>4. QED
      BY <2>1, <2>5, <3>1, <3>2, <3>3
  <2>6. CASE lines' = Append(lines, n)
    <3>1. excused \subseteq excused' /\ excused' \subseteq excused \cup {n}
      BY <2>2
    <3>2. rewrite.kind = "reconcile" => n \in excused'
      BY <2>2
    <3>3. lines' \in Seq(Nat) /\ T!Range(lines)' = T!Range(lines) \cup {n} /\ T!CommitIds' = T!CommitIds
      BY <2>1, <2>4, <2>6
    <3>4. T!ReceiptTypeOK' /\ T!ReceiptsComplete'
      <4> HIDE DEF T!Range
      <4>1. QED
        BY <2>1, <3>1, <3>3
    <3>5. T!WithTrailer' = T!WithTrailer
      BY <2>1
    <3>6. QED
      BY <2>1, <3>1, <3>2, <3>3, <3>4, <3>5
  <2>7. QED
    BY <2>2, <2>5, <2>6
<1>6. ASSUME NEW n \in T!CommitIds, T!ApplierDies(n) PROVE ReceiptInv'
  BY <1>6 DEF T!ApplierDies
<1>7. CASE UNCHANGED T!receiptVars
  BY <1>7 DEF T!receiptVars
<1>8. QED
  BY <1>1, <1>2, <1>3, <1>4, <1>5, <1>6, <1>7 DEF T!ReceiptNext

-------------------------------------------------------------------------------
(* The collection configs and the tag cache *)

\* Times are past, and the cache has the tags of every config that its key is
\* not older than, but for those shown late; a lookup's key is no older than a
\* config that stands since.
FilesInv ==
    /\ C!Configured \cup DOMAIN drafts \subseteq dirs /\ dirs \subseteq Collections
    /\ DOMAIN stamp = C!Configured /\ seen \cup late \subseteq C!Configured
    /\ \A c \in C!Configured : config[c] \in C!Saved /\ stamp[c] \in Nat /\ stamp[c] <= clock
    /\ \A c \in DOMAIN drafts : drafts[c].config \in C!Saved /\ drafts[c].at \in Nat /\ drafts[c].at <= clock
    /\ clock \in Nat /\ rootStamp \in Nat /\ rootStamp <= clock
    /\ cache \in [key : Nat, tags : SUBSET Tags] /\ looking \in Nat
    /\ \A c \in C!Configured \ late : stamp[c] <= cache.key => config[c].tags \subseteq cache.tags
    /\ looking # 0 => \A c \in seen : stamp[c] <= looking

CommandsInv ==
    /\ commands \subseteq Collections
    /\ loaded # <<>> => loaded[1] \in Collections /\ loaded[2] \in C!Saved

\* A migration's file goes through the temporary file as it was written, and is
\* in the library once it is saved, unless a command touched its collection.
YamlsInv ==
    /\ phase \in {"idle", "save"}
    /\ phase = "idle" => parsed = {} /\ saved = {} /\ yaml = {}
    /\ saved \cup yamls \subseteq Yamls /\ parsed \subseteq yamls /\ yaml \subseteq parsed \ saved
    /\ \A y \in yaml : y.name \in touched
                       \/ (y.name \in DOMAIN drafts => drafts[y.name].config = C!Carried(y))
    /\ \A y \in saved : y.name \in touched
                        \/ \E z \in saved : /\ z.name = y.name /\ y.name \in C!Configured
                                            /\ config[y.name] = C!Carried(z)

ConfigInv == FilesInv /\ CommandsInv /\ YamlsInv

LEMMA ConfigTypes == ConfigInv => C!ConfigTypeOK
BY DEF ConfigInv, FilesInv, CommandsInv, YamlsInv, C!ConfigTypeOK

LEMMA ConfigStart == C!ConfigInit => ConfigInv
BY LibraryAssumption
DEF C!ConfigInit, ConfigInv, FilesInv, CommandsInv, YamlsInv, C!Configured

\* A temporary file is newer than every time there is.
LEMMA WritesKeep ==
    ASSUME FilesInv, NEW c \in Collections, NEW v \in C!Saved, C!Writes(c, v), UNCHANGED <<cache, looking>>
    PROVE  FilesInv'
<1>1. /\ clock' = clock + 1 /\ dirs' = dirs \cup {c} /\ rootStamp' \in {rootStamp, clock + 1}
      /\ DOMAIN drafts' = DOMAIN drafts \cup {c} /\ drafts'[c] = [config |-> v, at |-> clock + 1]
      /\ \A d \in DOMAIN drafts \ {c} : drafts'[d] = drafts[d]
      /\ UNCHANGED <<config, stamp, late, seen, cache, looking>>
  BY DEF C!Writes, C!Install
<1>2. \A d \in DOMAIN drafts' : d = c \/ d \in DOMAIN drafts \ {c}
  BY <1>1
<1>3. \A d \in DOMAIN drafts' : drafts'[d].config \in C!Saved /\ drafts'[d].at \in Nat /\ drafts'[d].at <= clock'
  BY <1>1, <1>2 DEF FilesInv
<1>4. C!Saved' = C!Saved /\ C!Configured' = C!Configured
  BY <1>1 DEF C!Saved, C!Configured
<1>5. QED
  BY <1>1, <1>3, <1>4 DEF FilesInv

\* A replacement shows a config that is newer than the cache's key, or late.
LEMMA ReplacesKeep ==
    ASSUME FilesInv, NEW c, C!Replaces(c), UNCHANGED <<cache, looking>>
    PROVE  FilesInv'
<1> USE DEF FilesInv, C!Configured
<1>1. /\ c \in DOMAIN drafts
      /\ DOMAIN drafts' = DOMAIN drafts \ {c} /\ \A d \in DOMAIN drafts \ {c} : drafts'[d] = drafts[d]
      /\ DOMAIN config' = DOMAIN config \cup {c} /\ DOMAIN stamp' = DOMAIN stamp \cup {c}
      /\ config'[c] = drafts[c].config /\ stamp'[c] = drafts[c].at
      /\ \A d \in DOMAIN config \ {c} : config'[d] = config[d]
      /\ \A d \in DOMAIN stamp \ {c} : stamp'[d] = stamp[d]
      /\ late' = IF drafts[c].at <= cache.key THEN late \cup {c} ELSE late \ {c}
      /\ seen' = seen \ {c}
      /\ UNCHANGED <<dirs, rootStamp, clock, cache, looking>>
  BY DEF C!Replaces, C!Install, C!Without
<1>2. \A d \in DOMAIN config' : d = c \/ d \in DOMAIN config \ {c}
  BY <1>1
<1>3. /\ C!Configured' \cup DOMAIN drafts' \subseteq dirs' /\ dirs' \subseteq Collections
      /\ DOMAIN stamp' = C!Configured' /\ seen' \cup late' \subseteq C!Configured'
  BY <1>1
<1>4. \A d \in C!Configured' : config'[d] \in C!Saved /\ stamp'[d] \in Nat /\ stamp'[d] <= clock'
  BY <1>1, <1>2
<1>5. \A d \in DOMAIN drafts' : drafts'[d].config \in C!Saved /\ drafts'[d].at \in Nat /\ drafts'[d].at <= clock'
  BY <1>1
<1>6. \A d \in C!Configured' \ late' : stamp'[d] <= cache'.key => config'[d].tags \subseteq cache'.tags
  BY <1>1, <1>2
<1>7. looking' # 0 => \A d \in seen' : stamp'[d] <= looking'
  BY <1>1
<1>8. C!Saved' = C!Saved
  BY DEF C!Saved
<1>9. QED
  BY <1>1, <1>3, <1>4, <1>5, <1>6, <1>7, <1>8

LEMMA ReplaceFailsKeeps ==
    ASSUME FilesInv, NEW c, C!ReplaceFails(c), UNCHANGED <<cache, looking>>
    PROVE  FilesInv'
<1>1. /\ DOMAIN drafts' \subseteq DOMAIN drafts /\ \A d \in DOMAIN drafts' : drafts'[d] = drafts[d]
      /\ UNCHANGED <<config, stamp, dirs, rootStamp, clock, late, seen, cache, looking>>
  BY DEF C!ReplaceFails, C!Without
<1>2. C!Saved' = C!Saved /\ C!Configured' = C!Configured
  BY <1>1 DEF C!Saved, C!Configured
<1>3. QED
  BY <1>1, <1>2 DEF FilesInv

LEMMA FilesStand ==
    ASSUME FilesInv, UNCHANGED <<config, stamp, drafts, dirs, rootStamp, clock, cache, looking, seen, late>>
    PROVE  FilesInv'
BY DEF FilesInv, C!Saved, C!Configured

\* A command leaves the other collections' files alone, and says which it touched.
LEMMA CommandKeepsYamls ==
    ASSUME YamlsInv, NEW c, C!Touch(c), UNCHANGED <<yamls, phase, force, parsed, saved, yaml>>,
           \A d \in DOMAIN drafts' : d = c \/ (d \in DOMAIN drafts /\ drafts'[d] = drafts[d]),
           \A d \in C!Configured : d = c \/ (d \in C!Configured' /\ config'[d] = config[d])
    PROVE  YamlsInv'
<1>1. CASE phase = "idle"
  BY <1>1 DEF YamlsInv
<1>2. CASE phase = "save"
  <2>1. touched' = touched \cup {c}
    BY <1>2 DEF C!Touch
  <2>2. \A y \in yaml : y.name \in touched' \/ (y.name \in DOMAIN drafts' => drafts'[y.name].config = C!Carried(y))
    BY <2>1 DEF YamlsInv
  <2>3. \A y \in saved : y.name \in touched'
                         \/ \E z \in saved : /\ z.name = y.name /\ y.name \in C!Configured'
                                             /\ config'[y.name] = C!Carried(z)
    BY <2>1 DEF YamlsInv
  <2>4. \A y : C!Carried(y)' = C!Carried(y)
    BY DEF C!Carried, C!Config
  <2>5. QED
    BY <2>2, <2>3, <2>4 DEF YamlsInv
<1>3. QED
  BY <1>1, <1>2 DEF YamlsInv

\* So does a step that touches no file a migration uses.
LEMMA YamlsStand ==
    ASSUME YamlsInv, UNCHANGED <<config, drafts, yamls, phase, force, parsed, saved, yaml, touched>>
    PROVE  YamlsInv'
BY DEF YamlsInv, C!Carried, C!Config, C!Configured

\* A run that is over has nothing to answer for.
LEMMA RunEndsKeepsYamls ==
    ASSUME YamlsInv, C!RunEnds, yamls' \subseteq yamls
    PROVE  YamlsInv'
BY DEF YamlsInv, C!RunEnds

\* The key of a lookup is no older than any config.
LEMMA KeyIsNewest ==
    ASSUME FilesInv
    PROVE  /\ C!AggregateKey \in Nat
           /\ \A c \in C!Configured : stamp[c] <= C!AggregateKey
<1> DEFINE Times == {rootStamp} \cup {stamp[c] : c \in C!Configured}
<1>1. /\ Times \in SUBSET Nat /\ Times # {} /\ clock \in Nat /\ \A n \in Times : n <= clock
  BY DEF FilesInv
<1>2. \E m \in Times : \A n \in Times : n <= m
  <2> HIDE DEF Times
  <2>1. QED
    BY <1>1, GreatestNatural
<1>3. C!AggregateKey \in Times /\ \A n \in Times : C!AggregateKey >= n
  BY <1>2 DEF C!AggregateKey, C!Max
<1>4. \A n \in Times : n <= C!AggregateKey
  BY <1>1, <1>3
<1>5. QED
  BY <1>1, <1>3, <1>4

\* A command's save.
LEMMA CommandSavesKeeps ==
    ASSUME ConfigInv, NEW c \in Collections, NEW v \in C!Saved, C!CommandSaves(c, v),
           UNCHANGED loaded \/ loaded' = <<>>
    PROVE  ConfigInv'
<1>1. /\ C!Writes(c, v) /\ commands' = commands \cup {c} /\ C!Touch(c)
      /\ UNCHANGED <<cache, looking, yamls, phase, force, parsed, saved, yaml>>
  BY DEF C!CommandSaves, C!migrating
<1>2. FilesInv'
  BY <1>1, WritesKeep DEF ConfigInv
<1>3. CommandsInv'
  BY <1>1 DEF ConfigInv, CommandsInv, C!Saved
<1>4. YamlsInv'
  <2>1. /\ \A d \in DOMAIN drafts' : d = c \/ (d \in DOMAIN drafts /\ drafts'[d] = drafts[d])
        /\ UNCHANGED config
    BY <1>1 DEF C!Writes, C!Install
  <2>2. QED
    BY <1>1, <2>1, CommandKeepsYamls DEF ConfigInv, C!Configured
<1>5. QED
  BY <1>2, <1>3, <1>4 DEF ConfigInv

LEMMA ConfigStep == ConfigInv /\ [C!ConfigNext]_(C!configVars) => ConfigInv'
<1> SUFFICES ASSUME ConfigInv, [C!ConfigNext]_(C!configVars) PROVE ConfigInv'
  OBVIOUS
<1>0. /\ FilesInv /\ CommandsInv /\ YamlsInv
      /\ \A c \in C!Configured : c \in Collections /\ config[c] \in C!Saved
  BY DEF ConfigInv, FilesInv
<1>a. ASSUME UNCHANGED <<commands, loaded>> PROVE CommandsInv'
  BY <1>0, <1>a DEF CommandsInv, C!Saved
<1>1. ASSUME NEW c \in Collections, NEW s \in Sources, C!New(c, s) PROVE ConfigInv'
  <2>1. C!Config(s, {}) \in C!Saved
    BY DEF C!Config, C!Saved
  <2>2. QED
    BY <1>1, <2>1, CommandSavesKeeps DEF C!New
<1>2. ASSUME NEW c \in Collections, C!Bootstrap(c) PROVE ConfigInv'
  <2>1. C!Config(Placeholder, {}) \in C!Saved
    BY DEF C!Config, C!Saved
  <2>2. QED
    BY <1>2, <2>1, CommandSavesKeeps DEF C!Bootstrap
<1>3. ASSUME NEW c \in Collections, C!CommandReplaces(c) PROVE ConfigInv'
  <2>1. /\ commands' = commands \ {c} /\ C!Touch(c)
        /\ UNCHANGED <<cache, looking, yamls, phase, force, parsed, saved, yaml, loaded>>
        /\ C!Replaces(c) \/ C!ReplaceFails(c)
    BY <1>3 DEF C!CommandReplaces, C!migrating
  <2>2. FilesInv'
    BY <1>0, <2>1, ReplacesKeep, ReplaceFailsKeeps
  <2>3. CommandsInv'
    BY <1>0, <2>1 DEF CommandsInv, C!Saved
  <2>4. /\ \A d \in DOMAIN drafts' : d = c \/ (d \in DOMAIN drafts /\ drafts'[d] = drafts[d])
        /\ \A d \in C!Configured : d = c \/ (d \in C!Configured' /\ config'[d] = config[d])
    BY <2>1 DEF C!Replaces, C!ReplaceFails, C!Install, C!Without, C!Configured
  <2>5. QED
    BY <1>0, <2>1, <2>2, <2>3, <2>4, CommandKeepsYamls DEF ConfigInv
<1>4. ASSUME NEW c \in Collections, C!LoadForModify(c) PROVE ConfigInv'
  <2>1. /\ loaded' = <<c, config[c]>> /\ c \in C!Configured
        /\ UNCHANGED <<config, stamp, drafts, dirs, rootStamp, clock, late, seen, commands, touched, cache,
                       looking, yamls, phase, force, parsed, saved, yaml>>
    BY <1>4 DEF C!LoadForModify, C!files, C!migrating
  <2>2. CommandsInv'
    BY <1>0, <2>1 DEF CommandsInv, C!Saved
  <2>3. QED
    BY <1>0, <2>1, <2>2, FilesStand, YamlsStand DEF ConfigInv
<1>5. ASSUME NEW ts \in SUBSET Tags, C!Modify(ts) PROVE ConfigInv'
  <2>1. /\ loaded # <<>> /\ loaded' = <<>> /\ C!CommandSaves(loaded[1], [loaded[2] EXCEPT !.tags = ts])
    BY <1>5 DEF C!Modify
  <2>2. loaded[1] \in Collections /\ [loaded[2] EXCEPT !.tags = ts] \in C!Saved
    BY <1>0, <2>1 DEF CommandsInv, C!Saved
  <2>3. QED
    BY <2>1, <2>2, CommandSavesKeeps
<1>6. ASSUME NEW c \in Collections, C!Delete(c) PROVE ConfigInv'
  <2>1. /\ clock' = clock + 1 /\ C!Touch(c)
        /\ DOMAIN config' = DOMAIN config \ {c} /\ DOMAIN stamp' = DOMAIN stamp \ {c}
        /\ \A d \in DOMAIN config \ {c} : config'[d] = config[d]
        /\ \A d \in DOMAIN stamp \ {c} : stamp'[d] = stamp[d]
        /\ seen' = seen \ {c} /\ late' = late \ {c}
        /\ UNCHANGED <<drafts, commands, loaded, cache, looking, yamls, phase, force, parsed, saved, yaml>>
    BY <1>6 DEF C!Delete, C!Without, C!migrating
  <2>2. /\ rootStamp' \in {rootStamp, clock + 1}
        /\ \/ dirs' = dirs
           \/ c \notin DOMAIN drafts /\ dirs' = dirs \ {c}
    BY <1>6, <2>1 DEF C!Delete
  <2>3. FilesInv'
    <3> USE DEF FilesInv, C!Configured
    <3>1. /\ C!Configured' \cup DOMAIN drafts' \subseteq dirs' /\ dirs' \subseteq Collections
          /\ DOMAIN stamp' = C!Configured' /\ seen' \cup late' \subseteq C!Configured'
      BY <1>0, <2>1, <2>2
    <3>2. \A d \in C!Configured' : config'[d] \in C!Saved /\ stamp'[d] \in Nat /\ stamp'[d] <= clock'
      BY <1>0, <2>1
    <3>3. /\ \A d \in C!Configured' \ late' : stamp'[d] <= cache'.key => config'[d].tags \subseteq cache'.tags
          /\ looking' # 0 => \A d \in seen' : stamp'[d] <= looking'
      BY <1>0, <2>1
    <3>4. C!Saved' = C!Saved
      BY DEF C!Saved
    <3>5. QED
      BY <1>0, <2>1, <2>2, <3>1, <3>2, <3>3, <3>4
  <2>4. YamlsInv'
    BY <1>0, <2>1, CommandKeepsYamls DEF C!Configured
  <2>5. QED
    BY <1>a, <2>1, <2>3, <2>4 DEF ConfigInv
<1>7. CASE C!LookupKey
  <2>1. /\ looking' = C!AggregateKey /\ seen' = C!Configured
        /\ UNCHANGED <<config, stamp, drafts, dirs, rootStamp, clock, late, commands, loaded, touched, cache,
                       yamls, phase, force, parsed, saved, yaml>>
    BY <1>7 DEF C!LookupKey, C!files, C!migrating
  <2>2. FilesInv'
    BY <1>0, <2>1, KeyIsNewest DEF FilesInv, C!Configured, C!Saved
  <2>3. QED
    BY <1>0, <1>a, <2>1, <2>2, YamlsStand DEF ConfigInv
<1>8. CASE C!LookupTags
  <2>1. /\ looking # 0 /\ looking' = 0 /\ seen' = {}
        /\ \/ UNCHANGED <<cache, late>>
           \/ cache' = [key |-> looking, tags |-> C!AllTags] /\ late' = {}
        /\ UNCHANGED <<config, stamp, drafts, dirs, rootStamp, clock, commands, loaded, touched,
                       yamls, phase, force, parsed, saved, yaml>>
    BY <1>8 DEF C!LookupTags, C!migrating
  <2>2. C!AllTags \subseteq Tags /\ \A c \in C!Configured : config[c].tags \subseteq C!AllTags
    BY <1>0 DEF C!AllTags, C!Saved
  <2>3. FilesInv'
    BY <1>0, <2>1, <2>2 DEF FilesInv, C!Configured, C!Saved
  <2>4. QED
    BY <1>0, <1>a, <2>1, <2>3, YamlsStand DEF ConfigInv
<1>9. CASE C!Reads
  <2>1. /\ parsed' = yamls /\ phase' = "save" /\ phase = "idle"
        /\ UNCHANGED <<config, stamp, drafts, dirs, rootStamp, clock, late, seen, commands, loaded, touched,
                       cache, looking, yamls, saved, yaml>>
    BY <1>9 DEF C!Reads, C!files
  <2>2. YamlsInv'
    BY <1>0, <2>1 DEF YamlsInv
  <2>3. QED
    BY <1>0, <1>a, <2>1, <2>2, FilesStand DEF ConfigInv
<1>10. CASE C!SaveYaml
  <2>1. PICK y \in parsed \ saved :
          \/ /\ C!RunEnds
             /\ UNCHANGED <<config, stamp, drafts, dirs, rootStamp, clock, late, seen>>
          \/ /\ C!Writes(y.name, C!Carried(y)) /\ yaml' = {y}
             /\ UNCHANGED <<phase, force, touched, parsed, saved>>
    BY <1>10 DEF C!SaveYaml, C!SaveRefused, C!RunGoesOn, C!files
  <2>2. phase = "save" /\ UNCHANGED <<commands, loaded, cache, looking, yamls>>
    BY <1>10 DEF C!SaveYaml
  <2>3. CASE C!RunEnds /\ UNCHANGED <<config, stamp, drafts, dirs, rootStamp, clock, late, seen>>
    BY <1>0, <1>a, <2>2, <2>3, FilesStand, RunEndsKeepsYamls DEF ConfigInv
  <2>4. CASE C!Writes(y.name, C!Carried(y)) /\ yaml' = {y} /\ UNCHANGED <<phase, force, touched, parsed, saved>>
    <3>1. y \in Yamls
      BY <1>0 DEF YamlsInv
    <3>2. y.name \in Collections /\ C!Carried(y) \in C!Saved
      BY <3>1, LibraryAssumption DEF C!Carried, C!Config, C!Saved
    <3>3. FilesInv'
      BY <1>0, <2>2, <2>4, <3>2, WritesKeep
    <3>4. drafts'[y.name].config = C!Carried(y) /\ UNCHANGED config
      BY <2>4 DEF C!Writes, C!Install
    <3>5. \A z : C!Carried(z)' = C!Carried(z)
      BY DEF C!Carried, C!Config
    <3>6. YamlsInv'
      BY <1>0, <2>2, <2>4, <3>4, <3>5 DEF YamlsInv, C!Configured
    <3>7. QED
      BY <1>a, <2>2, <3>3, <3>6 DEF ConfigInv
  <2>5. QED
    BY <2>1, <2>3, <2>4
<1>11. CASE C!ReplaceYaml
  <2>1. PICK y \in yaml :
          \/ /\ C!Replaces(y.name) /\ saved' = saved \cup {y} /\ yaml' = {}
             /\ UNCHANGED <<phase, force, touched, parsed>>
          \/ C!ReplaceFails(y.name) /\ C!RunEnds
    BY <1>11 DEF C!ReplaceYaml, C!RunGoesOn
  <2>2. UNCHANGED <<commands, loaded, cache, looking, yamls>>
    BY <1>11 DEF C!ReplaceYaml
  <2>3. CASE C!ReplaceFails(y.name) /\ C!RunEnds
    BY <1>0, <1>a, <2>2, <2>3, ReplaceFailsKeeps, RunEndsKeepsYamls DEF ConfigInv
  <2>4. CASE /\ C!Replaces(y.name) /\ saved' = saved \cup {y} /\ yaml' = {}
             /\ UNCHANGED <<phase, force, touched, parsed>>
    <3>1. FilesInv'
      BY <1>0, <2>2, <2>4, ReplacesKeep
    <3>2. /\ y.name \in DOMAIN drafts /\ y.name \in C!Configured' /\ config'[y.name] = drafts[y.name].config
          /\ \A d \in C!Configured : d = y.name \/ (d \in C!Configured' /\ config'[d] = config[d])
      BY <2>4 DEF C!Replaces, C!Install, C!Configured
    <3>3. y.name \in touched \/ config'[y.name] = C!Carried(y)
      BY <1>0, <3>2 DEF YamlsInv
    <3>4. ASSUME NEW z \in saved'
          PROVE  \/ z.name \in touched'
                 \/ \E w \in saved' : /\ w.name = z.name /\ z.name \in C!Configured'
                                      /\ config'[z.name] = C!Carried(w)
      <4>1. CASE z.name = y.name
        BY <2>4, <3>2, <3>3, <4>1
      <4>2. CASE z.name # y.name
        BY <1>0, <2>4, <3>2, <4>2 DEF YamlsInv
      <4>3. QED
        BY <4>1, <4>2
    <3>5. \A z : C!Carried(z)' = C!Carried(z)
      BY DEF C!Carried, C!Config
    <3>6. phase' # "idle" /\ phase' \in {"idle", "save"}
      BY <1>0, <2>4 DEF YamlsInv
    <3>7. saved' \subseteq Yamls
      BY <1>0, <2>4 DEF YamlsInv
    <3>8. YamlsInv'
      BY <1>0, <2>2, <2>4, <3>4, <3>5, <3>6, <3>7 DEF YamlsInv
    <3>9. QED
      BY <1>a, <2>2, <3>1, <3>8 DEF ConfigInv
  <2>5. QED
    BY <2>1, <2>3, <2>4
<1>12. CASE C!Unlink
  <2>1. PICK y \in parsed :
          /\ yamls' = yamls \ {y}
          /\ \/ C!RunEnds
             \/ parsed' = parsed \ {y} /\ UNCHANGED <<phase, force, touched, saved, yaml>>
    BY <1>12 DEF C!Unlink, C!RunGoesOn
  <2>2. /\ phase = "save" /\ parsed \subseteq saved
        /\ UNCHANGED <<config, stamp, drafts, dirs, rootStamp, clock, late, seen, commands, loaded, cache, looking>>
    BY <1>12 DEF C!Unlink, C!files
  <2>3. yaml = {}
    BY <1>0, <2>2 DEF YamlsInv
  <2>4. YamlsInv'
    <3>1. CASE C!RunEnds
      BY <1>0, <2>1, <3>1, RunEndsKeepsYamls
    <3>2. CASE parsed' = parsed \ {y} /\ UNCHANGED <<phase, force, touched, saved, yaml>>
      BY <1>0, <2>1, <2>2, <2>3, <3>2 DEF YamlsInv, C!Carried, C!Config, C!Configured
    <3>3. QED
      BY <2>1, <3>1, <3>2
  <2>5. QED
    BY <1>0, <1>a, <2>2, <2>4, FilesStand DEF ConfigInv
<1>13. CASE C!MigratorDies
  <2>1. /\ C!RunEnds
        /\ UNCHANGED <<config, stamp, drafts, dirs, rootStamp, clock, late, seen, commands, loaded, cache,
                       looking, yamls>>
    BY <1>13 DEF C!MigratorDies, C!files
  <2>2. QED
    BY <1>0, <1>a, <2>1, FilesStand, RunEndsKeepsYamls DEF ConfigInv
<1>14. CASE UNCHANGED C!configVars
  BY <1>0, <1>a, <1>14, FilesStand, YamlsStand DEF ConfigInv, C!configVars
<1>15. QED
  BY <1>1, <1>2, <1>3, <1>4, <1>5, <1>6, <1>7, <1>8, <1>9, <1>10, <1>11, <1>12, <1>13, <1>14 DEF C!ConfigNext

\* A lookup ends with every tag of a config that stands since its key was
\* computed, and a yaml file goes only while its content is there.
TagsComplete ==
    looking # 0 /\ looking' = 0 => UNION {config[c].tags : c \in seen \ late} \subseteq cache'.tags
YamlsKept ==
    \A y \in yamls \ yamls' :
       /\ y \in saved
       /\ \/ y.name \in touched
          \/ \E z \in saved : /\ z.name = y.name /\ y.name \in C!Configured
                              /\ config[y.name] = C!Carried(z)

LEMMA TagsStep == ConfigInv /\ [C!ConfigNext]_(C!configVars) => TagsComplete
<1> SUFFICES ASSUME ConfigInv, [C!ConfigNext]_(C!configVars), looking # 0, looking' = 0
             PROVE  \A c \in seen \ late : config[c].tags \subseteq cache'.tags
  BY DEF TagsComplete
<1>1. CASE C!LookupTags
  <2>1. cache' = IF cache.key = looking THEN cache ELSE [key |-> looking, tags |-> C!AllTags]
    BY <1>1 DEF C!LookupTags
  <2>2. \A c \in C!Configured : config[c].tags \subseteq C!AllTags
    BY DEF C!AllTags
  <2>3. \A c \in seen \ late : c \in C!Configured \ late /\ stamp[c] <= looking
    BY DEF ConfigInv, FilesInv
  <2>4. QED
    BY <2>1, <2>2, <2>3 DEF ConfigInv, FilesInv
<1>2. CASE C!LookupKey
  BY <1>2 DEF C!LookupKey
<1>3. CASE UNCHANGED looking
  BY <1>3
<1>4. QED
  BY <1>1, <1>2, <1>3 DEF C!ConfigNext, C!New, C!Bootstrap, C!LoadForModify, C!Modify, C!Delete,
     C!CommandSaves, C!CommandReplaces, C!Reads, C!SaveYaml, C!ReplaceYaml, C!Unlink, C!MigratorDies,
     C!configVars

LEMMA YamlsStep == ConfigInv /\ [C!ConfigNext]_(C!configVars) => YamlsKept
<1> SUFFICES ASSUME ConfigInv, [C!ConfigNext]_(C!configVars) PROVE YamlsKept
  OBVIOUS
<1>1. CASE C!Unlink
  <2>1. \A y \in yamls \ yamls' : y \in saved
    BY <1>1 DEF C!Unlink
  <2>2. QED
    BY <2>1 DEF ConfigInv, YamlsInv, YamlsKept
<1>2. CASE UNCHANGED yamls
  BY <1>2 DEF YamlsKept
<1>3. QED
  BY <1>1, <1>2 DEF C!ConfigNext, C!New, C!Bootstrap, C!LoadForModify, C!Modify, C!Delete, C!LookupKey,
     C!LookupTags, C!CommandSaves, C!CommandReplaces, C!Reads, C!SaveYaml, C!ReplaceYaml, C!MigratorDies,
     C!migrating, C!configVars

-------------------------------------------------------------------------------
(* The stores together: a behaviour of MCLibrary is one of each store, since  *)
(* the others stand still.                                                    *)

LEMMA StepIsEveryStores ==
    ASSUME [MCNext]_allVars
    PROVE  /\ [IngestNext]_ingestVars
           /\ [M!MigrationNext]_(M!migrationVars)
           /\ [C!ConfigNext]_(C!configVars)
           /\ [G!RegistryNext]_(G!registryVars)
           /\ [T!ReceiptNext]_(T!receiptVars)
           /\ [W!LayoutNext]_(W!layoutVars)
<1> USE DEF allVars, migration, configs, etl, registry, receipts, layout,
        M!migrationVars, C!configVars, G!registryVars, T!receiptVars, W!layoutVars
<1>1. CASE UNCHANGED allVars
  BY <1>1
<1>2. CASE MCNext
  BY <1>2 DEF MCNext
<1>3. QED
  BY <1>1, <1>2

LEMMA StepIsPipelines ==
    ASSUME [MCNext]_allVars
    PROVE  [EP!EtlNext]_(EP!etlVars)
<1>1. CASE UNCHANGED etl
  BY <1>1 DEF etl, EP!etlVars
<1>2. CASE E!EtlNext
  BY <1>2 DEF E!EtlNext, E!StartEtl, E!Scrapes, E!Normalizes, E!Writes, E!Flushes, E!CommitsDocs,
     E!PostCommitHooks, E!Registers, E!EtlDies, E!NewVersion, E!Fails, E!FlushCut, E!disk, E!local,
     EP!EtlNext, EP!StartEtl, EP!Scrapes, EP!Normalizes, EP!Writes, EP!Flushes, EP!CommitsDocs,
     EP!PostCommitHooks, EP!Registers, EP!EtlDies, EP!NewVersion, EP!Fails, EP!FlushCut, EP!disk, EP!local
<1>3. QED
  BY <1>1, <1>2 DEF MCNext, allVars

\* What a sync lets the next one skip is on disk and, but for failed or
\* interrupted commits, in the history; a row follows its commit: for any number
\* of documents, versions and runs (etl/pipeline.py, etl/stages/write.py).
THEOREM PipelineHolds == MCSpec => []PipelineIsDurable
<1>1. MCInit => EP!EtlInit
  BY DEF MCInit, E!EtlInit, EP!EtlInit
<1>2. [MCNext]_allVars => [EP!EtlNext]_(EP!etlVars)
  BY StepIsPipelines
<1>3. MCSpec => EP!EtlSpec
  BY <1>1, <1>2, PTL DEF MCSpec, EP!EtlSpec
<1>4. EP!EtlSpec => [](EP!EtlTypeOK /\ EP!SkippedIsOnDisk /\ EP!KnownIsCommitted /\ EP!RowsAreCommitted)
  BY LibraryAssumption, EP!EtlTypesHold, EP!ManifestIsOnDisk, EP!ManifestIsCommitted, EP!RowsHaveCommits, PTL
<1>5. EP!EtlTypeOK /\ EP!SkippedIsOnDisk /\ EP!KnownIsCommitted /\ EP!RowsAreCommitted => PipelineIsDurable
  BY DEF EP!EtlTypeOK, EP!SkippedIsOnDisk, EP!KnownIsCommitted, EP!RowsAreCommitted,
     PipelineIsDurable, E!EtlTypeOK, E!SkippedIsOnDisk, E!KnownIsCommitted, E!RowsAreCommitted
<1>6. QED
  BY <1>3, <1>4, <1>5, PTL

\* The registry keeps a registration that was saved while its config stays, for
\* any number of services and collections, unless a save of an older reading
\* comes after it (wiki/registry.py).
THEOREM RegistryHolds == MCSpec => []RegistryKeeps
<1>1. MCInit => ConfigInv /\ RegistryInv
  BY ConfigStart, RegistryStart DEF MCInit
<1>2. ConfigInv /\ RegistryInv /\ [MCNext]_allVars => (ConfigInv /\ RegistryInv)'
  BY StepIsEveryStores, ConfigStep, RegistryStep
<1>3. ConfigInv /\ RegistryInv => RegistryKeeps
  <2>1. ConfigInv => C!ConfigTypeOK
    BY ConfigTypes
  <2>2. RegistryInv => G!RegistryTypeOK /\ G!RegistrationsKept
    BY DEF RegistryInv, G!RegistrationsKept
  <2>3. QED
    BY <2>1, <2>2 DEF RegistryKeeps
<1>4. QED
  BY <1>1, <1>2, <1>3, PTL DEF MCSpec

\* Every commit of a plan has its line in the sidecar, for any number of commits
\* and rewrites, or lost it in one of the five ways that ReceiptsComplete names,
\* a git log that fails included (memory/sidecar.py).
THEOREM ReceiptsHold == MCSpec => []ReceiptsMirror
<1>1. MCInit => ReceiptInv
  BY ReceiptStart DEF MCInit
<1>2. ReceiptInv /\ [MCNext]_allVars => ReceiptInv'
  BY StepIsEveryStores, ReceiptStep
<1>3. ReceiptInv => ReceiptsMirror
  BY DEF ReceiptInv, ReceiptsMirror
<1>4. QED
  BY <1>1, <1>2, <1>3, PTL DEF MCSpec

\* While qmd loses nothing, the sentinel means that it has the wiki's collection,
\* for any number of overlapping, failing and dying calls (wiki/layout.py).
THEOREM SentinelIsTrue == MCSpec => []SentinelHolds
<1>1. MCInit => LayoutInv
  BY LayoutStart DEF MCInit
<1>2. LayoutInv /\ [MCNext]_allVars => LayoutInv'
  BY StepIsEveryStores, LayoutStepKeeps
<1>3. LayoutInv => SentinelHolds
  BY DEF LayoutInv, SentinelHolds
<1>4. QED
  BY <1>1, <1>2, <1>3, PTL DEF MCSpec

LEMMA IngestPart == MCSpec => IngestSpec
<1>1. MCInit => IngestInit
  BY DEF MCInit
<1>2. [MCNext]_allVars => [IngestNext]_ingestVars
  BY StepIsEveryStores
<1>3. QED
  BY <1>1, <1>2, PTL DEF MCSpec, IngestSpec

\* What a run reports, or a migration takes away, is not lost, for any files,
\* texts and edits: a run that passed its commit point has its pages in a commit
\* while it is the only one at work, and a text the wiki held is in the wiki or in
\* the backup, unless an editor replaced it, a later duplicate did in the backup,
\* or it was saved between a duplicate's copy and its removal (library/ingest.py,
\* library/migrate.py).
THEOREM TextHolds == ASSUME Alone PROVE MCSpec => []TextIsDurable
<1>1. MCSpec => [](IngestTypeOK /\ EndsDurable)
  BY IngestPart, IngestTypesHold, ReportsAreDurable, PTL
<1>2. MCInit => MigrationInv
  BY MigrationStart DEF MCInit
<1>3. MigrationInv /\ [MCNext]_allVars => MigrationInv'
  BY StepIsEveryStores, MigrationStep
<1>4. MigrationInv => M!MigrationTypeOK /\ M!TextSurvives
  BY DEF MigrationInv
<1>5. MCSpec => [](M!MigrationTypeOK /\ M!TextSurvives)
  BY <1>2, <1>3, <1>4, PTL DEF MCSpec
<1>6. IngestTypeOK /\ EndsDurable /\ M!MigrationTypeOK /\ M!TextSurvives => TextIsDurable
  BY DEF TextIsDurable
<1>7. QED
  BY <1>1, <1>5, <1>6, PTL

\* Nothing is replaced behind its owner's back: a mirror by an ingest that saw it
\* and was not forced, a wiki's yaml file that was not saved, a tag by a cache that
\* is out of date - for any collections, files, tags and interleavings, but for
\* what the three properties name.
THEOREM NothingIsReplaced == MCSpec => NothingReplaced
<1>1. MCInit => ConfigInv
  BY ConfigStart DEF MCInit
<1>2. ConfigInv /\ [MCNext]_allVars => ConfigInv'
  BY StepIsEveryStores, ConfigStep
<1>3. ConfigInv /\ [MCNext]_allVars => [TagsComplete]_(C!configVars) /\ [YamlsKept]_(C!configVars)
  BY StepIsEveryStores, TagsStep, YamlsStep
<1>4. MCSpec => [][TagsComplete]_(C!configVars) /\ [][YamlsKept]_(C!configVars)
  BY <1>1, <1>2, <1>3, PTL DEF MCSpec
<1>5. MCSpec => C!NoTagMissing /\ C!YamlSurvives
  BY <1>4, PTL DEF C!NoTagMissing, C!YamlSurvives, TagsComplete, YamlsKept
<1>6. MCSpec => KeptUnlessForced
  BY IngestPart, UnforcedKeepsMirrors, PTL
<1>7. QED
  BY <1>5, <1>6, PTL DEF NothingReplaced
=============================================================================
