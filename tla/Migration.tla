------------------------------- MODULE Migration -------------------------------
(* `lies migrate-to-library`: wiki pages become library mirrors.            *)
(* library/migrate.py plan_migration and apply_migration, with the wiki-side *)
(* commit of library/cli_migrate.py.  The plan is made from the disk and     *)
(* applied later, file by file; it may die anywhere and be run again, for    *)
(* one collection or for all.  A move copies: the source stays, and its      *)
(* mirror is a rewrite: its header keeps the title only.  The backup          *)
(* directory's date is the word today, the same for every run.                *)
EXTENDS Naturals, FiniteSets, Functions

CONSTANTS
    WikiOrder,    \* the wiki's page files, in the order the plan walks them
    CollOf,       \* collection (first directory) of a file
    StemOf,       \* its file name: nested files of one collection may share it
    Texts,        \* what a file may hold
    MaxMigrations, MaxWikiEdits

WikiFiles == Range(WikiOrder)
WikiColls == {CollOf[f] : f \in WikiFiles}
Slot(f) == <<CollOf[f], StemOf[f]>>          \* where its mirror and its backup go
Slots == {Slot(f) : f \in WikiFiles}
Missing == "missing"
Cut == "cut short"
Ingested == "ingested"                        \* what `lies ingest` has mirrored
Position(f) == CHOOSE n \in DOMAIN WikiOrder : WikiOrder[n] = f
First(f, files) == f \in files /\ \A g \in files : Position(f) <= Position(g)

VARIABLES
    wikiText,    \* the wiki's files
    library,     \* mirrors in the library's working tree
    libraryHead, \* what the library's HEAD holds
    rows,        \* mirrors with a catalog row
    backup,      \* .lies/migration-backup
    mpc, moves, dups, planned, moved,
    held,        \* texts the wiki ever held
    overwritten, \* texts an editor replaced, when they were nowhere else
    displaced,   \* texts a copy to the backup replaced, likewise
    unsaved,     \* texts saved to a duplicate between its copy and its removal
    migrations, wikiEdits

migrationVars == <<wikiText, library, libraryHead, rows, backup, mpc, moves, dups, planned,
                   moved, held, overwritten, displaced, unsaved, migrations, wikiEdits>>
outside == <<held, overwritten, unsaved, migrations, wikiEdits>>

\* The texts that are in the wiki or in the backup.
Somewhere == Range(wikiText) \cup Range(backup)

MigrationInit ==
    /\ wikiText \in [WikiFiles -> Texts]
    /\ \E there \in {Missing, Ingested} : library = [s \in Slots |-> there]
    /\ libraryHead = library /\ rows = {} /\ backup = [s \in Slots |-> Missing]
    /\ mpc = "idle" /\ moves = {} /\ dups = {} /\ moved = {}
    /\ planned = {}
    /\ held = Range(wikiText) /\ overwritten = {} /\ displaced = {} /\ unsaved = {}
    /\ migrations = 0 /\ wikiEdits = 0

\* The first file with a text is moved, the others are duplicates of it.
FirstSeen(f) == First(f, {g \in WikiFiles : wikiText[g] = wikiText[f]})

\* The plan covers the wiki; --collection filters it afterwards.
PlanMigration ==
    /\ mpc \in {"idle", "done"} /\ migrations < MaxMigrations
    /\ \E only \in {WikiColls} \cup {{c} : c \in WikiColls} :
          LET here == {f \in WikiFiles : wikiText[f] # Missing /\ CollOf[f] \in only}
          IN /\ moves' = {f \in here : FirstSeen(f)}
             /\ dups' = {f \in here : ~FirstSeen(f)}
    /\ planned' = {Slot(f) : f \in moves'} /\ moved' = {}
    /\ mpc' = "move" /\ migrations' = migrations + 1
    /\ UNCHANGED <<wikiText, library, libraryHead, rows, backup, held, overwritten, displaced, unsaved, wikiEdits>>

\* Mutant: a move takes the source away.
MoveUnlinks ==
    /\ mpc = "move"
    /\ \E f \in moves :
          /\ First(f, moves) /\ moves' = moves \ {f}
          /\ library' = [library EXCEPT ![Slot(f)] = wikiText[f]]
          /\ wikiText' = [wikiText EXCEPT ![f] = Missing]
          /\ moved' = moved \cup {Slot(f)}
    /\ UNCHANGED <<libraryHead, rows, backup, mpc, dups, planned, displaced, outside>>

\* A mirror that already holds the text is left out of the commit; one that holds
\* anything else, also what an ingest wrote, is replaced.
Move ==
    /\ mpc = "move"
    /\ \E f \in moves :
          /\ First(f, moves) /\ moves' = moves \ {f}
          /\ IF library[Slot(f)] = wikiText[f] THEN UNCHANGED <<library, moved>>
             ELSE library' = [library EXCEPT ![Slot(f)] = wikiText[f]] /\ moved' = moved \cup {Slot(f)}
    /\ UNCHANGED <<wikiText, libraryHead, rows, backup, mpc, dups, planned, displaced, outside>>

\* A duplicate is copied to the backup, over whatever has its slug there, then
\* removed from the wiki as it is by then.  The copy may be cut short, by an error
\* or the end of the process.
SetAside ==
    /\ mpc = "move" /\ moves = {}
    /\ \E f \in dups, copy \in {"whole", Cut} :
          /\ First(f, dups)
          /\ backup' = [backup EXCEPT ![Slot(f)] = IF copy = Cut THEN Cut ELSE wikiText[f]]
          /\ UNCHANGED wikiText /\ displaced' = displaced \cup ({backup[Slot(f)]} \ Somewhere')
          /\ mpc' = IF copy = Cut THEN "done" ELSE "drop"
    /\ UNCHANGED <<library, libraryHead, rows, moves, dups, planned, moved, outside>>
DropDuplicate ==
    /\ mpc = "drop"
    /\ \E f \in dups :
          /\ First(f, dups) /\ dups' = dups \ {f}
          /\ wikiText' = [wikiText EXCEPT ![f] = Missing]
    /\ mpc' = "move"
    /\ UNCHANGED <<library, libraryHead, rows, backup, moves, planned, moved, displaced, outside>>

\* A catalog row for every planned move, before the commit; LibraryWriter writes
\* them once more after it.
UpsertRows ==
    /\ mpc = "move" /\ moves = {} /\ dups = {}
    /\ rows' = rows \cup planned /\ mpc' = "commit"
    /\ UNCHANGED <<wikiText, library, libraryHead, backup, moves, dups, planned, moved, displaced, outside>>

\* The library's commit of what was moved (it may fail), then the wiki's of
\* everything tracked, then qmd.
CommitMoved ==
    /\ mpc = "commit" /\ mpc' = "done"
    /\ \/ libraryHead' = [s \in Slots |-> IF s \in moved THEN library[s] ELSE libraryHead[s]]
       \/ UNCHANGED libraryHead
    /\ moves' = {} /\ planned' = {} /\ moved' = {}
    /\ UNCHANGED <<wikiText, library, rows, backup, dups, displaced, outside>>

\* The process dies.
MigrationDies ==
    /\ mpc \notin {"idle", "done"} /\ migrations < MaxMigrations
    /\ mpc' = "idle" /\ moves' = {} /\ dups' = {} /\ planned' = {} /\ moved' = {}
    /\ UNCHANGED <<wikiText, library, libraryHead, rows, backup, displaced, outside>>

\* Somebody edits a page, at any time.
EditsWiki(f, t) ==
    /\ wikiEdits < MaxWikiEdits /\ wikiEdits' = wikiEdits + 1
    /\ wikiText[f] \notin {Missing, t}
    /\ wikiText' = [wikiText EXCEPT ![f] = t] /\ UNCHANGED backup
    /\ held' = held \cup {t}
    /\ overwritten' = (overwritten \ {t}) \cup ({wikiText[f]} \ Somewhere')
    /\ displaced' = displaced \ {t}
    /\ unsaved' = IF mpc = "drop" /\ First(f, dups) THEN unsaved \cup {t} ELSE unsaved
    /\ UNCHANGED <<library, libraryHead, rows, mpc, moves, dups, planned, moved, migrations>>

MigrationNext ==
    \/ PlanMigration \/ Move \/ SetAside \/ DropDuplicate \/ UpsertRows \/ CommitMoved
    \/ MigrationDies
    \/ \E f \in WikiFiles, t \in Texts : EditsWiki(f, t)

MigrationTypeOK ==
    /\ wikiText \in [WikiFiles -> Texts \cup {Missing}]
    /\ backup \in [Slots -> Texts \cup {Missing, Cut}]
    /\ {library, libraryHead} \subseteq [Slots -> Texts \cup {Missing, Ingested}]
    /\ rows \subseteq Slots /\ planned \subseteq Slots /\ moved \subseteq Slots
    /\ moves \cup dups \subseteq WikiFiles
    /\ held \cup overwritten \cup unsaved \subseteq Texts

\* No text the wiki ever held, by an editor's hand or from the start, is lost to
\* the migration but in two ways: it is still in the wiki or in the backup, or an
\* editor replaced the last of it, whatever was planned before an edit, died half
\* way or was run for one collection only (apply_migration: duplicates are
\* unlinked, sources of moves are not).  The ways: a later duplicate with the
\* same collection and name replaced it in the backup, and an editor saved it to
\* a duplicate between that file's copy and its removal.
TextSurvives == held \subseteq overwritten \cup displaced \cup unsaved \cup Somewhere
=============================================================================
