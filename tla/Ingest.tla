-------------------------------- MODULE Ingest --------------------------------
(* The library's write path: an ingest run fetches a source's pages, mirrors *)
(* the ones its gates let through, and hands them to LibraryWriter.commit,    *)
(* which stages, commits, writes catalog rows, sweeps the tracked files and   *)
(* calls qmd.  library/ingest.py, writer.py, mirror.py, catalog.py, and       *)
(* wiki/git.py atomic_commit, whose two git commands are two steps here: runs *)
(* of two processes take no common lock.                                      *)
(* A page is known by the version its source_hash names; NoPage is absence,   *)
(* Unmanaged is a file without a usable source_hash: somebody wrote it by     *)
(* hand, or a write that did not finish left it empty.                        *)
EXTENDS Naturals, FiniteSets

CONSTANTS
    Ingests,      \* processes that run `lies ingest`
    Mirrors,      \* pages of the library (with different stems: a row each)
    Claims,       \* [Ingests -> SUBSET Mirrors]: the pages each one's source has
    MaxVersion,   \* versions of the source
    MaxIngests,   \* runs started in all
    MaxHands      \* files somebody writes or removes by hand

NoPage == 0
Unmanaged == MaxVersion + 1
Versions == 1 .. MaxVersion
Results == {"none", "ok", "unreachable", "exists", "failed", "commit_failed", "locked", "timeout",
            "busy"}

ASSUME IngestAssumption ==
    /\ MaxVersion \in Nat \ {0} /\ Claims \in [Ingests -> SUBSET Mirrors]

VARIABLES
    source,     \* version the upstream serves
    mirror,     \* the library's working tree
    index,      \* git's staging area, one for all processes
    head,       \* what HEAD holds
    everHeld,   \* pages and versions some commit held
    row,        \* catalog hash of each page
    repo,       \* the library is a git repository
    ipc, todo, current, wrote, flags, made, outcome,  \* of each ingest
    looked,     \* what was at its current page when write_mirror looked
    started, hands

ingestVars == <<source, mirror, index, head, everHeld, row, repo, ipc, todo, current, wrote,
                flags, made, outcome, looked, started, hands>>
tree == <<mirror, index, head, everHeld>>
locals == <<todo, current, wrote, flags, made, looked>>
counts == <<started, hands>>

Items == Mirrors \X Versions
Put(f, items) == [p \in Mirrors |-> IF \E v \in Versions : <<p, v>> \in items
                                    THEN CHOOSE v \in Versions : <<p, v>> \in items ELSE f[p]]

IngestInit ==
    /\ source = [p \in Mirrors |-> 1]
    /\ mirror = [p \in Mirrors |-> NoPage] /\ index = mirror /\ head = mirror /\ row = mirror
    /\ everHeld = {} /\ repo = FALSE
    /\ ipc = [i \in Ingests |-> "idle"] /\ outcome = [i \in Ingests |-> "none"]
    /\ todo = [i \in Ingests |-> {}] /\ wrote = todo
    /\ current = [i \in Ingests |-> <<>>]
    /\ flags = [i \in Ingests |-> {}]
    /\ made = [i \in Ingests |-> FALSE] /\ looked = [i \in Ingests |-> NoPage]
    /\ started = 0 /\ hands = 0

IngestGoto(i, pc) == ipc' = [ipc EXCEPT ![i] = pc]

\* The run is over: its exception, or its report.
Report(i, what) ==
    /\ IngestGoto(i, "done") /\ outcome' = [outcome EXCEPT ![i] = what]

\* A run, with --force or --dry-run or neither.
StartIngest(i) ==
    /\ ipc[i] \in {"idle", "done"} /\ started < MaxIngests
    /\ \E f \in {{}, {"force"}, {"dry"}} : flags' = [flags EXCEPT ![i] = f]
    /\ started' = started + 1
    /\ todo' = [todo EXCEPT ![i] = {}] /\ wrote' = [wrote EXCEPT ![i] = {}]
    /\ current' = [current EXCEPT ![i] = <<>>] /\ made' = [made EXCEPT ![i] = FALSE]
    /\ outcome' = [outcome EXCEPT ![i] = "none"]
    /\ IngestGoto(i, "fetch")
    /\ UNCHANGED <<source, tree, row, repo, looked, hands>>

\* The whole source is fetched before the first page is looked at.  A document
\* that cannot be normalized ends the iteration: what came before it is kept.
\* Nothing fetched is an error of a single source, an empty batch is none.
Fetched(i) ==
    /\ ipc[i] = "fetch"
    /\ \E got \in SUBSET Claims[i], broke \in BOOLEAN :
          /\ ~broke => got \in {{}, Claims[i]}
          /\ todo' = [todo EXCEPT ![i] = {<<p, source[p]>> : p \in got}]
          /\ flags' = IF broke THEN [flags EXCEPT ![i] = @ \cup {"errors"}] ELSE flags
          /\ IF got = {} /\ ~broke THEN Report(i, "unreachable") \/ Report(i, "ok")
             ELSE IngestGoto(i, "items") /\ UNCHANGED outcome
    /\ UNCHANGED <<source, tree, row, repo, current, wrote, made, looked, counts>>

Drop(i, item) ==
    /\ todo' = [todo EXCEPT ![i] = @ \ {item}]
    /\ UNCHANGED <<ipc, current>>
Quarantine(i, item) == Drop(i, item) /\ flags' = [flags EXCEPT ![i] = @ \cup {"errors"}]

\* An existing mirror is kept unless the run is forced.
Collides(i, item) == mirror[item[1]] # NoPage /\ "force" \notin flags[i]

\* A document is dropped for its name, because the run is dry, or because its
\* mirror is up to date; quarantined (into poison/, which is not committed) for
\* its slug or content, or because its mirror is another version or nobody's.
\* Which of them is left to the environment; it is written only if none holds.
Considers(i) ==
    /\ ipc[i] = "items"
    /\ \E item \in todo[i] :
          \/ Drop(i, item) /\ UNCHANGED flags
          \/ Quarantine(i, item)
          \/ ~Collides(i, item) /\ "dry" \notin flags[i]
             /\ current' = [current EXCEPT ![i] = item]
             /\ IngestGoto(i, "look") /\ UNCHANGED <<todo, flags>>
    /\ UNCHANGED <<source, tree, row, repo, wrote, made, outcome, looked, counts>>

\* Mutant: no second look before the write.
LooksBlind(i) ==
    /\ ipc[i] = "look"
    /\ looked' = [looked EXCEPT ![i] = mirror[current[i][1]]]
    /\ IngestGoto(i, "write")
    /\ UNCHANGED <<source, tree, row, repo, todo, current, wrote, flags, made, outcome, counts>>

\* write_mirror looks again: for a file that appeared meanwhile FileExistsError
\* ends the run with its earlier pages written.
Looks(i) ==
    /\ ipc[i] = "look"
    /\ looked' = [looked EXCEPT ![i] = mirror[current[i][1]]]
    /\ IF Collides(i, current[i]) THEN Report(i, "exists") ELSE IngestGoto(i, "write") /\ UNCHANGED outcome
    /\ UNCHANGED <<source, tree, row, repo, todo, current, wrote, flags, made, counts>>

\* The write does not look: it truncates whatever is there by now.  An error or
\* the end of the process inside it leaves the file empty or cut short.
WriteMirror(i) ==
    /\ ipc[i] = "write"
    /\ \/ /\ mirror' = Put(mirror, {current[i]})
          /\ wrote' = [wrote EXCEPT ![i] = @ \cup {current[i]}]
          /\ todo' = [todo EXCEPT ![i] = @ \ {current[i]}]
          /\ IngestGoto(i, "items") /\ UNCHANGED outcome
       \/ /\ \E left \in {Unmanaged, current[i][2]} : mirror' = [mirror EXCEPT ![current[i][1]] = left]
          /\ Report(i, "failed") /\ UNCHANGED <<wrote, todo>>
    /\ current' = [current EXCEPT ![i] = <<>>]
    /\ UNCHANGED <<source, index, head, everHeld, row, repo, flags, made, looked, counts>>

\* A dry run, and one that wrote nothing, end without a commit.  The others make
\* a LibraryWriter, which makes the library a repository if it is none.
Finalize(i) ==
    /\ ipc[i] = "items" /\ todo[i] = {}
    /\ IF wrote[i] = {} THEN Report(i, "ok")
       ELSE IngestGoto(i, IF repo THEN "stage" ELSE "init") /\ UNCHANGED outcome
    /\ UNCHANGED <<source, tree, row, repo, locals, counts>>

Commits == /\ head' = index
           /\ everHeld' = everHeld \cup {<<p, index[p]>> : p \in {q \in Mirrors : index[q] # NoPage}}

\* Its `git init`, `git add .` and `git commit -m init`, which takes every page on
\* disk.  Whatever command fails, the next writer finds the .git of the first.
BootstrapsRepo(i) ==
    /\ \/ /\ ipc[i] = "init" /\ repo' \in {repo, TRUE} /\ UNCHANGED <<index, head, everHeld>>
          /\ \/ repo' /\ IngestGoto(i, "add") /\ UNCHANGED outcome
             \/ Report(i, "failed")
       \/ /\ ipc[i] = "add" /\ UNCHANGED <<repo, head, everHeld>>
          /\ \/ index' = mirror /\ IngestGoto(i, "initial") /\ UNCHANGED outcome
             \/ Report(i, "failed") /\ UNCHANGED index
       \/ /\ ipc[i] = "initial" /\ UNCHANGED <<repo, index>>
          /\ \/ Commits /\ IngestGoto(i, "stage") /\ UNCHANGED outcome
             \/ Report(i, "failed") /\ UNCHANGED <<head, everHeld>>
    /\ UNCHANGED <<source, mirror, row, locals, counts>>

\* atomic_commit failed: it resets the whole index, also what others staged.
CommitFails(i) ==
    /\ index' = head /\ Report(i, "commit_failed")
    /\ UNCHANGED <<head, everHeld, made>>

\* git add of the run's files.  A file that is neither there nor tracked fails.
Stage(i) ==
    /\ ipc[i] = "stage"
    /\ \/ CommitFails(i)
       \/ /\ \A item \in wrote[i] : mirror[item[1]] # NoPage \/ index[item[1]] # NoPage
          /\ index' = [p \in Mirrors |-> IF \E v \in Versions : <<p, v>> \in wrote[i]
                                         THEN mirror[p] ELSE index[p]]
          /\ IngestGoto(i, "commit") /\ UNCHANGED <<head, everHeld, made, outcome>>
    /\ UNCHANGED <<source, mirror, row, repo, todo, current, wrote, flags, looked, counts>>

\* Mutant: a failed commit is taken for a no-op.
CommitSwallows(i) ==
    /\ ipc[i] = "commit"
    /\ \/ index' = head /\ UNCHANGED <<head, everHeld>>
       \/ Commits /\ UNCHANGED index
    /\ made' = [made EXCEPT ![i] = TRUE]
    /\ IngestGoto(i, "rows")
    /\ UNCHANGED <<source, mirror, row, repo, todo, current, wrote, flags, looked, outcome, counts>>

\* git commit of whatever is staged by then; nothing staged is no failure, and
\* a failing rev-parse after the commit is one.
Commit(i) ==
    /\ ipc[i] = "commit"
    /\ \/ index # head /\ CommitFails(i)
       \/ /\ IF index = head THEN UNCHANGED <<head, everHeld>> ELSE Commits
          /\ made' = [made EXCEPT ![i] = index # head]
          /\ IngestGoto(i, "rows") /\ UNCHANGED <<index, outcome>>
       \/ index # head /\ Commits /\ Report(i, "commit_failed") /\ UNCHANGED <<index, made>>
    /\ UNCHANGED <<source, mirror, row, repo, todo, current, wrote, flags, looked, counts>>

\* The catalog rows, in one transaction; a database locked for longer than the
\* busy timeout ends the run with the commit made.
Rows(i) ==
    /\ ipc[i] = "rows"
    /\ \/ Report(i, "locked") /\ UNCHANGED row
       \/ /\ row' = Put(row, wrote[i])
          /\ IF made[i] THEN IngestGoto(i, "sweep") /\ UNCHANGED outcome ELSE Report(i, "ok")
    /\ UNCHANGED <<source, tree, repo, locals, counts>>

\* git add -u, so that files deleted from disk leave HEAD.  A failing command
\* is a warning; one that hangs for 30 s ends the run.
Sweep(i) ==
    /\ ipc[i] = "sweep"
    /\ \/ Report(i, "timeout") /\ UNCHANGED index
       \/ IngestGoto(i, "hooks") /\ UNCHANGED <<index, outcome>>
       \/ /\ index' = [p \in Mirrors |-> IF index[p] # NoPage THEN mirror[p] ELSE NoPage]
          /\ IngestGoto(i, "fold") /\ UNCHANGED outcome
    /\ UNCHANGED <<source, mirror, head, everHeld, row, repo, locals, counts>>

\* The follow-up commit; when it fails the sweep stays staged.
Fold(i) ==
    /\ ipc[i] = "fold"
    /\ \/ index # head /\ Commits
       \/ UNCHANGED <<head, everHeld>>
    /\ IngestGoto(i, "hooks")
    /\ UNCHANGED <<source, mirror, index, row, repo, locals, outcome, counts>>

\* Registration, update and embedding in qmd: only a busy qmd lock is raised.
Hooks(i) ==
    /\ ipc[i] = "hooks"
    /\ Report(i, "ok") \/ Report(i, "busy")
    /\ UNCHANGED <<source, tree, row, repo, locals, counts>>

\* The process dies; nothing cleans up after it.
Dies(i) ==
    /\ ipc[i] \notin {"idle", "done"} /\ started < MaxIngests
    /\ IngestGoto(i, "idle")
    /\ todo' = [todo EXCEPT ![i] = {}] /\ wrote' = [wrote EXCEPT ![i] = {}]
    /\ current' = [current EXCEPT ![i] = <<>>] /\ made' = [made EXCEPT ![i] = FALSE]
    /\ flags' = [flags EXCEPT ![i] = {}]
    /\ UNCHANGED <<source, tree, row, repo, outcome, looked, counts>>

\* The upstream publishes a new version of a page.
Publish(p) ==
    /\ source[p] < MaxVersion
    /\ source' = [source EXCEPT ![p] = @ + 1]
    /\ UNCHANGED <<tree, row, repo, ipc, locals, outcome, counts>>

\* Somebody writes a page by hand, or removes a committed one, that no run is
\* about to commit.
ByHand(p) ==
    /\ hands < MaxHands /\ hands' = hands + 1
    /\ \A i \in Ingests : ipc[i] = "done" \/ \A item \in wrote[i] : item[1] # p
    /\ \/ mirror[p] = NoPage /\ mirror' = [mirror EXCEPT ![p] = Unmanaged]
       \/ head[p] # NoPage /\ mirror' = [mirror EXCEPT ![p] = NoPage]
    /\ UNCHANGED <<source, index, head, everHeld, row, repo, ipc, locals, outcome, started>>

RunStep(i) ==
    \/ Fetched(i) \/ Considers(i) \/ Looks(i) \/ WriteMirror(i) \/ Finalize(i) \/ BootstrapsRepo(i)
    \/ Stage(i) \/ Commit(i) \/ Rows(i) \/ Sweep(i) \/ Fold(i) \/ Hooks(i)

IngestNext ==
    \/ \E i \in Ingests : StartIngest(i) \/ RunStep(i) \/ Dies(i)
    \/ \E p \in Mirrors : Publish(p) \/ ByHand(p)

IngestTypeOK ==
    /\ source \in [Mirrors -> Versions]
    /\ {mirror, index, head, row} \subseteq [Mirrors -> 0 .. Unmanaged]
    /\ everHeld \subseteq Mirrors \X (1 .. Unmanaged)
    /\ todo \in [Ingests -> SUBSET Items] /\ wrote \in [Ingests -> SUBSET Items]
    /\ \A i \in Ingests : current[i] \in Items \/ current[i] = <<>>
    /\ flags \in [Ingests -> SUBSET {"force", "dry", "errors"}] /\ made \in [Ingests -> BOOLEAN]
    /\ outcome \in [Ingests -> Results]
    /\ repo \in BOOLEAN /\ looked \in [Ingests -> 0 .. Unmanaged]

\* A catalog row never names content that no commit ever held, whatever process
\* dies between the mirror, the commit and the row (LibraryWriter.commit upserts
\* after atomic_commit; _finalize hands it the hashes the mirrors were written
\* with).
RowsFollowCommit == \A p \in Mirrors : row[p] # NoPage => <<p, row[p]>> \in everHeld

\* A run that reports success, or fails after the commit point (catalog locked,
\* sweep timed out, qmd busy), has every page it wrote in a commit: a no-op
\* commit means the content was committed before, not that it was missed.
EndsDurable ==
    \A i \in Ingests : outcome[i] \in {"ok", "locked", "timeout", "busy"} => wrote[i] \subseteq everHeld

\* Without --force no run changes a file that was there when it looked for the
\* last time, whatever other runs and hands do between its two looks and its
\* write.  One that appears after that is lost: write_text does not open with x.
KeptUnlessForced ==
    [][\A p \in Mirrors :
          mirror[p] # NoPage /\ mirror'[p] \notin {mirror[p], NoPage} =>
             \E i \in Ingests :
                /\ ipc[i] = "write" /\ current[i][1] = p
                /\ "force" \in flags[i] \/ looked[i] = NoPage]_ingestVars

=============================================================================
