----------------------------- MODULE MemoryApply -----------------------------
(***************************************************************************)
(* WikiMemoryService.apply_plan (memory/service.py) on a wiki's git        *)
(* repository, with wiki/git.py:atomic_commit, the catalog rows of         *)
(* memory/catalog.py and the receipts of memory/sidecar.py.                *)
(*                                                                         *)
(* The wiki's create-lock is one owner variable here (CreateLock is its    *)
(* detail).  People, `lies lint` and the REPL's /commit touch the same     *)
(* repository without that lock.  Each git subprocess, file write and      *)
(* sqlite transaction of the call is a step.                               *)
(***************************************************************************)
EXTENDS WikiPlan

CONSTANTS
    Appliers,      \* threads or processes that call apply_plan
    Crashing,      \* appliers whose process may be killed at any step
    Faults,        \* the steps that may fail, by the names used below
    Others,        \* who else touches the repository: "editor", "lint",
                   \* "commit" (REPL), "reconcile" (catalog)
    EditDuring,    \* whether the others also act while a plan is applied
    InitialPages,  \* the pages of the initial commit
    MaxCalls,      \* bound: calls of apply_plan
    MaxEdits,      \* bound: actions of the others
    Seed, Hand,    \* bodies: the initial one, and what the others write
    Conflicted,    \* a body: a file git left with conflict markers
    Unmerged,      \* its entry in the index
    Nobody,
    Unnamed        \* owns a sentinel that has no pid file beside it

FaultNames == {"register", "snapshot", "write", "catalog", "add", "commit", "sha",
               "receipt", "qmd"}

ASSUME ApplyAssumption ==
    /\ Crashing \subseteq Appliers /\ {Nobody, Unnamed} \cap Appliers = {} /\ Nobody # Unnamed
    /\ Faults \subseteq FaultNames
    /\ Others \subseteq {"editor", "lint", "commit", "reconcile"}
    /\ EditDuring \in BOOLEAN
    /\ InitialPages \subseteq Pages
    /\ {Seed, Hand, Conflicted} \subseteq Bodies /\ Unmerged \notin Contents
    /\ MaxCalls \in Nat /\ MaxEdits \in Nat

VARIABLES
    head, index, tree,   \* the commit, the staging area, the working tree
    stash,               \* the stash list, newest first
    history,             \* per commit its plan, <<>> for a manual one
    catalog,             \* [Pages -> the content a row describes, or Absent]
    receipts,            \* the commits named in the sidecar, oldest first
    qmdFresh,            \* the qmd index has seen the last commit
    flock,               \* the applier that owns the wiki's create-lock
    pc, plan, expected,  \* per applier: step, plan, the pages its author read
    next, changed,       \* per applier: next operation, pages written so far
    stashed,             \* per applier: snapshot_ref is not "<clean>"
    sha,                 \* per applier: the commit atomic_commit returned
    verdict,             \* per applier: what the call will report
    pending,             \* the two-step actions of the others that are half done
    found,               \* the slugs a catalog reconcile has found to add and drop
    calls, edits,        \* counters of the bounds
    before,              \* history variable: the repository when the lock was taken
    owed,                \* history variable: work snapshots not yet settled
    taken                \* history variable: the work second restores took off the stash

repo == <<head, index, tree, stash, history>>
derived == <<catalog, receipts, qmdFresh>>
locals == <<plan, expected, next, changed, stashed, sha>>
outside == <<pending, found, calls, edits>>
ghosts == <<before, owed, taken>>
vars == <<repo, derived, flock, pc, locals, verdict, outside, ghosts>>

Steps == {"idle", "called", "validate", "snapshot", "write", "row",
          "stage", "commit", "sha", "checkout", "pop", "discard", "receipt",
          "refresh", "release", "dead"}
Verdicts == {"none", "applied", "empty", "busy", "invalid", "conflict",
             "failed", "unrestored", "restoredTwice", "leaked"}
Entries == [base : Trees, work : Trees]
Indexes == [Files -> Contents \cup {Unmerged}]

RepoType ==
    /\ head \in Trees /\ index \in Indexes /\ tree \in Trees
    /\ stash \in Seq(Entries)
    /\ history \in Seq(Plans \cup {<<>>})
DerivedType ==
    /\ catalog \in [Pages -> Contents]
    /\ receipts \in Seq(Nat)
    /\ qmdFresh \in BOOLEAN
CallType ==
    /\ flock \in Appliers \cup {Nobody, Unnamed}
    /\ pc \in [Appliers -> Steps]
    /\ plan \in [Appliers -> Plans \cup {<<>>}]
    /\ expected \in [Appliers -> Trees]
    /\ next \in [Appliers -> Nat \ {0}]
    /\ changed \in [Appliers -> SUBSET (Pages \cup {Index, Log})]
    /\ stashed \in [Appliers -> BOOLEAN]
    /\ sha \in [Appliers -> Nat]
    /\ verdict \in [Appliers -> Verdicts]
OutsideType ==
    /\ pending \subseteq {"commit", "lint", "reconcile"}
    /\ found \in [orphans : SUBSET Pages, dangling : SUBSET Pages]
    /\ calls \in Nat /\ edits \in Nat
    /\ before \in [head : Trees, tree : Trees, stash : Seq(Entries),
                   catalog : [Pages -> Contents]]
    /\ owed \subseteq Trees /\ taken \subseteq Trees
TypeOK == RepoType /\ DerivedType /\ CallType /\ OutsideType

Now == [head |-> head, tree |-> tree, stash |-> stash, catalog |-> catalog]

Blank == [f \in Files |-> Absent]
Start == [f \in Files |-> IF f \in InitialPages \cup {Index} THEN <<Seed>>
                          ELSE IF f = Log THEN <<>> ELSE Absent]

Init ==
    /\ head = Start /\ index = Start /\ tree = Start
    /\ stash = <<>> /\ history = <<>>
    /\ catalog = [p \in Pages |-> Start[p]]
    /\ receipts = <<>> /\ qmdFresh = TRUE
    /\ flock = Nobody
    /\ pc = [a \in Appliers |-> "idle"]
    /\ plan = [a \in Appliers |-> <<>>]
    /\ expected = [a \in Appliers |-> Blank]
    /\ next = [a \in Appliers |-> 1]
    /\ changed = [a \in Appliers |-> {}]
    /\ stashed = [a \in Appliers |-> FALSE]
    /\ verdict = [a \in Appliers |-> "none"]
    /\ pending = {} /\ found = [orphans |-> {}, dangling |-> {}]
    /\ calls = 0 /\ edits = 0
    /\ sha = [a \in Appliers |-> 0]
    /\ before = Now /\ owed = {} /\ taken = {}

Goto(a, from, to) == pc[a] = from /\ pc' = [pc EXCEPT ![a] = to]
Say(a, v) == verdict' = [verdict EXCEPT ![a] = v]

\* The call gives up at this step and runs _restore_working_tree.
RollBack(a, from, v) == Goto(a, from, "checkout") /\ Say(a, v)

Op(a) == plan[a][next[a]]

-----------------------------------------------------------------------------
(* The call, up to the first write *)

\* The author of a plan reads the pages it updates (an expected_sha256 is
\* never empty, so they exist), then calls apply_plan.
Call(a) ==
    /\ calls < MaxCalls
    /\ Goto(a, "idle", "called")
    /\ \E p \in Plans :
         /\ \A i \in DOMAIN p : Versioned(p[i]) => tree[p[i].page] # Absent
         /\ plan' = [plan EXCEPT ![a] = p]
         /\ expected' = [expected EXCEPT ![a] =
                [f \in Files |-> IF f \in Targets(p) THEN tree[f] ELSE Absent]]
    /\ calls' = calls + 1
    /\ UNCHANGED <<repo, derived, flock, next, changed, stashed, sha, verdict, pending, found, edits, ghosts>>

\* _acquire_wiki_flock does not block: a held lock is WikiLockBusy.  A lock that
\* the process leaked under its own pid is reaped and taken.
Enter(a) ==
    /\ IF flock \in {Nobody, a}
         THEN /\ Goto(a, "called", "validate")
              /\ flock' = a /\ before' = Now
              /\ Say(a, "none")
         ELSE /\ Goto(a, "called", "release") /\ Say(a, "busy")
              /\ UNCHANGED <<flock, before>>
    /\ UNCHANGED <<repo, derived, locals, outside, owed, taken>>

\* write_owner_pid or write_heartbeat raises: the try whose finally releases is
\* not entered yet, and the sentinel stays, with or without a pid beside it.
EnterFails(a) ==
    /\ "register" \in Faults /\ flock \in {Nobody, a}
    /\ Goto(a, "called", "idle") /\ Say(a, "leaked")
    /\ flock' \in {a, Unnamed}
    /\ plan' = [plan EXCEPT ![a] = <<>>]
    /\ expected' = [expected EXCEPT ![a] = Blank]
    /\ UNCHANGED <<repo, derived, next, changed, stashed, sha, outside, ghosts>>

\* Mutant: the hash of the page is not compared.
NeverStale(a, op) == FALSE

\* expected_sha256 against the file as it is now.
HashMismatch(a, op) ==
    Versioned(op) /\ tree[op.page] # expected[a][op.page]

\* validate_plan looks at every operation before anything is written; the
\* first one it refuses decides the error.
PageExists(op) == op.kind = "create" /\ op.page \in Pages /\ tree[op.page] # Absent
Refused(a, op) == PageExists(op) \/ HashMismatch(a, op)
Accepted(a, n) == \A i \in 1..n : ~Refused(a, plan[a][i])

\* An empty plan is an empty receipt.
Validate(a) ==
    /\ \/ plan[a] # <<>> /\ Accepted(a, Len(plan[a]))
          /\ Goto(a, "validate", "snapshot") /\ UNCHANGED verdict
       \/ plan[a] = <<>> /\ Goto(a, "validate", "release") /\ Say(a, "empty")
       \/ \E i \in DOMAIN plan[a] :
             /\ Accepted(a, i - 1) /\ Refused(a, plan[a][i])
             /\ Goto(a, "validate", "release")
             /\ Say(a, IF PageExists(plan[a][i]) THEN "invalid" ELSE "conflict")
    /\ UNCHANGED <<repo, derived, flock, locals, outside, ghosts>>

\* git refuses to stash while files are unmerged.
Conflicting == \E f \in Files : index[f] = Unmerged
Clean == tree = head /\ index = head

\* git stash push --include-untracked, or "No local changes to save".
Snapshot(a) ==
    /\ ~Conflicting
    /\ Goto(a, "snapshot", "write")
    /\ stash' = IF Clean THEN stash ELSE <<[base |-> head, work |-> tree]>> \o stash
    /\ stashed' = [stashed EXCEPT ![a] = ~Clean]
    /\ tree' = head /\ index' = head
    /\ owed' = IF Clean THEN owed ELSE owed \cup {tree}
    /\ UNCHANGED <<head, history, derived, flock, plan, expected, next, changed, sha, verdict, outside, before, taken>>

SnapshotFails(a) ==
    /\ Conflicting \/ "snapshot" \in Faults
    /\ Goto(a, "snapshot", "release") /\ Say(a, "failed")
    /\ UNCHANGED <<repo, derived, flock, locals, outside, ghosts>>

-----------------------------------------------------------------------------
(* _apply_operations *)

\* log.md is never a target; index.md only of an update.
SystemFile(op) == op.page = Log \/ (op.page = Index /\ op.kind # "update")
Skipped(op) == op.kind = "delete" /\ tree[op.page] = Absent

Write(a) ==
    /\ next[a] <= Len(plan[a])
    /\ ~SystemFile(Op(a)) /\ ~HashMismatch(a, Op(a)) /\ ~Skipped(Op(a))
    /\ Goto(a, "write", "row")
    /\ tree' = Do(tree, Op(a))
    /\ UNCHANGED <<head, index, stash, history, derived, flock, locals, verdict, outside, ghosts>>

SkipDelete(a) ==
    /\ next[a] <= Len(plan[a])
    /\ ~SystemFile(Op(a)) /\ Skipped(Op(a))
    /\ pc[a] = "write"
    /\ next' = [next EXCEPT ![a] = @ + 1]
    /\ UNCHANGED <<repo, derived, flock, pc, plan, expected, changed, stashed, sha, verdict, outside, ghosts>>

\* The hash is compared again: the stash may have taken the edit away that
\* the author had read.
WriteRefused(a) ==
    /\ next[a] <= Len(plan[a])
    /\ SystemFile(Op(a)) \/ HashMismatch(a, Op(a))
    /\ RollBack(a, "write", IF SystemFile(Op(a)) THEN "invalid" ELSE "conflict")
    /\ UNCHANGED <<repo, derived, flock, locals, outside, ghosts>>

\* A file of an operation, or log.md after the last of them.
WriteFails(a) ==
    /\ "write" \in Faults
    /\ RollBack(a, "write", "failed")
    /\ UNCHANGED <<repo, derived, flock, locals, outside, ghosts>>

\* Mutant: the row is built before the file is written.
RowFromHead(a) ==
    /\ Goto(a, "row", "write")
    /\ LET p == Op(a).page IN
       catalog' = IF p \in Pages THEN [catalog EXCEPT ![p] = head[p]] ELSE catalog
    /\ changed' = [changed EXCEPT ![a] = @ \cup {Op(a).page}]
    /\ next' = [next EXCEPT ![a] = @ + 1]
    /\ UNCHANGED <<repo, receipts, qmdFresh, flock, plan, expected, stashed, sha, verdict, outside, ghosts>>

\* _upsert_or_remove_catalog_row from the file just written, or a logged failure.
Row(a) ==
    /\ Goto(a, "row", "write")
    /\ LET p == Op(a).page IN
       \/ catalog' = IF p \in Pages THEN [catalog EXCEPT ![p] = tree[p]] ELSE catalog
       \/ "catalog" \in Faults /\ UNCHANGED catalog
    /\ changed' = [changed EXCEPT ![a] = @ \cup {Op(a).page}]
    /\ next' = [next EXCEPT ![a] = @ + 1]
    /\ UNCHANGED <<repo, receipts, qmdFresh, flock, plan, expected, stashed, sha, verdict, outside, ghosts>>

\* append_log_entry for every operation of the plan.
AppendLog(a) ==
    /\ next[a] > Len(plan[a])
    /\ Goto(a, "write", "stage")
    /\ tree' = Logged(tree, plan[a])
    /\ UNCHANGED <<head, index, stash, history, derived, flock, locals, verdict, outside, ghosts>>

-----------------------------------------------------------------------------
(* atomic_commit of the changed pages, index.md and log.md.  A failure       *)
(* resets the whole index to HEAD (_reset_staging) and raises.               *)

\* Mutant: log.md is left out.
CommitFilesWithoutLog(a) == changed[a] \cup {Index}

CommitFiles(a) == {f \in changed[a] \cup {Index, Log} :
                     f \in {Index, Log} => tree[f] # Absent}
\* git add refuses a path that is neither in the tree nor in the index.
MissingPathspec(a) ==
    \E f \in CommitFiles(a) : tree[f] = Absent /\ index[f] = Absent

Stage(a) ==
    /\ ~MissingPathspec(a)
    /\ Goto(a, "stage", "commit")
    /\ index' = [f \in Files |-> IF f \in CommitFiles(a) THEN tree[f] ELSE index[f]]
    /\ UNCHANGED <<head, tree, stash, history, derived, flock, locals, verdict, outside, ghosts>>

StageFails(a) ==
    /\ MissingPathspec(a) \/ "add" \in Faults
    /\ RollBack(a, "stage", "failed")
    /\ index' = head
    /\ UNCHANGED <<head, tree, stash, history, derived, flock, locals, outside, ghosts>>

Commit(a) ==
    /\ index # head /\ ~Conflicting
    /\ Goto(a, "commit", "sha")
    /\ head' = index
    /\ history' = Append(history, plan[a])
    /\ qmdFresh' = FALSE
    /\ UNCHANGED <<index, tree, stash, catalog, receipts, flock, locals, verdict, outside, ghosts>>

\* Nothing staged: atomic_commit returns None, the call an empty receipt.
NothingToCommit(a) ==
    /\ index = head
    /\ RollBack(a, "commit", "empty")
    /\ UNCHANGED <<repo, derived, flock, locals, outside, ghosts>>

CommitFails(a) ==
    /\ Conflicting \/ "commit" \in Faults
    /\ RollBack(a, "commit", "failed")
    /\ index' = head
    /\ UNCHANGED <<head, tree, stash, history, derived, flock, locals, outside, ghosts>>

\* Mutant: the sha is read before the commit.
ReadShaOfParent(a) ==
    /\ Goto(a, "sha", "discard")
    /\ sha' = [sha EXCEPT ![a] = Len(history) - 1]
    /\ UNCHANGED <<repo, derived, flock, plan, expected, next, changed, stashed, verdict, outside, ghosts>>

ReadSha(a) ==
    /\ Goto(a, "sha", "discard")
    /\ sha' = [sha EXCEPT ![a] = Len(history)]
    /\ UNCHANGED <<repo, derived, flock, plan, expected, next, changed, stashed, verdict, outside, ghosts>>

\* git rev-parse fails, or the user interrupts it: the commit is there.
ReadShaFails(a) ==
    /\ "sha" \in Faults
    /\ RollBack(a, "sha", "failed")
    /\ index' = head
    /\ UNCHANGED <<head, tree, stash, history, derived, flock, locals, outside, ghosts>>

-----------------------------------------------------------------------------
(* _restore_working_tree and _discard_snapshot *)

\* Mutant: untracked files are left behind.
CheckoutWithoutClean(a) ==
    /\ Goto(a, "checkout", "pop")
    /\ tree' = [f \in Files |-> IF index[f] = Absent THEN tree[f] ELSE index[f]]
    /\ UNCHANGED <<head, index, stash, history, derived, flock, locals, verdict, outside, ghosts>>

\* git checkout -- . restores tracked files from the index, or none while one is
\* unmerged; git clean -fd removes the untracked ones.
Checkout(a) ==
    /\ Goto(a, "checkout", "pop")
    /\ tree' = [f \in Files |-> IF Conflicting /\ index[f] # Absent THEN tree[f] ELSE index[f]]
    /\ UNCHANGED <<head, index, stash, history, derived, flock, locals, verdict, outside, ghosts>>

\* git stash pop, file by file: what the entry changed and HEAD did not.
\* An untracked file never replaces one that is there.
Clashes(entry) ==
    {f \in Files : /\ entry.work[f] # entry.base[f] /\ tree[f] # entry.base[f]
                   /\ tree[f] # entry.work[f] \/ entry.base[f] = Absent}
Popped(entry) ==
    [f \in Files |->
        IF f \in Clashes(entry)
          THEN IF entry.base[f] = Absent THEN tree[f] ELSE <<Conflicted>>
        ELSE IF entry.work[f] # entry.base[f] THEN entry.work[f] ELSE tree[f]]

\* git stash pop refuses with an unmerged index, and leaves an entry that clashes;
\* _restore_working_tree drops it then, and raises.
PopFails == stash = <<>> \/ Conflicting \/ Clashes(Head(stash)) # {}
PopsOrDrops ==
    IF stash = <<>> THEN UNCHANGED <<index, tree, stash>>
    ELSE /\ stash' = Tail(stash)
         /\ IF Conflicting THEN UNCHANGED <<index, tree>>
            ELSE LET entry == Head(stash) IN
                 /\ tree' = Popped(entry)
                 /\ index' = [f \in Files |-> IF f \in Clashes(entry) /\ entry.base[f] # Absent
                                                THEN Unmerged ELSE index[f]]

\* Mutant: a clean tree is not told apart from a stashed one.
PopAlways(a) ==
    /\ verdict[a] # "unrestored"
    /\ Goto(a, "pop", "release")
    /\ PopsOrDrops
    /\ UNCHANGED <<head, history, derived, flock, locals, verdict, outside, ghosts>>

\* The restore of an empty commit stands inside the try whose except restores
\* again: when its pop fails, the whole restore runs once more.
Pop(a) ==
    /\ verdict[a] # "unrestored"
    /\ Goto(a, "pop", IF stashed[a] /\ PopFails /\ verdict[a] = "empty" THEN "checkout" ELSE "release")
    /\ IF stashed[a]
         THEN /\ PopsOrDrops
              /\ owed' = IF stash = <<>> THEN owed ELSE owed \ {Head(stash).work}
              /\ IF PopFails THEN Say(a, "unrestored") ELSE UNCHANGED verdict
         ELSE UNCHANGED <<index, tree, stash, owed, verdict>>
    /\ UNCHANGED <<head, history, derived, flock, locals, outside, before, taken>>

\* The second restore pops, or drops, whatever entry is on top by now.
PopAgain(a) ==
    /\ verdict[a] = "unrestored"
    /\ Goto(a, "pop", "release")
    /\ PopsOrDrops
    /\ taken' = IF stash = <<>> THEN taken ELSE taken \cup {Head(stash).work}
    /\ Say(a, "restoredTwice")
    /\ UNCHANGED <<head, history, derived, flock, locals, outside, before, owed>>

\* Mutant: the newest stash entry is dropped whoever pushed it.
DiscardAlways(a) ==
    /\ Goto(a, "discard", "receipt")
    /\ stash' = IF stash = <<>> THEN stash ELSE Tail(stash)
    /\ owed' = IF stashed[a] THEN owed \ {Head(stash).work} ELSE owed
    /\ UNCHANGED <<head, index, tree, history, derived, flock, locals, verdict, outside, before, taken>>

Discard(a) ==
    /\ Goto(a, "discard", "receipt")
    /\ stash' = IF stashed[a] THEN Tail(stash) ELSE stash
    /\ owed' = IF stashed[a] THEN owed \ {Head(stash).work} ELSE owed
    /\ UNCHANGED <<head, index, tree, history, derived, flock, locals, verdict, outside, before, taken>>

-----------------------------------------------------------------------------
(* After the commit: failures are reported, never rolled back *)

\* append_receipt skips a commit that is already the last line.
Receipt(a) ==
    /\ Goto(a, "receipt", "refresh")
    /\ \/ receipts' = IF receipts # <<>> /\ receipts[Len(receipts)] = sha[a]
                        THEN receipts ELSE Append(receipts, sha[a])
       \/ "receipt" \in Faults /\ UNCHANGED receipts
    /\ UNCHANGED <<repo, catalog, qmdFresh, flock, locals, verdict, outside, ghosts>>

Refresh(a) ==
    /\ Goto(a, "refresh", "release")
    /\ \/ qmdFresh' = TRUE
       \/ "qmd" \in Faults /\ UNCHANGED qmdFresh
    /\ Say(a, "applied")
    /\ UNCHANGED <<repo, catalog, receipts, flock, locals, outside, ghosts>>

\* Mutant: an early return that skips the lock's finally.
ReturnHolding(a) ==
    /\ Goto(a, "release", "idle")
    /\ flock' = IF flock = a /\ verdict[a] # "failed" THEN Nobody ELSE flock
    /\ plan' = [plan EXCEPT ![a] = <<>>]
    /\ expected' = [expected EXCEPT ![a] = Blank]
    /\ next' = [next EXCEPT ![a] = 1]
    /\ changed' = [changed EXCEPT ![a] = {}]
    /\ stashed' = [stashed EXCEPT ![a] = FALSE]
    /\ sha' = [sha EXCEPT ![a] = 0]
    /\ verdict' = [verdict EXCEPT ![a] = "none"]
    /\ UNCHANGED <<repo, derived, outside, ghosts>>

\* The flock's finally; the call returns or raises.
Return(a) ==
    /\ Goto(a, "release", "idle")
    /\ flock' = IF flock = a THEN Nobody ELSE flock
    /\ plan' = [plan EXCEPT ![a] = <<>>]
    /\ expected' = [expected EXCEPT ![a] = Blank]
    /\ next' = [next EXCEPT ![a] = 1]
    /\ changed' = [changed EXCEPT ![a] = {}]
    /\ stashed' = [stashed EXCEPT ![a] = FALSE]
    /\ sha' = [sha EXCEPT ![a] = 0]
    /\ verdict' = [verdict EXCEPT ![a] = "none"]
    /\ UNCHANGED <<repo, derived, outside, ghosts>>

\* Killed: the next contender reaps the lock of a dead holder.
Crash(a) ==
    /\ a \in Crashing /\ pc[a] \notin {"idle", "dead"}
    /\ pc' = [pc EXCEPT ![a] = "dead"]
    /\ flock' = IF flock = a THEN Nobody ELSE flock
    /\ UNCHANGED <<repo, derived, locals, verdict, outside, ghosts>>

-----------------------------------------------------------------------------
(* Those who touch the repository without the lock *)

Free == EditDuring \/ flock = Nobody
MayAct(who) == who \in Others /\ Free /\ edits < MaxEdits /\ edits' = edits + 1
Begin(what) == what \notin pending /\ pending' = pending \cup {what}
End(what) == Free /\ what \in pending /\ pending' = pending \ {what}

\* An editor, or an agent's file tool, writes or removes a page.
EditorWrites ==
    /\ MayAct("editor")
    /\ \E p \in Pages, content \in {<<Hand>>, Absent} :
         tree[p] # content /\ tree' = [tree EXCEPT ![p] = content]
    /\ UNCHANGED <<head, index, stash, history, derived, flock, pc, locals, verdict, pending, found, calls, ghosts>>

\* run_lint replaces lint-report.md, then appends its line to log.md.
LintReports ==
    /\ MayAct("lint") /\ Begin("lint")
    /\ tree' = [tree EXCEPT ![Report] = <<Hand>>]
    /\ UNCHANGED <<head, index, stash, history, derived, flock, pc, locals, verdict, found, calls, ghosts>>

LintLogs ==
    /\ End("lint")
    /\ tree' = [tree EXCEPT ![Log] = Append(Text(@), LintEntry)]
    /\ UNCHANGED <<head, index, stash, history, derived, flock, pc, locals, verdict, found, calls, edits, ghosts>>

\* The REPL's /commit is atomic_commit(files=None): git add -u, then the
\* commit, if anything is staged.
ManualStage ==
    /\ MayAct("commit") /\ Begin("commit")
    /\ index' = [f \in Files |-> IF index[f] = Absent THEN Absent ELSE tree[f]]
    /\ UNCHANGED <<head, tree, stash, history, derived, flock, pc, locals, verdict, found, calls, ghosts>>

\* An index that got unmerged in between is no commit, and is reset.
ManualCommit ==
    /\ End("commit")
    /\ IF Conflicting THEN index' = head /\ UNCHANGED <<head, history, qmdFresh>>
       ELSE /\ head' = index
            /\ history' = IF index = head THEN history ELSE Append(history, <<>>)
            /\ qmdFresh' = (qmdFresh /\ index = head)
            /\ UNCHANGED index
    /\ UNCHANGED <<tree, stash, catalog, receipts, flock, pc, locals, verdict, found, calls, edits, ghosts>>

\* reconcile compares the slugs of the rows with those on disk;
\* reconcile_wiki_catalog, at the top of every search, only looks for rows
\* to drop.
ReconcileReads ==
    /\ MayAct("reconcile") /\ Begin("reconcile")
    /\ \E orphans \in {{p \in Pages : tree[p] # Absent /\ catalog[p] = Absent}, {}} :
         found' = [orphans |-> orphans,
                   dangling |-> {p \in Pages : tree[p] = Absent /\ catalog[p] # Absent}]
    /\ UNCHANGED <<repo, derived, flock, pc, locals, verdict, calls, ghosts>>

\* The rows to add are built from the files that are there by then.
ReconcileWrites ==
    /\ End("reconcile")
    /\ catalog' = [p \in Pages |->
          CASE p \in found.orphans /\ tree[p] # Absent -> tree[p]
            [] p \in found.dangling -> Absent
            [] OTHER -> catalog[p]]
    /\ found' = [orphans |-> {}, dangling |-> {}]
    /\ UNCHANGED <<repo, receipts, qmdFresh, flock, pc, locals, verdict, calls, edits, ghosts>>

-----------------------------------------------------------------------------
ApplyOperations(a) ==
    \/ Write(a) \/ SkipDelete(a) \/ WriteRefused(a) \/ WriteFails(a)
    \/ Row(a) \/ AppendLog(a)
AtomicCommit(a) ==
    \/ Stage(a) \/ StageFails(a) \/ Commit(a) \/ NothingToCommit(a)
    \/ CommitFails(a) \/ ReadSha(a) \/ ReadShaFails(a)
Restore(a) == Checkout(a) \/ Pop(a) \/ PopAgain(a)
Finish(a) == Discard(a) \/ Receipt(a) \/ Refresh(a)

Step(a) ==
    \/ Enter(a) \/ EnterFails(a) \/ Validate(a) \/ Snapshot(a) \/ SnapshotFails(a)
    \/ ApplyOperations(a) \/ AtomicCommit(a) \/ Restore(a) \/ Finish(a)
    \/ Return(a)

Elsewhere ==
    \/ EditorWrites \/ LintReports \/ LintLogs
    \/ ManualStage \/ ManualCommit \/ ReconcileReads \/ ReconcileWrites

Next ==
    \/ \E a \in Appliers : Call(a) \/ Step(a) \/ Crash(a)
    \/ Elsewhere

Spec == Init /\ [][Next]_vars

-----------------------------------------------------------------------------
(* Properties *)

History == INSTANCE WikiHistory

\* "one atomic commit" (CHANGELOG): every commit is one whole plan, its log
\* lines included, on top of the commit before it.
Implements == History!Spec

Returning(a, verdicts) == pc[a] = "release" /\ verdict[a] \in verdicts

\* "full rollback on failure" (CHANGELOG): a call that fails, or that finds
\* nothing to commit, leaves the commit, the files and the stash list it found.
RestoredOnFailure ==
    \A a \in Appliers : Returning(a, {"invalid", "conflict", "failed", "empty"}) =>
        /\ head = before.head /\ tree = before.tree /\ stash = before.stash

\* Work taken off the tree is on the stash list until its own call settles it,
\* also when that call was killed and others came after it - unless the second
\* restore of a call whose commit was empty took it.
StashHoldsOwed ==
    \A work \in owed \ taken : \E i \in DOMAIN stash : stash[i].work = work

\* The entries that were on the stash list when a call took the lock - a
\* killed call's among them - are still at its end, in order, whatever the
\* call pushes, pops and drops.  A second restore costs the newest of them.
EarlierStashKept ==
    \A a \in Appliers : pc[a] \notin {"idle", "called", "dead"} /\ flock = a =>
        \/ stash = before.stash
        \/ stash # <<>> /\ Tail(stash) = before.stash
        \/ /\ verdict[a] = "restoredTwice"
           /\ before.stash # <<>> /\ stash = Tail(before.stash)

\* Why it holds: only the owner of the lock is between the lock and its
\* release, and there the stash list is the one it found, with its own entry
\* on top from the snapshot to the step that settles it.  And every way out
\* gives the lock back, restores that raise, and raise twice, included: a call
\* that is over owns it only when it failed to register as the holder.
UnderLock == Steps \ {"idle", "called", "release", "dead"}
WithSnapshot == UnderLock \ {"validate", "snapshot", "receipt", "refresh"}
Locked ==
    \A a \in Appliers :
        /\ pc[a] \in UnderLock => flock = a
        /\ flock = a => \/ pc[a] \in UnderLock \cup {"release"}
                        \/ pc[a] \in {"idle", "called"} /\ verdict[a] = "leaked"
OwnEntryOnTop ==
    \A a \in Appliers : flock = a /\ pc[a] \in UnderLock \cup {"release"} =>
        /\ verdict[a] = "unrestored" => pc[a] \in {"checkout", "pop", "release"}
        /\ verdict[a] = "restoredTwice" => pc[a] = "release"
        /\ IF verdict[a] = "restoredTwice"
             THEN stash = IF before.stash = <<>> THEN <<>> ELSE Tail(before.stash)
           ELSE IF stashed[a] /\ pc[a] \in WithSnapshot /\ verdict[a] # "unrestored"
             THEN stash # <<>> /\ Tail(stash) = before.stash
           ELSE stash = before.stash
OperationInHand == \A a \in Appliers : pc[a] = "row" => next[a] \in DOMAIN plan[a]
ApplyInv == TypeOK /\ Locked /\ OwnEntryOnTop /\ OperationInHand

\* An update or an append is committed only over the content its author read.
NoLostUpdate ==
    [][\A a \in Appliers : pc[a] = "commit" /\ pc'[a] = "sha" =>
         \A i \in DOMAIN plan[a] : LET op == plan[a][i] IN
            Versioned(op) => head[op.page] = expected[a][op.page]]_vars

\* The rows of an applied plan describe what it committed, whatever failed
\* calls left in the catalog before - except a delete that found no page, which
\* skips the row with the file.
AppliedIsCataloged ==
    \A a \in Appliers : Returning(a, {"applied"}) =>
        \A i \in DOMAIN plan[a] : LET op == plan[a][i] IN
            op.page \in Pages /\ (op.kind = "delete" => before.head[op.page] # Absent)
              => catalog[op.page] = head[op.page]

\* While nobody applies, the sidecar names every commit, once and in order,
\* and the qmd index has seen the last one.
DerivedInStep ==
    flock = Nobody => receipts = [i \in DOMAIN history |-> i] /\ qmdFresh
=============================================================================
