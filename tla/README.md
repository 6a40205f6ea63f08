# A TLA+ verification of LIES

LIES keeps git-backed markdown wikis that language-model agents read and extend,
and a library of ingested documentation beside them.  Search is delegated to the
external `qmd` indexer, either as a command line or as a shared daemon.  Command
line runs, an MCP server and its worker threads, background syncs and people with
an editor all work on the same files.  This directory holds TLA+ modules
translated from `src/src/lies`, the TLC runs that check them, and the theorems
TLAPS proves about them.  Paths below are relative to `src/src/lies` unless they
start with `src/`.

## 1. The system: parts, state, interactions

| part | state it keeps | operations | what makes it hard | modules |
|---|---|---|---|---|
| **create-lock** `utils/exclusive.py`, `utils/lock_heartbeat.py` | three sibling files: the `O_CREAT\|O_EXCL` sentinel, the pid file, the heartbeat | acquire, judge and reap a stale holder, register, release, force-repair | every file access interleaves with every other process and thread; holders die, exit and leave files behind | `CreateLock`, `ExclusiveLock` |
| **memory-apply** `memory/service.py`, `wiki/git.py` | the wiki's git repository: HEAD, index, working tree, stash list | `apply_plan`: validate, snapshot, write, commit, restore or discard | failure or crash between any two steps; people and `run_lint` edit the same tree without the lock | `MemoryApply`, `WikiPlan`, `WikiHistory` |
| **catalog** `memory/catalog.py` | `catalog.db`, one row per page, git-ignored | upsert and remove per operation, `reconcile` | it is outside the git snapshot that `apply_plan` restores | `MemoryApply` |
| **sidecar** `memory/sidecar.py` | `memory_plans.jsonl` | append a receipt, reconcile from the git log, truncate | read-modify-replace beside concurrent appends | `Receipts` |
| **enrichment queue** `memory/retry.py`, `orchestrator.py` | in-memory FIFO of evidence, the last deferred list | enqueue, drain, report | attempts accounting; which errors are transient; reports that must not be lost | `EnrichmentQueue` |
| **filing** `orchestrator.py`, `page/author.py` | none of its own | the filing gate of a query, `--format`, `page write` | a plan built on a page that changes before it lands; three tries | `Filing` |
| **lint repair** `orchestrator.py`, `agents/repair*.py`, `memory/repair.py` | `lint-report.md` | merge two reports, plan, validate, translate, apply | model output steers writes; the report is older than the pages | `LintRepair` |
| **qmd lock** `qmd/lock.py` | create-lock files plus a per-context depth | nested acquire, poll until a budget ends | re-entrancy; time-outs; a path that moves with the environment | `QmdLock` |
| **qmd access and daemon** `qmd/access.py`, `qmd/daemon.py`, `qmd/lifecycle.py`, `qmd/mcp.py` | pid file, scope sidecar, last-write marker, the process | call, classify the failure, recycle once, call again; ensure, up, down | several processes replace one daemon with no lock | `QmdAccess` |
| **qmd CLI** `qmd/cli.py`, `qmd/_subprocess.py`, `qmd/integrity.py` | qmd's index | register, refresh, four-stage reindex, integrity report | one stage of several fails; idle and total time-outs; pipes | `QmdSubprocess`, `QmdIndex` |
| **library ingest and writer** `library/ingest.py`, `library/writer.py` | mirror files, library git repository, `catalog.db` | fetch, gate, write the mirror, commit, index | crash between the mirror write and the commit; no lock | `Ingest` |
| **library configs** `library/config_io.py`, `library/registry.py` | `config.yaml` files, an mtime-keyed tag cache | new, modify, delete, look up | a cache that is older than the files | `CollectionConfigs` |
| **migrations** `library/migrate*.py` | wiki pages, library mirrors, backups | copy, back up, unlink, commit | a death between any two files | `Migration`, `CollectionConfigs` |
| **wiki registry** `wiki/registry.py` | `registry.json` | load, merge, filter, save | lost update between two processes | `Registrations` |
| **wiki layout** `wiki/layout.py` | the qmd sentinel of a wiki | init, self-heal | a shared temporary file | `WikiLayout` |
| **sync lock** `etl/sync_helper.py`, `etl/heartbeat.py` | create-lock by file age, heartbeat, fd sidecar | acquire, wait, release | age-based staleness of a live long run | `SyncLock` |
| **ETL pipeline** `etl/pipeline.py`, `etl/stages/*` | stage, hash manifest | scrape, normalize, write, register | manifest flushed before the commit it describes | `EtlPipeline` |
| **MCP daemon** `mcp/daemon.py` | pid record, port, create-lock | up, down | crash between spawn and record; reused pids; a stranger on the port | `McpDaemon` |
| **library questions** `mcp/search.py`, `read.py`, `synth.py`, `grounding.py`, `agents/librarian.py` | diagnostics of one dispatch | search, read, `lib_ask`, `ground`, `synthesize` | two models between a search and an answer; collections that vanish | `LibraryAsk` |
| **extractive answer** `query/synthesizer.py` | none | two retrieval passes, notes | a failed pass told from an empty one | `Retrieval`, `Subsequences` |
| **tag expressions** `query/tag_expr.py` | none | peel, parse, validate, select | where a chain ends; precedence; exclusion | `TagExpr` |
| **prompt tails** `mcp/prompts_impl.py` | none | split, take values, render or refuse | which words survive into the command | `PromptTail`, `Subsequences` |
| agents, providers, builders, scrapers, memory retrieval | none shared, or configuration | model calls, format conversion, ranking | their outputs are inputs of the parts above | - |

How they interact: the CLI, the REPL and the MCP tools build a *memory plan* and
hand it to `apply_plan`, which holds the wiki's create-lock (call site
`memory/service.py:_acquire_wiki_flock`) while it works on the repository, then
refreshes the qmd index through `qmd/cli.py`, every helper of which takes the
site-wide create-lock (call site `qmd/lock.py`).  A transient failure sends the
evidence to the enrichment queue, which replays it on the next turn.  Searches go
through `qmd/access.py` to the daemon and recycle it once when it fails.  Syncs
write the library under a lock of their own.

What each part must get right:

- create-lock: one owner at a time; a live holder is never reaped; a dead one
  is, eventually; a repair leaves the lock free.
- memory-apply: a plan lands whole or not at all; a failure restores what was
  there; what the user had not committed is not lost; the log, the sidecar and
  the catalog agree with the commits.
- enrichment queue: evidence is applied, dropped as a no-op or reported, never
  lost; at most `max_attempts` tries.
- filing and repair: nothing is written over what its author did not see; what
  the caller is told is what was committed.
- qmd: one query at a time; a call has the daemon replaced only for cause; a wedge is
  not repeated; every call ends; what is said of the index is true.
- library and stores: what a row or a manifest says is committed; a mirror is not
  replaced by a run that saw it and was not forced; what was registered stays.
- requests: the excerpts behind an answer are what its own searches returned; a failure is
  never reported as a miss; a command line means what it says.

## 2. Plan and state of the work

| order | module | abstract specification | state |
|---|---|---|---|
| 1 | `CreateLock` | `ExclusiveLock` | checked; safety and the refinement proved, among processes that stay and among processes that die |
| 2 | `MemoryApply` (with `WikiPlan`) | `WikiHistory` | checked; every safety property and the refinement proved |
| 3 | `EnrichmentQueue`, `Filing`, `LintRepair` | - | checked together (`MCTurn`); safety proved (`TurnProofs`) |
| 4 | `QmdLock`, `QmdAccess`, `QmdSubprocess`, `QmdIndex` | `ExclusiveLock`, on each path | checked together (`MCQmd`); safety and the refinement proved (`QmdProofs`) |
| 5 | `Ingest`, `Migration`, `CollectionConfigs`, `EtlPipeline`, `Registrations`, `Receipts`, `WikiLayout` | - | checked together (`MCLibrary`); safety proved (`IngestProofs`, `EtlPipelineProofs`, `LibraryProofs`) |
| 6 | `McpDaemon`, `SyncLock`, `LibraryAsk`, `PromptTail`, `Retrieval` with `Subsequences` (together `UserRequests`), `TagExpr` | the reference semantics `Alternatives` inside `TagExpr` | checked together (`MCRequests`); safety of `UserRequests` proved (`UserRequestsProofs`) |

What stays open: the daemon's staleness clock; the parser of `TagExpr` and liveness, as
theorems (section 10).

**How the modules are put together for TLC.**  Parts that share no variable are
checked in one run without multiplying their states: the MC module EXTENDS one
component, instantiates the others, and a variable `part`, chosen by `MCInit` and
never changed, says which one a behaviour runs; the others stand still in one
initial state.  A property of such a run is a conjunction of properties of the
components, each stated and commented in its own module and named in the MC
module; fairness is stated for the part that runs.

## 3. `CreateLock`: the cross-process lock

**State.**  `sentinel`, `pidFile` and `heartbeat` are the three files.  The
sentinel remembers which thread made it - the program cannot see that, the
properties are about it.  The pid file holds a pid, the heartbeat only whether
its `started_at` is older than `max_age_s`.  `alive` is the process table.  `pc`
and `seen` are a caller's place in `acquire_create_lock` and the pid
`_reap_if_stale` has read.

**Actions.**  Each create, read, rename, unlink and `os.kill(pid, 0)` is a step.

| code | actions |
|---|---|
| `acquire_create_lock` first try and retry | `CreateWins`, `CreateFails`, `Retry` |
| `_reap_if_stale` | `ReadPid`, then `Judge` with `Verdict` and `Liveness` |
| `_reap_files` | `ReapState`, `ReapPid`, `ReapLock` |
| `write_owner_pid`, `write_heartbeat`, and an `OSError` in either | `WritePid`, `WriteHeartbeat`, `RegisterFails` |
| the protected block, `release_create_lock` | `Leave`, `ReleaseState`, `ReleasePid`, `ReleaseLock` |
| `cli/operator.py:flock_force_repair` | `OperatorStart`, the reap, `OperatorRetry` |
| a process that ends or is killed; time | `Exit`, `Crash`, `Age` |

`Caller` selects the call site: the memory flock leaves `self_acquire_is_stale`
at its default and lets a registration error escape (the sentinel leaks); the qmd
flock turns the first off, logs the second, and its force-repair releases at once.

**Abstraction.**  `ExclusiveLock` is what callers rely on: take, enter, exit,
give.  `Implements` maps the holder to the maker of the sentinel and the inside
to the threads in `held`.

**Runs.**  Three threads are enough for a holder, a contender that has judged
an older holder and a third that takes the lock in between.

| run | instance | shows |
|---|---|---|
| `lock_qmd_threads` | two threads of one process and a process of another user; qmd flock; nobody dies | one owner at a time; the inductive invariant behind it; the three files refine the abstract lock |
| `lock_qmd_crash` | one process may be killed; `lies flock qmd force-repair` runs in a process that may exit | nobody reaps on its own verdict for a live pid; the repair keeps nothing; a registered dead holder is reaped |
| `lock_memory_force` | a forcing caller, the operator's command, a crashing process | with them every orphan goes away, one killed in its registration window included |
| `lock_exit_race` | a process that exits after its release | see 9 |

**Fairness.**  `FairSpec` gives each thread weak fairness of its own step: a live
thread goes on when it can.  That includes starting another `acquire`, so
`RegisteredOrphanReaped` says what happens *as long as contenders come*: both
call sites are retried by their users or by the poll of `qmd/lock.py`.  A repair
that has begun is finished, but nobody has to begin one.  `RepairSpec`, for
`OrphanReaped` only, adds that somebody does.  Nothing is assumed of `Exit`,
`Crash` and `Age`.  `lock_exit_race` switches the deadlock
check off: a process whose threads are gone takes no step.

**Bounds.**  None: the state space of the lock is finite.

**Proved**, for any number of threads and processes (`CreateLockProofs`):
`TypeCorrect`; `NeverReapsLive`, with crashes, exits, forcers and operators
allowed (it rests on `ReadsPid`: whoever judges has read a pid); `RepairReleases`,
for qmd's call site, where `KeptOnlyInside` follows a repair from its win to its
release while other processes exit, crash and force the lock (the operator's
command of the memory lock does keep what it probed with, section 9, and is
excluded by `Operators = {}`); and, assuming `Cooperative`, `CooperativeInvariant`, `Exclusive` and `ImplementsLock`.
`Cooperative` says that no process ends, nobody forces, and, where same-pid
recovery is on, no process has two threads.  Dropping the first or the last
conjunct makes exclusion false - those are the first two disagreements of
section 9.  Exclusion is not inductive by itself: `CooperativeInv` adds that the
owner's sentinel is its own, that a pid file is about the sentinel beside it
(`PidHasSentinel`), that a contender which has read its own pid, or is deleting
the envelope, is dealing with its own leaked sentinel (`JudgesOwnLeak`,
`ReapsOwnLeak`), and that the pid file goes before the sentinel.

Among processes that exit and crash at any step, with nobody forcing (`Unforced`, which
keeps the last conjunct of `Cooperative` and says nothing of `Exiting` and `Crashing`),
the first disagreement of section 9 is the only way to lose exclusion:
`ExclusiveOutsideReap` proves `MutualExclusion` of every behaviour in which no thread wins
the lock while another stands between reading a pid and unlinking the lock it judges by
it (`NoneWinsMeanwhile`, a condition on steps; `lock_exit_race` is a behaviour without it).
`ImplementsOutsideReap` is the refinement under the same condition: a death inside is the
abstract exit, and the reap's unlink is the abstract give, in the name of the dead.  The
invariant is `MortalInv`: in place of "all are alive" it has that the dead take no
step, that the pid being judged is that of the sentinel's maker (`JudgesItsMaker`), and
that who reaps deals with the lock of the dead or with its own leak (`ReapsTheDead`).
The last two are what a win in the window breaks.  TLC found `MortalInv` to hold with every
process exiting and crashing, at both call sites, before it was proved.

**Not modelled.**  Reuse of a pid by another process; two reaps that meet on one
`unlink` (a missing file is ignored, except in the operator's command, which
`FileNotFoundError` would end); the legacy `memory.lock` path printed by the
operator's command.  The envelope-less mode, which ages by the file's mtime, is
in `SyncLock` and `McpDaemon`.

## 4. `MemoryApply`: applying a memory plan

**Data** (`WikiPlan`).  A file's content is the sequence of the pieces written to
it, or `Absent`; a tree maps files to contents; an operation is a kind, a page
and a body.  So two contents are equal exactly when the program's hashes are.
`Effect` is a whole plan applied to a tree, log lines included.  `PlanAssumption`
is the validator of `MemoryPlan` that refuses two operations on one path.

**State.**  `head`, `index`, `tree` and `stash` are git's four places; `history`
remembers which plan each commit is.  `catalog` gives, per page, the content its
row was made from.  `receipts` are the commits named in the sidecar, `qmdFresh`
whether the index has seen the last commit.  `flock` is the owner of the
wiki's create-lock: `CreateLock` is the detail, and a killed owner's lock is
given up in the same step, as the next contender's reap would.  `before`, `owed` and
`taken` are history variables: the repository as a call found it, the work it
has stashed and not settled, and the work another call's second restore took.

**Actions**, in the order of `apply_plan`:

| code | actions |
|---|---|
| the author reads the pages, calls `apply_plan` | `Call` |
| `_acquire_wiki_flock`, which does not wait, and fails before its `try` (`memory/service.py:211-215`) | `Enter`, `EnterFails` |
| `validate_plan` | `Validate` (accept, empty plan, first refused operation) |
| `_snapshot_working_tree` | `Snapshot`, `SnapshotFails` |
| `_apply_operations`: file, row, log lines | `Write`, `SkipDelete`, `WriteRefused`, `WriteFails`, `Row`, `AppendLog` |
| `atomic_commit` | `Stage`, `StageFails`, `Commit`, `NothingToCommit`, `CommitFails`, `ReadSha`, `ReadShaFails` |
| `_restore_working_tree`; the one of an empty commit, run again by the `except` around it (`memory/service.py:787-797`) | `Checkout` (with `git clean`), `Pop`, `PopAgain` |
| `_discard_snapshot`, `append_receipt`, `_post_write_qmd` | `Discard`, `Receipt`, `Refresh` |
| the flock's `finally`; SIGKILL | `Return`, `Crash` |
| people and programs that do not take the lock | `EditorWrites`, `LintReports`/`LintLogs` (`run_lint`), `ManualStage`/`ManualCommit` (the REPL's `/commit`), `ReconcileReads`/`ReconcileWrites` |

A failed registration leaves the sentinel with its maker's pid beside it, which the
maker's own next call recovers, or without one, which nobody does (`Unnamed`).
`WriteFails` is any write of the plan, the last log line included.

git itself is external and modelled by what it does to these places: `stash push`
refuses an unmerged index (`Unmerged`) and takes tracked and untracked files, `stash pop` is a
merge by file that leaves conflict markers, or refuses to replace an untracked
file, and `checkout` restores from the index.

**Abstraction.**  `WikiHistory` sees only commits: each one is one whole plan on
top of the commit before.  `Implements` says `apply_plan` does that.

**Runs.**  Two pages, one of them in the first commit, and the system files:
creating, updating, appending and deleting all have a page where they succeed
and one where they are refused.

| run | instance | shows |
|---|---|---|
| `apply_faults` | two callers, two calls, plans that meet on a page, one that updates `index.md`; snapshot, writes, staging and commit may fail; edits and lint runs between the calls | commits are whole plans; rows, sidecar and qmd follow the commits; a failed call leaves the commit, the files and the stash list it found; no commit overwrites what its author had not read |
| `apply_crash` | two callers, one of which may be killed anywhere; edits and the REPL's `/commit` in the middle of a call; the registration of the lock's holder, the sha lookup, the row, the receipt and the refresh may fail; pops clash and restores run twice | work taken off the tree stays on the stash list until its own call settles it or another's second restore takes it; no other entry is touched; the inductive invariant, in which every call that is over has given the lock back, unless it failed to register |

**Bounds.**  `MaxCalls` counts calls and `MaxEdits` actions of the others.  Two
calls are enough for one to meet what the other left (a conflicted index, an
orphaned stash entry, a stale row).  Two edits are enough for one
before the author reads and one after.  When both are used up nothing is left to
do, so these configurations switch the deadlock check off.

**What the runs leave out, and why.**  `apply_faults` excludes the sha lookup:
failing there, the call reports a failure for a commit that exists, which
`RestoredOnFailure` is not true of (section 9).  It also excludes failing rows,
receipts and refreshes: with those, or `/commit`, sidecar and qmd may lag, which
the code reports and never rolls back, and `DerivedInStep` would not be true.
The others act between calls only (`EditDuring = FALSE`) in `apply_faults`: an
edit during a call is undone or committed with it, and no text promises more.
`apply_crash` has all of these, and leaves out `reconcile` and lint, which
`apply_faults` has.  `LintReports` writes
a fixed text, and the prefix spellings of one path are one page.

**Proved** (`MemoryApplyProofs`), for any pages, plans, callers and faults, with
kills and with the others acting during a call: `ApplyInvariant`, `TypeCorrect`,
`EarlierStash` and `WorkIsStashed` (`StashHoldsOwed`).  A call keeps the entries that
were there before it, but for one way to lose the newest of them: a call whose commit
is empty, and whose pop fails, restores a second time.  `EarlierStashKept` says so,
and does not survive a step by itself: that `Pop` and `Discard` take the call's own
entry needs to know that the list is the one the call found plus exactly its own
entry, and only while it has not settled it.  `ApplyInv` says this of the lock's
owner (`OwnEntryOnTop`), and what is left after one restore and after two; that
whoever is between lock and release is the owner, so nobody else pushes, and that the
owner is there or has failed to register (`Locked`); and that the operation whose row is
written is one of the plan (`OperationInHand`).  The assumptions are those on the constants; no
`Cooperative`: here the lock is exclusive by construction, which is what
`Exclusive` establishes under its assumption.

On `ApplyInv` rest five theorems about the whole of a call, each under the
hypotheses without which it is false:

| theorem | hypotheses | states |
|---|---|---|
| `AuthorsAreNotOverwritten` | `~EditDuring` | `NoLostUpdate` |
| `FailureRestores` | `~EditDuring`, `sha` does not fail | `RestoredOnFailure` |
| `RowsFollowCommit` | `~EditDuring`, catalog writes do not fail | `AppliedIsCataloged` |
| `CommitsAreWholePlans` | `~EditDuring`, nobody runs `/commit` | `Implements`, the refinement of `WikiHistory` |
| `DerivedFollows` | nobody is killed, the steps after the commit do not fail, nobody runs `/commit` | `DerivedInStep` |

Kills are allowed in the first four, and so are all failures not named.  What the
callee has to know at each step is `WorkInv`: until it writes, the repository is the
one it found; from the first operation on, the tree is what its first operations
make of HEAD (`TreeSoFar`), index and HEAD are still the ones it found, the stash
entry holds the rest (`Saved`), and each page it may write is as its author read it
(`Checked`).  When every operation is done the tree is `Effect(head, plan)`, so the
commit is the abstract one.  `RestoreInv` is the way back: `Checkout` makes the tree
the index and `Pop` puts the entry's files on top of it.  `RowsInv` relates the rows
of the plan's pages to tree, index and HEAD as the plan moves through them.
`DerivedInv` counts: the sidecar is a commit behind exactly while a call is between
commit and receipt.

**Not modelled.**  The rules about text in `memory/validation.py`; the force-repair
of the flock (in `CreateLock`), so a lock that leaked without a pid stays; concurrent calls that share the lock through the
two-thread disagreement.

## 5. One wiki and its models: `EnrichmentQueue`, `Filing`, `LintRepair`

Run `turn` (module `MCTurn`, `Turn.cfg`); the violation `lint_unsafe_fix` uses the same
instance.  What a model writes is free in all three: any value its type allows.

**`EnrichmentQueue`** is `memory/retry.py` with the turn that uses it.  `apply_plan`
is seen by its outcome; "late" is the failure after the commit.  `fate` and
`commits` are history variables.

| code | actions |
|---|---|
| `run_with_memory`: a turn begins, the agent answers or fails | `StartTurn`, `AgentAnswers`, `AgentFails` |
| `EnrichmentQueue.drain`, one item per step | `DrainSettles`, `DrainDefers`, `DrainRetries`, `EndDrain` |
| `_enrichment_signal`, the enricher | `Signal`, `NoSignal`, `EnricherNoop`, `EnricherCrashes`, `EnricherPlans` |
| `_apply_with_conflict_retry`, `_run_enrichment`'s handlers, `enqueue` | `Applied`, `ConflictRetry`, `EnqueueAndReport`, `PersistenceFails` |
| the receipt and the drain's lines | `Show` |

`EvidenceAccounted`: evidence is new, in the hands of this turn, queued once or
settled with one verdict; it is committed at most once; whatever is queued was
replayed in every turn since its own; a drain walks what it found although it
moves items to the tail of the list it walks.  `VerdictsStand`: a deferred line is
shown once, a verdict is never revised.

**`Filing`** is the gate of `run_query`, `file_back_author` and `page write`: build a
plan of one operation (`BuildPlan`, then `ShaLookup` as a second read), hand it to
`apply_plan` up to three times (`Try`), while others write the page
(`OtherWriter`).  `lies query --format` asks the whole question again
(`FormatOverride`, `SecondRunFails`).  A page is its version.

**`LintRepair`** is `run_lint`: the deterministic pass (`BuildReport`), the linter's
findings merged into it (`CallLinter`), the repair agent's plan (`PlanRepair`,
`NoRepair`), its validation (`Valid`, with `Redundant`), its translation to memory operations
(`Translate`), and `Apply`, `WriteReport` and `RunRaises`, with an editor between any two.  All four primitives are there: an `append_link` gives its page
the `type` of its directory, and one to `index.md`, which nothing calls redundant, lists
its target however often it is listed; an `append_evidence` that names a hash is
compared with the page.  The validator's own list of a plan's pages (`op.pages`) is
free and restrains nothing.

`WritesAreAsked`: a page is written only as its author saw it (`NoClobber`), a
repair cites a finding of the check that was run and none the pass called unsafe
(`RepairsWhatWasAsked`); it takes no page, link, mention or index entry away, an editor's
latest ones included, and of the frontmatter at most a link's host loses its `type`
(`RepairOnlyAdds`); and the report on disk shows every finding of its run
(`ReportIsWhole`).  `ToldIsTrue`: the receipt fits the commits whatever was retried
(`ReceiptTruthful`); while runs do not overlap a page stands twice in the index only
by an `append_link` (`ListedOnce`).  `FilingSettles`: every question and command ends.

**Bounds.**  Five turns, two pieces of evidence, two attempts: an item is queued,
replayed, requeued behind another, deferred at the bound, shown, and overtaken
by a second one.  One query, asked twice at most, and one `page write` meet on one
of two slugs; two changes by others fall before and after either read.  Two lint
runs, so that the second meets what the first repaired, with one edit.  The agent's
findings are bounded (`AgentFindings`), and of a plan, whose operations are on different
paths and are validated each on its own, one operation is followed.

**Fairness.**  Weak fairness of each author's step in `Filing`: a call runs to its
end by itself.  The turn loop waits for a user, and no liveness is claimed of it.

**Proved** (`TurnProofs`), for any evidence, attempts, turns, authors, slugs, lint
runs and pages, from the assumptions on the constants: `EvidenceIsAccounted`,
`ToldHolds`, `VerdictsHold`, `WritesHold`.  The invariant `TurnInv` has a part for each
component.

- `QueueInv`: the walk of a drain is the head of the queue, which the drain removes by
  value (`RemoveFirst`; `FirstGoes` is the lemma that this removes what it visits);
  an item's attempts are the turns since its own, less one while the drain has yet
  to visit it (`Ages`) - which is why `ReplayedEachTurn` is not inductive; a piece in
  hand or queued has no commit (`Clean`); and who was told of a deferral was told
  once it was (`Lines`).
- `FilingInv`: before a run's end its author has committed nothing in it and has used
  fewer than three tries (`Counted`).
- `LintInv`: a finding of the merged report is one of the pass or none of its key
  (`Reported`), a plan cites a safe finding of the report and names what its kind needs
  (`Planned`), the new content has what the one read had (`Made`), and an `update_index` is
  planned for a page without an entry while no other run is at work (`Unlisted`).

Two overlapping lint runs can list a page twice and overwrite each other's report:
`ListedOnce` is stated of one run at a time (section 9 has the other case), and
`ReportIsWhole` of the step that writes a report and the run that takes it.

## 6. Everything between LIES and qmd

Run `qmd` (module `MCQmd`, `Qmd.cfg`).

**`QmdLock`**: one attempt per poll until a budget ends (`StartsPolling`, `Wins`,
`Polls`, `TimesOut`, `Indeterminate`), re-entrance by the depth of the context
(`Nests`, `Leaves`), a call made in a fresh context that its caller waits for
(`Delegates`), and an environment that names another path meanwhile (`EnvMoves`).
`flock` gives the holder of each path's lock; the files under it are `CreateLock`.
`OnPath(p)` is the `ExclusiveLock` that callers see on a path: its holder is
`flock[p]`, and inside are the contexts with a nested call running under it.

**`QmdAccess`** extends it with the daemon and everyone who may replace it.  A
client's `kind` is a `query` (the only one behind the lock), a `get`, a batched read, an
agent's toolset, the construction of that toolset, `lies up`, or the operator.

| code | actions |
|---|---|
| `daemon_tool`, `_call_daemon_tool`, `_is_daemon_stale`, `ensure_qmd_daemon` | `Begin`, `Gate`, `Probe`, `CheckScope`, `StaleCheck` |
| `_reap_qmd_daemon`, `_spawn_qmd_daemon`, `write_sidecar_scope`, the readiness wait | `ReapReads`, `Kill`, `Spawn`, `Sidecar`, `Ready` |
| `lifecycle.recycle` | `Down`, `Up`, `Ready` |
| `as_capability` | `Live` |
| the call, `classify_call_error`, `_call_with_recovery`, `QmdRecycleToolset` | `Send`, `Answered`, `Failed` with `Classify`, `AfterRecycle`, `AfterToolsetRecycle`, `FailsAgain` |
| the daemon | `Hangs`, `Dies`, `Written` (a commit touches the marker) |

`Failures` lists an error as the classifier sees it: the families of its class
names, of its causes, and the JSON-RPC code.

**`QmdSubprocess`** is `_run_qmd`: two pipes, an idle and a total bound, a process
group.  The command may write, fork, close its pipes, exit, or do nothing.
**`QmdIndex`** is what the commands of `qmd/cli.py` do to the index, one qmd command
per step, each may fail - a `show` that fails counts as no row - and what
`qmd/integrity.py` says of it; qmd's own start
may empty the registry in between.

`OneAtATime`: the lock is held exactly by a context inside a locked call that
acquired it (`OwnedByDepth`); the daemon gets one query at a time, through recycle
and retry; a payload that wedged a daemon is not sent to its replacement.
`RecoveryForCause`: a call has the daemon replaced only when the one it was sent to
does not serve any more, and who was told that a daemon serves again was told so by one
that did.  It is about the decision: the reap then kills the pid that is recorded by that
time, which may be a daemon somebody else has just started (section 9).  `ResultsAreReal`, `IndexIsTold`, `IndexKept` are about commands and the
index.  `CallsEnd`: polls, calls and commands end, although daemons hang, pipes
fill, and a context waits for the context that waits for it.

**Bounds.**  Two contexts, two paths, depth two, a budget of one poll.  Two callers
and two daemon processes: enough for one to kill what the other has just spawned
and is calling; one of the two is a query or the operator, since with neither the lock
plays no part.  Four clock steps against an idle bound of two and a pipe of two
are enough for either bound to be the one that strikes and for the pipe to fill.
Two operations on two collections with two directories.

**Fairness.**  Each client's own step, and the helper of a subprocess: both are
loops with time-outs.  Nothing is assumed of the daemon, the command or qmd.

**Left out:** a child task that inherits a depth (the package starts none that
outlives the block); ties of the two mtimes of the staleness check; the
readiness wait's clock.

**Proved** (`QmdProofs`), for any contexts, paths, budget, nesting, callers, daemon
processes, clock bounds, pipes, collections and directories, from the assumptions on the
constants:

- `LockTypes`; `HeldByDepth`, that is `OwnedByDepth`, which is inductive with the types -
  an acquisition resolves its path only while its context holds nothing, `Wins`
  needs a free lock, and `Leaves` releases what its own acquisition resolved; and
  `OneHolder`, mutual exclusion per path, which follows.  `EachPathIsExclusive` is the
  refinement, path by path: the lock of `p` is taken when free and given back by its
  holder after the last nested call, and every other step of `QmdLock`, one that moves
  the environment to `p` included, is a stutter of it.
- `LockAndDaemon` (`OneAtATime`) and `RecyclesHaveCause` (`RecoveryForCause`).  A query
  between its gate and its end holds the lock, so two cannot be with the daemon.
  That a wedged payload is not sent again needs to know, at each place of a caller,
  which failure brought it there: `Sound` says of whoever restarts the daemon that
  its one send failed, and that the class of the failure (`Classify`) is the reason.
- `SubprocessHolds` (`ResultsAreReal`), from bounds on the pipe and the clock and the
  reason the helper stopped for.
- `IndexToldHolds` (`IndexIsTold`) and `IndexIsKept` (`IndexKept`): what a stage has reported so
  far, and that only an operation with that stage is in it.

`CallsEnd` is model-checked only.

## 7. What LIES keeps on disk

Run `library_stores` (module `MCLibrary`, `Library.cfg`), seven parts;
`library_unlocked` is the part `ingest` with two processes.

| module | code | actions |
|---|---|---|
| `Ingest` | `run_source_ingest`, `_process_item`, `write_mirror`, `_finalize`, `LibraryWriter.commit` | `StartIngest`, `Fetched`, `Considers`, `Looks`, `WriteMirror`, `Finalize`, `BootstrapsRepo`, `Stage`, `Commit`, `Rows`, `Sweep`, `Fold`, `Hooks`, `Dies`; `Publish`, `ByHand` |
| `Migration` | `plan_migration`, `apply_migration`, `ingest_to_library` | `PlanMigration`, `Move`, `SetAside`, `DropDuplicate`, `UpsertRows`, `CommitMoved`, `MigrationDies`; `EditsWiki` |
| `CollectionConfigs` | `save_config`, `new`/`modify`/`delete`/`bootstrap-all`, the tag cache, the config migration | `New`, `LoadForModify`, `Modify`, `Delete`, `Bootstrap`, `CommandReplaces`, `LookupKey`, `LookupTags`, `Reads`, `SaveYaml`, `ReplaceYaml`, `Unlink`, `MigratorDies` |
| `EtlPipeline` | `SyncOrchestrator.run` and its four stages, `HashManifest` | `StartEtl`, `Scrapes`, `Normalizes`, `Writes`, `Flushes`, `CommitsDocs`, `PostCommitHooks`, `Registers`, `EtlDies`; `NewVersion` |
| `Registrations` | `WikiRegistry.load`, `merge`, `filter_stale`, `save`; `register_collection` | `Constructs`, `RegistersIn`, `LoadsAndMerges`, `WritesTemporary`, `Saves`, `ServiceEnds`; `ConfigLapses` |
| `Receipts` | `append_receipt`, `reconcile_from_git_log`, `truncate` | `CommitsPlan`, `AppendsReceipt`, `ReadsLog`, `ReadsLines`, `Replaces`, `ApplierDies` |
| `WikiLayout` | `init`, `ensure_wiki_qmd_registered`, `_write_sentinel` | `Asks`, `RegistersWiki`, `OpensTemporary`, `Renames`, `Tidies`, `RegistrarDies`; `QmdLoses` |

Contents are versions or texts; git is what `add`, `commit` and `add -u` do to
`index` and `head`.  What the code does in two steps is two steps: `write_mirror` looks,
then writes; `save_config` fixes a file's mtime when it writes the temporary file
(`drafts`), then replaces; the migration copies a duplicate, then removes what is there by
then; an `OSError` or a death may cut the ETL's `open("w")`, the manifest's and the
backup's copy short; `git log` may fail under a reconcile; a failed rename tidies the
temporary file all registrars share.

- `RowsFollowCommit`: a catalog row names only content some commit held.
- `TextIsDurable`: a run that passed its commit point has its pages in a commit;
  every text the wiki held is in the wiki or in the backup, at every step of a migration
  that may die, but for a text an editor replaced, one a later duplicate of the same
  slug replaced in the backup (`displaced`), and one saved to a duplicate between its
  copy and its removal (`unsaved`).  The library is no place for a text: a mirror keeps
  of the header its title only.
- `PipelineIsDurable`: what the manifest lets the next sync skip is on disk, but for an
  unchanged document that a forced run was rewriting when it was cut short (`marred`),
  and committed, but for one whose own commit failed or was cut off (`missed`); a row
  follows its commit.
- `RegistryKeeps`: a registration that was saved is kept by services which never heard
  of it, unless one that had read the file before saves it later (`late`).
- `ReceiptsMirror`: every commit with a trailer has its line, or will get it, or lost it to
  a crash, a failed write, a truncation, a rewrite during which it was appended, or a
  reconcile whose git log failed (`excused`).
- `SentinelHolds`: a sentinel, or a "yes", means that qmd was told of the collection.
- `NothingReplaced`: no run without `--force` changes a mirror that was there when it
  looked (`KeptUnlessForced`); a lookup misses no tag of a config that stands since its
  key was computed, unless that config appeared with a time older than the key the cache
  had (`late`, `NoTagMissing`); and a yaml file goes only when the library has its source
  and tags, those of a file of the same name, or what a command made of them meanwhile
  (`YamlSurvives`).

`overwritten`, `displaced`, `unsaved`, `marred`, `missed`, `late`, `touched`, `excused` and
`everHeld` are history variables.  They name the losses the code has
(section 9), so that the properties say what holds beside them.

**Bounds.**  Two pages, two versions, three runs (one that dies, one that meets what
it left, one forced), one file by hand.  Three wiki files of two collections, two
of which share a stem, two migrations and two edits.  Two documents, versions and ETL runs.  Three services in
two slots, two lapsing configs.  Three commits and two rewrites.  Three
registrars in two slots.  A clock of four ticks.  `library_unlocked` gives each of its two
runs a source of its own.

**Proved**, for any number of pages, versions, documents, services, processes, runs and
crashes:

- `IngestProofs`, from `IngestAssumption` and `Alone` (one process ingests at a time; the
  code has no lock that makes it so, and `library_unlocked` is what happens
  without): `RowsFollowCommit` and `EndsDurable`.  The invariant `IngestInv` follows
  the pages a run wrote (`PagesOnTheirWay`): on disk until it stages them, in the index
  until it commits, in a commit from then on.  A commit that finds nothing staged
  needs `HeadWasHeld` beside it: what HEAD has, a commit held.  `PutLookup` is the
  lemma about the operator that writes mirrors and rows, and needs that a run has
  one version of each page.
  `UnforcedKeepsMirrors`, for any number of ingests at once, is `KeptUnlessForced`: it is
  about a step, from the second look on.
- `EtlPipelineProofs`: `SkippedIsOnDisk`, `KnownIsCommitted`, `RowsAreCommitted`, from one
  invariant: versions only grow (`Newer`), a version that is known is on disk or no longer the
  one the source serves (`Settled`), what a run has written so far is known to
  its copy of the manifest, then to the manifest, then to HEAD (`WrittenSoFar`), and
  what the manifest knows is in HEAD but for the commit at hand (`InHead`).
- `LibraryProofs`, about the run's whole specification, from `LibraryAssumption` (the walk
  of the wiki is a sequence of its files, what is configured are collections) and, for
  the first, `Alone`: `TextHolds`, `PipelineHolds`, `RegistryHolds`, `ReceiptsHold`,
  `SentinelIsTrue` and `NothingIsReplaced`, the safety properties of `library_stores`
  besides `RowsFollowCommit`.
  - `MigrationInv`: the duplicate about to be removed is in the backup, as it is or as it
    was before an editor saved it.  That every duplicate has a first one is
    `FirstIsOne`.
  - `RegistryInv`: whoever is about to save, and the temporary file, have every
    registration that is kept, or know it as late.
  - `ReceiptInv`: what was committed since a reconcile read its log is being appended or
    is excused, and a rewrite is made of lines of commits.
  - `LayoutInv`: what the sentinel says holds of the temporary file and of everybody
    past the registration.
  - `ConfigInv`: the cache has the tags of every config that is not newer than its
    key nor late, and a config newer than a lookup's key was shown after the lookup
    (`FilesInv`); the temporary file and the library have what the migration carried over,
    unless a command touched the collection (`YamlsInv`).

## 8. What is asked of LIES

Run `requests` (module `MCRequests`, `Requests.cfg`), six parts: five make up the module
`UserRequests`, which the proofs are about; `MCRequests` adds the tag filters of
`TagExpr`, whose operators are recursive.

**`McpDaemon`**: `spawn_daemon` (`UpReads`, `UpSpawns`, `UpWaits`, `GivesUp`, `UpWrites`)
and `stop_daemon` (`DownReads`, `DownTerms`, `DownWaits`, `DownEnds`), behind a lock whose
file is stat'ed, unlinked once it is 60 s old, and made again in steps of their own
(`Starts`, `Creates`, `Stats`, `Reaps`), with daemons that bind, hang and exit
(`Binds`, `Exits`), pids that are reused, also while `down` waits for them (`PidReused`), a
stranger on the port, and commands that die or are interrupted (`CallerDies`,
`Interrupted`).  `stolen` says that a contender has unlinked the lock file of a command at
work, which the age of a file allows.  Until then a living daemon is recorded or waited
for, but for the children the code loses sight of (`abandoned`): that of an `up` that died,
was interrupted, could not write the record, or waited in vain for the killed child to go
(`NoneUntracked`); and a recorded one has listened.  Both are `DaemonTracked`.
`TrackedUntilGone`: a record is taken from a daemon only when its process is gone.

**`SyncLock`**: `acquire_heartbeat` and `release_heartbeat` around a sync, `--wait`; the lock
file is stat'ed, unlinked and made in three steps here too (`Stats`, `Reaps`, `Creates`).
`SyncExclusive`: two syncs are inside together only if one has overrun the hour
(`overran`), or one took the file another had just made for the orphan both had found
(`raced`); but for those, a live heartbeat has its lock.

**`LibraryAsk`**: `lib_ask`, the orchestrator's query, and `synthesize` over `ground`,
with the search and read tools and `with_search_diagnostics`, while collections
are registered and served or not.  A page is named by its collection; the
librarian may return any bundle, invented pages included.  The citations of `lib_ask` are
what its synthesizer wrote, whatever that is; the orchestrator's query keeps the claims
that cite an excerpt.

**`Retrieval`**: `retrieve_pages` and `synthesize_answer`, two passes over files that
come and go.  Three of qmd's errors are a failed pass, the lock's two escape (`Raises`).
`AnswersAreFounded` is about both.  A failed search is no miss; the excerpts given to a
synthesizer, and the claims the orchestrator keeps, were returned to this dispatch; a
digest that says the library has nothing searched something; a grounded digest stays in
its scope.  The extractive answer tells a failure from a miss, keeps the library's pages to
the scope, cites each page once, and calls itself ungrounded only without a page of the
library - not the other way round (section 9).

**`PromptTail`**: `_split_tail` and the prompts built on it.  `TailsAreKept`: a library verb
shows every token it was given (`NothingLost`), an ingest of one source all but an earlier
`--source` (`IngestShowsRest`), single-dash spellings of value flags apart; an unknown flag
asks, the source named is the one ingested, flags pass on to `sync`, what deletes is
confirmed, a question keeps its words.  A batch ingest shows its prefix, excludes, force and
dry run, and no more is claimed of it.  `Subsequences` says what a loop that appends some
elements to a new list leaves of the old one; both modules use it.

**`TagExpr`**: `parse_query_argv` peels the include chain, the exclude chain and the
question from a line; the recursive-descent parser and the matcher follow.
`FiltersMeanWhatTheySay` compares them with a reference: a
collection passes exactly when it passes every atom of one alternative; `-c:` and
`+c:` are strict; both chains read the same words alike where the exclude chain accepts
them: it refuses one that qualifies a later atom and not its first (`QualifiedFirst`).
`TagExpr` and `PromptTail` grow one line, a word at a time; a state is a line, and the
properties hold of every line of up to four words.

`CommandsEnd`: every `up`, `down` and wait for a sync ends.

**Proved** (`UserRequestsProofs`), for any commands, daemons, pids, syncs, questions,
collections, documents, words, crashes and time-outs, from `McpAssumption` (`NoPid` is
neither a pid nor a caller), `RequestsAssumption` (the values that stand for nobody and no
filter are none of the others), `RetrievalAssumption` (`TopN` and the bound on file changes
are naturals) and `TailAssumption` (a token has one of the forms `shlex.split` and the prefix
tests tell apart):

- `DaemonIsTracked` and `RecordKeptWhileAlive`.  `RecordInv` holds until a lock file has
  been taken from a command at work: whoever is at work made it, `up` is past the
  record only when there is none, and `down` signals the process the record names.  `DaemonInv` adds who may
  listen on the port (`PortInv`), and that, without a stranger or an abandoned child,
  whoever is about to be recorded has listened (`Written`).
- `SyncIsOne` (`SyncExclusive`).  `SyncInv`: until a sync has been at it for an hour, or two
  have raced for an orphan, whoever is between acquire and release made the lock's file,
  and the file is young.
- `AnswersHold` (`AnswersAreFounded`).  `AskInv` says of each request by itself, since one sees
  nothing of another (`OneAsks`): what its record attests was shown to it (`Recorded`); a
  search that did not finish is on the record until the bundle, and then in the
  bundle or beside excerpts (`Honest`) - the lemma `DiagnosedIs` is about
  `with_search_diagnostics` for any bundle a model may return; the scope of a grounded
  question is within its filter, whatever is registered or served meanwhile
  (`Scoped`).  For the extractive answer, `RetrievalInv`: the hits about to be read passed the
  filter of their pass (`HitsPass`), a page of the library was found by the first pass and
  in scope (`FoundInScope`), and, unless the call raised, a pass that is over has pages or
  says why not (`PassesTell`), and what is returned and said is what both passes read
  (`Told`).
- `TailsHold` (`TailsAreKept`) holds of every tail of typed tokens, of any length: `TailTypeOK` is
  all the invariant there is, and the proof is about what the operators return.  That a
  scan keeps its elements in order (`InOrderEnumerates`, `ValuesAtKeeps`) is proved without
  induction: the number of places before a place is an injection into an
  interval of the same cardinality, so it is onto.  `FlagsRendered` says which tokens the
  flags of a rendered command stand for, and `IngestShows` adds them up for an ingest.

`FiltersMeanWhatTheySay` and `CommandsEnd` are model-checked only.

**Bounds.**  Two callers and pids, three commands, so that something runs beside and
after a `down` that dies; two syncs and four starts (one
may hang, die and be waited for).  One request: requests share nothing but the
collections, which the environment changes already; the theorem is about any number.  Two searches, one of which may fail before or after a
clean one, one change of the collections.  Lines of four words, tails of four tokens; three
collections, one named like another's tag.  Two documents, two hits, three rows,
one file change.

**Fairness.**  Each command's own step; each sync's, except that of the stage `sync`
itself, which may hang for ever; and that an hour passes.

## 9. Disagreements

The first three have a run that TLC must find violated.

| run | the code | the text |
|---|---|---|
| `lock_exit_race` | `_reap_if_stale` judges the pid it read, then unlinks the envelope that is there by then.  A holder that releases and exits in between costs the next holder its lock, and two are in. | the create "makes the decision single-winner" (`utils/exclusive.py:6-7`) |
| `lint_unsafe_fix` | a linter agent that repeats an unsafe finding in other words, and calls it safe, gets it repaired: the merge compares messages too | "the deterministic shell's `safe_to_fix` semantics are preserved" (`orchestrator.py:846-848`) |
| `library_unlocked` | two ingests share one index: the reset after one's failed commit unstages the other's pages, whose commit is then a no-op that writes rows and reports success | "Cross-process flock: `library.git_root.parent / .lies / library.lock`" (`library/writer.py:6-7`) |

Seen while translating, without a run of their own.

*Locks and plans*

- The memory flock uses the default `self_acquire_is_stale`: two tool calls of one
  MCP process reap each other (`memory/service.py:148`: "exclusive flock").
- `lies flock <wiki> force-repair` leaves the sentinel it made to probe the lock
  ("recovery succeeded", `cli/operator.py:491`).
- `write_owner_pid` or `write_heartbeat` failing (`memory/service.py:211-215`) leaks the
  sentinel: the `try` that releases it is not entered yet.
- When an empty commit's restore fails, the `except` around it (`memory/service.py:787-797`)
  restores again, and pops or drops the entry below: an earlier call's.
- A plan applied after `lies lint` drops the uncommitted report with the stash (it
  "always receives the full merged report", `orchestrator.py:2383-2386`).  After a
  conflicting pop the entry is dropped ("Original state is preserved in the stash
  list", `memory/service.py:1107-1115`).
- `git rev-parse` failing after the commit (`wiki/git.py:163`): the caller gets
  an error and the stash back, the commit stays.  `src/CHANGELOG.md:4845` says "full
  rollback on failure"; `wiki/git.py:92-94` speaks of the index only.
- Catalog rows written before a failure are not undone: the snapshot they are
  said to be covered by (`memory/service.py:955-957`) does not hold the
  git-ignored database.  The same comment calls a stale row
  "reconcile-cleanable", while `memory/catalog.py:342` compares slugs only.
- A plan that changes no page still commits, since its log line does;
  `memory/service.py:788-792` expects no commit.
- A page that was edited and not committed is always a conflict: it validates
  against the edit, and is compared again after the stash took the edit away.
  `PageDelete` carries no hash: a page changed since its author read it is deleted.
- `rev-parse HEAD` may name the commit of a `/commit` that came in between
  (`wiki/git.py:100-101` promises the new one).
- A process killed before it wrote its pid file leaves a lock only a force-repair
  removes; `utils/exclusive.py:14-15` says that a dead holder yields a reap.  The
  same holds of a release or a reap killed half way.
- A stale heartbeat never makes a live holder stale, as `utils/exclusive.py:280-282`
  has it; the module docstring ("Wall-clock recovery treats heartbeats older than
  max_age_s as stale") and the name of
  `src/tests/integration/test_memory_flock_recovery.py:158` say the opposite.
- A heartbeat that is not there yet counts as one of 1970, so a contender of
  another user that looks between the pid file and the heartbeat reports
  "indeterminate" rather than "busy".

*Turns, filing, repairs*

- The lines a drain deferred are lost when that turn's agent fails: nothing shows
  them and the next drain replaces them.  "deferred after N attempts"
  (`memory/retry.py:160`) is also said of an item deferred at its first replay.
  `WikiCommitFailed`, one of the three errors named transient, is never raised.
- The filing gate looks for the slug of the answer's first line, not of the
  question (`orchestrator.py:2141-2180`).  "Never raises" of `file_back_author` leaves out
  the `ValueError` of `build_author_plan`, which ends `run_query`.
- `lies query --format X` may file twice; when the second run files nothing, its
  empty receipt hides the page of the first.
- An orphan repaired by an index entry stays an orphan: `index.md` is not among the
  pages.  Two overlapping `lint --fix` can list a page twice.  No shell finding of
  `missing_page` is safe to fix, so `create_stub` needs the model to say so;
  `dangling_derived_from` is safe to fix and no repair edits frontmatter.
- An `append_link` to `index.md` is not looked up by the redundancy rule
  (`agents/repair_validation.py`), so a second run lists the page twice; one to a page
  replaces its frontmatter `type` by its directory's (`memory/repair.py:62-99`).  The
  rule that a plan touches the finding's pages reads a list the agent fills in, and
  skips an empty one.

*qmd*

- `QmdWedgeError` escapes `qmd_reindex`, whose docstring says that errors are
  collected (`qmd/cli.py:376-421`).  `as_capability` lacks the `RuntimeError` of a
  refused connection (`qmd/capability.py:92-112`).
- A batched read opens its session outside the recovery, and its retry uses the
  dead session again.  A call that respawns a stale daemon writes no scope sidecar.  The toolset's calls
  pass by the query lock.
- The reap kills whatever pid is recorded, not the one that was judged: a healthy daemon
  somebody else has started since is killed too.  A spawn that fails after a reap is
  swallowed, and the scope sidecar is written all the same (`qmd/daemon.py:384-412`).

*Library and stores*

- A page left by a run that died between mirror and commit is "up to date" for
  later runs, which never commit it; the migration's `continue` does the same.  So is
  one whose write was cut short after its header.
- `write_mirror` looks (`library/mirror.py:71`) before it writes (`:84`) and does not open
  with `x`: a file that appears in between is replaced without `--force`.
- The first ingest into a library that is no repository writes its mirrors before the
  bootstrap's `git add .` and "init" commit take them: its own commit finds nothing, and
  sweep, marker and qmd are left out (`library/writer.py:89-149`, whose docstring has the
  baseline hold the catalog and two directories).
- A dry run writes `poison/` (the help says "write nothing").  Pages of equal stem in
  different directories share a row.  The sweep commits other writers' changes.
- `library new --tag` on an existing config drops its description and keywords.  The tag cache
  outlives `library delete` when the directory stays, and misses a config that was shown by
  `os.replace` with a time older than the key a lookup had computed, until the next change
  (`library/config_io.py:67-72`).  `save_config`'s check and its temporary file race with
  another save, which an unforced one may replace.
- The config migration drops `description` and `scope_keywords` and then unlinks the file
  that had them (`library/migrate_collection_configs.py:132-153`).  It looks for duplicates
  by file stem and saves by name: under `--force` two files of one name overwrite each
  other.
- The migration overwrites a differing mirror without force (`library/migrate.py:127-131`);
  an edit between the copy and the unlink of a duplicate is lost (`:135-139`); its "Move"
  copies, and keeps the title of the header only.  Its backup directory is named after the
  word "today", so a later duplicate of the same slug replaces an earlier one.
- The manifest is flushed before the commit: after a failed commit the next sync
  skips those documents for good.  A forced rewrite that is cut short leaves half a file
  the manifest calls unchanged (`etl/stages/write.py:87`), and a manifest that is cut short
  reads as an empty one.  `SyncOrchestrator` runs in tests only.
- Two overlapping registrations lose one; they share a temporary file, whose
  rename may fail or install half a file.
- A `git log` that fails returns no rows (`memory/sidecar.py:206-207`), and the reconcile
  then replaces the sidecar with an empty one.
- `reconcile` writes the newest first, and `read_recent`, `truncate` and the duplicate
  check look at the end of the file.  A rewrite loses the line appended meanwhile.
- A failed rename of the qmd sentinel unlinks the temporary file another call has just
  opened (`wiki/layout.py:142-149`).  An `OSError` of the sentinel escapes from `init`; the sentinel stays when qmd loses
  the collection.

*Requests*

- The MCP daemon's lock is taken from a live holder after 60 s (`up --timeout 90`), and
  a release unlinks whoever's file is there.  A stranger that binds the port between
  the probe and the child makes `up` succeed for a dead child.  A child orphaned by a
  died or interrupted `up` (`mcp/daemon.py:405-409` catches one exception), by a failed
  record, or by a kill it outlives (`:308-317`), keeps the port, and `down` knows nothing of
  it.  A reused pid of another wiki's daemon passes the check; one that is reused between
  the check and the signal costs a stranger its life.
- Two commands, or two syncs, that find the same orphaned lock file both get in, when one
  unlinks what the other has just made (`utils/exclusive.py:226-233`; "cannot both
  succeed", `etl/sync_helper.py:39-43`).
- A sync longer than an hour loses lock and heartbeat, and its release removes
  its successor's.  After a crash `sync --wait` returns at once and exits busy.
- `search` drops `exclude_tags` (`mcp/search.py:207`).  One registered collection that qmd
  does not serve refuses an unscoped search and is skipped by `ground`.  `ground`'s
  librarian path calls `run_sync` in a running loop and always ends transient.
  `synthesize` says "No relevant content" of a digest that searched nothing
  (`mcp/synth.py:154-165`).  The citations of `lib_ask` are its synthesizer's, checked
  against nothing.
  The orchestrator's query ignores `transient` and synthesizes from empty bundles.
- A one-sided failure of `retrieve_pages` is reported as "library returned no matches";
  an unscoped pass that returned only wiki pages is not called ungrounded
  (`query/synthesizer.py:270-274`).  `QmdLockBusy` and `WikiFlockIndeterminate` are none of the
  three errors `retrieve_pages` turns into a failed pass (`:797-809`), and escape.
- The include chain does not extend over `&b`, whose comment says it does; the
  exclude chain does.  `-a&t:x` is refused (`query/tag_expr.py:478`), `+a&t:x` is not.
- `collections --source x delete foo` renders `library delete delete`; two `--check`
  flags lose one; `--force=false` turns force on; an ingest with `--slug-prefix` alone
  renders a command without a collection; a batch drops `--collection` and `--title`
  (`mcp/prompts_impl.py:1131-1137`); the last of several `--source` wins; a value
  flag spelled with one dash (`-source`) vanishes silently when the flag has a value elsewhere
  in the line (`:592-610`).

## 10. Not modelled, and why

- `memory/retrieval.py`, `memory/tools.py`: they read and rank, and keep nothing but a
  cache of recent searches.
- `providers/*`, `config.py`, `wiki_settings.py`: sequential edits of configuration files,
  each an atomic replace.
- `builders/*`, `scrapers/*`, `etl/normalize/*`: format conversion and network access;
  their failures are the failing steps of `Ingest` and `EtlPipeline`.
- The text rules of plans, pages, reports and schemas; ranking, spans, citations and
  rendering; telemetry; help output.  Where one decides what happens (a collision, a
  refusal, a quarantine) the decision is an input.
- The status, doctor and listing commands: they read.
- Language models: any output of their type.
- Two writers inside one `write` to one temporary file (each such write is one step); a
  yaml file edited by hand while its migration runs; an upstream that serves an earlier
  content again; more than one command per collection between a config's write and its
  `os.replace`.

Every safety property that a run finds to hold is a theorem, but for
`FiltersMeanWhatTheySay`.  That one is about what `TagExpr`'s recursive-descent parser computes
for a line of words and its matcher for the tree: an induction over the data, whose induction
theorem takes an operator as a parameter, which the installed provers cannot instantiate,
and over RECURSIVE operators.
Liveness
(`FilingSettles`, `CallsEnd`, `CommandsEnd`, `OrphanReaped`, `RegisteredOrphanReaped`) needs `ENABLED`, which is out of their reach as well.

## 11. Reproducing it

In this directory: `tlasany M.tla` for every module; `tlc -config X.cfg M` for the runs
listed in `PROJECT.json`, each a few seconds to two minutes; `tlapm` on
the `*Proofs` modules.  `PROJECT.json` also maps every definition to the lines it models,
and names for each property of a passing run a mutant: the operators marked "Mutant:"
next to the definition they replace, each a slip the code could have had, which the
same run must find.
