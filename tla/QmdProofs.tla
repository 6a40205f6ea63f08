------------------------------- MODULE QmdProofs -------------------------------
(* The site-wide lock, the daemon and its callers, the subprocess helper and   *)
(* the index of qmd, for any values of their constants.                        *)
EXTENDS MCQmd, TLAPS

-------------------------------------------------------------------------------
(* The lock *)

LockSpec == LockInit /\ [][LockNext]_lockVars

\* The lock files, the depths and the tickets keep their types.
THEOREM LockTypes == LockSpec => []LockTypeOK
<1> USE QmdLockAssumption
<1>1. LockInit => LockTypeOK
  BY DEF LockInit, LockTypeOK
<1>2. LockTypeOK /\ [LockNext]_lockVars => LockTypeOK'
  <2> SUFFICES ASSUME LockTypeOK, [LockNext]_lockVars PROVE LockTypeOK'
    OBVIOUS
  <2> USE DEF LockTypeOK
  <2>1. ASSUME NEW c \in Clients, NEW by \in Clients \cup {NoClient}, StartsPolling(c, by)
        PROVE LockTypeOK'
    BY <2>1 DEF StartsPolling, Outside
  <2>2. ASSUME NEW c \in Clients, Wins(c) PROVE LockTypeOK'
    BY <2>2 DEF Wins
  <2>3. ASSUME NEW c \in Clients, Polls(c) PROVE LockTypeOK'
    BY <2>3 DEF Polls
  <2>4. ASSUME NEW c \in Clients, Raises(c) PROVE LockTypeOK'
    BY <2>4 DEF Raises
  <2>5. ASSUME NEW c \in Clients, Nests(c) PROVE LockTypeOK'
    BY <2>5 DEF Nests
  <2>6. ASSUME NEW c \in Clients, Leaves(c) PROVE LockTypeOK'
    BY <2>6 DEF Leaves, ReleasedPath
  <2>7. CASE EnvMoves
    BY <2>7 DEF EnvMoves
  <2>8. CASE UNCHANGED lockVars
    BY <2>8 DEF lockVars
  <2>9. QED
    BY <2>1, <2>2, <2>3, <2>4, <2>5, <2>6, <2>7, <2>8
    DEF LockNext, LockStep, Delegates, TimesOut, Indeterminate
<1>3. QED
  BY <1>1, <1>2, PTL DEF LockSpec

\* A lock is held exactly by a context inside a locked call that acquired it:
\* a moved environment strands none, a nested return releases none, and two
\* contexts on one path exclude each other (with_qmd_lock, _release).
THEOREM HeldByDepth == LockSpec => []OwnedByDepth
<1> USE QmdLockAssumption
<1>1. LockInit => OwnedByDepth
  BY DEF LockInit, OwnedByDepth
<1>2. LockTypeOK /\ OwnedByDepth /\ [LockNext]_lockVars => OwnedByDepth'
  <2> SUFFICES ASSUME LockTypeOK, OwnedByDepth, [LockNext]_lockVars PROVE OwnedByDepth'
    OBVIOUS
  <2> USE DEF LockTypeOK, OwnedByDepth
  \* The ticket changes only while its context holds nothing.
  <2>1. ASSUME NEW c \in Clients, NEW by \in Clients \cup {NoClient}, StartsPolling(c, by)
        PROVE OwnedByDepth'
    BY <2>1 DEF StartsPolling, Outside
  <2>2. ASSUME NEW c \in Clients, Wins(c) PROVE OwnedByDepth'
    <3>1. depth[c] = 0
      BY <2>2 DEF Wins, Contended
    <3>2. QED
      BY <2>2, <3>1 DEF Wins, Contended
  <2>3. ASSUME NEW c \in Clients, Polls(c) \/ Raises(c) PROVE OwnedByDepth'
    BY <2>3 DEF Polls, Raises
  <2>4. ASSUME NEW c \in Clients, Nests(c) PROVE OwnedByDepth'
    BY <2>4 DEF Nests
  \* Only the outermost frame releases, and what it releases is its own.
  <2>5. ASSUME NEW c \in Clients, Leaves(c) PROVE OwnedByDepth'
    <3>1. flock[ticket[c]] = c
      BY <2>5 DEF Leaves
    <3>2. CASE depth[c] = 1
      BY <2>5, <3>1, <3>2 DEF Leaves, ReleasedPath
    <3>3. CASE depth[c] # 1
      BY <2>5, <3>3 DEF Leaves
    <3>4. QED
      BY <3>2, <3>3
  <2>6. CASE EnvMoves
    BY <2>6 DEF EnvMoves
  <2>7. CASE UNCHANGED lockVars
    BY <2>7 DEF lockVars
  <2>8. QED
    BY <2>1, <2>2, <2>3, <2>4, <2>5, <2>6, <2>7
    DEF LockNext, LockStep, Delegates, TimesOut, Indeterminate
<1>3. QED
  BY <1>1, <1>2, LockTypes, PTL DEF LockSpec

\* Two contexts inside locked calls on one path are one context.
COROLLARY OneHolder ==
    LockSpec => [](\A c, d \in Clients :
                      depth[c] > 0 /\ depth[d] > 0 /\ ticket[c] = ticket[d] => c = d)
<1>1. OwnedByDepth => \A c, d \in Clients :
                        depth[c] > 0 /\ depth[d] > 0 /\ ticket[c] = ticket[d] => c = d
  BY DEF OwnedByDepth
<1>2. QED
  BY <1>1, HeldByDepth, PTL

-------------------------------------------------------------------------------
(* The lock of each path is the exclusive lock *)

\* On one path: whoever won the attempt holds it, and is inside while a call
\* nested in the locked one runs.
OnPath(p) == INSTANCE ExclusiveLock
                WITH Nobody <- NoClient, holder <- flock[p],
                     inside <- {c \in Clients : depth[c] > 1 /\ ticket[c] = p}

\* The locks start free, and nobody is in a call.
LEMMA PathStarts == ASSUME NEW p \in LockPaths, LockInit PROVE OnPath(p)!Init
BY DEF LockInit, OnPath!Init

\* A step takes the lock of a path, gives it back, enters or leaves a nested call,
\* or is about another path.
LEMMA PathSteps ==
    ASSUME NEW p \in LockPaths, LockTypeOK, OwnedByDepth, [LockNext]_lockVars
    PROVE  [OnPath(p)!Next]_<<flock[p], {c \in Clients : depth[c] > 1 /\ ticket[c] = p}>>
<1> DEFINE inside == {c \in Clients : depth[c] > 1 /\ ticket[c] = p}
           Maps == [OnPath(p)!Next]_<<flock[p], inside>>
<1> USE QmdLockAssumption
<1>1. ASSUME NEW c \in Clients, NEW by \in Clients \cup {NoClient}, StartsPolling(c, by) PROVE Maps
  \* Who starts to poll is in no call.
  <2>1. flock' = flock /\ depth' = depth /\ depth[c] = 0 /\ \A d \in Clients \ {c} : ticket'[d] = ticket[d]
    BY <1>1 DEF StartsPolling, Outside, LockTypeOK
  <2>2. inside' = inside
    BY <2>1
  <2>3. QED
    BY <2>1, <2>2
<1>2. ASSUME NEW c \in Clients, Wins(c) PROVE Maps
  <2>1. /\ flock[ticket[c]] = NoClient /\ flock' = [flock EXCEPT ![ticket[c]] = c]
        /\ depth' = [depth EXCEPT ![c] = 1] /\ ticket' = ticket
    BY <1>2 DEF Wins, Contended
  <2>2. depth[c] = 0
    BY <2>1 DEF OwnedByDepth, LockTypeOK
  <2>3. inside' = inside
    BY <2>1, <2>2 DEF LockTypeOK
  <2>4. CASE ticket[c] = p
    <3>1. flock[p] = NoClient /\ flock'[p] = c
      BY <2>1, <2>4 DEF LockTypeOK
    <3>2. QED
      BY <2>3, <3>1 DEF OnPath!Next, OnPath!Take
  <2>5. CASE ticket[c] # p
    BY <2>1, <2>3, <2>5 DEF LockTypeOK
  <2>6. QED
    BY <2>4, <2>5
<1>3. ASSUME NEW c \in Clients, Polls(c) \/ Raises(c) PROVE Maps
  BY <1>3 DEF Polls, Raises
<1>4. ASSUME NEW c \in Clients, Nests(c) PROVE Maps
  <2>1. /\ flock' = flock /\ ticket' = ticket /\ depth[c] > 0
        /\ depth' = [depth EXCEPT ![c] = @ + 1] /\ depth[c] \in Nat
    BY <1>4 DEF Nests, LockTypeOK
  <2>2. flock[ticket[c]] = c
    BY <2>1 DEF OwnedByDepth
  <2>3. inside' = IF ticket[c] = p THEN inside \cup {c} ELSE inside
    BY <2>1 DEF LockTypeOK
  <2>4. QED
    BY <2>1, <2>2, <2>3 DEF OnPath!Next, OnPath!Enter
<1>5. ASSUME NEW c \in Clients, Leaves(c) PROVE Maps
  <2>1. /\ ticket' = ticket /\ depth[c] > 0 /\ depth[c] \in Nat
        /\ depth' = [depth EXCEPT ![c] = @ - 1]
        /\ IF depth[c] = 1 THEN flock' = [flock EXCEPT ![ticket[c]] = NoClient] ELSE flock' = flock
    BY <1>5 DEF Leaves, ReleasedPath, LockTypeOK
  <2>2. flock[ticket[c]] = c /\ \A d \in Clients \ {c} : depth'[d] = depth[d]
    BY <2>1 DEF OwnedByDepth, LockTypeOK
  <2>3. depth'[c] = depth[c] - 1
    BY <2>1 DEF LockTypeOK
  \* The outermost frame gives the lock back, with no nested call running.
  <2>4. CASE depth[c] = 1
    <3>1. inside' = inside /\ c \notin inside
      BY <2>1, <2>2, <2>3, <2>4
    <3>2. flock'[p] = IF ticket[c] = p THEN NoClient ELSE flock[p]
      BY <2>1, <2>4 DEF LockTypeOK
    <3>3. QED
      BY <2>2, <3>1, <3>2 DEF OnPath!Next, OnPath!Give
  \* A nested return keeps it, for the calls that are left.
  <2>5. CASE depth[c] # 1
    <3>1. flock' = flock
      BY <2>1, <2>5
    <3>2. CASE ticket[c] # p
      <4>1. inside' = inside
        BY <2>1, <2>2, <3>2
      <4>2. QED
        BY <3>1, <4>1
    <3>3. CASE ticket[c] = p /\ depth[c] = 2
      <4>1. inside' = inside \ {c}
        BY <2>1, <2>2, <2>3, <3>3
      <4>2. QED
        BY <2>2, <3>1, <3>3, <4>1 DEF OnPath!Next, OnPath!Exit
    <3>4. CASE ticket[c] = p /\ depth[c] > 2
      <4>1. inside' = inside
        BY <2>1, <2>2, <2>3, <3>4
      <4>2. QED
        BY <3>1, <4>1
    <3>5. QED
      BY <2>1, <2>5, <3>2, <3>3, <3>4
  <2>6. QED
    BY <2>4, <2>5
<1>6. CASE EnvMoves
  BY <1>6 DEF EnvMoves
<1>7. CASE UNCHANGED lockVars
  BY <1>7 DEF lockVars
<1>8. QED
  BY <1>1, <1>2, <1>3, <1>4, <1>5, <1>6, <1>7
  DEF LockNext, LockStep, Delegates, TimesOut, Indeterminate

\* However calls nest, wait for each other, time out and raise, and however the
\* environment moves meanwhile, the lock of each path is the exclusive lock callers
\* rely on: taken when free, given back by its holder only, with none of its nested
\* calls still running (qmd/lock.py with_qmd_lock, _held_depth).
THEOREM EachPathIsExclusive == ASSUME NEW p \in LockPaths PROVE LockSpec => OnPath(p)!Spec
<1>1. LockInit => OnPath(p)!Init
  BY PathStarts
<1>2. LockTypeOK /\ OwnedByDepth /\ [LockNext]_lockVars
         => [OnPath(p)!Next]_<<flock[p], {c \in Clients : depth[c] > 1 /\ ticket[c] = p}>>
  BY PathSteps
<1>3. QED
  BY <1>1, <1>2, LockTypes, HeldByDepth, PTL DEF LockSpec, OnPath!Spec

-------------------------------------------------------------------------------
(* One subprocess *)

\* Once the helper is done nothing of the command's group is left, and only a
\* finished helper has ended.
RunInv ==
    /\ child \in {"runs", "exited", "killed"} /\ forked \in BOOLEAN /\ writers \in BOOLEAN /\ streams \in BOOLEAN
    /\ pipe \in 0 .. PipeCap
    /\ now \in 0 .. Total + 1 /\ last \in 0 .. now
    /\ captured \in 0 .. CaptureCap
    /\ rpc \in {"loop", "wait", "done"}
    /\ ended \in {"no", "result", "idle", "total"}
    /\ R!GroupIsGone /\ R!ResultIsReal
    /\ ended = "result" => rpc = "done"

LEMMA RunStart == R!RunInit => RunInv
<1>1. Total \in Nat /\ PipeCap \in Nat /\ CaptureCap \in Nat
  BY QmdAssumption
<1>2. R!RunInit => /\ pipe \in 0 .. PipeCap /\ now \in 0 .. Total + 1 /\ last \in 0 .. now
                   /\ captured \in 0 .. CaptureCap
  BY <1>1 DEF R!RunInit
<1>3. R!RunInit => forked \in BOOLEAN /\ writers \in BOOLEAN /\ streams \in BOOLEAN
  BY DEF R!RunInit
<1>4. QED
  BY <1>2, <1>3 DEF R!RunInit, RunInv, R!GroupIsGone, R!ResultIsReal

LEMMA RunKeeps == RunInv /\ [R!RunNext]_(R!runVars) => RunInv'
<1> SUFFICES ASSUME RunInv, [R!RunNext]_(R!runVars) PROVE RunInv'
  OBVIOUS
<1> USE QmdAssumption DEF RunInv, R!GroupIsGone, R!ResultIsReal, R!helper, R!Lives
<1>1. CASE R!Emits
  BY <1>1 DEF R!Emits
<1>2. CASE R!Forks
  BY <1>2 DEF R!Forks
<1>3. CASE R!ClosesPipes
  BY <1>3 DEF R!ClosesPipes
<1>4. CASE R!Exits
  BY <1>4 DEF R!Exits
<1>5. CASE R!GrandchildExits
  BY <1>5 DEF R!GrandchildExits
<1>6. ASSUME NEW how \in {"result", "idle", "total"}, R!Ends(how), how = "result" => child = "exited" PROVE RunInv'
  BY <1>6 DEF R!Ends, R!KillsGroup
<1>7. CASE R!Cut
  BY <1>6, <1>7 DEF R!Cut, R!Bound
<1>8. CASE R!Reads
  BY <1>8 DEF R!Reads, R!Looping, R!Bound
<1>9. CASE R!SelectTimesOut
  BY <1>9 DEF R!SelectTimesOut, R!Looping, R!Bound
<1>10. CASE R!EndOfFile
  BY <1>10 DEF R!EndOfFile, R!Looping
<1>11. CASE R!Reaps
  BY <1>6, <1>11 DEF R!Reaps
<1>12. CASE UNCHANGED R!runVars
  BY <1>12 DEF R!runVars
<1>13. QED
  BY <1>1, <1>2, <1>3, <1>4, <1>5, <1>7, <1>8, <1>9, <1>10, <1>11, <1>12 DEF R!RunNext, R!HelperStep

LEMMA RunIsReal == RunInv => ResultsAreReal
BY DEF RunInv, ResultsAreReal, R!RunTypeOK, R!GroupIsGone, R!ResultIsReal

-------------------------------------------------------------------------------
(* The index *)

Results == [end : {"none", "ok", "raised", "refused"}, cleaned : BOOLEAN, indexed : BOOLEAN,
            embedded : BOOLEAN, errors : SUBSET {"cleanup", "update", "embed"}]

\* An operation under way has reported nothing yet; the embedding of a reindex
\* follows its update; a refused operation never starts.
IndexInv ==
    /\ X!IndexTypeOK
    /\ ipc # "idle" => result.errors = {} /\ ~result.embedded /\ result.end = "none"
    /\ ipc \in {"show", "remove", "add"} => op.kind \notin {"reindex", "update", "embed"}
    /\ ipc \in {"cleanup", "update", "embed"} => op.kind \in {"reindex", "update", "embed"}
    /\ ipc = "embed" /\ op.kind = "reindex" => result.indexed
    /\ X!Refused => ipc = "idle"
    /\ X!ReindexTellsTruth

LEMMA IndexStart == X!IndexInit => IndexInv
<1> SUFFICES ASSUME X!IndexInit PROVE IndexInv
  OBVIOUS
<1>1. \E o \in X!Ops : o.flags = X!NoFlags
  <2>1. PICK n \in Names, d \in Dirs : TRUE
    BY QmdAssumption
  <2>2. [kind |-> "add", name |-> n, dir |-> d, flags |-> X!NoFlags] \in X!Ops
    BY DEF X!Ops, X!Kinds, X!Flags, X!NoFlags
  <2>3. QED
    BY <2>2
<1>2. op \in X!Ops
  BY <1>1 DEF X!IndexInit
<1>3. QED
  BY <1>2, QmdAssumption DEF X!IndexInit, IndexInv, X!IndexTypeOK, X!NoResult, X!ReindexTellsTruth

LEMMA IndexKeeps == IndexInv /\ [X!IndexNext]_(X!indexVars) => IndexInv'
<1> SUFFICES ASSUME IndexInv, [X!IndexNext]_(X!indexVars) PROVE IndexInv'
  OBVIOUS
<1> USE QmdAssumption
    DEF IndexInv, X!IndexTypeOK, X!ReindexTellsTruth, X!index, X!outside, X!Ends, X!Then, X!Refused
<1>1. CASE X!StartOp
  <2>1. PICK o \in X!Ops :
          /\ op' = o
          /\ ipc' = IF X!Refused THEN "idle" ELSE X!First(o)
          /\ result' = [X!NoResult EXCEPT !.end = IF X!Refused THEN "refused" ELSE "none"]
    BY <1>1 DEF X!StartOp
  <2>2. UNCHANGED <<registry, docs, vectors, onDisk, sandbox>> /\ ops' \in 0 .. MaxOps
    BY <1>1 DEF X!StartOp
  <2>3. o.kind \in {"add", "addIfMissing", "addOrUpdate", "remove", "update", "embed", "reindex"}
    BY DEF X!Ops, X!Kinds
  <2>4. /\ X!First(o) \in {"show", "remove", "add", "cleanup", "update", "embed"}
        /\ X!First(o) \in {"show", "remove", "add"} => o.kind \notin {"reindex", "update", "embed"}
        /\ X!First(o) \in {"cleanup", "update", "embed"} => o.kind \in {"reindex", "update", "embed"}
        /\ X!First(o) = "embed" => o.kind # "reindex"
    BY <2>3 DEF X!First
  <2>5. QED
    BY <2>1, <2>2, <2>4 DEF X!NoResult
<1>2. CASE X!Show
  BY <1>2 DEF X!Show
<1>3. CASE X!Remove
  BY <1>3 DEF X!Remove, X!QmdRemove, X!RemoveFails
<1>4. CASE X!Add
  BY <1>4 DEF X!Add, X!QmdAdd, X!AddFails, X!Ops
<1>a. ASSUME NEW s \in {"cleanup", "update", "embed"}, X!StageFails(s)
      PROVE  /\ ipc' = "idle" /\ result'.end = "ok" /\ result'.errors = result.errors \cup {s}
             /\ result'.embedded = result.embedded /\ result'.indexed = result.indexed
             /\ result' \in Results
  BY <1>a DEF X!StageFails, Results
<1>b. ASSUME NEW s \in {"idle", "update", "embed"}, NEW f \in {"cleaned", "indexed", "embedded"}, X!Stage(s, f)
      PROVE  /\ result'.end = (IF s = "idle" THEN "ok" ELSE result.end) /\ result'.errors = result.errors
             /\ result'.embedded = (f = "embedded" \/ result.embedded)
             /\ result'.indexed = (f = "indexed" \/ result.indexed)
             /\ result' \in Results
  <2>1. CASE f = "cleaned"
    BY <1>b, <2>1 DEF X!Stage, Results
  <2>2. CASE f = "indexed"
    BY <1>b, <2>2 DEF X!Stage, Results
  <2>3. CASE f = "embedded"
    BY <1>b, <2>3 DEF X!Stage, Results
  <2>4. QED
    BY <2>1, <2>2, <2>3
<1>5. CASE X!Cleanup
  <2>1. vectors' \subseteq Names /\ UNCHANGED <<registry, docs, onDisk, sandbox, op, ops>>
    BY <1>5 DEF X!Cleanup, X!QmdCleanup
  <2>2. \/ ipc' = "update" /\ X!Stage("update", "cleaned")
        \/ X!StageFails("cleanup")
        \/ X!Ends("raised")
    BY <1>5 DEF X!Cleanup
  <2>3. QED
    BY <1>5, <1>a, <1>b, <2>1, <2>2 DEF X!Cleanup, Results
<1>6. CASE X!Update
  <2>1. docs' \subseteq Names /\ UNCHANGED <<registry, vectors, onDisk, sandbox, op, ops>>
    BY <1>6 DEF X!Update, X!QmdUpdate, X!Registered
  <2>2. \/ \E next \in {"embed", "idle"} : /\ ipc' = next /\ X!Stage(next, "indexed")
                                           /\ next = "embed" => op.kind = "reindex"
        \/ op.kind = "reindex" /\ X!StageFails("update")
        \/ X!Ends("raised")
    BY <1>6 DEF X!Update, X!UpdateFails
  <2>3. ipc = "update" /\ op.kind \in {"reindex", "update", "embed"} /\ ~X!Refused
    BY <1>6 DEF X!Update
  <2>4. CASE \E next \in {"embed", "idle"} : /\ ipc' = next /\ X!Stage(next, "indexed")
                                             /\ next = "embed" => op.kind = "reindex"
    <3>1. PICK next \in {"embed", "idle"} : /\ ipc' = next /\ X!Stage(next, "indexed")
                                            /\ next = "embed" => op.kind = "reindex"
      BY <2>4
    <3>2. /\ result'.end = (IF next = "idle" THEN "ok" ELSE result.end) /\ result'.errors = result.errors
          /\ result'.embedded = result.embedded /\ result'.indexed
          /\ result' \in Results
      BY <1>b, <3>1
    <3>3. QED
      BY <2>1, <2>3, <3>1, <3>2 DEF Results
  <2>5. CASE X!StageFails("update")
    BY <1>a, <2>1, <2>3, <2>5 DEF Results
  <2>6. CASE X!Ends("raised")
    BY <2>1, <2>3, <2>6 DEF Results
  <2>7. QED
    BY <2>2, <2>4, <2>5, <2>6
<1>7. CASE X!Embed
  <2>1. vectors' \subseteq Names /\ UNCHANGED <<registry, docs, onDisk, sandbox, op, ops>>
    BY <1>7 DEF X!Embed, X!QmdEmbed
  <2>2. \/ ipc' = "idle" /\ X!Stage("idle", "embedded")
        \/ op.kind = "reindex" /\ X!StageFails("embed")
        \/ X!Ends("raised")
    BY <1>7 DEF X!Embed
  <2>3. QED
    BY <1>7, <1>a, <1>b, <2>1, <2>2 DEF X!Embed, Results
<1>8. CASE X!QmdSyncEmpty
  BY <1>8 DEF X!QmdSyncEmpty
<1>9. CASE X!DirVanishes
  BY <1>9 DEF X!DirVanishes
<1>10. CASE UNCHANGED X!indexVars
  BY <1>10 DEF X!indexVars
<1>11. QED
  BY <1>1, <1>2, <1>3, <1>4, <1>5, <1>6, <1>7, <1>8, <1>9, <1>10 DEF X!IndexNext

LEMMA IndexIsTrue == IndexInv => IndexIsTold
BY DEF IndexInv, IndexIsTold, X!NoDriftUnseen, X!CollectionDrift, X!DocumentDrift, X!RegistryDivergence,
   X!Reachable, X!Registered

\* What a step of the index does to a refreshed collection, and to the live index.
Refreshed == \A n \in Names : ipc # "idle" /\ result'.end = "ok" /\ op.kind = "addOrUpdate" /\ op.name = n
                => registry'[n] = op.dir
LiveKept == sandbox.data /\ ~sandbox.cache => UNCHANGED X!index \/ X!QmdSyncEmpty

LEMMA IndexSteps == IndexInv /\ [X!IndexNext]_(X!indexVars) => Refreshed /\ LiveKept
<1> SUFFICES ASSUME IndexInv, [X!IndexNext]_(X!indexVars) PROVE Refreshed /\ LiveKept
  OBVIOUS
<1> USE DEF X!index, X!outside
<1>1. LiveKept
  BY DEF LiveKept, IndexInv, X!Refused, X!IndexNext, X!StartOp, X!Show, X!Remove, X!Add, X!Cleanup,
     X!Update, X!Embed, X!DirVanishes, X!indexVars
<1>2. Refreshed
  <2> SUFFICES ASSUME ipc # "idle", result'.end = "ok", op.kind = "addOrUpdate"
               PROVE  registry'[op.name] = op.dir
    BY DEF Refreshed
  <2>1. /\ result.end = "none" /\ op.name \in Names /\ registry \in [Names -> Dirs \cup {Absent}]
        /\ ipc \notin {"cleanup", "update", "embed"}
        /\ result \in [end : {"none", "ok", "raised", "refused"}, cleaned : BOOLEAN, indexed : BOOLEAN,
                       embedded : BOOLEAN, errors : SUBSET {"cleanup", "update", "embed"}]
    BY DEF IndexInv, X!IndexTypeOK, X!Ops
  <2>2. CASE X!Show
    BY <2>1, <2>2 DEF X!Show, X!Ends, X!Then
  <2>3. CASE X!Remove
    BY <2>1, <2>3 DEF X!Remove, X!Then, X!Ends, X!RemoveFails
  <2>4. CASE X!Add
    BY <2>1, <2>4 DEF X!Add, X!QmdAdd, X!Ends, X!AddFails
  <2>5. CASE UNCHANGED result
    BY <2>1, <2>5
  <2>6. QED
    BY <2>1, <2>2, <2>3, <2>4, <2>5 DEF X!IndexNext, X!StartOp, X!Cleanup, X!Update, X!Embed,
       X!QmdSyncEmpty, X!DirVanishes, X!indexVars
<1>3. QED
  BY <1>1, <1>2

-------------------------------------------------------------------------------
(* The daemon and its callers *)

Frames == [goal : Goals, seen : 0 .. MaxStarts, fails : Seq(DOMAIN Failures), session : 0 .. MaxStarts,
           bodies : Seq({"body", "none"})]

\* The sends of c failed as its goal says.
FailedOnce(c, why) == \E f \in DOMAIN Failures : frame[c].fails = <<f>> /\ Classify(f) = why

\* Until its answer a caller has been told nothing, and a query holds the lock;
\* where it stands fixes why it restarts the daemon and what has failed before.
Sound(c) ==
    /\ pc[c] # "done" => verdict[c] = "none"
    /\ kind[c] = "query" /\ pc[c] \notin {"idle", "lock", "done"} => depth[c] > 0
    /\ pc[c] \in {"idle", "lock", "scope", "probe", "stale", "call", "wait", "live", "done"} => frame[c].fails = <<>>
    /\ pc[c] \in {"recall", "rewait"} => FailedOnce(c, "retry")
    /\ pc[c] \in {"reap", "kill", "spawn", "sidecar", "ready"} =>
          IF Goal(c) \in {"raise", "retry"} THEN FailedOnce(c, Goal(c)) ELSE frame[c].fails = <<>>
    /\ kind[c] = "operator" => pc[c] \in {"idle", "reap", "spawn", "ready", "done"}
    /\ pc[c] = "sidecar" => Goal(c) \in {"start", "replace", "construct", "raise", "retry"}
    /\ pc[c] = "ready" => kind[c] = "operator" \/ Goal(c) \in {"raise", "retry"}
    /\ pc[c] = "spawn" /\ kind[c] # "operator" => Goal(c) \in {"start", "replace", "construct", "call", "raise", "retry"}
    /\ pc[c] \in {"reap", "kill"} /\ kind[c] # "operator" => Goal(c) \in {"start", "replace", "construct", "call", "raise", "retry"}

DaemonOK ==
    /\ daemon \in [pid : 0 .. MaxStarts, hung : BOOLEAN, stale : BOOLEAN]
    /\ starts \in 0 .. MaxStarts
    /\ sidecar \in {"none", "ours", "foreign"}

ClientsOK ==
    /\ pc \in [Clients -> PCs] /\ kind \in [Clients -> Kinds]
    /\ verdict \in [Clients -> Verdicts]
    /\ frame \in [Clients -> Frames]
    /\ \A c \in Clients : Len(frame[c].bodies) < Paths

AccessInv == DaemonOK /\ ClientsOK /\ \A c \in Clients : Sound(c)

LEMMA ClassifyIs ==
    /\ \A f \in DOMAIN Failures : Classify(f) \in {"raise", "retry", "pass"}
    /\ Classify("toolError") = "pass" /\ Classify("malformed") = "pass"
<1>1. \A names : Class(names) \in {"raise", "retry", "pass", "none"}
  BY DEF Class
<1>2. \A f \in DOMAIN Failures : Classify(f) \in {"raise", "retry", "pass"}
  BY <1>1 DEF Classify
<1>3. Classify("toolError") = "pass"
  <2>1. Failures["toolError"] = [is |-> {}, cause |-> {}, code |-> "none"]
    BY DEF Failures
  <2>2. Class({}) = "none" /\ Class({}) = "none"
    BY DEF Class
  <2> HIDE DEF Failures, Class
  <2>3. QED
    BY <2>1, <2>2 DEF Classify
<1>4. Classify("malformed") = "pass"
  <2>1. Failures["malformed"] = [is |-> {"local", "transport"}, cause |-> {}, code |-> "none"]
    BY DEF Failures
  <2>2. Class({"local", "transport"}) = "pass"
    <3>1. "wedge" \notin {"local", "transport"} /\ "local" \in {"local", "transport"}
      OBVIOUS
    <3>2. QED
      BY <3>1 DEF Class
  <2> HIDE DEF Failures, Class
  <2>3. QED
    BY <2>1, <2>2 DEF Classify
<1>5. QED
  BY <1>2, <1>3, <1>4

LEMMA AccessTyped == AccessInv => AccessTypeOK /\ WedgedOnce
<1> SUFFICES ASSUME AccessInv PROVE AccessTypeOK /\ WedgedOnce
  OBVIOUS
<1>1. ASSUME NEW c \in Clients
      PROVE  \/ frame[c].fails = <<>>
             \/ \E f \in DOMAIN Failures : frame[c].fails = <<f>>
  BY DEF AccessInv, ClientsOK, Sound, FailedOnce, PCs
<1>2. ASSUME NEW c \in Clients
      PROVE  LET f == frame[c] IN
               /\ f.goal \in Goals
               /\ {f.seen, f.session} \subseteq 0 .. MaxStarts
               /\ f.fails \in Seq(DOMAIN Failures) /\ Len(f.fails) <= 2
               /\ f.bodies \in Seq({"body", "none"}) /\ Len(f.bodies) < Paths
  <2> HIDE DEF Failures
  <2>1. frame[c] \in Frames /\ Len(frame[c].bodies) < Paths
    BY DEF AccessInv, ClientsOK
  <2>2. Len(frame[c].fails) <= 2
    <3>1. CASE frame[c].fails = <<>>
      BY <3>1
    <3>2. CASE \E f \in DOMAIN Failures : frame[c].fails = <<f>>
      <4>1. PICK f \in DOMAIN Failures : frame[c].fails = <<f>>
        BY <3>2
      <4>2. QED
        BY <4>1
    <3>3. QED
      BY <1>1, <3>1, <3>2
  <2>3. /\ frame[c].goal \in Goals /\ frame[c].seen \in 0 .. MaxStarts /\ frame[c].session \in 0 .. MaxStarts
        /\ frame[c].fails \in Seq(DOMAIN Failures) /\ frame[c].bodies \in Seq({"body", "none"})
    BY <2>1 DEF Frames
  <2>4. QED
    BY <2>1, <2>2, <2>3
<1>3. AccessTypeOK
  BY <1>2 DEF AccessInv, DaemonOK, ClientsOK, AccessTypeOK
<1>4. ASSUME NEW c \in Clients, Waiting(c)
      PROVE  /\ Len(frame[c].fails) <= 1
             /\ \A i \in DOMAIN frame[c].fails : Classify(frame[c].fails[i]) = "retry"
  <2>1. CASE frame[c].fails = <<>>
    BY <2>1
  <2>2. CASE FailedOnce(c, "retry")
    <3>1. PICK f \in DOMAIN Failures : frame[c].fails = <<f>> /\ Classify(f) = "retry"
      BY <2>2 DEF FailedOnce
    <3>2. QED
      BY <3>1
  <2>3. QED
    BY <1>4, <2>1, <2>2 DEF AccessInv, Sound, Waiting
<1>5. WedgedOnce
  BY <1>4 DEF WedgedOnce
<1>6. QED
  BY <1>3, <1>5

LEMMA AccessStart == LockInit /\ AccessInit => AccessInv
<1> SUFFICES ASSUME LockInit, AccessInit PROVE AccessInv
  OBVIOUS
<1> USE QmdAccessAssumption
<1>0. MaxStarts \in Nat \ {0} /\ Paths \in Nat \ {0}
  OBVIOUS
<1>1. DaemonOK
  <2>1. CASE daemon = NoDaemon /\ starts = 0
    BY <1>0, <2>1 DEF AccessInit, DaemonOK, NoDaemon
  <2>2. ASSUME NEW h \in BOOLEAN, NEW s \in BOOLEAN, daemon = [pid |-> 1, hung |-> h, stale |-> s], starts = 1
        PROVE  DaemonOK
    BY <1>0, <2>2 DEF AccessInit, DaemonOK
  <2>3. QED
    BY <2>1, <2>2 DEF AccessInit
<1>2. Blank \in Frames
  BY <1>0 DEF Blank, Frames, Goals
<1>3. ClientsOK
  BY <1>0, <1>2 DEF AccessInit, ClientsOK, PCs, Verdicts, Blank
<1>4. ASSUME NEW c \in Clients PROVE Sound(c)
  BY <1>4 DEF AccessInit, Sound, Blank
<1>5. QED
  BY <1>1, <1>3, <1>4 DEF AccessInv

\* A step of c leaves the other callers where they are.
Others(c) ==
    /\ kind' = kind
    /\ \A d \in Clients \ {c} : /\ pc'[d] = pc[d] /\ frame'[d] = frame[d]
                                /\ verdict'[d] = verdict[d] /\ depth'[d] = depth[d]

LEMMA OthersSound ==
    ASSUME AccessInv, NEW c \in Clients, Others(c), DaemonOK', ClientsOK', Sound(c)'
    PROVE  AccessInv'
<1>1. ASSUME NEW d \in Clients \ {c} PROVE Sound(d)'
  BY DEF AccessInv, Others, Sound, FailedOnce, Goal
<1>2. QED
  BY <1>1 DEF AccessInv

LEMMA JumpIs ==
    ASSUME ClientsOK, NEW c \in Clients, NEW label \in PCs, Jump(c, label), UNCHANGED kind,
           NEW f \in Frames, Len(f.bodies) < Paths, frame' = [frame EXCEPT ![c] = f]
    PROVE  /\ ClientsOK' /\ Others(c)
           /\ pc'[c] = label /\ frame'[c] = f /\ verdict'[c] = verdict[c] /\ depth' = depth /\ kind'[c] = kind[c]
BY DEF ClientsOK, Others, Jump, lockVars

LEMMA GotoIs ==
    ASSUME ClientsOK, NEW c \in Clients, NEW label \in PCs, Goto(c, label), UNCHANGED kind
    PROVE  /\ ClientsOK' /\ Others(c)
           /\ pc'[c] = label /\ frame'[c] = frame[c] /\ verdict'[c] = verdict[c] /\ depth' = depth /\ kind'[c] = kind[c]
BY DEF ClientsOK, Others, Jump, Goto, lockVars

LEMMA AimIs ==
    ASSUME ClientsOK, NEW c \in Clients, NEW label \in PCs, NEW why \in Goals, Aim(c, label, why), UNCHANGED kind
    PROVE  /\ ClientsOK' /\ Others(c)
           /\ pc'[c] = label /\ frame'[c].goal = why /\ frame'[c].fails = frame[c].fails
           /\ verdict'[c] = verdict[c] /\ depth' = depth /\ kind'[c] = kind[c]
<1> DEFINE f == [frame[c] EXCEPT !.goal = why]
<1>2. frame' = [frame EXCEPT ![c] = f]
  BY DEF Aim, ClientsOK
<1>3. f \in Frames /\ f.goal = why /\ f.fails = frame[c].fails /\ Len(f.bodies) < Paths
  BY DEF ClientsOK, Frames
<1>4. frame' = [frame EXCEPT ![c] = f] /\ Jump(c, label)
  BY <1>2 DEF Aim
<1> HIDE DEF f
<1>5. QED
  BY <1>3, <1>4, JumpIs

LEMMA FinishIs ==
    ASSUME ClientsOK, LockTypeOK, NEW c \in Clients, NEW v \in Verdicts, Finish(c, v), UNCHANGED kind
    PROVE  ClientsOK' /\ Others(c) /\ Sound(c)' /\ verdict'[c] = v
<1>1. Blank \in Frames /\ Len(Blank.bodies) < Paths
  BY QmdAccessAssumption DEF Blank, Frames, Goals
<1>2. /\ pc' = [pc EXCEPT ![c] = "done"] /\ verdict' = [verdict EXCEPT ![c] = v]
      /\ frame' = [frame EXCEPT ![c] = Blank]
  BY DEF Finish
<1>3. ClientsOK'
  BY <1>1, <1>2 DEF ClientsOK, PCs
<1>4. \A d \in Clients \ {c} : depth'[d] = depth[d]
  BY DEF Finish, Leaves, lockVars, LockTypeOK
<1>5. Others(c)
  BY <1>2, <1>4 DEF Others, ClientsOK
<1>6. pc'[c] = "done" /\ frame'[c].fails = <<>>
  BY <1>2 DEF ClientsOK, Blank
<1>7. Sound(c)'
  BY <1>6 DEF Sound
<1>8. QED
  BY <1>2, <1>3, <1>5, <1>7 DEF ClientsOK

LEMMA BeginKeeps == ASSUME AccessInv, LockTypeOK, NEW c \in Clients, Begin(c) PROVE AccessInv'
<1> USE DEF AccessInv
<1>0. DaemonOK' /\ UNCHANGED kind /\ kind[c] \in Kinds /\ At(c, "idle") /\ Sound(c)
  BY DEF Begin, world, DaemonOK, ClientsOK
<1> USE DEF At
<1>1. CASE kind[c] = "query"
  <2>1. pc' = [pc EXCEPT ![c] = "lock"] /\ UNCHANGED <<frame, verdict, depth>>
    BY <1>1 DEF Begin, Gated, StartsPolling
  <2>2. ClientsOK' /\ Others(c) /\ Sound(c)'
    BY <1>0, <1>1, <2>1 DEF ClientsOK, PCs, Others, Sound
  <2>3. QED
    BY <1>0, <2>2, OthersSound
<1>2. CASE kind[c] = "agent"
  <2>1. Goto(c, "call")
    BY <1>2 DEF Begin, Gated
  <2>2. ClientsOK' /\ Others(c) /\ Sound(c)'
    BY <1>0, <1>2, <2>1, GotoIs DEF PCs, Sound
  <2>3. QED
    BY <1>0, <2>2, OthersSound
<1>3. CASE kind[c] = "ensure"
  <2>1. Goto(c, "scope")
    BY <1>3 DEF Begin, Gated
  <2>2. ClientsOK' /\ Others(c) /\ Sound(c)'
    BY <1>0, <1>3, <2>1, GotoIs DEF PCs, Sound
  <2>3. QED
    BY <1>0, <2>2, OthersSound
<1>4. CASE kind[c] = "operator"
  <2>1. Aim(c, "reap", "recycle")
    BY <1>4 DEF Begin, Gated
  <2>2. ClientsOK' /\ Others(c) /\ Sound(c)'
    BY <1>0, <1>4, <2>1, AimIs DEF PCs, Goals, Sound, Goal
  <2>3. QED
    BY <1>0, <2>2, OthersSound
<1>5. CASE kind[c] \notin {"query", "agent", "ensure", "operator"}
  <2>1. Goto(c, "probe")
    BY <1>5 DEF Begin, Gated
  <2>2. ClientsOK' /\ Others(c) /\ Sound(c)'
    BY <1>0, <1>5, <2>1, GotoIs DEF PCs, Sound
  <2>3. QED
    BY <1>0, <2>2, OthersSound
<1>6. QED
  BY <1>1, <1>2, <1>3, <1>4, <1>5

\* A caller that looks before it calls.
LEMMA LooksKeep ==
    ASSUME AccessInv, LockTypeOK, NEW c \in Clients, Gate(c) \/ Probe(c) \/ CheckScope(c) \/ StaleCheck(c) \/ Live(c)
    PROVE  AccessInv'
<1> USE DEF AccessInv, At
<1>0. ClientsOK /\ DaemonOK /\ Sound(c) /\ DaemonOK' /\ UNCHANGED kind /\ kind[c] \in Kinds
  BY DEF Gate, Probe, CheckScope, StaleCheck, Live, world, DaemonOK, ClientsOK
<1>1. CASE Gate(c)
  <2>1. pc[c] = "lock" /\ UNCHANGED frame
    BY <1>1 DEF Gate
  <2>2. CASE Wins(c) /\ pc' = [pc EXCEPT ![c] = "probe"] /\ UNCHANGED verdict
    <3>1. depth'[c] > 0 /\ \A d \in Clients \ {c} : depth'[d] = depth[d]
      BY <2>2 DEF Wins, LockTypeOK
    <3>2. ClientsOK' /\ Others(c)
      BY <1>0, <2>1, <2>2, <3>1 DEF ClientsOK, PCs, Others
    <3>3. Sound(c)'
      BY <1>0, <2>1, <2>2, <3>1 DEF ClientsOK, Sound
    <3>4. QED
      BY <1>0, <3>2, <3>3, OthersSound
  <2>3. CASE Polls(c) /\ UNCHANGED <<pc, verdict>>
    <3>1. ClientsOK' /\ Others(c) /\ Sound(c)'
      BY <1>0, <2>1, <2>3 DEF ClientsOK, Polls, Others, Sound, FailedOnce, Goal
    <3>2. QED
      BY <1>0, <3>1, OthersSound
  <2>4. CASE /\ TimesOut(c)
             /\ pc' = [pc EXCEPT ![c] = "done"] /\ verdict' = [verdict EXCEPT ![c] = "busy"]
    <3>1. ClientsOK' /\ Others(c)
      BY <1>0, <2>1, <2>4 DEF ClientsOK, PCs, Verdicts, TimesOut, Raises, Others
    <3>2. Sound(c)'
      BY <1>0, <2>1, <2>4 DEF ClientsOK, Sound
    <3>3. QED
      BY <1>0, <3>1, <3>2, OthersSound
  <2>5. QED
    BY <1>1, <2>2, <2>3, <2>4 DEF Gate
<1>2. CASE Probe(c)
  <2>1. CASE daemon.pid # 0 /\ kind[c] = "batch"
    BY <1>0, <1>2, <2>1, GotoIs, OthersSound DEF Probe, PCs, Sound
  <2>2. CASE daemon.pid # 0 /\ kind[c] # "batch"
    <3>1. Goto(c, "stale") /\ pc[c] = "probe"
      BY <1>2, <2>2 DEF Probe
    <3>2. QED
      BY <1>0, <3>1, GotoIs, OthersSound DEF PCs, Sound
  <2>3. CASE daemon.pid = 0
    <3>1. \E v \in Verdicts : Finish(c, v)
      BY <1>2, <2>3 DEF Probe, Verdicts
    <3>2. QED
      BY <1>0, <3>1, FinishIs, OthersSound
  <2>4. QED
    BY <2>1, <2>2, <2>3
<1>3. CASE CheckScope(c)
  <2>1. CASE sidecar = "foreign"
    <3>1. Aim(c, "reap", "replace") /\ pc[c] = "scope"
      BY <1>3, <2>1 DEF CheckScope
    <3>2. ClientsOK' /\ Others(c) /\ Sound(c)'
      BY <1>0, <3>1, AimIs DEF PCs, Goals, Sound, Goal
    <3>3. QED
      BY <1>0, <3>2, OthersSound
  <2>2. CASE sidecar # "foreign"
    BY <1>0, <1>3, <2>2, GotoIs, OthersSound DEF CheckScope, PCs, Sound
  <2>3. QED
    BY <2>1, <2>2
<1>4. CASE StaleCheck(c)
  <2>1. PICK label \in {"reap", "spawn", "live", "call"}, why \in {"start", "replace", "construct", "call"} :
          /\ Aim(c, label, why) /\ pc[c] = "stale" /\ kind[c] # "operator"
    BY <1>0, <1>4 DEF StaleCheck, Sound
  <2>2. ClientsOK' /\ Others(c) /\ Sound(c)'
    BY <1>0, <2>1, AimIs DEF PCs, Goals, Sound, Goal
  <2>3. QED
    BY <1>0, <2>2, OthersSound
<1>5. CASE Live(c)
  <2>1. \E v \in Verdicts : Finish(c, v)
    BY <1>5 DEF Live, Verdicts
  <2>2. QED
    BY <1>0, <2>1, FinishIs, OthersSound
<1>6. QED
  BY <1>1, <1>2, <1>3, <1>4, <1>5

\* A caller, or the operator, that replaces the daemon.
LEMMA RestartsKeep ==
    ASSUME AccessInv, LockTypeOK, NEW c \in Clients,
           ReapReads(c) \/ Down(c) \/ Kill(c) \/ Spawn(c) \/ Up(c) \/ Sidecar(c) \/ Ready(c)
    PROVE  AccessInv'
<1> USE DEF At
<1>0. ClientsOK /\ DaemonOK /\ Sound(c) /\ UNCHANGED kind /\ kind[c] \in Kinds /\ Goal(c) \in Goals
  BY DEF AccessInv, ReapReads, Down, Kill, Spawn, Up, Sidecar, Ready, world, ClientsOK, Goal, Frames
<1>s. MaxStarts \in Nat \ {0}
  BY QmdAccessAssumption
<1>d. DaemonOK'
  <2>1. CASE ReapReads(c) \/ Ready(c)
    BY <1>0, <2>1 DEF ReapReads, Ready, world, DaemonOK
  <2>2. CASE Down(c) \/ Kill(c)
    <3>1. (daemon' = daemon \/ daemon' = NoDaemon) /\ UNCHANGED <<starts, sidecar>>
      BY <2>2 DEF Down, Kill
    <3>2. NoDaemon \in [pid : 0 .. MaxStarts, hung : BOOLEAN, stale : BOOLEAN]
      BY <1>s DEF NoDaemon
    <3>3. QED
      BY <1>0, <3>1, <3>2 DEF DaemonOK
  <2>3. CASE Sidecar(c)
    BY <1>0, <2>3 DEF Sidecar, DaemonOK
  <2>4. CASE Spawned /\ UNCHANGED sidecar
    <3>1. CASE UNCHANGED <<daemon, starts>>
      BY <1>0, <2>4, <3>1 DEF DaemonOK
    <3>2. ASSUME NEW h \in BOOLEAN, starts < MaxStarts, starts' = starts + 1,
                 daemon' = [pid |-> starts + 1, hung |-> h, stale |-> FALSE]
          PROVE  DaemonOK'
      BY <1>0, <1>s, <2>4, <3>2 DEF DaemonOK
    <3>3. QED
      BY <2>4, <3>1, <3>2 DEF Spawned
  <2>5. QED
    BY <2>1, <2>2, <2>3, <2>4 DEF Spawn, Up
<1>f. ASSUME NEW v \in Verdicts, Finish(c, v) PROVE AccessInv'
  BY <1>0, <1>d, <1>f, FinishIs, OthersSound
<1>1. CASE ReapReads(c)
  <2>1. CASE Goto(c, "spawn")
    <3>1. ClientsOK' /\ Others(c) /\ Sound(c)'
      BY <1>0, <1>1, <2>1, GotoIs DEF ReapReads, PCs, Sound, FailedOnce, Goal
    <3>2. QED
      BY <1>d, <3>1, OthersSound
  <2>2. CASE Jump(c, "kill") /\ frame' = [frame EXCEPT ![c].seen = daemon.pid]
    <3> DEFINE f == [frame[c] EXCEPT !.seen = daemon.pid]
    <3>1. /\ f \in Frames /\ Len(f.bodies) < Paths /\ f.goal = frame[c].goal /\ f.fails = frame[c].fails
      BY <1>0 DEF ClientsOK, Frames, DaemonOK
    <3>2. frame' = [frame EXCEPT ![c] = f]
      BY <1>0, <2>2 DEF ClientsOK
    <3> HIDE DEF f
    <3>3. /\ ClientsOK' /\ Others(c) /\ pc'[c] = "kill" /\ frame'[c] = f
          /\ verdict'[c] = verdict[c] /\ depth' = depth /\ kind'[c] = kind[c]
      BY <1>0, <2>2, <3>1, <3>2, JumpIs DEF PCs
    <3>4. Sound(c)'
      BY <1>0, <1>1, <3>1, <3>3 DEF ReapReads, Sound, FailedOnce, Goal
    <3>5. QED
      BY <1>d, <3>3, <3>4, OthersSound
  <2>3. QED
    BY <1>1, <2>1, <2>2 DEF ReapReads
<1>2. CASE Down(c)
  <2>1. ClientsOK' /\ Others(c) /\ Sound(c)'
    BY <1>0, <1>2, GotoIs DEF Down, PCs, Sound, FailedOnce, Goal
  <2>2. QED
    BY <1>d, <2>1, OthersSound
<1>3. CASE Kill(c)
  <2>1. ClientsOK' /\ Others(c) /\ Sound(c)'
    BY <1>0, <1>3, GotoIs DEF Kill, PCs, Sound, FailedOnce, Goal
  <2>2. QED
    BY <1>d, <2>1, OthersSound
<1>4. CASE Spawn(c)
  <2>1. CASE Goal(c) = "call"
    <3>1. ClientsOK' /\ Others(c) /\ Sound(c)'
      BY <1>0, <1>4, <2>1, GotoIs DEF Spawn, PCs, Sound
    <3>2. QED
      BY <1>d, <3>1, OthersSound
  <2>2. CASE Goal(c) = "start" /\ daemon'.pid = 0
    <3>1. Finish(c, "notServing") \/ Goto(c, "sidecar")
      BY <1>4, <2>2 DEF Spawn
    <3>2. CASE Goto(c, "sidecar")
      <4>1. pc[c] = "spawn" /\ kind[c] # "operator"
        BY <1>4 DEF Spawn, At
      <4>2. ClientsOK' /\ Others(c) /\ Sound(c)'
        BY <1>0, <2>2, <3>2, <4>1, GotoIs DEF PCs, Sound, FailedOnce, Goal
      <4>3. QED
        BY <1>d, <4>2, OthersSound
    <3>3. QED
      BY <1>f, <3>1, <3>2 DEF Verdicts
  <2>3. CASE Goal(c) # "call" /\ ~(Goal(c) = "start" /\ daemon'.pid = 0)
    <3>1. Goto(c, "sidecar") /\ pc[c] = "spawn" /\ kind[c] # "operator"
      BY <1>4, <2>3 DEF Spawn
    <3>2. ClientsOK' /\ Others(c) /\ Sound(c)'
      BY <1>0, <2>3, <3>1, GotoIs DEF PCs, Sound, FailedOnce, Goal
    <3>3. QED
      BY <1>d, <3>2, OthersSound
  <2>4. QED
    BY <2>1, <2>2, <2>3
<1>5. CASE Up(c)
  <2>1. CASE daemon'.pid = 0
    BY <1>5, <1>f, <2>1 DEF Up, Verdicts
  <2>2. CASE daemon'.pid # 0
    <3>1. Goto(c, "ready") /\ pc[c] = "spawn" /\ kind[c] = "operator"
      BY <1>5, <2>2 DEF Up
    <3>2. ClientsOK' /\ Others(c) /\ Sound(c)'
      BY <1>0, <3>1, GotoIs DEF PCs, Sound, FailedOnce, Goal
    <3>3. QED
      BY <1>d, <3>2, OthersSound
  <2>3. QED
    BY <2>1, <2>2
<1>6. CASE Sidecar(c)
  <2>1. CASE Goal(c) \in {"start", "replace"}
    BY <1>6, <1>f, <2>1 DEF Sidecar, Verdicts
  <2>2. CASE Goal(c) = "construct"
    <3>1. ClientsOK' /\ Others(c) /\ Sound(c)'
      BY <1>0, <1>6, <2>2, GotoIs DEF Sidecar, PCs, Sound
    <3>2. QED
      BY <1>d, <3>1, OthersSound
  <2>3. CASE Goal(c) \notin {"start", "replace", "construct"}
    <3>1. Goto(c, "ready") /\ pc[c] = "sidecar"
      BY <1>6, <2>3 DEF Sidecar
    <3>2. ClientsOK' /\ Others(c) /\ Sound(c)'
      BY <1>0, <2>3, <3>1, GotoIs DEF PCs, Sound, FailedOnce, Goal
    <3>3. QED
      BY <1>d, <3>2, OthersSound
  <2>4. QED
    BY <2>1, <2>2, <2>3
<1>7. CASE Ready(c)
  <2>1. \/ \E v \in Verdicts : Finish(c, v)
        \/ Goto(c, "recall") /\ kind[c] # "operator" /\ Goal(c) # "raise"
    BY <1>7 DEF Ready, Restarted, AfterRecycle, AfterToolsetRecycle, Verdicts
  <2>2. CASE Goto(c, "recall") /\ kind[c] # "operator" /\ Goal(c) # "raise"
    <3>1. pc[c] = "ready" /\ Goal(c) = "retry" /\ FailedOnce(c, "retry")
      BY <1>0, <1>7, <2>2 DEF Ready, Sound
    <3>2. ClientsOK' /\ Others(c) /\ Sound(c)'
      BY <1>0, <2>2, <3>1, GotoIs DEF PCs, Sound, FailedOnce
    <3>3. QED
      BY <1>d, <3>2, OthersSound
  <2>3. QED
    BY <1>f, <2>1, <2>2
<1>8. QED
  BY <1>1, <1>2, <1>3, <1>4, <1>5, <1>6, <1>7

\* A call that is sent, answered or fails.
LEMMA CallsKeep ==
    ASSUME AccessInv, LockTypeOK, NEW c \in Clients, Send(c) \/ Answered(c) \/ Failed(c)
    PROVE  AccessInv'
<1> USE DEF At
<1>0. /\ ClientsOK /\ DaemonOK /\ Sound(c) /\ UNCHANGED kind /\ kind[c] \in Kinds
      /\ frame[c] \in Frames /\ Len(frame[c].bodies) < Paths
  BY DEF AccessInv, Send, Answered, Failed, ClientsOK
<1>d. DaemonOK' /\ UNCHANGED daemon
  BY <1>0 DEF Send, Answered, Failed, world, DaemonOK
<1>s. Paths \in Nat \ {0} /\ MaxStarts \in Nat \ {0}
  BY QmdAccessAssumption
<1>f. ASSUME NEW v \in Verdicts, Finish(c, v) PROVE AccessInv'
  BY <1>0, <1>d, <1>f, FinishIs, OthersSound
<1>1. CASE Send(c)
  <2> DEFINE opened == IF frame[c].session = 0 THEN daemon.pid ELSE frame[c].session
             label == IF pc[c] = "call" THEN "wait" ELSE "rewait"
             session == IF kind[c] = "batch" THEN opened ELSE 0
             f == [frame[c] EXCEPT !.seen = opened, !.session = session]
  <2>1. CASE Finish(c, "error")
    BY <1>f, <2>1 DEF Verdicts
  <2>2. CASE Jump(c, label) /\ frame' = [frame EXCEPT ![c].seen = opened, ![c].session = session]
    <3>1. opened \in 0 .. MaxStarts /\ session \in 0 .. MaxStarts
      BY <1>0, <1>s DEF Frames, DaemonOK
    <3>2. frame' = [frame EXCEPT ![c] = f]
      BY <1>0, <2>2 DEF ClientsOK
    <3> HIDE DEF opened, session
    <3>3. f \in Frames /\ Len(f.bodies) < Paths /\ f.fails = frame[c].fails
      BY <1>0, <3>1 DEF Frames
    <3> HIDE DEF f
    <3>4. label \in PCs
      BY DEF PCs
    <3> HIDE DEF label
    <3>5. /\ ClientsOK' /\ Others(c) /\ pc'[c] = label /\ frame'[c] = f
          /\ verdict'[c] = verdict[c] /\ depth' = depth /\ kind'[c] = kind[c]
      BY <1>0, <2>2, <3>2, <3>3, <3>4, JumpIs
    <3>6. Sound(c)'
      BY <1>0, <1>1, <3>3, <3>5 DEF Send, Sound, FailedOnce, label
    <3>7. QED
      BY <1>d, <3>5, <3>6, OthersSound
  <2>3. QED
    BY <1>1, <2>1, <2>2 DEF Send
<1>c. ASSUME NEW e \in {"body", "none"}, Collects(c, e), Waiting(c), kind[c] = "batch" PROVE AccessInv'
  <2>1. CASE Finish(c, "ok")
    BY <1>f, <2>1 DEF Verdicts
  <2>2. CASE /\ Len(frame[c].bodies) + 1 # Paths /\ Jump(c, "call")
             /\ frame' = [frame EXCEPT ![c].bodies = Append(@, e), ![c].fails = <<>>]
    <3> DEFINE bodies == Append(frame[c].bodies, e)
               f == [frame[c] EXCEPT !.bodies = bodies, !.fails = <<>>]
    <3>1. frame' = [frame EXCEPT ![c] = f]
      BY <1>0, <2>2 DEF ClientsOK
    <3>2. bodies \in Seq({"body", "none"}) /\ Len(bodies) < Paths
      BY <1>0, <1>s, <2>2 DEF Frames
    <3> HIDE DEF bodies, Failures
    <3>e. <<>> \in Seq(DOMAIN Failures)
      OBVIOUS
    <3>3. f \in Frames /\ Len(f.bodies) < Paths /\ f.fails = <<>>
      BY <1>0, <3>2, <3>e DEF Frames
    <3> HIDE DEF f
    <3>4. /\ ClientsOK' /\ Others(c) /\ pc'[c] = "call" /\ frame'[c] = f
          /\ verdict'[c] = verdict[c] /\ depth' = depth /\ kind'[c] = kind[c]
      BY <1>0, <2>2, <3>1, <3>3, JumpIs DEF PCs
    <3>5. Sound(c)'
      BY <1>0, <1>c, <3>3, <3>4 DEF Waiting, Sound
    <3>6. QED
      BY <1>d, <3>4, <3>5, OthersSound
  <2>3. QED
    BY <1>c, <2>1, <2>2 DEF Collects
<1>2. CASE Answered(c)
  BY <1>2, <1>c, <1>f DEF Answered, Verdicts
<1>3. CASE Failed(c)
  <2>1. PICK f \in Possible(c) :
          /\ Action(f) = "pass" => Passed(c)
          /\ Action(f) # "pass" /\ pc[c] = "wait" =>
                /\ Jump(c, "reap")
                /\ frame' = [frame EXCEPT ![c].goal = Action(f), ![c].fails = Append(@, f)]
          /\ Action(f) # "pass" /\ pc[c] = "rewait" => FailsAgain(c, f)
    BY <1>3 DEF Failed
  <2>2. f \in DOMAIN Failures
    BY DEF Possible, Failures
  <2>3. CASE Action(f) = "pass"
    BY <1>3, <1>c, <1>f, <2>1, <2>3 DEF Failed, Passed, Verdicts
  <2>4. CASE Action(f) # "pass" /\ pc[c] = "wait"
    <3> DEFINE fails == Append(frame[c].fails, f)
               g == [frame[c] EXCEPT !.goal = Action(f), !.fails = fails]
    <3>1. Action(f) \in {"raise", "retry"} /\ Classify(f) = Action(f)
      BY <2>2, <2>4, ClassifyIs DEF Action
    <3>2. frame' = [frame EXCEPT ![c] = g]
      BY <1>0, <2>1, <2>4 DEF ClientsOK
    <3>3. frame[c].fails = <<>>
      BY <1>0, <2>4 DEF Sound
    <3>4. fails = <<f>> /\ fails \in Seq(DOMAIN Failures)
      BY <2>2, <3>3
    <3> HIDE DEF fails
    <3>5. g \in Frames /\ Len(g.bodies) < Paths /\ g.fails = fails /\ g.goal = Action(f)
      BY <1>0, <3>1, <3>4 DEF Frames, Goals
    <3> HIDE DEF g
    <3>6. /\ ClientsOK' /\ Others(c) /\ pc'[c] = "reap" /\ frame'[c] = g
          /\ verdict'[c] = verdict[c] /\ depth' = depth /\ kind'[c] = kind[c]
      BY <1>0, <2>1, <2>4, <3>2, <3>5, JumpIs DEF PCs
    <3>7. FailedOnce(c, Goal(c))'
      BY <2>2, <3>1, <3>4, <3>5, <3>6 DEF FailedOnce, Goal
    <3>8. Goal(c)' \in {"raise", "retry"}
      BY <3>1, <3>5, <3>6 DEF Goal
    <3>9. Sound(c)'
      BY <1>0, <2>4, <3>6, <3>7, <3>8 DEF Sound
    <3>10. QED
      BY <1>d, <3>6, <3>9, OthersSound
  <2>5. CASE Action(f) # "pass" /\ pc[c] = "rewait"
    BY <1>f, <2>1, <2>5 DEF FailsAgain, Verdicts
  <2>6. QED
    BY <1>3, <2>3, <2>4, <2>5 DEF Failed, Waiting
<1>4. QED
  BY <1>1, <1>2, <1>3

LEMMA DaemonMoves == ASSUME AccessInv, Hangs \/ Written \/ Dies PROVE AccessInv'
<1>1. UNCHANGED <<starts, sidecar, pc, kind, frame, verdict, depth>>
  BY DEF Hangs, Written, Dies, clients, lockVars
<1>2. daemon' \in [pid : 0 .. MaxStarts, hung : BOOLEAN, stale : BOOLEAN]
  <2>1. MaxStarts \in Nat \ {0}
    BY QmdAccessAssumption
  <2>2. daemon \in [pid : 0 .. MaxStarts, hung : BOOLEAN, stale : BOOLEAN]
    BY DEF AccessInv, DaemonOK
  <2>3. CASE Hangs
    BY <2>2, <2>3 DEF Hangs
  <2>4. CASE Written
    BY <2>2, <2>4 DEF Written
  <2>5. CASE Dies
    BY <2>1, <2>5 DEF Dies, NoDaemon
  <2>6. QED
    BY <2>3, <2>4, <2>5
<1>3. DaemonOK' /\ ClientsOK'
  BY <1>1, <1>2 DEF AccessInv, DaemonOK, ClientsOK
<1>4. ASSUME NEW c \in Clients PROVE Sound(c)'
  BY <1>1 DEF AccessInv, Sound, FailedOnce, Goal
<1>5. QED
  BY <1>3, <1>4 DEF AccessInv

LEMMA AccessKeeps == AccessInv /\ LockTypeOK /\ AccessNext => AccessInv'
BY BeginKeeps, LooksKeep, RestartsKeep, CallsKeep, DaemonMoves DEF AccessNext, AccessStep

\* A caller is told something by its own steps alone.
LEMMA TellsItself ==
    ASSUME ClientsOK, NEW c \in Clients, Begin(c) \/ AccessStep(c), NEW d \in Clients \ {c}
    PROVE  verdict'[d] = verdict[d] /\ pc'[d] = pc[d]
<1>1. /\ verdict' = verdict \/ \E v : verdict' = [verdict EXCEPT ![c] = v]
      /\ pc' = pc \/ \E v : pc' = [pc EXCEPT ![c] = v]
  <2> USE DEF Finish, Jump, Goto, Aim
  <2>1. CASE Begin(c) \/ Gate(c) \/ CheckScope(c) \/ StaleCheck(c)
    BY <2>1 DEF Begin, Gate, CheckScope, StaleCheck
  <2>2. CASE Probe(c) \/ Live(c)
    BY <2>2 DEF Probe, Live
  <2>3. CASE ReapReads(c) \/ Down(c) \/ Kill(c)
    BY <2>3 DEF ReapReads, Down, Kill
  <2>4. CASE Spawn(c) \/ Up(c) \/ Sidecar(c)
    BY <2>4 DEF Spawn, Up, Sidecar
  <2>5. CASE Ready(c)
    BY <2>5 DEF Ready, Restarted, AfterRecycle, AfterToolsetRecycle
  <2>6. CASE Send(c) \/ Answered(c)
    BY <2>6 DEF Send, Answered, Collects
  <2>7. CASE Failed(c)
    <3>1. PICK f \in Possible(c) : Passed(c) \/ Jump(c, "reap") \/ FailsAgain(c, f)
      BY <2>7 DEF Failed, Waiting, At
    <3>2. QED
      BY <3>1 DEF Passed, Collects, FailsAgain
  <2>8. QED
    BY <2>1, <2>2, <2>3, <2>4, <2>5, <2>6, <2>7 DEF AccessStep
<1>2. QED
  BY <1>1 DEF ClientsOK

\* Of the lock, the callers of the daemon use these steps, in one environment.
LEMMA AccessLocks ==
    AccessNext => \/ UNCHANGED lockVars
                  \/ \E c \in Clients : StartsPolling(c, NoClient) \/ Wins(c) \/ Polls(c) \/ TimesOut(c) \/ Leaves(c)
<1> SUFFICES ASSUME AccessNext, ~UNCHANGED lockVars
             PROVE  \E c \in Clients : StartsPolling(c, NoClient) \/ Wins(c) \/ Polls(c) \/ TimesOut(c) \/ Leaves(c)
  OBVIOUS
<1>1. ~(Hangs \/ Written \/ Dies)
  BY DEF Hangs, Written, Dies, clients
<1>2. PICK c \in Clients : Begin(c) \/ AccessStep(c)
  BY <1>1 DEF AccessNext
<1> USE DEF Finish, Jump, Goto, Aim
<1>3. CASE Begin(c) \/ Gate(c)
  BY <1>3 DEF Begin, Gate
<1>4. CASE Probe(c) \/ CheckScope(c) \/ StaleCheck(c) \/ Live(c)
  BY <1>4 DEF Probe, CheckScope, StaleCheck, Live
<1>5. CASE ReapReads(c) \/ Down(c) \/ Kill(c)
  BY <1>5 DEF ReapReads, Down, Kill
<1>6. CASE Spawn(c) \/ Up(c) \/ Sidecar(c)
  BY <1>6 DEF Spawn, Up, Sidecar
<1>7. CASE Ready(c)
  BY <1>7 DEF Ready, Restarted, AfterRecycle, AfterToolsetRecycle
<1>8. CASE Send(c) \/ Answered(c)
  BY <1>8 DEF Send, Answered, Collects
<1>9. CASE Failed(c)
  <2>1. PICK f \in Possible(c) : Passed(c) \/ Jump(c, "reap") \/ FailsAgain(c, f)
    BY <1>9 DEF Failed, Waiting, At
  <2>2. QED
    BY <2>1 DEF Passed, Collects, FailsAgain
<1>10. QED
  BY <1>2, <1>3, <1>4, <1>5, <1>6, <1>7, <1>8, <1>9 DEF AccessStep

\* Why a daemon is killed, and who is told that it serves again.
Recycles == \A c \in Clients :
    Waiting(c) /\ pc'[c] = "reap" => ~(Serves /\ daemon.pid = frame[c].seen)
Seen == \A c \in Clients : pc[c] = "ready" /\ verdict'[c] \in {"ok", "modelRetry"} => Serves

LEMMA RecycleHasCause == AccessInv /\ [AccessNext]_accessVars => Recycles
<1> SUFFICES ASSUME AccessInv, [AccessNext]_accessVars, NEW c \in Clients, Waiting(c), pc'[c] = "reap"
             PROVE  ~(Serves /\ daemon.pid = frame[c].seen)
  BY DEF Recycles
<1>1. pc[c] \in {"wait", "rewait"} /\ pc'[c] # pc[c] /\ ClientsOK
  BY DEF Waiting, AccessInv
<1>2. ~(Hangs \/ Written \/ Dies) /\ ~UNCHANGED accessVars
  BY <1>1 DEF Hangs, Written, Dies, clients, accessVars
<1>3. PICK d \in Clients : Begin(d) \/ AccessStep(d)
  BY <1>2 DEF AccessNext
<1>4. d = c
  BY <1>1, <1>3, TellsItself
<1>5. Answered(c) \/ Failed(c)
  BY <1>1, <1>3, <1>4 DEF AccessStep, Begin, Gate, Probe, CheckScope, StaleCheck, ReapReads, Kill, Spawn, Down, Up,
     Sidecar, Ready, Live, Send, At
<1>6. ~Answered(c)
  BY <1>1 DEF Answered, Collects, Finish, Jump, ClientsOK
<1>7. PICK f \in Possible(c) : Action(f) # "pass"
  BY <1>1, <1>5, <1>6 DEF Failed, Passed, Collects, Finish, Jump, ClientsOK
<1>8. f \notin {"toolError", "malformed"}
  BY <1>7, ClassifyIs DEF Action
<1>9. QED
  BY <1>7, <1>8 DEF Possible, Serves

LEMMA RecoverySeen == AccessInv /\ [AccessNext]_accessVars => Seen
<1> SUFFICES ASSUME AccessInv, [AccessNext]_accessVars, NEW c \in Clients,
                    pc[c] = "ready", verdict'[c] \in {"ok", "modelRetry"}
             PROVE  Serves
  BY DEF Seen
<1>1. verdict[c] = "none" /\ ClientsOK
  BY DEF AccessInv, Sound
<1>2. verdict'[c] # verdict[c]
  BY <1>1
<1>3. ~(Hangs \/ Written \/ Dies) /\ ~UNCHANGED accessVars
  BY <1>2 DEF Hangs, Written, Dies, clients, accessVars
<1>4. PICK d \in Clients : Begin(d) \/ AccessStep(d)
  BY <1>3 DEF AccessNext
<1>5. d = c
  BY <1>1, <1>2, <1>4, TellsItself
<1>6. Ready(c)
  BY <1>4, <1>5 DEF AccessStep, Begin, Gate, Probe, CheckScope, StaleCheck, ReapReads, Kill, Spawn, Down, Up,
     Sidecar, Live, Send, Answered, Failed, Waiting, At
<1>7. QED
  BY <1>1, <1>2, <1>6 DEF Ready, Restarted, AfterRecycle, AfterToolsetRecycle, Finish, Goto, Jump, ClientsOK

-------------------------------------------------------------------------------
(* All of it *)

\* Only the part that runs moves.
Resting == /\ part # "access" => \A c \in Clients : pc[c] = "idle"
           /\ part = "access" => \A c \in Clients : ticket[c] = env

LEMMA StepIsEveryParts ==
    [MCNext]_allVars => /\ [LockNext]_lockVars /\ [R!RunNext]_(R!runVars) /\ [X!IndexNext]_(X!indexVars)
                        /\ [AccessNext]_accessVars
                        /\ \/ part = "access" /\ AccessNext /\ UNCHANGED part
                           \/ part = "lock" /\ UNCHANGED <<part, accessVars>>
                           \/ UNCHANGED <<part, lockVars, accessVars>>
<1> SUFFICES ASSUME [MCNext]_allVars
             PROVE  /\ [LockNext]_lockVars /\ [R!RunNext]_(R!runVars) /\ [X!IndexNext]_(X!indexVars)
                    /\ [AccessNext]_accessVars
                    /\ \/ part = "access" /\ AccessNext /\ UNCHANGED part
                       \/ part = "lock" /\ UNCHANGED <<part, accessVars>>
                       \/ UNCHANGED <<part, lockVars, accessVars>>
  OBVIOUS
<1>1. (UNCHANGED subprocess => UNCHANGED R!runVars) /\ (UNCHANGED indexes => UNCHANGED X!indexVars)
  BY DEF subprocess, R!runVars, indexes, X!indexVars
<1>2. CASE part = "lock" /\ LockNext /\ UNCHANGED <<part, accessVars, subprocess, indexes>>
  BY <1>1, <1>2
<1>3. CASE part = "access" /\ AccessNext /\ UNCHANGED <<part, subprocess, indexes>>
  <2>1. [LockNext]_lockVars
    BY <1>3, AccessLocks DEF LockNext, LockStep
  <2>2. QED
    BY <1>1, <1>3, <2>1
<1>4. CASE part = "run" /\ R!RunNext /\ UNCHANGED <<part, access, indexes>>
  BY <1>1, <1>4 DEF access
<1>5. CASE part = "index" /\ X!IndexNext /\ UNCHANGED <<part, access, subprocess>>
  BY <1>1, <1>5 DEF access
<1>6. CASE UNCHANGED allVars
  BY <1>1, <1>6 DEF allVars, access
<1>7. QED
  BY <1>2, <1>3, <1>4, <1>5, <1>6 DEF MCNext

LEMMA CallersStart == MCInit => AccessInv /\ Resting
BY AccessStart DEF MCInit, Resting, AccessInit, LockInit

LEMMA CallersKeep == AccessInv /\ Resting /\ LockTypeOK /\ [MCNext]_allVars => AccessInv' /\ Resting'
<1> SUFFICES ASSUME AccessInv, Resting, LockTypeOK, [MCNext]_allVars PROVE AccessInv' /\ Resting'
  OBVIOUS
<1>1. CASE part = "access" /\ AccessNext /\ UNCHANGED part
  <2>1. AccessInv'
    BY <1>1, AccessKeeps
  <2>2. \A c \in Clients : ticket'[c] = env'
    BY <1>1, AccessLocks DEF Resting, LockTypeOK, lockVars, StartsPolling, Wins, Polls, TimesOut, Raises, Leaves
  <2>3. QED
    BY <1>1, <2>1, <2>2 DEF Resting
<1>2. CASE part = "lock" /\ UNCHANGED <<part, accessVars>>
  <2>1. \A c \in Clients : pc[c] = "idle"
    BY <1>2 DEF Resting
  <2>2. UNCHANGED <<daemon, starts, sidecar, pc, kind, frame, verdict>>
    BY <1>2 DEF accessVars
  <2>3. DaemonOK' /\ ClientsOK'
    BY <2>2 DEF AccessInv, DaemonOK, ClientsOK
  <2>4. ASSUME NEW c \in Clients PROVE Sound(c)'
    BY <2>1, <2>2 DEF AccessInv, Sound
  <2>5. QED
    BY <1>2, <2>2, <2>3, <2>4 DEF AccessInv, Resting
<1>3. CASE UNCHANGED <<part, lockVars, accessVars>>
  <2>1. UNCHANGED <<part, daemon, starts, sidecar, pc, kind, frame, verdict, env, ticket, depth>>
    BY <1>3 DEF accessVars, lockVars
  <2>2. DaemonOK' /\ ClientsOK'
    BY <2>1 DEF AccessInv, DaemonOK, ClientsOK
  <2>3. ASSUME NEW c \in Clients PROVE Sound(c)'
    BY <2>1 DEF AccessInv, Sound, FailedOnce, Goal
  <2>4. QED
    BY <2>1, <2>2, <2>3 DEF AccessInv, Resting
<1>4. QED
  BY <1>1, <1>2, <1>3, StepIsEveryParts

LEMMA LockPart == MCSpec => LockSpec
<1>1. MCInit => LockInit
  BY DEF MCInit
<1>2. [MCNext]_allVars => [LockNext]_lockVars
  BY StepIsEveryParts
<1>3. QED
  BY <1>1, <1>2, PTL DEF MCSpec, LockSpec

LEMMA CallersSound == MCSpec => [](AccessInv /\ Resting)
<1>1. MCSpec => []LockTypeOK
  BY LockPart, LockTypes, PTL
<1>2. QED
  BY <1>1, CallersStart, CallersKeep, PTL DEF MCSpec

\* One context at a time holds the site-wide lock of its path, by its own depth;
\* the daemon gets one query at a time through every recycle and retry; and a
\* payload that wedged a daemon is not sent to its replacement.
THEOREM LockAndDaemon == MCSpec => []OneAtATime
<1>1. MCSpec => []LockTypeOK /\ []OwnedByDepth
  BY LockPart, LockTypes, HeldByDepth, PTL
<1>2. OwnedByDepth /\ AccessInv /\ Resting => QueriesAlone
  <2> SUFFICES ASSUME OwnedByDepth, AccessInv, Resting, NEW c \in Clients, NEW d \in Clients, InQuery(c), InQuery(d)
               PROVE  c = d
    BY DEF QueriesAlone
  <2>1. depth[c] > 0 /\ depth[d] > 0 /\ part = "access"
    BY DEF InQuery, Waiting, AccessInv, Sound, Resting
  <2>2. ticket[c] = env /\ ticket[d] = env
    BY <2>1 DEF Resting
  <2>3. QED
    BY <2>1, <2>2 DEF OwnedByDepth
<1>3. AccessInv => AccessTypeOK /\ WedgedOnce
  BY AccessTyped
<1>4. LockTypeOK /\ OwnedByDepth /\ AccessInv /\ Resting => OneAtATime
  BY <1>2, <1>3 DEF OneAtATime
<1>5. QED
  BY <1>1, <1>4, CallersSound, PTL

\* A call has the daemon replaced only when the one it was sent to does not serve
\* any more, and is told of a recovery only by a daemon that answered.
THEOREM RecyclesHaveCause == MCSpec => RecoveryForCause
<1>1. AccessInv /\ [MCNext]_allVars => [Recycles]_accessVars /\ [Seen]_accessVars
  BY StepIsEveryParts, RecycleHasCause, RecoverySeen
<1>2. MCSpec => [][Recycles]_accessVars /\ [][Seen]_accessVars
  BY <1>1, CallersSound, PTL DEF MCSpec
<1>3. MCSpec => RecyclesForCause /\ RecoveryWasSeen
  BY <1>2, PTL DEF RecyclesForCause, RecoveryWasSeen, Recycles, Seen
<1>4. QED
  BY <1>3, PTL DEF RecoveryForCause

\* When the subprocess helper returns, its whole process group is gone, and a
\* result is the command's own exit.
THEOREM SubprocessHolds == MCSpec => []ResultsAreReal
<1>1. MCInit => RunInv
  BY RunStart DEF MCInit
<1>2. RunInv /\ [MCNext]_allVars => RunInv'
  BY StepIsEveryParts, RunKeeps
<1>3. QED
  BY <1>1, <1>2, RunIsReal, PTL DEF MCSpec

LEMMA IndexHolds == MCSpec => []IndexInv
<1>1. MCInit => IndexInv
  BY IndexStart DEF MCInit
<1>2. IndexInv /\ [MCNext]_allVars => IndexInv'
  BY StepIsEveryParts, IndexKeeps
<1>3. QED
  BY <1>1, <1>2, PTL DEF MCSpec

\* The integrity check and the reindex report tell the truth about the index.
THEOREM IndexToldHolds == MCSpec => []IndexIsTold
BY IndexHolds, IndexIsTrue, PTL

\* A refresh that reports success leaves the collection where it was asked to
\* be, and a sandboxed library never changes the live index.
THEOREM IndexIsKept == MCSpec => IndexKept
<1>1. IndexInv /\ [MCNext]_allVars => [Refreshed]_(X!indexVars) /\ [LiveKept]_(X!indexVars)
  BY StepIsEveryParts, IndexSteps
<1>2. MCSpec => [][Refreshed]_(X!indexVars) /\ [][LiveKept]_(X!indexVars)
  BY <1>1, IndexHolds, PTL DEF MCSpec
<1>3. MCSpec => X!RefreshedIsRegistered /\ X!LiveIndexUntouched
  BY <1>2, PTL DEF X!RefreshedIsRegistered, X!LiveIndexUntouched, Refreshed, LiveKept
<1>4. QED
  BY <1>3, PTL DEF IndexKept
=============================================================================
