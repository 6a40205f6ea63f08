-------------------------- MODULE MemoryApplyProofs --------------------------
(***************************************************************************)
(* Theorems about MemoryApply for any wiki, any plans, any number of       *)
(* callers, whatever fails and whoever is killed.                          *)
(***************************************************************************)
EXTENDS MemoryApply, TLAPS

-----------------------------------------------------------------------------
(* What the operators on trees return *)

LEMMA BodyIsContent == \A b \in Bodies : <<b>> \in Contents
BY DEF Contents, Pieces

LEMMA TextType == \A c \in Contents : Text(c) \in Seq(Pieces)
BY DEF Contents, Text

LEMMA TreeUpdate ==
    ASSUME NEW t \in Trees, NEW f \in Files, NEW c \in Contents
    PROVE  [t EXCEPT ![f] = c] \in Trees
BY DEF Trees

LEMMA WrittenType ==
    ASSUME NEW op \in Operations, NEW old \in Contents
    PROVE  Written(op, old) \in Contents
<1>1. op.kind \in Kinds /\ op.body \in Bodies
  BY DEF Operations
<1>2. op.body \in Pieces /\ Text(old) \in Seq(Pieces)
  BY <1>1, TextType DEF Pieces
<1>3. Append(Text(old), op.body) \in Seq(Pieces) /\ <<op.body>> \in Seq(Pieces)
  BY <1>2
<1>4. QED
  BY <1>1, <1>3 DEF Written, Contents, Kinds

LEMMA DoType ==
    ASSUME NEW t \in Trees, NEW op \in Operations
    PROVE  Do(t, op) \in Trees
<1>1. op.page \in Files /\ t[op.page] \in Contents
  BY DEF Operations, Files, Trees
<1>2. Written(op, t[op.page]) \in Contents
  BY <1>1, WrittenType
<1>3. QED
  BY <1>1, <1>2, TreeUpdate DEF Do

LEMMA LogAppended ==
    ASSUME NEW t \in Trees, NEW lines \in Seq(Pieces)
    PROVE  [t EXCEPT ![Log] = Text(@) \o lines] \in Trees
<1>1. Log \in Files /\ t[Log] \in Contents
  BY DEF Files, Trees
<1>2. Text(t[Log]) \in Seq(Pieces)
  BY <1>1, TextType
<1>3. Text(t[Log]) \o lines \in Contents
  BY <1>2 DEF Contents
<1>4. QED
  BY <1>1, <1>3, TreeUpdate

LEMMA LoggedType ==
    ASSUME NEW t \in Trees, NEW p \in Seq(Operations)
    PROVE  Logged(t, p) \in Trees
<1>1. ASSUME NEW op \in Operations PROVE Entry(op) \in Pieces
  <2>1. op.kind \in Kinds /\ op.page \in Pages \cup {Index, Log}
    BY DEF Operations
  <2>2. QED
    BY <2>1 DEF Entry, Pieces
<1>2. LogLines(p) \in Seq(Pieces)
  BY <1>1 DEF LogLines
<1>3. QED
  BY <1>2, LogAppended DEF Logged

LEMMA PoppedType ==
    ASSUME NEW entry \in Entries, tree \in Trees
    PROVE  Popped(entry) \in Trees
<1>1. <<Conflicted>> \in Contents
  BY ApplyAssumption, BodyIsContent
<1>2. \A f \in Files : tree[f] \in Contents /\ entry.work[f] \in Contents
  BY DEF Entries, Trees
<1>3. QED
  BY <1>1, <1>2 DEF Popped, Trees

\* An index without unmerged entries is a tree.
LEMMA MergedType ==
    ASSUME index \in Indexes
    PROVE  Trees \subseteq Indexes /\ (~Conflicting => index \in Trees)
BY DEF Indexes, Trees, Conflicting

LEMMA PoppedOrDropped ==
    ASSUME tree \in Trees, index \in Indexes, stash \in Seq(Entries), PopsOrDrops
    PROVE  tree' \in Trees /\ index' \in Indexes /\ stash' \in Seq(Entries)
<1>1. CASE stash = <<>>
  BY <1>1 DEF PopsOrDrops
<1>2. CASE stash # <<>>
  <2>1. Head(stash) \in Entries /\ Tail(stash) \in Seq(Entries) /\ stash' = Tail(stash)
    BY <1>2 DEF PopsOrDrops
  <2>2. CASE Conflicting
    BY <1>2, <2>1, <2>2 DEF PopsOrDrops
  <2>3. CASE ~Conflicting
    <3>1. tree' = Popped(Head(stash))
      BY <1>2, <2>3 DEF PopsOrDrops
    <3>2. tree' \in Trees
      BY <2>1, <3>1, PoppedType
    <3>3. index' = [f \in Files |-> IF f \in Clashes(Head(stash)) /\ Head(stash).base[f] # Absent
                                      THEN Unmerged ELSE index[f]]
      BY <1>2, <2>3 DEF PopsOrDrops
    <3>4. index' \in Indexes
      BY <3>3 DEF Indexes
    <3>5. QED
      BY <2>1, <3>2, <3>4
  <2>4. QED
    BY <2>2, <2>3
<1>3. QED
  BY <1>1, <1>2

LEMMA StartType == Start \in Trees /\ Blank \in Trees
<1>1. <<Seed>> \in Contents /\ <<>> \in Contents /\ Absent \in Contents
  BY ApplyAssumption, BodyIsContent DEF Contents
<1>2. QED
  BY <1>1 DEF Start, Blank, Trees

LEMMA PlanType == \A p \in Plans \cup {<<>>} : p \in Seq(Operations)
<1>1. Plans \subseteq Seq(Operations)
  BY PlanAssumption
<1>2. <<>> \in Seq(Operations)
  OBVIOUS
<1>3. QED
  BY <1>1, <1>2

-----------------------------------------------------------------------------
(* The inductive invariant *)

LEMMA InitInv == Init => ApplyInv
<1> SUFFICES ASSUME Init PROVE ApplyInv
  OBVIOUS
<1>1. TypeOK
  <2>1. \A p \in Pages : Start[p] \in Contents
    BY StartType DEF Files, Trees
  <2>2. Now \in [head : Trees, tree : Trees, stash : Seq(Entries),
                 catalog : [Pages -> Contents]]
    BY <2>1, StartType DEF Init, Now
  <2>3. index \in Indexes
    BY StartType DEF Init, Trees, Indexes
  <2>4. QED
    BY <2>1, <2>2, <2>3, StartType DEF Init, TypeOK, RepoType, DerivedType, CallType, OutsideType, Steps, Verdicts
<1>2. Locked /\ OwnEntryOnTop /\ OperationInHand
  BY ApplyAssumption DEF Init, Locked, OwnEntryOnTop, OperationInHand, UnderLock, WithSnapshot
<1>3. QED
  BY <1>1, <1>2 DEF ApplyInv

\* A call's steps in groups, and what each group leaves alone.
Early(a) == Call(a) \/ Enter(a) \/ EnterFails(a) \/ Validate(a)
Late(a) == Return(a) \/ Crash(a)

\* The commit, the files and the stash list.
LEMMA RepoStep ==
    ASSUME ApplyInv, [Next]_vars PROVE RepoType'
<1> USE ApplyAssumption DEF ApplyInv, TypeOK, RepoType, repo
<1>1. ASSUME UNCHANGED repo PROVE RepoType'
  BY <1>1
<1>t. Trees \subseteq Indexes /\ (~Conflicting => index \in Trees)
  BY MergedType
<1>2. ASSUME NEW a \in Appliers, Snapshot(a) PROVE RepoType'
  <2>1. <<[base |-> head, work |-> tree]>> \o stash \in Seq(Entries)
    BY DEF Entries
  <2>2. QED
    BY <1>2, <1>t, <2>1 DEF Snapshot
<1>3. ASSUME NEW a \in Appliers, Write(a) PROVE RepoType'
  <2>1. plan[a] \in Seq(Operations) /\ next[a] \in DOMAIN plan[a]
    BY <1>3, PlanType DEF Write, CallType
  <2>2. Op(a) \in Operations
    BY <2>1 DEF Op
  <2>3. QED
    BY <1>3, <2>2, DoType DEF Write
<1>4. ASSUME NEW a \in Appliers, AppendLog(a) PROVE RepoType'
  <2>1. plan[a] \in Seq(Operations)
    BY PlanType DEF CallType
  <2>2. QED
    BY <1>4, <2>1, LoggedType DEF AppendLog
<1>5. ASSUME NEW a \in Appliers, AtomicCommit(a) PROVE RepoType'
  <2>1. [f \in Files |-> IF f \in CommitFiles(a) THEN tree[f] ELSE index[f]] \in Indexes
    BY DEF Trees, Indexes
  <2>2. plan[a] \in Plans \cup {<<>>}
    BY DEF CallType
  <2>3. CASE Stage(a)
    BY <2>1, <2>3 DEF Stage
  <2>4. CASE Commit(a)
    BY <1>t, <2>2, <2>4 DEF Commit
  <2>5. CASE StageFails(a) \/ CommitFails(a) \/ ReadShaFails(a)
    BY <1>t, <2>5 DEF StageFails, CommitFails, ReadShaFails
  <2>6. CASE NothingToCommit(a) \/ ReadSha(a)
    BY <2>6 DEF NothingToCommit, ReadSha
  <2>7. QED
    BY <1>5, <2>3, <2>4, <2>5, <2>6 DEF AtomicCommit
<1>6. ASSUME NEW a \in Appliers, Checkout(a) PROVE RepoType'
  <2>1. \A f \in Files : (Conflicting /\ index[f] # Absent) \/ index[f] \in Contents
    BY DEF Indexes, Conflicting, Contents
  <2>2. \A f \in Files : (IF Conflicting /\ index[f] # Absent THEN tree[f] ELSE index[f]) \in Contents
    BY <2>1 DEF Trees
  <2>3. tree' \in Trees
    BY <1>6, <2>2 DEF Checkout, Trees
  <2>4. QED
    BY <1>6, <2>3 DEF Checkout
<1>7. ASSUME NEW a \in Appliers, Pop(a) \/ PopAgain(a) PROVE RepoType'
  <2>1. PopsOrDrops \/ UNCHANGED <<index, tree, stash>>
    BY <1>7 DEF Pop, PopAgain
  <2>2. tree' \in Trees /\ index' \in Indexes /\ stash' \in Seq(Entries)
    BY <2>1, PoppedOrDropped
  <2>3. head' = head /\ history' = history
    BY <1>7 DEF Pop, PopAgain
  <2>4. QED
    BY <2>2, <2>3
<1>8. ASSUME NEW a \in Appliers, Discard(a) PROVE RepoType'
  <2>1. stashed[a] => stash # <<>>
    BY <1>8 DEF Discard, Goto, Locked, OwnEntryOnTop, UnderLock, WithSnapshot, Steps
  <2>2. CASE stashed[a]
    <3>1. Tail(stash) \in Seq(Entries)
      BY <2>1, <2>2
    <3>2. QED
      BY <1>8, <2>2, <3>1 DEF Discard
  <2>3. CASE ~stashed[a]
    BY <1>8, <2>3 DEF Discard
  <2>4. QED
    BY <2>2, <2>3
<1>9. ASSUME EditorWrites PROVE RepoType'
  <2>1. \A content \in {<<Hand>>, Absent} : content \in Contents
    BY BodyIsContent DEF Contents
  <2>2. PICK p \in Pages, content \in {<<Hand>>, Absent} : tree' = [tree EXCEPT ![p] = content]
    BY <1>9 DEF EditorWrites
  <2>3. tree' \in Trees
    BY <2>1, <2>2, TreeUpdate DEF Files
  <2>4. UNCHANGED <<head, index, stash, history>>
    BY <1>9 DEF EditorWrites
  <2>5. QED
    BY <2>3, <2>4
<1>10. ASSUME LintReports PROVE RepoType'
  <2>1. tree' \in Trees
    BY <1>10, BodyIsContent, TreeUpdate DEF LintReports, Files
  <2>2. QED
    BY <1>10, <2>1 DEF LintReports
<1>11. ASSUME LintLogs PROVE RepoType'
  <2>1. Log \in Files /\ tree[Log] \in Contents
    BY DEF Files, Trees
  <2>2. Text(tree[Log]) \in Seq(Pieces) /\ LintEntry \in Pieces
    BY <2>1, TextType DEF Pieces
  <2>3. Append(Text(tree[Log]), LintEntry) \in Contents
    BY <2>2 DEF Contents
  <2>4. [tree EXCEPT ![Log] = Append(Text(tree[Log]), LintEntry)] \in Trees
    BY <2>1, <2>3, TreeUpdate
  <2>5. QED
    BY <1>11, <2>1, <2>4 DEF LintLogs, Trees
<1>12. ASSUME ManualStage \/ ManualCommit PROVE RepoType'
  <2>1. [f \in Files |-> IF index[f] = Absent THEN Absent ELSE tree[f]] \in Trees
    BY DEF Trees, Contents
  <2>2. CASE ManualStage
    BY <1>t, <2>1, <2>2 DEF ManualStage
  <2>3. CASE ManualCommit
    <3>1. Append(history, <<>>) \in Seq(Plans \cup {<<>>})
      OBVIOUS
    <3>2. QED
      BY <1>t, <2>3, <3>1 DEF ManualCommit
  <2>4. QED
    BY <1>12, <2>2, <2>3
<1>13. ASSUME NEW a \in Appliers, Early(a) \/ SnapshotFails(a) \/ Late(a) PROVE UNCHANGED repo
  BY <1>13 DEF Early, Late, Call, Enter, EnterFails, Validate, SnapshotFails, Return, Crash
<1>14. ASSUME NEW a \in Appliers,
              SkipDelete(a) \/ WriteRefused(a) \/ WriteFails(a) \/ Row(a) \/ Receipt(a) \/ Refresh(a)
       PROVE  UNCHANGED repo
  BY <1>14 DEF SkipDelete, WriteRefused, WriteFails, Row, Receipt, Refresh
<1>15. ASSUME ReconcileReads \/ ReconcileWrites \/ UNCHANGED vars PROVE UNCHANGED repo
  BY <1>15 DEF ReconcileReads, ReconcileWrites, vars
<1>16. QED
  BY <1>1, <1>2, <1>3, <1>4, <1>5, <1>6, <1>7, <1>8, <1>9, <1>10, <1>11, <1>12, <1>13, <1>14, <1>15
     DEF Next, Step, ApplyOperations, Restore, Finish, Elsewhere, Early, Late

\* The catalog, the receipts and the qmd index.
LEMMA DerivedStep ==
    ASSUME ApplyInv, [Next]_vars PROVE DerivedType'
<1> USE DEF ApplyInv, TypeOK, DerivedType, derived
<1>1. ASSUME UNCHANGED derived PROVE DerivedType'
  BY <1>1
<1>2. \A p \in Pages : tree[p] \in Contents /\ Absent \in Contents
  BY DEF RepoType, Trees, Files, Contents
<1>3. ASSUME NEW a \in Appliers, Row(a) PROVE DerivedType'
  <2>1. receipts' = receipts /\ qmdFresh' = qmdFresh
    BY <1>3 DEF Row
  <2>2. CASE catalog' = catalog
    BY <2>1, <2>2
  <2>3. CASE Op(a).page \in Pages /\ catalog' = [catalog EXCEPT ![Op(a).page] = tree[Op(a).page]]
    BY <1>2, <2>1, <2>3
  <2>4. QED
    BY <1>3, <2>2, <2>3 DEF Row
<1>4. ASSUME NEW a \in Appliers, Commit(a) PROVE DerivedType'
  BY <1>4 DEF Commit
<1>5. ASSUME NEW a \in Appliers, Receipt(a) PROVE DerivedType'
  <2>1. sha[a] \in Nat
    BY DEF CallType
  <2>2. QED
    BY <1>5, <2>1 DEF Receipt
<1>6. ASSUME NEW a \in Appliers, Refresh(a) PROVE DerivedType'
  BY <1>6 DEF Refresh
<1>7. ASSUME ManualCommit PROVE DerivedType'
  BY <1>7 DEF ManualCommit
<1>8. ASSUME ReconcileWrites PROVE DerivedType'
  <2>1. catalog' \in [Pages -> Contents]
    BY <1>2, <1>8 DEF ReconcileWrites
  <2>2. QED
    BY <1>8, <2>1 DEF ReconcileWrites
<1>9. ASSUME NEW a \in Appliers,
             Early(a) \/ Snapshot(a) \/ SnapshotFails(a) \/ Restore(a) \/ Discard(a) \/ Late(a)
      PROVE  UNCHANGED derived
  BY <1>9 DEF Early, Late, Call, Enter, EnterFails, Validate, Snapshot, SnapshotFails, Restore, Checkout,
     Pop, PopAgain, Discard, Return, Crash
<1>10. ASSUME NEW a \in Appliers,
              Write(a) \/ SkipDelete(a) \/ WriteRefused(a) \/ WriteFails(a) \/ AppendLog(a)
       PROVE  UNCHANGED derived
  BY <1>10 DEF Write, SkipDelete, WriteRefused, WriteFails, AppendLog
<1>11. ASSUME NEW a \in Appliers,
              \/ Stage(a) \/ StageFails(a) \/ NothingToCommit(a) \/ CommitFails(a)
              \/ ReadSha(a) \/ ReadShaFails(a)
       PROVE  UNCHANGED derived
  BY <1>11 DEF Stage, StageFails, NothingToCommit, CommitFails, ReadSha, ReadShaFails
<1>12. ASSUME \/ EditorWrites \/ LintReports \/ LintLogs \/ ManualStage
              \/ ReconcileReads \/ UNCHANGED vars
       PROVE  UNCHANGED derived
  BY <1>12 DEF EditorWrites, LintReports, LintLogs, ManualStage, ReconcileReads, vars
<1>13. QED
  BY <1>1, <1>3, <1>4, <1>5, <1>6, <1>7, <1>8, <1>9, <1>10, <1>11, <1>12
     DEF Next, Step, ApplyOperations, AtomicCommit, Finish, Elsewhere, Early, Late

\* What each call holds.
LEMMA CallStep ==
    ASSUME ApplyInv, [Next]_vars PROVE CallType'
<1> USE ApplyAssumption DEF ApplyInv, TypeOK, CallType, Steps, Verdicts, Goto, Say, RollBack, locals
<1>1. ASSUME NEW a \in Appliers, Call(a) PROVE CallType'
  <2>1. \A p \in Plans : [f \in Files |-> IF f \in Targets(p) THEN tree[f] ELSE Absent] \in Trees
    BY DEF RepoType, Trees, Contents
  <2>2. QED
    BY <1>1, <2>1 DEF Call
<1>2. ASSUME NEW a \in Appliers, Enter(a) \/ EnterFails(a) PROVE CallType'
  <2>1. CASE Enter(a)
    BY <2>1 DEF Enter
  <2>2. CASE EnterFails(a)
    BY <2>2, StartType DEF EnterFails
  <2>3. QED
    BY <1>2, <2>1, <2>2
<1>3. ASSUME NEW a \in Appliers, Validate(a) PROVE CallType'
  BY <1>3 DEF Validate
<1>4. ASSUME NEW a \in Appliers, Snapshot(a) PROVE CallType'
  BY <1>4 DEF Snapshot
<1>5. ASSUME NEW a \in Appliers,
             \/ SnapshotFails(a) \/ Write(a) \/ WriteRefused(a) \/ WriteFails(a) \/ AppendLog(a)
      PROVE  CallType'
  <2>1. CASE SnapshotFails(a)
    BY <2>1 DEF SnapshotFails
  <2>2. CASE Write(a)
    BY <2>2 DEF Write
  <2>3. CASE WriteRefused(a)
    BY <2>3 DEF WriteRefused
  <2>4. CASE WriteFails(a)
    BY <2>4 DEF WriteFails
  <2>5. CASE AppendLog(a)
    BY <2>5 DEF AppendLog
  <2>6. QED
    BY <1>5, <2>1, <2>2, <2>3, <2>4, <2>5
<1>6. ASSUME NEW a \in Appliers, SkipDelete(a) \/ Row(a) PROVE CallType'
  <2>1. ASSUME pc[a] = "row" PROVE Op(a).page \in Pages \cup {Index, Log}
    <3>1. plan[a] \in Seq(Operations) /\ next[a] \in DOMAIN plan[a]
      BY <2>1, PlanType DEF OperationInHand
    <3>2. Op(a) \in Operations
      BY <3>1 DEF Op
    <3>3. QED
      BY <3>2 DEF Operations
  <2>2. CASE SkipDelete(a)
    BY <2>2 DEF SkipDelete
  <2>3. CASE Row(a)
    <3>1. changed' \in [Appliers -> SUBSET (Pages \cup {Index, Log})]
      BY <2>1, <2>3 DEF Row
    <3>2. QED
      BY <2>3, <3>1 DEF Row
  <2>4. QED
    BY <1>6, <2>2, <2>3
<1>7. ASSUME NEW a \in Appliers,
             \/ Stage(a) \/ StageFails(a) \/ Commit(a) \/ NothingToCommit(a) \/ CommitFails(a)
      PROVE  CallType'
  <2>1. CASE Stage(a)
    BY <2>1 DEF Stage
  <2>2. CASE StageFails(a)
    BY <2>2 DEF StageFails
  <2>3. CASE Commit(a)
    BY <2>3 DEF Commit
  <2>4. CASE NothingToCommit(a)
    BY <2>4 DEF NothingToCommit
  <2>5. CASE CommitFails(a)
    BY <2>5 DEF CommitFails
  <2>6. QED
    BY <1>7, <2>1, <2>2, <2>3, <2>4, <2>5
<1>8. ASSUME NEW a \in Appliers, ReadSha(a) \/ ReadShaFails(a) PROVE CallType'
  <2>1. Len(history) \in Nat
    BY DEF RepoType
  <2>2. CASE ReadSha(a)
    BY <2>1, <2>2 DEF ReadSha
  <2>3. CASE ReadShaFails(a)
    BY <2>3 DEF ReadShaFails
  <2>4. QED
    BY <1>8, <2>2, <2>3
<1>9. ASSUME NEW a \in Appliers,
             \/ Checkout(a) \/ Discard(a) \/ Receipt(a) \/ Refresh(a)
      PROVE  CallType'
  <2>1. CASE Checkout(a)
    BY <2>1 DEF Checkout
  <2>2. CASE Discard(a)
    BY <2>2 DEF Discard
  <2>3. CASE Receipt(a)
    BY <2>3 DEF Receipt
  <2>4. CASE Refresh(a)
    BY <2>4 DEF Refresh
  <2>5. QED
    BY <1>9, <2>1, <2>2, <2>3, <2>4
<1>10. ASSUME NEW a \in Appliers, Pop(a) \/ PopAgain(a) PROVE CallType'
  <2>1. pc' = [pc EXCEPT ![a] = "checkout"] \/ pc' = [pc EXCEPT ![a] = "release"]
    BY <1>10 DEF Pop, PopAgain
  <2>v. verdict' = verdict \/ \E v \in {"unrestored", "restoredTwice"} : verdict' = [verdict EXCEPT ![a] = v]
    BY <1>10 DEF Pop, PopAgain
  <2>2. UNCHANGED <<flock, locals>>
    BY <1>10 DEF Pop, PopAgain
  <2>3. QED
    BY <2>1, <2>v, <2>2
<1>11. ASSUME NEW a \in Appliers, Return(a) PROVE CallType'
  BY <1>11, StartType DEF Return
<1>12. ASSUME NEW a \in Appliers, Crash(a) PROVE CallType'
  BY <1>12 DEF Crash
<1>13. ASSUME Elsewhere \/ UNCHANGED vars PROVE UNCHANGED <<flock, pc, locals, verdict>>
  BY <1>13 DEF Elsewhere, EditorWrites, LintReports, LintLogs, ManualStage, ManualCommit,
     ReconcileReads, ReconcileWrites, vars
<1>14. ASSUME UNCHANGED <<flock, pc, locals, verdict>> PROVE CallType'
  BY <1>14
<1>15. QED
  BY <1>1, <1>2, <1>3, <1>4, <1>5, <1>6, <1>7, <1>8, <1>9, <1>10, <1>11, <1>12, <1>13, <1>14
     DEF Next, Step, ApplyOperations, AtomicCommit, Restore, Finish

\* The others, and the history variables.
LEMMA OutsideStep ==
    ASSUME ApplyInv, [Next]_vars PROVE OutsideType'
<1> USE DEF ApplyInv, TypeOK, OutsideType, outside, ghosts
<1>1. ASSUME UNCHANGED <<outside, ghosts>> PROVE OutsideType'
  BY <1>1
<1>2. ASSUME NEW a \in Appliers, Call(a) \/ EnterFails(a) PROVE OutsideType'
  <2>1. CASE Call(a)
    BY <2>1 DEF Call
  <2>2. CASE EnterFails(a)
    BY <1>1, <2>2 DEF EnterFails
  <2>3. QED
    BY <1>2, <2>1, <2>2
<1>3. ASSUME NEW a \in Appliers, Enter(a) PROVE OutsideType'
  <2>1. Now \in [head : Trees, tree : Trees, stash : Seq(Entries), catalog : [Pages -> Contents]]
    BY DEF Now, RepoType, DerivedType
  <2>2. QED
    BY <1>3, <2>1 DEF Enter
<1>4. ASSUME NEW a \in Appliers, Snapshot(a) PROVE OutsideType'
  BY <1>4 DEF Snapshot, RepoType
<1>5. ASSUME NEW a \in Appliers, Pop(a) \/ PopAgain(a) \/ Discard(a) PROVE OutsideType'
  <2>1. owed' \subseteq Trees
    BY <1>5 DEF Pop, PopAgain, Discard
  <2>2. stash # <<>> => Head(stash).work \in Trees
    <3>1. stash # <<>> => Head(stash) \in Entries
      BY DEF RepoType
    <3>2. QED
      BY <3>1 DEF Entries
  <2>3. taken' \subseteq Trees
    BY <1>5, <2>2 DEF Pop, PopAgain, Discard
  <2>4. QED
    BY <1>5, <2>1, <2>3 DEF Pop, PopAgain, Discard
<1>6. ASSUME EditorWrites PROVE OutsideType'
  BY <1>6 DEF EditorWrites, MayAct
<1>7. ASSUME LintReports \/ LintLogs PROVE OutsideType'
  <2>1. CASE LintReports
    BY <2>1 DEF LintReports, MayAct, Begin
  <2>2. CASE LintLogs
    BY <2>2 DEF LintLogs, End
  <2>3. QED
    BY <1>7, <2>1, <2>2
<1>8. ASSUME ManualStage \/ ManualCommit PROVE OutsideType'
  <2>1. CASE ManualStage
    BY <2>1 DEF ManualStage, MayAct, Begin
  <2>2. CASE ManualCommit
    BY <2>2 DEF ManualCommit, End
  <2>3. QED
    BY <1>8, <2>1, <2>2
<1>9. ASSUME ReconcileReads \/ ReconcileWrites PROVE OutsideType'
  BY <1>9 DEF ReconcileReads, ReconcileWrites, MayAct, Begin, End
<1>10. ASSUME NEW a \in Appliers,
              \/ Validate(a) \/ SnapshotFails(a) \/ ApplyOperations(a) \/ Checkout(a)
              \/ Receipt(a) \/ Refresh(a) \/ Late(a)
       PROVE  UNCHANGED <<outside, ghosts>>
  BY <1>10 DEF Validate, SnapshotFails, ApplyOperations, Write, SkipDelete, WriteRefused,
     WriteFails, Row, AppendLog, Checkout, Receipt, Refresh, Late, Return, Crash
<1>11. ASSUME NEW a \in Appliers, AtomicCommit(a) PROVE UNCHANGED <<outside, ghosts>>
  BY <1>11 DEF AtomicCommit, Stage, StageFails, Commit, NothingToCommit, CommitFails,
     ReadSha, ReadShaFails
<1>12. ASSUME UNCHANGED vars PROVE UNCHANGED <<outside, ghosts>>
  BY <1>12 DEF vars
<1>13. QED
  BY <1>1, <1>2, <1>3, <1>4, <1>5, <1>6, <1>7, <1>8, <1>9, <1>10, <1>11, <1>12
     DEF Next, Step, Restore, Finish, Elsewhere, Late

\* The operation whose row is written is one of the plan.
LEMMA HandStep ==
    ASSUME ApplyInv, [Next]_vars PROVE OperationInHand'
<1> USE DEF ApplyInv, TypeOK, CallType, OperationInHand, Goto, Say, RollBack, locals
<1>1. ASSUME NEW a \in Appliers, Write(a) PROVE OperationInHand'
  <2>1. next[a] \in DOMAIN plan[a]
    BY <1>1, PlanType DEF Write
  <2>2. QED
    BY <1>1, <2>1 DEF Write
<1>2. ASSUME NEW a \in Appliers, Early(a) \/ Snapshot(a) \/ SnapshotFails(a) \/ Late(a)
      PROVE  OperationInHand'
  BY <1>2 DEF Early, Late, Call, Enter, EnterFails, Validate, Snapshot, SnapshotFails, Return, Crash
<1>3. ASSUME NEW a \in Appliers,
             SkipDelete(a) \/ WriteRefused(a) \/ WriteFails(a) \/ Row(a) \/ AppendLog(a)
      PROVE  OperationInHand'
  BY <1>3 DEF SkipDelete, WriteRefused, WriteFails, Row, AppendLog
<1>4. ASSUME NEW a \in Appliers, AtomicCommit(a) PROVE OperationInHand'
  BY <1>4 DEF AtomicCommit, Stage, StageFails, Commit, NothingToCommit, CommitFails,
     ReadSha, ReadShaFails
<1>5. ASSUME NEW a \in Appliers, Restore(a) \/ Finish(a) PROVE OperationInHand'
  BY <1>5 DEF Restore, Checkout, Pop, PopAgain, Finish, Discard, Receipt, Refresh
<1>6. ASSUME Elsewhere \/ UNCHANGED vars PROVE OperationInHand'
  BY <1>6 DEF Elsewhere, EditorWrites, LintReports, LintLogs, ManualStage, ManualCommit,
     ReconcileReads, ReconcileWrites, vars
<1>7. QED
  BY <1>1, <1>2, <1>3, <1>4, <1>5, <1>6 DEF Next, Step, ApplyOperations, Early, Late

\* The steps of a call between the lock and its release go on to another such
\* step or to the release, and leave the lock alone.
Onward(a) ==
    /\ pc[a] \in UnderLock /\ flock' = flock
    /\ pc' = pc \/ \E to \in UnderLock \cup {"release"} : pc' = [pc EXCEPT ![a] = to]

LEMMA GoesOn ==
    ASSUME NEW a \in Appliers,
           \/ Validate(a) \/ Snapshot(a) \/ SnapshotFails(a) \/ ApplyOperations(a)
           \/ AtomicCommit(a) \/ Restore(a) \/ Finish(a)
    PROVE  Onward(a)
<1> USE DEF Onward, UnderLock, Steps, Goto, RollBack, locals
<1>1. CASE Validate(a) \/ Snapshot(a) \/ SnapshotFails(a)
  BY <1>1 DEF Validate, Snapshot, SnapshotFails
<1>2. CASE Write(a) \/ SkipDelete(a) \/ WriteRefused(a)
  BY <1>2 DEF Write, SkipDelete, WriteRefused
<1>3. CASE WriteFails(a) \/ Row(a) \/ AppendLog(a)
  BY <1>3 DEF WriteFails, Row, AppendLog
<1>4. CASE Stage(a) \/ StageFails(a) \/ Commit(a) \/ NothingToCommit(a)
  BY <1>4 DEF Stage, StageFails, Commit, NothingToCommit
<1>5. CASE CommitFails(a) \/ ReadSha(a) \/ ReadShaFails(a)
  BY <1>5 DEF CommitFails, ReadSha, ReadShaFails
<1>6. CASE Restore(a)
  BY <1>6 DEF Restore, Checkout, Pop, PopAgain
<1>7. CASE Finish(a)
  BY <1>7 DEF Finish, Discard, Receipt, Refresh
<1>8. QED
  BY <1>1, <1>2, <1>3, <1>4, <1>5, <1>6, <1>7 DEF ApplyOperations, AtomicCommit

\* Who is between the lock and its release owns the lock.
LEMMA LockedStep ==
    ASSUME ApplyInv, [Next]_vars PROVE Locked'
<1> USE ApplyAssumption DEF ApplyInv, TypeOK, CallType, Locked, UnderLock, Steps
<1>1. ASSUME NEW a \in Appliers, Early(a) \/ Late(a) PROVE Locked'
  <2>1. CASE Call(a)
    BY <2>1 DEF Call, Goto
  <2>2. CASE Enter(a)
    BY <2>2 DEF Enter, Goto, Say, locals
  <2>3. CASE EnterFails(a)
    BY <2>3 DEF EnterFails, Goto, Say
  <2>4. CASE Validate(a)
    BY <2>4 DEF Validate, Goto, Say
  <2>5. CASE Return(a) \/ Crash(a)
    BY <2>5 DEF Return, Crash, Goto, locals
  <2>6. QED
    BY <1>1, <2>1, <2>2, <2>3, <2>4, <2>5 DEF Early, Late
<1>2. ASSUME NEW a \in Appliers, Onward(a) PROVE Locked'
  BY <1>2 DEF Onward
<1>3. ASSUME Elsewhere \/ UNCHANGED vars PROVE Locked'
  BY <1>3 DEF Elsewhere, EditorWrites, LintReports, LintLogs, ManualStage, ManualCommit,
     ReconcileReads, ReconcileWrites, vars
<1>4. QED
  BY <1>1, <1>2, <1>3, GoesOn DEF Next, Step, Early, Late

\* The call's own entry, and nothing else, is pushed on the list it found.
LEMMA OwnEntryStep ==
    ASSUME ApplyInv, [Next]_vars PROVE OwnEntryOnTop'
<1> USE ApplyAssumption DEF ApplyInv, TypeOK, CallType, Locked, OwnEntryOnTop, UnderLock,
        WithSnapshot, Steps
<1>1. ASSUME NEW a \in Appliers, Call(a) \/ Enter(a) \/ EnterFails(a) PROVE OwnEntryOnTop'
  <2>1. CASE Call(a)
    BY <1>1, <2>1 DEF Call, Goto, repo, ghosts
  <2>2. CASE Enter(a) /\ flock \in {Nobody, a}
    <3>1. flock' = a /\ pc'[a] = "validate" /\ before' = Now /\ verdict'[a] = "none"
      BY <2>2 DEF Enter, Goto, Say
    <3>2. stash' = stash /\ Now.stash = stash
      BY <2>2 DEF Enter, Now, repo
    <3>3. QED
      BY <3>1, <3>2
  <2>3. CASE Enter(a) /\ flock \notin {Nobody, a}
    BY <2>3 DEF Enter, Goto, Say, repo, locals
  <2>4. CASE EnterFails(a)
    BY <2>4 DEF EnterFails, Goto, Say
  <2>5. QED
    BY <1>1, <2>1, <2>2, <2>3, <2>4
<1>2. ASSUME NEW a \in Appliers, Validate(a) \/ SnapshotFails(a) PROVE OwnEntryOnTop'
  BY <1>2 DEF Validate, SnapshotFails, Goto, Say, repo, locals, ghosts
<1>3. ASSUME NEW a \in Appliers, Snapshot(a) PROVE OwnEntryOnTop'
  <2>1. \A s \in Seq(Entries), e \in Entries : <<e>> \o s # <<>> /\ Tail(<<e>> \o s) = s
    OBVIOUS
  <2>2. [base |-> head, work |-> tree] \in Entries
    BY DEF RepoType, Entries
  <2>3. flock = a /\ stash = before.stash
    BY <1>3 DEF Snapshot, Goto
  <2>4. stashed' = [stashed EXCEPT ![a] = ~Clean] /\ pc'[a] = "write"
    BY <1>3 DEF Snapshot, Goto
  <2>5. stash' = IF Clean THEN stash ELSE <<[base |-> head, work |-> tree]>> \o stash
    BY <1>3 DEF Snapshot
  <2>6. flock' = flock /\ before' = before /\ verdict' = verdict
        /\ verdict[a] \notin {"unrestored", "restoredTwice"}
    BY <1>3 DEF Snapshot, Goto
  <2>7. ~Clean => stash' # <<>> /\ Tail(stash') = stash
    BY <2>1, <2>2, <2>5 DEF RepoType
  <2>8. QED
    BY <2>3, <2>4, <2>5, <2>6, <2>7
<1>4. ASSUME NEW a \in Appliers, ApplyOperations(a) PROVE OwnEntryOnTop'
  BY <1>4 DEF ApplyOperations, Write, SkipDelete, WriteRefused, WriteFails, Row, AppendLog,
     Goto, Say, RollBack, repo, locals, ghosts
<1>5. ASSUME NEW a \in Appliers, AtomicCommit(a) PROVE OwnEntryOnTop'
  BY <1>5 DEF AtomicCommit, Stage, StageFails, Commit, NothingToCommit, CommitFails,
     ReadSha, ReadShaFails, Goto, Say, RollBack, repo, locals, ghosts
<1>6. ASSUME NEW a \in Appliers, Checkout(a) \/ Receipt(a) \/ Refresh(a) PROVE OwnEntryOnTop'
  BY <1>6 DEF Checkout, Receipt, Refresh, Goto, Say, repo, locals, ghosts
<1>7. ASSUME NEW a \in Appliers, Pop(a) \/ PopAgain(a) \/ Discard(a) PROVE OwnEntryOnTop'
  <2>1. pc[a] \in WithSnapshot /\ flock = a /\ verdict[a] # "restoredTwice"
    BY <1>7 DEF Pop, PopAgain, Discard, Goto
  <2>2. flock' = flock /\ before' = before
    BY <1>7 DEF Pop, PopAgain, Discard
  <2>3. CASE Pop(a)
    <3>1. stash' = before.stash
      <4>1. verdict[a] # "unrestored"
        BY <2>3 DEF Pop
      <4>2. CASE stashed[a]
        BY <2>1, <2>3, <4>1, <4>2 DEF Pop, PopsOrDrops
      <4>3. CASE ~stashed[a]
        BY <2>1, <2>3, <4>1, <4>3 DEF Pop
      <4>4. QED
        BY <4>2, <4>3
    <3>2. /\ verdict'[a] \in {"unrestored", verdict[a]} /\ pc'[a] \in {"checkout", "release"}
          /\ pc'[a] = "checkout" => verdict'[a] = "unrestored"
      BY <2>3 DEF Pop, Goto, Say
    <3>3. QED
      BY <2>1, <2>2, <3>1, <3>2
  <2>4. CASE PopAgain(a)
    <3>1. stash = before.stash /\ verdict'[a] = "restoredTwice" /\ pc'[a] = "release"
      BY <2>1, <2>4 DEF PopAgain, Goto, Say
    <3>2. stash' = IF stash = <<>> THEN <<>> ELSE Tail(stash)
      BY <2>4 DEF PopAgain, PopsOrDrops
    <3>3. QED
      BY <2>1, <2>2, <3>1, <3>2
  <2>5. CASE Discard(a)
    <3>1. pc[a] = "discard" /\ pc'[a] = "receipt" /\ verdict' = verdict
      BY <2>5 DEF Discard, Goto
    <3>2. stash' = before.stash
      BY <2>1, <2>5, <3>1 DEF Discard
    <3>3. QED
      BY <2>1, <2>2, <3>1, <3>2
  <2>6. QED
    BY <1>7, <2>3, <2>4, <2>5
<1>8. ASSUME NEW a \in Appliers, Late(a) PROVE OwnEntryOnTop'
  BY <1>8 DEF Late, Return, Crash, Goto, repo, locals, ghosts
<1>9. ASSUME Elsewhere \/ UNCHANGED vars PROVE OwnEntryOnTop'
  BY <1>9 DEF Elsewhere, EditorWrites, LintReports, LintLogs, ManualStage, ManualCommit,
     ReconcileReads, ReconcileWrites, repo, locals, ghosts, vars
<1>10. QED
  BY <1>1, <1>2, <1>3, <1>4, <1>5, <1>6, <1>7, <1>8, <1>9
     DEF Next, Step, Restore, Finish, Late

\* ApplyInv holds of every behaviour.
THEOREM ApplyInvariant == Spec => []ApplyInv
<1>1. Init => ApplyInv
  BY InitInv
<1>2. ApplyInv /\ [Next]_vars => ApplyInv'
  <2>1. ASSUME ApplyInv, [Next]_vars PROVE TypeOK'
    BY <2>1, RepoStep, DerivedStep, CallStep, OutsideStep DEF TypeOK
  <2>2. QED
    BY <2>1, HandStep, LockedStep, OwnEntryStep DEF ApplyInv
<1>3. QED
  BY <1>1, <1>2, PTL DEF Spec

\* The repository, the derived state and the calls keep their types.
THEOREM TypeCorrect == Spec => []TypeOK
<1>1. ApplyInv => TypeOK
  BY DEF ApplyInv
<1>2. QED
  BY <1>1, ApplyInvariant, PTL

\* The stash entries that were there when a call got the lock stay where they
\* were, whatever fails in it and whoever was killed before it, but for the one
\* that the second of two restores takes (service.py:793-797).
THEOREM EarlierStash == Spec => []EarlierStashKept
<1>1. ApplyInv => EarlierStashKept
  BY DEF ApplyInv, TypeOK, CallType, OwnEntryOnTop, EarlierStashKept, UnderLock, Steps
<1>2. QED
  BY <1>1, ApplyInvariant, PTL

\* Work that a call took off the tree is on the stash list until that call has
\* popped or dropped its entry, or the second restore of another one took it.
THEOREM WorkIsStashed == Spec => []StashHoldsOwed
<1>1. Init => StashHoldsOwed
  BY DEF Init, StashHoldsOwed
<1>2. ApplyInv /\ StashHoldsOwed /\ [Next]_vars => StashHoldsOwed'
  <2> SUFFICES ASSUME ApplyInv, StashHoldsOwed, [Next]_vars PROVE StashHoldsOwed'
    OBVIOUS
  <2> USE DEF ApplyInv, TypeOK, RepoType, StashHoldsOwed
  <2>1. ASSUME UNCHANGED <<stash, owed, taken>> PROVE StashHoldsOwed'
    BY <2>1
  <2>2. ASSUME NEW a \in Appliers, Snapshot(a), ~Clean PROVE StashHoldsOwed'
    <3> DEFINE e == [base |-> head, work |-> tree]
    <3>1. e \in Entries
      BY DEF Entries
    <3>2. stash' = <<e>> \o stash /\ owed' = owed \cup {tree} /\ taken' = taken
      BY <2>2 DEF Snapshot
    <3>3. DOMAIN stash' = 1..(Len(stash) + 1) /\ stash'[1] = e
      BY <3>1, <3>2
    <3>4. \A i \in DOMAIN stash : i + 1 \in DOMAIN stash' /\ stash'[i + 1] = stash[i]
      BY <3>1, <3>2
    <3>5. \E i \in DOMAIN stash' : stash'[i].work = tree
      <4>1. 1 \in DOMAIN stash' /\ stash'[1].work = tree
        BY <3>3
      <4>2. QED
        BY <4>1
    <3>6. ASSUME NEW work \in owed \ taken PROVE \E i \in DOMAIN stash' : stash'[i].work = work
      <4>1. PICK i \in DOMAIN stash : stash[i].work = work
        BY <3>6
      <4>2. QED
        BY <3>4, <4>1
    <3>7. QED
      BY <3>2, <3>5, <3>6
  <2>3. ASSUME NEW gone, stash # <<>>, stash' = Tail(stash), gone = Head(stash).work,
               \/ owed' = owed \ {gone} /\ taken' = taken
               \/ owed' = owed /\ taken' = taken \cup {gone}
        PROVE  StashHoldsOwed'
    <3>1. ASSUME NEW work \in owed' \ taken' PROVE \E i \in DOMAIN stash' : stash'[i].work = work
      <4>1. PICK i \in DOMAIN stash : stash[i].work = work
        BY <2>3, <3>1
      <4>2. i # 1
        BY <2>3, <3>1, <4>1
      <4>3. i - 1 \in DOMAIN Tail(stash) /\ Tail(stash)[i - 1] = stash[i]
        BY <2>3, <4>1, <4>2
      <4>4. QED
        BY <2>3, <4>1, <4>3
    <3>2. QED
      BY <3>1
  <2>p. ASSUME NEW a \in Appliers, ((Pop(a) \/ Discard(a)) /\ stashed[a]) \/ PopAgain(a) PROVE StashHoldsOwed'
    <3>1. CASE (Pop(a) \/ Discard(a)) /\ stashed[a]
      <4>1. stash # <<>>
        BY <3>1 DEF Pop, Discard, Goto, Locked, OwnEntryOnTop, UnderLock, WithSnapshot, Steps
      <4>2. stash' = Tail(stash) /\ owed' = owed \ {Head(stash).work} /\ taken' = taken
        BY <3>1, <4>1 DEF Pop, PopsOrDrops, Discard
      <4>3. QED
        BY <2>3, <4>1, <4>2
    <3>2. CASE PopAgain(a) /\ stash # <<>>
      <4>1. stash' = Tail(stash) /\ owed' = owed /\ taken' = taken \cup {Head(stash).work}
        BY <3>2 DEF PopAgain, PopsOrDrops
      <4>2. QED
        BY <2>3, <3>2, <4>1
    <3>3. CASE PopAgain(a) /\ stash = <<>>
      BY <2>1, <3>3 DEF PopAgain, PopsOrDrops
    <3>4. QED
      BY <2>p, <3>1, <3>2, <3>3
  <2>4. ASSUME NEW a \in Appliers,
               \/ Snapshot(a) /\ Clean
               \/ (Pop(a) \/ Discard(a)) /\ ~stashed[a]
        PROVE  UNCHANGED <<stash, owed, taken>>
    BY <2>4 DEF Snapshot, Pop, Discard
  <2>5. ASSUME NEW a \in Appliers, Early(a) \/ SnapshotFails(a) \/ Late(a)
        PROVE  UNCHANGED <<stash, owed, taken>>
    BY <2>5 DEF Early, Late, Call, Enter, EnterFails, Validate, SnapshotFails, Return, Crash, repo, ghosts
  <2>6. ASSUME NEW a \in Appliers, ApplyOperations(a) PROVE UNCHANGED <<stash, owed, taken>>
    BY <2>6 DEF ApplyOperations, Write, SkipDelete, WriteRefused, WriteFails, Row, AppendLog,
       repo, ghosts
  <2>7. ASSUME NEW a \in Appliers, AtomicCommit(a) PROVE UNCHANGED <<stash, owed, taken>>
    BY <2>7 DEF AtomicCommit, Stage, StageFails, Commit, NothingToCommit, CommitFails,
       ReadSha, ReadShaFails, repo, ghosts
  <2>8. ASSUME NEW a \in Appliers, Checkout(a) \/ Receipt(a) \/ Refresh(a)
        PROVE  UNCHANGED <<stash, owed, taken>>
    BY <2>8 DEF Checkout, Receipt, Refresh, repo, ghosts
  <2>9. ASSUME Elsewhere \/ UNCHANGED vars PROVE UNCHANGED <<stash, owed, taken>>
    BY <2>9 DEF Elsewhere, EditorWrites, LintReports, LintLogs, ManualStage, ManualCommit,
       ReconcileReads, ReconcileWrites, repo, ghosts, vars
  <2>10. QED
    BY <2>1, <2>2, <2>p, <2>4, <2>5, <2>6, <2>7, <2>8, <2>9
       DEF Next, Step, Restore, Finish, Early, Late
<1>3. QED
  BY <1>1, <1>2, ApplyInvariant, PTL DEF Spec

-----------------------------------------------------------------------------
(* One call, while the others leave the repository alone *)

\* Before its first operation a call has done nothing, and only a call that was
\* told of a held lock returns without having it.
Fresh == \A a \in Appliers :
    /\ pc[a] \in {"idle", "called", "validate", "snapshot"} => next[a] = 1 /\ changed[a] = {}
    /\ pc[a] = "release" /\ flock # a => verdict[a] = "busy"

\* The operations a call has carried out on the files.
Done(a) == {i \in DOMAIN plan[a] : i < next[a] \/ (i = next[a] /\ pc[a] = "row")}

\* The tree is the commit with those operations on it.
TreeSoFar(a) ==
    /\ \A i \in Done(a) : LET op == plan[a][i] IN tree[op.page] = Written(op, head[op.page])
    /\ \A f \in Files : (\A i \in Done(a) : plan[a][i].page # f) => tree[f] = head[f]

\* None of them is on a file that plans must leave alone.
Permitted(a) == \A i \in Done(a) : ~SystemFile(plan[a][i])

\* Each of them was made over the content its author had read.
Checked(a) == \A i \in Done(a) : LET op == plan[a][i] IN
    Versioned(op) => head[op.page] = expected[a][op.page]

\* What they changed is among the files to commit.
Marked(a) == \A i \in DOMAIN plan[a] : LET p == plan[a][i].page IN
    i < next[a] => p \in changed[a] \/ tree[p] = head[p]

\* The files the call found are in its stash entry, or were the commit's.
Saved(a) ==
    IF stashed[a]
      THEN stash # <<>> /\ Head(stash) = [base |-> before.head, work |-> before.tree]
      ELSE before.tree = before.head

\* A call that nobody disturbs, from the lock to its commit.
WorkInv(a) ==
    /\ pc[a] \in {"validate", "snapshot"} => head = before.head /\ tree = before.tree
    /\ pc[a] \in {"snapshot", "write", "row", "stage", "commit"} => plan[a] \in Plans
    /\ pc[a] \in {"write", "row", "stage", "commit"} => head = before.head /\ Saved(a) /\ Checked(a)
    /\ pc[a] \in {"write", "row", "stage"} => index = head /\ Marked(a) /\ Permitted(a)
    /\ pc[a] \in {"write", "row"} => TreeSoFar(a)
    /\ pc[a] \in {"stage", "commit"} => next[a] > Len(plan[a])
    /\ pc[a] = "stage" => tree = Effect(head, plan[a])
    /\ pc[a] = "commit" => index = Effect(head, plan[a])

\* The same call on its way back from a failure.
RestoreInv(a) ==
    /\ pc[a] \in {"checkout", "pop"} => head = before.head /\ index = head /\ Saved(a)
    /\ pc[a] \in {"checkout", "pop"} => verdict[a] # "unrestored"
    /\ pc[a] = "pop" => tree = index
    /\ pc[a] = "release" /\ verdict[a] \in {"invalid", "conflict", "failed", "empty"} =>
          head = before.head /\ tree = before.tree

\* The rows of the pages a plan writes, from the operation to the return.
Listed(op) == op.page \in Pages /\ (op.kind = "delete" => before.head[op.page] # Absent)
RowsInv(a) ==
    /\ pc[a] \in {"write", "row", "stage"} =>
          \A i \in DOMAIN plan[a] : LET p == plan[a][i].page IN
             i < next[a] /\ Listed(plan[a][i]) => p \in changed[a] /\ catalog[p] = tree[p]
    /\ pc[a] = "commit" =>
          \A i \in DOMAIN plan[a] : LET p == plan[a][i].page IN
             Listed(plan[a][i]) => catalog[p] = index[p]
    /\ pc[a] \in {"sha", "discard", "receipt", "refresh"} \/ (pc[a] = "release" /\ verdict[a] = "applied") =>
          \A i \in DOMAIN plan[a] : LET p == plan[a][i].page IN
             Listed(plan[a][i]) => catalog[p] = head[p]
    /\ pc[a] \in {"checkout", "pop"} => verdict[a] # "applied"

\* The sidecar names every commit but the one whose call has not come to its
\* receipt, and qmd has seen the last one once the call has refreshed it.
Numbers(n) == [i \in 1 .. n |-> i]
DerivedInv ==
    /\ "commit" \notin pending
    /\ (\A a \in Appliers : pc[a] \notin {"sha", "discard", "receipt"}) => receipts = Numbers(Len(history))
    /\ (\A a \in Appliers : pc[a] \notin {"sha", "discard", "receipt", "refresh"}) => qmdFresh
    /\ \A a \in Appliers : pc[a] \in {"sha", "discard", "receipt"} =>
          history # <<>> /\ receipts = Numbers(Len(history) - 1)
    /\ \A a \in Appliers : pc[a] \in {"discard", "receipt"} => sha[a] = Len(history)

\* Steps of a call under the lock, by what they do.
Works(a) ==
    \/ Validate(a) \/ Snapshot(a) \/ SnapshotFails(a)
    \/ ApplyOperations(a) \/ AtomicCommit(a) \/ Restore(a) \/ Finish(a)

\* Nothing that a call sees moves.
Stands(a) ==
    /\ UNCHANGED <<head, index, tree, stash, history, catalog, before>>
    /\ pc'[a] = pc[a] /\ plan'[a] = plan[a] /\ expected'[a] = expected[a] /\ next'[a] = next[a]
    /\ changed'[a] = changed[a] /\ stashed'[a] = stashed[a] /\ sha'[a] = sha[a] /\ verdict'[a] = verdict[a]

LEMMA FreshInvariant == Spec => []Fresh
<1>1. Init => Fresh
  BY DEF Init, Fresh
<1>2. ApplyInv /\ Fresh /\ [Next]_vars => Fresh'
  <2> SUFFICES ASSUME ApplyInv, Fresh, [Next]_vars PROVE Fresh'
    OBVIOUS
  <2> USE ApplyAssumption DEF ApplyInv, TypeOK, CallType, Fresh, Locked, UnderLock, Steps, Goto, Say, RollBack, locals
  <2>1. ASSUME NEW a \in Appliers, Early(a) PROVE Fresh'
    BY <2>1 DEF Early, Call, Enter, EnterFails, Validate
  <2>2. ASSUME NEW a \in Appliers, Snapshot(a) \/ SnapshotFails(a) PROVE Fresh'
    <3>1. CASE Snapshot(a)
      BY <3>1 DEF Snapshot
    <3>2. CASE SnapshotFails(a)
      BY <3>2 DEF SnapshotFails
    <3>3. QED
      BY <2>2, <3>1, <3>2
  <2>3. ASSUME NEW a \in Appliers, ApplyOperations(a) PROVE Fresh'
    BY <2>3 DEF ApplyOperations, Write, SkipDelete, WriteRefused, WriteFails, Row, AppendLog
  <2>4. ASSUME NEW a \in Appliers, AtomicCommit(a) PROVE Fresh'
    BY <2>4 DEF AtomicCommit, Stage, StageFails, Commit, NothingToCommit, CommitFails, ReadSha, ReadShaFails
  <2>5. ASSUME NEW a \in Appliers, Restore(a) \/ Finish(a) PROVE Fresh'
    BY <2>5 DEF Restore, Checkout, Pop, PopAgain, Finish, Discard, Receipt, Refresh
  <2>6. ASSUME NEW a \in Appliers, Late(a) PROVE Fresh'
    <3>1. CASE Return(a)
      <4>1. \A b \in Appliers : b # a /\ flock' # b => flock # b
        BY <3>1 DEF Return
      <4>2. QED
        BY <3>1, <4>1 DEF Return
    <3>2. CASE Crash(a)
      <4>1. \A b \in Appliers : b # a /\ flock' # b => flock # b
        BY <3>2 DEF Crash
      <4>2. QED
        BY <3>2, <4>1 DEF Crash
    <3>3. QED
      BY <2>6, <3>1, <3>2 DEF Late
  <2>7. ASSUME Elsewhere \/ UNCHANGED vars PROVE Fresh'
    BY <2>7 DEF Elsewhere, EditorWrites, LintReports, LintLogs, ManualStage, ManualCommit,
       ReconcileReads, ReconcileWrites, vars
  <2>8. QED
    BY <2>1, <2>2, <2>3, <2>4, <2>5, <2>6, <2>7 DEF Next, Step, Early, Late
<1>3. QED
  BY <1>1, <1>2, ApplyInvariant, PTL DEF Spec

\* Who has the lock has just got it, makes a step of its own, or sees nothing move.
LEMMA OwnerAlone ==
    ASSUME ApplyInv, ~EditDuring, [Next]_vars, NEW a \in Appliers, flock' = a
    PROVE  \/ Enter(a)
           \/ pc'[a] \in {"idle", "called"}
           \/ flock = a /\ Works(a)
           \/ flock = a /\ Stands(a)
<1> USE ApplyAssumption DEF ApplyInv, TypeOK, CallType, Locked, UnderLock, Steps
<1>1. CASE UNCHANGED vars
  BY <1>1 DEF vars, repo, derived, locals, ghosts, Stands
<1>2. CASE Elsewhere
  <2>1. Free /\ flock' = flock
    BY <1>2 DEF Elsewhere, EditorWrites, LintReports, LintLogs, ManualStage, ManualCommit,
       ReconcileReads, ReconcileWrites, MayAct, End
  <2>2. QED
    BY <2>1 DEF Free
<1>3. CASE Call(a) \/ Step(a) \/ Crash(a)
  <2>1. Call(a) => pc'[a] = "called"
    BY DEF Call, Goto
  <2>2. ~Return(a) /\ ~Crash(a)
    BY DEF Return, Crash
  <2>3. EnterFails(a) => pc'[a] = "idle"
    BY DEF EnterFails, Goto
  <2>4. Works(a) => flock = a
    BY DEF Works, Validate, Snapshot, SnapshotFails, ApplyOperations, Write, SkipDelete, WriteRefused, WriteFails,
       Row, AppendLog, AtomicCommit, Stage, StageFails, Commit, NothingToCommit, CommitFails, ReadSha, ReadShaFails,
       Restore, Checkout, Pop, PopAgain, Finish, Discard, Receipt, Refresh, Goto, RollBack
  <2>5. QED
    BY <1>3, <2>1, <2>2, <2>3, <2>4 DEF Step, Works
<1>4. ASSUME NEW b \in Appliers \ {a}, Call(b) \/ Step(b) \/ Crash(b)
      PROVE  flock = a /\ Stands(a)
  <2>1. CASE Works(b)
    <3>1. flock = b /\ flock' = flock
      BY <2>1 DEF Works, Validate, Snapshot, SnapshotFails, ApplyOperations, Write, SkipDelete, WriteRefused, WriteFails,
         Row, AppendLog, AtomicCommit, Stage, StageFails, Commit, NothingToCommit, CommitFails, ReadSha, ReadShaFails,
         Restore, Checkout, Pop, PopAgain, Finish, Discard, Receipt, Refresh, Goto, RollBack
    <3>2. QED
      BY <3>1
  <2>2. CASE Call(b)
    BY <2>2 DEF Call, Goto, repo, derived, ghosts, Stands
  <2>3. CASE Enter(b) \/ EnterFails(b)
    BY <2>3 DEF Enter, EnterFails, Goto, Say, repo, derived, locals, ghosts, Stands
  <2>4. CASE Return(b)
    BY <2>4 DEF Return, Goto, repo, derived, ghosts, Stands
  <2>5. CASE Crash(b)
    BY <2>5 DEF Crash, repo, derived, locals, ghosts, Stands
  <2>6. QED
    BY <1>4, <2>1, <2>2, <2>3, <2>4, <2>5 DEF Step, Works
<1>5. QED
  BY <1>1, <1>2, <1>3, <1>4 DEF Next

\* A plan meets no page twice, and its effect on a page is that of the one
\* operation on it.
LEMMA OneOperation ==
    ASSUME NEW p \in Plans, NEW i \in DOMAIN p, NEW j \in DOMAIN p, p[i].page = p[j].page PROVE i = j
BY PlanAssumption

LEMMA OperationType == ASSUME NEW p \in Plans, NEW i \in DOMAIN p PROVE p[i] \in Operations
<1>1. p \in Seq(Operations)
  BY PlanAssumption
<1>2. QED
  BY <1>1

LEMMA LogContent == ASSUME NEW t \in Trees, NEW p \in Plans PROVE Text(t[Log]) \o LogLines(p) # Absent
<1>1. Log \in Files /\ t[Log] \in Contents
  BY DEF Files, Trees
<1>2. Text(t[Log]) \in Seq(Pieces)
  BY <1>1, TextType
<1>3. ASSUME NEW op \in Operations PROVE Entry(op) \in Pieces
  BY <1>3 DEF Operations, Entry, Pieces
<1>4. p \in Seq(Operations)
  BY PlanAssumption
<1>5. LogLines(p) \in Seq(Pieces)
  BY <1>3, <1>4 DEF LogLines
<1>6. Text(t[Log]) \o LogLines(p) \in Seq(Pieces)
  BY <1>2, <1>5
<1>7. QED
  BY <1>6, AbsentAssumption

LEMMA EffectIs ==
    ASSUME NEW t \in Trees, NEW p \in Plans, NEW u \in Trees, \A i \in DOMAIN p : p[i].page # Log,
           \A i \in DOMAIN p : u[p[i].page] = Written(p[i], t[p[i].page]),
           \A f \in Files : (\A i \in DOMAIN p : p[i].page # f) => u[f] = t[f]
    PROVE  Effect(t, p) = Logged(u, p)
<1> DEFINE E == [f \in Files |-> IF f \in Targets(p)
                                   THEN Written(p[CHOOSE i \in DOMAIN p : p[i].page = f], t[f])
                                   ELSE t[f]]
<1>1. ASSUME NEW f \in Files PROVE E[f] = u[f]
  <2>1. CASE f \in Targets(p)
    <3>1. PICK i \in DOMAIN p : p[i].page = f
      BY <2>1 DEF Targets
    <3>2. (CHOOSE j \in DOMAIN p : p[j].page = f) = i
      <4>1. \A j \in DOMAIN p : p[j].page = f => j = i
        BY <3>1, OneOperation
      <4>2. QED
        BY <3>1, <4>1
    <3>3. E[f] = Written(p[i], t[f])
      BY <2>1, <3>2
    <3>4. QED
      BY <3>1, <3>3
  <2>2. CASE f \notin Targets(p)
    BY <2>2 DEF Targets
  <2>3. QED
    BY <2>1, <2>2
<1>2. u = [f \in Files |-> u[f]]
  BY DEF Trees
<1>3. E = u
  BY <1>1, <1>2
<1>4. Effect(t, p) = Logged(E, p)
  BY DEF Effect
<1> HIDE DEF E
<1>5. QED
  BY <1>3, <1>4

LEMMA EffectAt ==
    ASSUME NEW t \in Trees, NEW p \in Plans, \A i \in DOMAIN p : p[i].page # Log
    PROVE  /\ \A f \in Files : f # Log /\ (\A i \in DOMAIN p : p[i].page # f) => Effect(t, p)[f] = t[f]
           /\ \A i \in DOMAIN p : Effect(t, p)[p[i].page] = Written(p[i], t[p[i].page])
           /\ Effect(t, p)[Log] # Absent
<1> DEFINE E == [f \in Files |-> IF f \in Targets(p)
                                   THEN Written(p[CHOOSE i \in DOMAIN p : p[i].page = f], t[f])
                                   ELSE t[f]]
<1>1. Effect(t, p) = [E EXCEPT ![Log] = Text(E[Log]) \o LogLines(p)]
  BY DEF Effect, Logged
<1>2. Log \in Files /\ E[Log] = t[Log]
  BY DEF Files, Targets
<1>3. Effect(t, p)[Log] = Text(t[Log]) \o LogLines(p)
  BY <1>1, <1>2
<1>4. \A f \in Files : f # Log => Effect(t, p)[f] = E[f]
  BY <1>1
<1>5. ASSUME NEW i \in DOMAIN p PROVE p[i].page \in Files /\ E[p[i].page] = Written(p[i], t[p[i].page])
  <2>1. p[i].page \in Files
    BY OperationType DEF Operations, Files
  <2>2. (CHOOSE j \in DOMAIN p : p[j].page = p[i].page) = i
    BY OneOperation
  <2>3. p[i].page \in Targets(p)
    BY DEF Targets
  <2>4. QED
    BY <2>1, <2>2, <2>3
<1>6. \A f \in Files : (\A i \in DOMAIN p : p[i].page # f) => E[f] = t[f]
  BY DEF Targets
<1> HIDE DEF E
<1>7. QED
  BY <1>3, <1>4, <1>5, <1>6, LogContent

LEMMA WorkStep ==
    ASSUME ApplyInv, Fresh, ~EditDuring, [Next]_vars, \A a \in Appliers : flock = a => WorkInv(a),
           NEW a \in Appliers, flock' = a
    PROVE  WorkInv(a)'
<1> USE DEF WorkInv, Goto, RollBack
<1>0. /\ pc \in [Appliers -> Steps] /\ next \in [Appliers -> Nat \ {0}] /\ next[a] \in Nat \ {0}
      /\ changed \in [Appliers -> SUBSET (Pages \cup {Index, Log})] /\ stashed \in [Appliers -> BOOLEAN]
      /\ head \in Trees /\ index \in Indexes /\ tree \in Trees /\ stash \in Seq(Entries)
      /\ plan[a] \in Plans \cup {<<>>}
  BY DEF ApplyInv, TypeOK, CallType, RepoType
<1>l. \A i \in DOMAIN plan[a] : i \in 1 .. Len(plan[a])
  <2>1. plan[a] \in Seq(Operations)
    BY <1>0, PlanType
  <2>2. QED
    BY <2>1
<1>1. CASE Enter(a) \/ pc'[a] \in {"idle", "called"}
  <2>1. CASE Enter(a)
    <3>1. pc'[a] \in {"validate", "release"} /\ (pc'[a] = "validate" => before' = Now) /\ UNCHANGED repo
      BY <1>0, <2>1 DEF Enter
    <3>2. QED
      BY <3>1 DEF Now, repo
  <2>2. CASE pc'[a] \in {"idle", "called"}
    BY <2>2
  <2>3. QED
    BY <1>1, <2>1, <2>2
<1>2. CASE flock = a /\ Stands(a)
  <2>1. WorkInv(a)
    BY <1>2
  <2>2. Done(a)' = Done(a)
    BY <1>2 DEF Stands, Done
  <2>3. /\ pc[a] \in {"validate", "snapshot"} => (head = before.head /\ tree = before.tree)'
        /\ pc[a] \in {"snapshot", "write", "row", "stage", "commit"} => plan'[a] \in Plans
        /\ pc[a] \in {"stage", "commit"} => next'[a] > Len(plan'[a])
        /\ pc[a] = "stage" => (tree = Effect(head, plan[a]))'
        /\ pc[a] = "commit" => (index = Effect(head, plan[a]))'
    BY <1>2, <2>1 DEF Stands
  <2>4. Saved(a) => Saved(a)'
    BY <1>2 DEF Stands, Saved
  <2>5. Checked(a) => Checked(a)'
    BY <1>2, <2>2 DEF Stands, Checked
  <2>6. Marked(a) => Marked(a)'
    BY <1>2 DEF Stands, Marked
  <2>7. Permitted(a) => Permitted(a)'
    BY <1>2, <2>2 DEF Stands, Permitted
  <2>8. TreeSoFar(a) => TreeSoFar(a)'
    BY <1>2, <2>2 DEF Stands, TreeSoFar
  <2>9. head' = head /\ index' = index /\ before' = before /\ pc'[a] = pc[a]
    BY <1>2 DEF Stands
  <2>10. QED
    BY <2>1, <2>3, <2>4, <2>5, <2>6, <2>7, <2>8, <2>9
<1>3. CASE flock = a /\ Validate(a)
  <2>1. WorkInv(a) /\ UNCHANGED <<head, tree, before, plan>> /\ pc[a] = "validate"
    BY <1>3 DEF Validate, repo, locals, ghosts
  <2>2. \/ pc'[a] = "snapshot" /\ plan[a] # <<>>
        \/ pc'[a] = "release"
    BY <1>0, <1>3 DEF Validate
  <2>3. QED
    BY <1>0, <2>1, <2>2
<1>4. CASE flock = a /\ Snapshot(a)
  <2>1. /\ pc[a] = "snapshot" /\ head = before.head /\ tree = before.tree /\ next[a] = 1
        /\ plan[a] \in Plans
    BY <1>4 DEF Snapshot, Fresh
  <2>2. /\ pc'[a] = "write" /\ UNCHANGED <<head, plan, next, changed, before>>
        /\ tree' = head /\ index' = head /\ stashed'[a] = ~Clean
        /\ stash' = IF Clean THEN stash ELSE <<[base |-> head, work |-> tree]>> \o stash
    BY <1>0, <1>4 DEF Snapshot
  <2>3. Done(a)' = {}
    BY <1>l, <2>1, <2>2 DEF Done
  <2>4. Saved(a)'
    <3>1. CASE Clean
      BY <2>1, <2>2, <3>1 DEF Saved, Clean
    <3>2. CASE ~Clean
      <4>1. [base |-> head, work |-> tree] \in Entries
        BY <1>0 DEF Entries
      <4>2. \A e \in Entries : <<e>> \o stash # <<>> /\ Head(<<e>> \o stash) = e
        BY <1>0
      <4>3. stash' # <<>> /\ Head(stash') = [base |-> head, work |-> tree]
        BY <2>2, <3>2, <4>1, <4>2
      <4>4. QED
        BY <2>1, <2>2, <3>2, <4>3 DEF Saved
    <3>3. QED
      BY <3>1, <3>2
  <2>5. (Checked(a) /\ Permitted(a) /\ TreeSoFar(a))'
    BY <2>2, <2>3 DEF Checked, Permitted, TreeSoFar
  <2>6. Marked(a)'
    BY <2>2 DEF Marked
  <2>7. QED
    BY <2>1, <2>2, <2>4, <2>5, <2>6
<1>5. CASE flock = a /\ (SnapshotFails(a) \/ WriteRefused(a) \/ WriteFails(a))
  BY <1>0, <1>5 DEF SnapshotFails, WriteRefused, WriteFails
<1>6. CASE flock = a /\ Finish(a)
  BY <1>0, <1>6 DEF Finish, Discard, Receipt, Refresh
<1>7. CASE flock = a /\ Restore(a)
  BY <1>0, <1>7 DEF Restore, Checkout, Pop, PopAgain
<1>8. CASE flock = a /\ (\/ StageFails(a) \/ Commit(a) \/ NothingToCommit(a) \/ CommitFails(a)
                         \/ ReadSha(a) \/ ReadShaFails(a))
  BY <1>0, <1>8 DEF StageFails, Commit, NothingToCommit, CommitFails, ReadSha, ReadShaFails
<1>9. CASE flock = a /\ Write(a)
  <2> DEFINE k == next[a]
             op == plan[a][k]
  <2>1. /\ WorkInv(a) /\ pc[a] = "write" /\ k \in DOMAIN plan[a] /\ plan[a] \in Plans
        /\ ~SystemFile(op) /\ ~HashMismatch(a, op) /\ tree' = Do(tree, op)
    BY <1>0, <1>9, PlanType DEF Write, Op
  <2>2. UNCHANGED <<head, index, stash, before, plan, expected, next, changed, stashed>> /\ pc'[a] = "row"
    BY <1>0, <1>9 DEF Write, locals, ghosts
  <2>3. op \in Operations /\ op.page \in Files
    <3>1. op \in Operations
      BY <2>1, OperationType
    <3>2. QED
      BY <3>1 DEF Operations, Files
  <2>4. Done(a)' = Done(a) \cup {k} /\ k \notin Done(a) /\ Done(a) \subseteq DOMAIN plan[a]
    BY <1>0, <2>1, <2>2 DEF Done
  <2>5. \A i \in Done(a) : plan[a][i].page # op.page
    BY <2>1, <2>4, OneOperation
  <2>6. tree[op.page] = head[op.page]
    BY <2>1, <2>3, <2>5 DEF TreeSoFar
  <2>7. /\ tree'[op.page] = Written(op, head[op.page])
        /\ \A f \in Files : f # op.page => tree'[f] = tree[f]
    BY <1>0, <2>1, <2>3, <2>6 DEF Do, Trees
  <2>8. \A i \in DOMAIN plan[a] : plan[a][i].page \in Files
    <3>1. \A i \in DOMAIN plan[a] : plan[a][i] \in Operations
      BY <2>1, OperationType
    <3>2. QED
      BY <3>1 DEF Operations, Files
  <2>t. TreeSoFar(a)'
    <3>1. ASSUME NEW i \in Done(a)' PROVE tree'[plan[a][i].page] = Written(plan[a][i], head[plan[a][i].page])
      <4>1. CASE i = k
        BY <2>7, <4>1
      <4>2. CASE i \in Done(a)
        BY <2>1, <2>4, <2>5, <2>7, <2>8, <4>2 DEF TreeSoFar
      <4>3. QED
        BY <2>4, <4>1, <4>2
    <3>2. ASSUME NEW f \in Files, \A i \in Done(a)' : plan[a][i].page # f PROVE tree'[f] = head[f]
      BY <2>1, <2>4, <2>7, <3>2 DEF TreeSoFar
    <3>3. QED
      BY <2>2, <3>1, <3>2 DEF TreeSoFar
  <2>c. Checked(a)'
    <3>1. Versioned(op) => head[op.page] = expected[a][op.page]
      BY <2>1, <2>6 DEF HashMismatch
    <3>2. QED
      BY <2>1, <2>2, <2>4, <3>1 DEF Checked
  <2>p. Permitted(a)'
    BY <2>1, <2>2, <2>4 DEF Permitted
  <2>m. Marked(a)'
    <3>1. ASSUME NEW i \in DOMAIN plan[a], i < k
          PROVE  plan[a][i].page \in changed[a] \/ tree'[plan[a][i].page] = head[plan[a][i].page]
      <4>1. i \in Done(a)
        BY <3>1 DEF Done
      <4>2. QED
        BY <2>1, <2>5, <2>7, <2>8, <3>1, <4>1 DEF Marked
    <3>2. QED
      BY <2>2, <3>1 DEF Marked
  <2>s. Saved(a)'
    BY <2>1, <2>2 DEF Saved
  <2> HIDE DEF k, op
  <2>q. QED
    BY <2>1, <2>2, <2>t, <2>c, <2>p, <2>m, <2>s
<1>10. CASE flock = a /\ SkipDelete(a)
  <2> DEFINE k == next[a]
             op == plan[a][k]
  <2>1. /\ WorkInv(a) /\ pc[a] = "write" /\ k \in DOMAIN plan[a] /\ plan[a] \in Plans
        /\ ~SystemFile(op) /\ op.kind = "delete" /\ tree[op.page] = Absent
    BY <1>0, <1>10, PlanType DEF SkipDelete, Op, Skipped
  <2>2. /\ UNCHANGED <<head, index, tree, stash, before, plan, expected, changed, stashed>>
        /\ pc'[a] = "write" /\ next'[a] = k + 1
    BY <1>0, <1>10 DEF SkipDelete, repo, ghosts
  <2>3. op \in Operations /\ op.page \in Files
    <3>1. op \in Operations
      BY <2>1, OperationType
    <3>2. QED
      BY <3>1 DEF Operations, Files
  <2>4. /\ Done(a)' = Done(a) \cup {k} /\ k \notin Done(a) /\ Done(a) \subseteq DOMAIN plan[a]
        /\ \A i \in DOMAIN plan[a] : i < k + 1 => i = k \/ i < k
    BY <1>0, <1>l, <2>1, <2>2 DEF Done
  <2>5. tree[op.page] = head[op.page] /\ Written(op, head[op.page]) = Absent
    <3>1. \A i \in Done(a) : plan[a][i].page # op.page
      BY <2>1, <2>4, OneOperation
    <3>2. QED
      BY <2>1, <2>3, <3>1 DEF TreeSoFar, Written
  <2>t. TreeSoFar(a)'
    BY <2>1, <2>2, <2>4, <2>5 DEF TreeSoFar
  <2>c. Checked(a)'
    BY <2>1, <2>2, <2>4 DEF Checked, Versioned
  <2>p. Permitted(a)'
    BY <2>1, <2>2, <2>4 DEF Permitted
  <2>m. Marked(a)'
    BY <2>1, <2>2, <2>4, <2>5 DEF Marked
  <2>s. Saved(a)'
    BY <2>1, <2>2 DEF Saved
  <2> HIDE DEF k, op
  <2>q. QED
    BY <2>1, <2>2, <2>t, <2>c, <2>p, <2>m, <2>s
<1>11. CASE flock = a /\ Row(a)
  <2> DEFINE k == next[a]
             op == plan[a][k]
  <2>1. WorkInv(a) /\ pc[a] = "row" /\ k \in DOMAIN plan[a] /\ plan[a] \in Plans
    BY <1>0, <1>11 DEF Row, ApplyInv, OperationInHand
  <2>2. /\ UNCHANGED <<head, index, tree, stash, before, plan, expected, stashed>>
        /\ pc'[a] = "write" /\ next'[a] = k + 1 /\ changed'[a] = changed[a] \cup {op.page}
    BY <1>0, <1>11 DEF Row, Op, repo, ghosts
  <2>3. /\ Done(a)' = Done(a)
        /\ \A i \in DOMAIN plan[a] : i < k + 1 => i = k \/ i < k
    BY <1>0, <1>l, <2>1, <2>2 DEF Done
  <2>t. (TreeSoFar(a) /\ Checked(a) /\ Permitted(a))'
    BY <2>1, <2>2, <2>3 DEF TreeSoFar, Checked, Permitted
  <2>m. Marked(a)'
    BY <2>1, <2>2, <2>3 DEF Marked
  <2>s. Saved(a)'
    BY <2>1, <2>2 DEF Saved
  <2> HIDE DEF k, op
  <2>q. QED
    BY <2>1, <2>2, <2>t, <2>m, <2>s
<1>12. CASE flock = a /\ AppendLog(a)
  <2>1. /\ WorkInv(a) /\ pc[a] = "write" /\ next[a] > Len(plan[a]) /\ plan[a] \in Plans
        /\ tree' = Logged(tree, plan[a])
    BY <1>12 DEF AppendLog
  <2>2. UNCHANGED <<head, index, stash, before, plan, expected, next, changed, stashed>> /\ pc'[a] = "stage"
    BY <1>0, <1>12 DEF AppendLog, locals, ghosts
  <2>3. Done(a) = DOMAIN plan[a] /\ Done(a)' = DOMAIN plan[a]
    BY <1>0, <1>l, <2>1, <2>2 DEF Done
  <2>4. \A i \in DOMAIN plan[a] : plan[a][i].page \in Files \ {Log}
    <3>1. \A i \in DOMAIN plan[a] : plan[a][i] \in Operations /\ ~SystemFile(plan[a][i])
      BY <2>1, <2>3, OperationType DEF Permitted
    <3>2. QED
      BY <3>1 DEF Operations, Files, SystemFile
  <2>5. Effect(head, plan[a]) = Logged(tree, plan[a])
    <3>1. \A i \in DOMAIN plan[a] : tree[plan[a][i].page] = Written(plan[a][i], head[plan[a][i].page])
      BY <2>1, <2>3 DEF TreeSoFar
    <3>2. \A f \in Files : (\A i \in DOMAIN plan[a] : plan[a][i].page # f) => tree[f] = head[f]
      BY <2>1, <2>3 DEF TreeSoFar
    <3>3. plan[a] \in Plans /\ head \in Trees /\ tree \in Trees /\ \A i \in DOMAIN plan[a] : plan[a][i].page # Log
      BY <1>0, <2>1, <2>4
    <3>4. QED
      BY <3>1, <3>2, <3>3, EffectIs
  <2>6. \A f \in Files : f # Log => tree'[f] = tree[f]
    BY <1>0, <2>1 DEF Logged, Trees
  <2>c. (Checked(a) /\ Permitted(a))'
    BY <2>1, <2>2, <2>3 DEF Checked, Permitted
  <2>m. Marked(a)'
    BY <2>1, <2>2, <2>4, <2>6 DEF Marked
  <2>s. Saved(a)'
    BY <2>1, <2>2 DEF Saved
  <2>q. QED
    BY <2>1, <2>2, <2>5, <2>c, <2>m, <2>s
<1>13. CASE flock = a /\ Stage(a)
  <2>1. /\ WorkInv(a) /\ pc[a] = "stage" /\ next[a] > Len(plan[a]) /\ plan[a] \in Plans
        /\ tree = Effect(head, plan[a]) /\ index = head
        /\ index' = [f \in Files |-> IF f \in CommitFiles(a) THEN tree[f] ELSE index[f]]
    BY <1>13 DEF Stage
  <2>2. UNCHANGED <<head, tree, stash, before, plan, expected, next, changed, stashed>> /\ pc'[a] = "commit"
    BY <1>0, <1>13 DEF Stage, locals, ghosts
  <2>3. Done(a) = DOMAIN plan[a] /\ Done(a)' = DOMAIN plan[a]
    BY <1>0, <1>l, <2>1, <2>2 DEF Done
  <2>4. \A i \in DOMAIN plan[a] : plan[a][i] \in Operations /\ ~SystemFile(plan[a][i]) /\ i < next[a]
    BY <1>0, <1>l, <2>1, <2>3, OperationType, PlanType DEF Permitted
  <2>5. \A i \in DOMAIN plan[a] : plan[a][i].page # Log
    BY <2>4 DEF SystemFile
  <2>6. ASSUME NEW f \in Files, f \notin CommitFiles(a) PROVE tree[f] = head[f]
    <3>1. f # Log
      <4>1. tree[Log] # Absent
        BY <1>0, <2>1, <2>5, EffectAt
      <4>2. Log \in CommitFiles(a)
        BY <4>1, PlanAssumption DEF CommitFiles
      <4>3. QED
        BY <2>6, <4>2
    <3>2. CASE \A i \in DOMAIN plan[a] : plan[a][i].page # f
      BY <1>0, <2>1, <2>5, <3>1, <3>2, EffectAt
    <3>3. ASSUME NEW i \in DOMAIN plan[a], plan[a][i].page = f PROVE tree[f] = head[f]
      <4>1. CASE f = Index
        <5>1. plan[a][i].kind = "update"
          BY <2>4, <3>3, <4>1 DEF SystemFile
        <5>2. tree[f] = Written(plan[a][i], head[f])
          BY <1>0, <2>1, <2>5, <3>3, EffectAt
        <5>3. tree[f] = <<plan[a][i].body>>
          BY <5>1, <5>2 DEF Written
        <5>4. <<plan[a][i].body>> \in Seq(Pieces)
          <6>1. plan[a][i].body \in Pieces
            BY <2>4 DEF Operations, Pieces
          <6>2. QED
            BY <6>1
        <5>5. tree[f] # Absent
          BY <5>3, <5>4, AbsentAssumption
        <5>6. QED
          BY <2>6, <4>1, <5>5 DEF CommitFiles
      <4>2. CASE f # Index
        <5>1. f \notin changed[a]
          BY <2>6, <3>1, <4>2 DEF CommitFiles
        <5>2. QED
          BY <2>1, <2>4, <3>3, <5>1 DEF Marked
      <4>3. QED
        BY <4>1, <4>2
    <3>4. QED
      BY <3>2, <3>3
  <2>7. index' = tree
    <3>1. \A f \in Files : index'[f] = tree[f]
      BY <2>1, <2>6
    <3>2. QED
      BY <1>0, <2>1, <3>1 DEF Trees
  <2>c. Checked(a)'
    BY <2>1, <2>2, <2>3 DEF Checked
  <2>s. Saved(a)'
    BY <2>1, <2>2 DEF Saved
  <2>q. QED
    BY <2>1, <2>2, <2>7, <2>c, <2>s
<1>14. QED
  BY <1>1, <1>2, <1>3, <1>4, <1>5, <1>6, <1>7, <1>8, <1>9, <1>10, <1>11, <1>12, <1>13, OwnerAlone
     DEF Works, ApplyOperations, AtomicCommit

\* What the call in hand has done, at every step of every call.
LEMMA WorkInvariant ==
    ASSUME ~EditDuring PROVE Spec => [](\A a \in Appliers : flock = a => WorkInv(a))
<1> DEFINE W == \A a \in Appliers : flock = a => WorkInv(a)
<1>1. Init => W
  BY ApplyAssumption DEF Init
<1>2. ApplyInv /\ Fresh /\ W /\ [Next]_vars => W'
  BY WorkStep
<1> HIDE DEF W
<1>3. Spec => []W
  BY <1>1, <1>2, ApplyInvariant, FreshInvariant, PTL DEF Spec
<1>4. QED
  BY <1>3 DEF W

\* An update or an append is committed only over the content its author read:
\* the hash is compared under the lock, and what is compared is what is committed.
THEOREM AuthorsAreNotOverwritten == ASSUME ~EditDuring PROVE Spec => NoLostUpdate
<1> DEFINE W == \A a \in Appliers : flock = a => WorkInv(a)
<1>1. Spec => []W
  BY WorkInvariant
<1>2. ASSUME ApplyInv, W, NEW a \in Appliers, pc[a] = "commit", NEW i \in DOMAIN plan[a], Versioned(plan[a][i])
      PROVE  head[plan[a][i].page] = expected[a][plan[a][i].page]
  <2>1. flock = a
    BY <1>2 DEF ApplyInv, Locked, UnderLock, Steps
  <2>2. Checked(a) /\ next[a] > Len(plan[a]) /\ plan[a] \in Plans
    BY <1>2, <2>1 DEF WorkInv
  <2>3. i < next[a]
    <3>1. plan[a] \in Seq(Operations) /\ next[a] \in Nat
      BY <2>2, PlanType, <1>2 DEF ApplyInv, TypeOK, CallType
    <3>2. QED
      BY <1>2, <2>2, <3>1
  <2>4. QED
    BY <1>2, <2>2, <2>3 DEF Checked, Done
<1>3. ApplyInv /\ W =>
        (\A a \in Appliers : pc[a] = "commit" /\ pc'[a] = "sha" =>
            \A i \in DOMAIN plan[a] : LET op == plan[a][i] IN
               Versioned(op) => head[op.page] = expected[a][op.page])
  BY <1>2
<1> HIDE DEF W
<1>4. QED
  BY <1>1, <1>3, ApplyInvariant, PTL DEF NoLostUpdate

-----------------------------------------------------------------------------
(* The way back from a failure *)

\* A pop over the very commit its entry was taken from puts every file back.
LEMMA PopRestores ==
    ASSUME NEW entry \in Entries, tree = entry.base
    PROVE  Clashes(entry) = {} /\ Popped(entry) = entry.work
<1>1. Clashes(entry) = {}
  BY DEF Clashes
<1>2. entry.work = [f \in Files |-> entry.work[f]]
  BY DEF Entries, Trees
<1>3. \A f \in Files : (IF entry.work[f] # entry.base[f] THEN entry.work[f] ELSE tree[f]) = entry.work[f]
  OBVIOUS
<1>4. QED
  BY <1>1, <1>2, <1>3 DEF Popped

LEMMA RestoreStep ==
    ASSUME ApplyInv, Fresh, ~EditDuring, "sha" \notin Faults, [Next]_vars,
           \A a \in Appliers : flock = a => WorkInv(a) /\ RestoreInv(a), NEW a \in Appliers, flock' = a
    PROVE  RestoreInv(a)'
<1> USE DEF RestoreInv, Goto, RollBack
<1>0. /\ pc \in [Appliers -> Steps] /\ verdict \in [Appliers -> Verdicts]
      /\ head \in Trees /\ index \in Indexes /\ tree \in Trees /\ stash \in Seq(Entries)
  BY DEF ApplyInv, TypeOK, CallType, RepoType
<1>1. CASE Enter(a) \/ pc'[a] \in {"idle", "called"}
  BY <1>0, <1>1 DEF Enter, Say
<1>2. CASE flock = a /\ Stands(a)
  <2>1. RestoreInv(a)
    BY <1>2
  <2>2. Saved(a) => Saved(a)'
    BY <1>2 DEF Stands, Saved
  <2>3. QED
    BY <1>2, <2>1, <2>2 DEF Stands
<1>3. CASE flock = a /\ (Validate(a) \/ SnapshotFails(a))
  <2>1. /\ pc[a] \in {"validate", "snapshot"} /\ pc'[a] \notin {"checkout", "pop"}
        /\ UNCHANGED <<head, tree, before>>
    BY <1>0, <1>3 DEF Validate, SnapshotFails, repo, ghosts
  <2>2. head = before.head /\ tree = before.tree
    BY <1>3, <2>1 DEF WorkInv
  <2>3. QED
    BY <2>1, <2>2
<1>4. CASE flock = a /\ Snapshot(a)
  BY <1>0, <1>4 DEF Snapshot
<1>5. CASE flock = a /\ (WriteRefused(a) \/ WriteFails(a))
  <2>1. /\ pc[a] = "write" /\ pc'[a] = "checkout" /\ UNCHANGED <<head, index, stash, stashed, before>>
        /\ verdict'[a] # "unrestored"
    BY <1>0, <1>5 DEF WriteRefused, WriteFails, Say, repo, locals, ghosts
  <2>2. head = before.head /\ index = head /\ Saved(a)
    BY <1>5, <2>1 DEF WorkInv
  <2>3. QED
    BY <2>1, <2>2 DEF Saved
<1>6. CASE flock = a /\ (Write(a) \/ SkipDelete(a) \/ Row(a) \/ AppendLog(a))
  BY <1>0, <1>6 DEF Write, SkipDelete, Row, AppendLog
<1>7. CASE flock = a /\ (StageFails(a) \/ NothingToCommit(a) \/ CommitFails(a))
  <2>1. /\ pc[a] \in {"stage", "commit"} /\ pc'[a] = "checkout"
        /\ UNCHANGED <<head, stash, stashed, before>> /\ index' = head /\ verdict'[a] # "unrestored"
    BY <1>0, <1>7 DEF StageFails, NothingToCommit, CommitFails, Say, repo, locals, ghosts
  <2>2. head = before.head /\ Saved(a)
    BY <1>7, <2>1 DEF WorkInv
  <2>3. QED
    BY <2>1, <2>2 DEF Saved
<1>8. CASE flock = a /\ (Stage(a) \/ Commit(a) \/ ReadSha(a) \/ ReadShaFails(a))
  BY <1>0, <1>8 DEF Stage, Commit, ReadSha, ReadShaFails
<1>m. index = head => ~Conflicting
  BY <1>0, ApplyAssumption DEF Trees, Conflicting
<1>9. CASE flock = a /\ Checkout(a)
  <2>1. /\ pc[a] = "checkout" /\ pc'[a] = "pop"
        /\ UNCHANGED <<head, index, stash, stashed, before, verdict>>
    BY <1>0, <1>9 DEF Checkout, locals, ghosts
  <2>2. head = before.head /\ index = head /\ Saved(a) /\ verdict[a] # "unrestored"
    BY <1>9, <2>1
  <2>3. tree' = index
    <3>1. tree' = [f \in Files |-> index[f]]
      BY <1>9, <1>m, <2>2 DEF Checkout
    <3>2. QED
      BY <1>0, <2>2, <3>1 DEF Trees
  <2>4. QED
    BY <2>1, <2>2, <2>3 DEF Saved
<1>10. CASE flock = a /\ Pop(a)
  <2>1. /\ pc[a] = "pop" /\ head' = head /\ before' = before
        /\ head = before.head /\ index = head /\ tree = head /\ Saved(a)
    BY <1>0, <1>10 DEF Pop
  <2>2. CASE ~stashed[a]
    BY <1>0, <1>10, <2>1, <2>2 DEF Pop, Saved
  <2>3. CASE stashed[a]
    <3> DEFINE entry == Head(stash)
    <3>1. stash # <<>> /\ entry \in Entries /\ entry = [base |-> before.head, work |-> before.tree]
      BY <1>0, <2>1, <2>3 DEF Saved
    <3>2. entry.base = tree /\ entry.work = before.tree
      BY <2>1, <3>1
    <3>3. Clashes(entry) = {} /\ Popped(entry) = before.tree
      BY <3>1, <3>2, PopRestores
    <3>4. ~PopFails
      BY <1>m, <2>1, <3>1, <3>3 DEF PopFails
    <3>5. tree' = Popped(entry) /\ pc'[a] = "release"
      BY <1>0, <1>m, <1>10, <2>1, <2>3, <3>1, <3>4 DEF Pop, PopsOrDrops
    <3> HIDE DEF entry
    <3>6. QED
      BY <2>1, <3>3, <3>5
  <2>4. QED
    BY <2>2, <2>3
<1>a. CASE flock = a /\ PopAgain(a)
  BY <1>a DEF PopAgain
<1>11. CASE flock = a /\ Finish(a)
  BY <1>0, <1>11 DEF Finish, Discard, Receipt, Refresh, Say
<1>12. QED
  BY <1>1, <1>2, <1>3, <1>4, <1>5, <1>6, <1>7, <1>8, <1>9, <1>10, <1>a, <1>11, OwnerAlone
     DEF Works, ApplyOperations, AtomicCommit, Restore

\* A call that fails before its commit, or finds nothing to commit, returns with
\* the commit, the files and the stash list that it found.
THEOREM FailureRestores ==
    ASSUME ~EditDuring, "sha" \notin Faults PROVE Spec => []RestoredOnFailure
<1> DEFINE W == \A a \in Appliers : flock = a => WorkInv(a)
           R == \A a \in Appliers : flock = a => RestoreInv(a)
<1>1. Spec => []W
  BY WorkInvariant
<1>2. Init => R
  BY ApplyAssumption DEF Init
<1>3. ApplyInv /\ Fresh /\ W /\ R /\ [Next]_vars => R'
  BY RestoreStep
<1>4. ApplyInv /\ Fresh /\ R => RestoredOnFailure
  <2> SUFFICES ASSUME ApplyInv, Fresh, R, NEW a \in Appliers,
                      Returning(a, {"invalid", "conflict", "failed", "empty"})
               PROVE  head = before.head /\ tree = before.tree /\ stash = before.stash
    BY DEF RestoredOnFailure
  <2>1. pc[a] = "release" /\ verdict[a] \in {"invalid", "conflict", "failed", "empty"}
    BY DEF Returning
  <2>2. flock = a
    BY <2>1 DEF Fresh
  <2>3. head = before.head /\ tree = before.tree
    BY <2>1, <2>2 DEF RestoreInv
  <2>4. stash = before.stash
    BY <2>1, <2>2 DEF ApplyInv, OwnEntryOnTop, WithSnapshot, UnderLock, Steps
  <2>5. QED
    BY <2>3, <2>4
<1> HIDE DEF W, R
<1>5. QED
  BY <1>1, <1>2, <1>3, <1>4, ApplyInvariant, FreshInvariant, PTL DEF Spec

-----------------------------------------------------------------------------
(* The catalog *)

LEMMA RowsStep ==
    ASSUME ApplyInv, Fresh, ~EditDuring, "catalog" \notin Faults, [Next]_vars,
           \A a \in Appliers : flock = a => WorkInv(a) /\ RowsInv(a), NEW a \in Appliers, flock' = a
    PROVE  RowsInv(a)'
<1> USE DEF Goto, RollBack
<1>0. /\ pc \in [Appliers -> Steps] /\ verdict \in [Appliers -> Verdicts] /\ next \in [Appliers -> Nat \ {0}]
      /\ next[a] \in Nat \ {0} /\ changed \in [Appliers -> SUBSET (Pages \cup {Index, Log})]
      /\ head \in Trees /\ index \in Indexes /\ tree \in Trees /\ catalog \in [Pages -> Contents]
      /\ plan[a] \in Plans \cup {<<>>}
  BY DEF ApplyInv, TypeOK, CallType, RepoType, DerivedType
<1>l. \A i \in DOMAIN plan[a] : i \in 1 .. Len(plan[a]) /\ plan[a][i] \in Operations
  <2>1. plan[a] \in Seq(Operations)
    BY <1>0, PlanType
  <2>2. QED
    BY <2>1
<1>p. \A i \in DOMAIN plan[a], j \in DOMAIN plan[a] : plan[a][i].page = plan[a][j].page => i = j
  <2>1. CASE plan[a] \in Plans
    BY <2>1, OneOperation
  <2>2. CASE plan[a] = <<>>
    BY <2>2
  <2>3. QED
    BY <1>0, <2>1, <2>2
<1>1. CASE Enter(a) \/ pc'[a] \in {"idle", "called"}
  BY <1>0, <1>1 DEF Enter, Say, RowsInv
<1>2. CASE flock = a /\ Stands(a)
  <2>1. RowsInv(a) /\ UNCHANGED <<head, index, tree, catalog, before>>
    BY <1>2 DEF Stands
  <2>2. /\ pc'[a] = pc[a] /\ plan'[a] = plan[a] /\ next'[a] = next[a] /\ changed'[a] = changed[a]
        /\ verdict'[a] = verdict[a]
    BY <1>2 DEF Stands
  <2>3. QED
    BY <2>1, <2>2 DEF RowsInv, Listed
<1>3. CASE flock = a /\ (Validate(a) \/ SnapshotFails(a))
  BY <1>0, <1>3 DEF Validate, SnapshotFails, Say, RowsInv
<1>4. CASE flock = a /\ Snapshot(a)
  <2>1. pc'[a] = "write" /\ UNCHANGED <<plan, next, verdict>> /\ next[a] = 1
    BY <1>0, <1>4 DEF Snapshot, Fresh
  <2>2. \A i \in DOMAIN plan'[a] : ~(i < next'[a])
    BY <1>l, <2>1
  <2>3. QED
    BY <2>1, <2>2 DEF RowsInv
<1>5. CASE flock = a /\ (WriteRefused(a) \/ WriteFails(a) \/ StageFails(a) \/ NothingToCommit(a)
                         \/ CommitFails(a) \/ ReadShaFails(a))
  BY <1>0, <1>5 DEF WriteRefused, WriteFails, StageFails, NothingToCommit, CommitFails, ReadShaFails, Say, RowsInv
<1>6. CASE flock = a /\ Write(a)
  <2> DEFINE k == next[a]
             op == plan[a][k]
  <2>1. /\ RowsInv(a) /\ pc[a] = "write" /\ pc'[a] = "row" /\ k \in DOMAIN plan[a] /\ tree' = Do(tree, op)
        /\ UNCHANGED <<plan, next, changed, catalog, before>>
    BY <1>0, <1>6, PlanType DEF Write, Op, locals, derived, ghosts
  <2>2. \A f \in Files : f # op.page => tree'[f] = tree[f]
    BY <1>0, <2>1 DEF Do, Trees
  <2>3. \A i \in DOMAIN plan[a] : i < k => plan[a][i].page # op.page
    BY <1>0, <1>l, <1>p, <2>1
  <2>4. \A i \in DOMAIN plan[a] : plan[a][i].page \in Files
    BY <1>l DEF Operations, Files
  <2> HIDE DEF k, op
  <2>5. QED
    BY <2>1, <2>2, <2>3, <2>4 DEF RowsInv, Listed, k
<1>7. CASE flock = a /\ SkipDelete(a)
  <2> DEFINE k == next[a]
             op == plan[a][k]
  <2>1. /\ WorkInv(a) /\ RowsInv(a) /\ pc[a] = "write" /\ pc'[a] = "write" /\ k \in DOMAIN plan[a]
        /\ next'[a] = k + 1 /\ op.kind = "delete" /\ tree[op.page] = Absent
        /\ UNCHANGED <<tree, plan, changed, catalog, before>>
    BY <1>0, <1>7, PlanType DEF SkipDelete, Op, Skipped, repo, derived, ghosts
  <2>2. \A i \in Done(a) : plan[a][i].page # op.page
    BY <1>0, <1>l, <1>p, <2>1 DEF Done
  <2>3. op.page \in Files /\ op \in Operations
    BY <1>l, <2>1 DEF Operations, Files
  <2>4. tree[op.page] = before.head[op.page]
    BY <2>1, <2>2, <2>3 DEF WorkInv, TreeSoFar
  <2>5. ~Listed(op)
    BY <2>1, <2>4 DEF Listed
  <2>6. \A i \in DOMAIN plan[a] : i < k + 1 => i = k \/ i < k
    BY <1>0, <1>l
  <2>7. \A i \in DOMAIN plan[a] : Listed(plan[a][i])' <=> Listed(plan[a][i])
    BY <2>1 DEF Listed
  <2> HIDE DEF k, op
  <2>8. QED
    BY <2>1, <2>5, <2>6, <2>7 DEF RowsInv, Listed, k, op
<1>8. CASE flock = a /\ Row(a)
  <2> DEFINE k == next[a]
             op == plan[a][k]
  <2>1. /\ RowsInv(a) /\ pc[a] = "row" /\ pc'[a] = "write" /\ k \in DOMAIN plan[a]
        /\ next'[a] = k + 1 /\ changed'[a] = changed[a] \cup {op.page}
        /\ catalog' = IF op.page \in Pages THEN [catalog EXCEPT ![op.page] = tree[op.page]] ELSE catalog
        /\ UNCHANGED <<tree, plan, before>>
    BY <1>0, <1>8 DEF Row, Op, ApplyInv, OperationInHand, repo, ghosts
  <2>2. \A i \in DOMAIN plan[a] : i < k + 1 => i = k \/ i < k
    BY <1>0, <1>l
  <2>3. \A p \in Pages : p = op.page => catalog'[p] = tree[p]
    BY <1>0, <2>1
  <2>4. \A p \in Pages : p # op.page => catalog'[p] = catalog[p]
    BY <1>0, <2>1
  <2>5. ASSUME NEW i \in DOMAIN plan[a], i < k + 1, Listed(plan[a][i])
        PROVE  plan[a][i].page \in changed'[a] /\ catalog'[plan[a][i].page] = tree[plan[a][i].page]
    <3>1. plan[a][i].page \in Pages
      BY <2>5 DEF Listed
    <3>2. i # k => plan[a][i].page \in changed[a] /\ catalog[plan[a][i].page] = tree[plan[a][i].page]
      BY <2>1, <2>2, <2>5 DEF RowsInv
    <3>3. CASE i = k
      BY <2>1, <2>3, <3>1, <3>3
    <3>4. CASE i # k
      BY <2>1, <2>3, <2>4, <3>1, <3>2, <3>4
    <3>5. QED
      BY <3>3, <3>4
  <2> HIDE DEF k, op
  <2>6. \A i \in DOMAIN plan[a] : Listed(plan[a][i])' <=> Listed(plan[a][i])
    BY <2>1 DEF Listed
  <2>7. QED
    BY <2>1, <2>5, <2>6 DEF RowsInv, Listed
<1>9. CASE flock = a /\ AppendLog(a)
  <2>1. /\ RowsInv(a) /\ pc[a] = "write" /\ pc'[a] = "stage" /\ tree' = Logged(tree, plan[a])
        /\ UNCHANGED <<plan, next, changed, catalog, before>>
    BY <1>0, <1>9 DEF AppendLog, locals, derived, ghosts
  <2>2. \A p \in Pages : tree'[p] = tree[p]
    BY <1>0, <2>1, PlanAssumption DEF Logged, Trees, Files
  <2>3. QED
    BY <2>1, <2>2 DEF RowsInv, Listed
<1>10. CASE flock = a /\ Stage(a)
  <2>1. /\ WorkInv(a) /\ RowsInv(a) /\ pc[a] = "stage" /\ pc'[a] = "commit" /\ next[a] > Len(plan[a])
        /\ index' = [f \in Files |-> IF f \in CommitFiles(a) THEN tree[f] ELSE index[f]]
        /\ UNCHANGED <<plan, catalog, before>>
    BY <1>0, <1>10 DEF Stage, locals, derived, ghosts, WorkInv
  <2>2. \A p \in Pages \cap changed[a] : index'[p] = tree[p]
    BY <2>1, PlanAssumption DEF CommitFiles, Files
  <2>3. \A i \in DOMAIN plan[a] : i < next[a]
    <3>1. Len(plan[a]) \in Nat
      BY <1>0, PlanType
    <3>2. QED
      BY <1>0, <1>l, <2>1, <3>1
  <2>4. ASSUME NEW i \in DOMAIN plan[a], Listed(plan[a][i])
        PROVE  catalog[plan[a][i].page] = index'[plan[a][i].page]
    <3>1. plan[a][i].page \in changed[a] /\ catalog[plan[a][i].page] = tree[plan[a][i].page]
      BY <2>1, <2>3, <2>4 DEF RowsInv
    <3>2. plan[a][i].page \in Pages
      BY <2>4 DEF Listed
    <3>3. QED
      BY <2>2, <3>1, <3>2
  <2>5. \A i \in DOMAIN plan[a] : Listed(plan[a][i])' <=> Listed(plan[a][i])
    BY <2>1 DEF Listed
  <2>6. QED
    BY <2>1, <2>4, <2>5 DEF RowsInv
<1>11. CASE flock = a /\ Commit(a)
  <2>1. /\ RowsInv(a) /\ pc[a] = "commit" /\ pc'[a] = "sha" /\ head' = index
        /\ UNCHANGED <<plan, catalog, before>>
    BY <1>0, <1>11 DEF Commit, locals, ghosts
  <2>2. QED
    BY <2>1 DEF RowsInv, Listed
<1>12. CASE flock = a /\ (ReadSha(a) \/ Finish(a))
  <2>1. /\ RowsInv(a) /\ pc[a] \in {"sha", "discard", "receipt", "refresh"}
        /\ pc'[a] \in {"discard", "receipt", "refresh", "release"}
        /\ UNCHANGED <<head, plan, catalog, before>>
    BY <1>0, <1>12 DEF ReadSha, Finish, Discard, Receipt, Refresh, repo, derived, locals, ghosts
  <2>2. QED
    BY <2>1 DEF RowsInv, Listed
<1>13. CASE flock = a /\ Restore(a)
  <2>1. CASE Checkout(a)
    BY <1>0, <1>13, <2>1 DEF Checkout, RowsInv
  <2>2. CASE Pop(a) \/ PopAgain(a)
    <3>1. verdict' = verdict \/ \E v \in {"unrestored", "restoredTwice"} : verdict' = [verdict EXCEPT ![a] = v]
      BY <2>2 DEF Pop, PopAgain, Say
    <3>2. verdict'[a] # "applied" /\ pc'[a] \in {"release", "checkout"}
      BY <1>0, <1>13, <2>2, <3>1 DEF Pop, PopAgain, RowsInv
    <3>3. QED
      BY <3>2 DEF RowsInv
  <2>3. QED
    BY <1>13, <2>1, <2>2 DEF Restore
<1>14. QED
  BY <1>1, <1>2, <1>3, <1>4, <1>5, <1>6, <1>7, <1>8, <1>9, <1>10, <1>11, <1>12, <1>13, OwnerAlone
     DEF Works, ApplyOperations, AtomicCommit

\* When a plan is reported as applied, the catalog's rows of its pages describe
\* what was committed, whatever the catalog said before.
THEOREM RowsFollowCommit ==
    ASSUME ~EditDuring, "catalog" \notin Faults PROVE Spec => []AppliedIsCataloged
<1> DEFINE W == \A a \in Appliers : flock = a => WorkInv(a)
           R == \A a \in Appliers : flock = a => RowsInv(a)
<1>1. Spec => []W
  BY WorkInvariant
<1>2. Init => R
  BY ApplyAssumption DEF Init
<1>3. ApplyInv /\ Fresh /\ W /\ R /\ [Next]_vars => R'
  BY RowsStep
<1>4. Fresh /\ R => AppliedIsCataloged
  <2> SUFFICES ASSUME Fresh, R, NEW a \in Appliers, Returning(a, {"applied"}), NEW i \in DOMAIN plan[a],
                      Listed(plan[a][i])
               PROVE  catalog[plan[a][i].page] = head[plan[a][i].page]
    BY DEF AppliedIsCataloged, Listed
  <2>1. pc[a] = "release" /\ verdict[a] = "applied" /\ flock = a
    BY DEF Returning, Fresh
  <2>2. QED
    BY <2>1 DEF RowsInv
<1> HIDE DEF W, R
<1>5. QED
  BY <1>1, <1>2, <1>3, <1>4, ApplyInvariant, FreshInvariant, PTL DEF Spec

-----------------------------------------------------------------------------
(* Commits, receipts and the qmd index *)

\* Nobody's /commit is half done where nobody uses the REPL.
NoManual == "commit" \notin pending

LEMMA NoManualInvariant == ASSUME "commit" \notin Others PROVE Spec => []NoManual
<1>1. Init => NoManual
  BY DEF Init, NoManual
<1>2. NoManual /\ [Next]_vars => NoManual'
  <2> SUFFICES ASSUME NoManual, [Next]_vars PROVE NoManual'
    OBVIOUS
  <2> USE DEF NoManual
  <2>1. ASSUME NEW a \in Appliers, Call(a) \/ Crash(a) \/ Return(a) \/ Enter(a) \/ EnterFails(a) \/ Validate(a) PROVE NoManual'
    BY <2>1 DEF Call, Crash, Return, Enter, EnterFails, Validate, outside
  <2>2. ASSUME NEW a \in Appliers, Snapshot(a) \/ SnapshotFails(a) \/ ApplyOperations(a) PROVE NoManual'
    BY <2>2 DEF Snapshot, SnapshotFails, ApplyOperations, Write, SkipDelete, WriteRefused, WriteFails, Row, AppendLog,
       outside
  <2>3. ASSUME NEW a \in Appliers, AtomicCommit(a) \/ Restore(a) \/ Finish(a) PROVE NoManual'
    BY <2>3 DEF AtomicCommit, Stage, StageFails, Commit, NothingToCommit, CommitFails, ReadSha, ReadShaFails,
       Restore, Checkout, Pop, PopAgain, Finish, Discard, Receipt, Refresh, outside
  <2>4. ASSUME Elsewhere PROVE NoManual'
    BY <2>4 DEF Elsewhere, EditorWrites, LintReports, LintLogs, ManualStage, ManualCommit, ReconcileReads,
       ReconcileWrites, MayAct, Begin, End
  <2>5. CASE UNCHANGED vars
    BY <2>5 DEF vars, outside
  <2>6. QED
    BY <2>1, <2>2, <2>3, <2>4, <2>5 DEF Next, Step
<1>3. QED
  BY <1>1, <1>2, PTL DEF Spec

\* The history grows by commits of calls only.
Quiet(a) ==
    \/ Call(a) \/ Enter(a) \/ EnterFails(a) \/ Validate(a) \/ Snapshot(a) \/ SnapshotFails(a) \/ ApplyOperations(a)
    \/ Stage(a) \/ StageFails(a) \/ NothingToCommit(a) \/ CommitFails(a) \/ ReadSha(a) \/ ReadShaFails(a)
    \/ Restore(a) \/ Finish(a) \/ Return(a) \/ Crash(a)

LEMMA OnlyCommits ==
    ASSUME NoManual, [Next]_vars
    PROVE  (\E a \in Appliers : Commit(a)) \/ UNCHANGED <<head, history>>
<1>1. ASSUME NEW a \in Appliers, Quiet(a) PROVE UNCHANGED <<head, history>>
  <2>1. CASE Call(a) \/ Enter(a) \/ EnterFails(a) \/ Validate(a) \/ Snapshot(a) \/ SnapshotFails(a) \/ ApplyOperations(a)
    BY <2>1 DEF Call, Enter, EnterFails, Validate, Snapshot, SnapshotFails, ApplyOperations, Write, SkipDelete, WriteRefused,
       WriteFails, Row, AppendLog, repo
  <2>2. CASE \/ Stage(a) \/ StageFails(a) \/ NothingToCommit(a) \/ CommitFails(a) \/ ReadSha(a) \/ ReadShaFails(a)
             \/ Restore(a) \/ Finish(a) \/ Return(a) \/ Crash(a)
    BY <2>2 DEF Stage, StageFails, NothingToCommit, CommitFails, ReadSha, ReadShaFails, Restore, Checkout, Pop, PopAgain,
       Finish, Discard, Receipt, Refresh, Return, Crash, repo
  <2>3. QED
    BY <1>1, <2>1, <2>2 DEF Quiet
<1>2. ASSUME Elsewhere PROVE UNCHANGED <<head, history>>
  BY <1>2 DEF Elsewhere, EditorWrites, LintReports, LintLogs, ManualStage, ManualCommit, ReconcileReads,
     ReconcileWrites, End, NoManual, repo
<1>3. CASE UNCHANGED vars
  BY <1>3 DEF vars, repo
<1>4. QED
  BY <1>1, <1>2, <1>3 DEF Next, Step, AtomicCommit, Quiet

\* WikiHistory's effect of a plan is the one defined here.
LEMMA SameEffect == \A t, p : History!Effect(t, p) = Effect(t, p)
BY DEF History!Effect, History!Logged, History!Targets, History!Written, History!LogLines, History!Entry, History!Text,
   History!Files, Effect, Logged, Targets, Written, LogLines, Entry, Text, Files

\* Every commit of the wiki is one whole plan, its log lines included, on top of
\* the commit before it, whatever calls fail or are killed in between.
THEOREM CommitsAreWholePlans ==
    ASSUME ~EditDuring, "commit" \notin Others PROVE Spec => Implements
<1> DEFINE W == \A a \in Appliers : flock = a => WorkInv(a)
<1>1. Spec => []W
  BY WorkInvariant
<1>2. Init => History!Init
  BY DEF Init, History!Init
<1>3. ASSUME ApplyInv, W, NoManual, [Next]_vars PROVE [History!Next]_<<head, history>>
  <2>1. ASSUME NEW a \in Appliers, Commit(a) PROVE History!Next
    <3>1. pc[a] = "commit" /\ head' = index /\ history' = Append(history, plan[a])
      BY <2>1 DEF Commit, Goto
    <3>2. flock = a
      BY <1>3, <3>1 DEF ApplyInv, Locked, UnderLock, Steps
    <3>3. plan[a] \in Plans /\ index = Effect(head, plan[a])
      BY <1>3, <3>1, <3>2 DEF WorkInv
    <3>4. QED
      BY <3>1, <3>3, SameEffect DEF History!Next, History!CommitPlan
  <2>2. QED
    BY <1>3, <2>1, OnlyCommits
<1> HIDE DEF W
<1>4. QED
  BY <1>1, <1>2, <1>3, ApplyInvariant, NoManualInvariant, PTL DEF Spec, Implements, History!Spec, History!vars

LEMMA NumbersGrow ==
    ASSUME NEW n \in Nat, n > 0
    PROVE  Append(Numbers(n - 1), n) = Numbers(n) /\ (Numbers(n - 1) # <<>> => Numbers(n - 1)[Len(Numbers(n - 1))] # n)
<1>1. Numbers(n - 1) \in Seq(Nat) /\ Len(Numbers(n - 1)) = n - 1
  BY DEF Numbers
<1>2. Numbers(n) \in Seq(Nat) /\ Len(Numbers(n)) = n
  BY DEF Numbers
<1>3. Append(Numbers(n - 1), n) \in Seq(Nat) /\ Len(Append(Numbers(n - 1), n)) = n
  BY <1>1
<1>4. \A i \in 1 .. n : Append(Numbers(n - 1), n)[i] = Numbers(n)[i]
  BY <1>1 DEF Numbers
<1>5. Append(Numbers(n - 1), n) = Numbers(n)
  BY <1>2, <1>3, <1>4
<1>6. Numbers(n - 1) # <<>> => Numbers(n - 1)[Len(Numbers(n - 1))] = n - 1
  BY <1>1 DEF Numbers
<1>7. QED
  BY <1>5, <1>6

LEMMA DerivedKept ==
    ASSUME ApplyInv, DerivedInv, NoManual, NoManual', [Next]_vars, Crashing = {}, Faults \cap {"sha", "receipt", "qmd"} = {}
    PROVE  DerivedInv'
<1> USE DEF ApplyInv, TypeOK, CallType, Goto, RollBack, locals
<1>1. ASSUME NEW a \in Appliers, Commit(a) PROVE DerivedInv'
  <2>1. /\ pc[a] = "commit" /\ pc' = [pc EXCEPT ![a] = "sha"] /\ history' = Append(history, plan[a])
        /\ UNCHANGED <<receipts, sha, pending>>
    BY <1>1 DEF Commit, outside
  <2>2. \A b \in Appliers : b # a => pc[b] \notin {"sha", "discard", "receipt", "refresh"}
    BY <2>1 DEF Locked, UnderLock, Steps
  <2>3. receipts = Numbers(Len(history))
    BY <2>1, <2>2 DEF DerivedInv
  <2>4. history' # <<>> /\ Len(history') - 1 = Len(history) /\ Len(history) \in Nat
    BY <2>1 DEF RepoType
  <2>5. \A b \in Appliers : b # a => pc'[b] \notin {"sha", "discard", "receipt", "refresh"}
    BY <2>1, <2>2
  <2>6. pc'[a] = "sha"
    BY <2>1
  <2>7. receipts' = Numbers(Len(history') - 1)
    BY <2>1, <2>3, <2>4
  <2>8. "commit" \notin pending'
    BY <2>1 DEF NoManual
  <2>9. QED
    BY <2>4, <2>5, <2>6, <2>7, <2>8 DEF DerivedInv
<1>2. ASSUME NEW a \in Appliers, ReadSha(a) \/ Discard(a) PROVE DerivedInv'
  <2>1. /\ UNCHANGED <<history, receipts, qmdFresh, pending>>
        /\ \/ pc[a] = "sha" /\ pc' = [pc EXCEPT ![a] = "discard"] /\ sha' = [sha EXCEPT ![a] = Len(history)]
           \/ pc[a] = "discard" /\ pc' = [pc EXCEPT ![a] = "receipt"] /\ sha' = sha
    BY <1>2 DEF ReadSha, Discard, repo, derived, outside
  <2>2. QED
    BY <2>1 DEF DerivedInv
<1>3. ASSUME NEW a \in Appliers, Receipt(a) PROVE DerivedInv'
  <2>1. /\ pc[a] = "receipt" /\ pc' = [pc EXCEPT ![a] = "refresh"] /\ UNCHANGED <<history, qmdFresh, sha, pending>>
        /\ receipts' = IF receipts # <<>> /\ receipts[Len(receipts)] = sha[a]
                        THEN receipts ELSE Append(receipts, sha[a])
    BY <1>3, "receipt" \notin Faults DEF Receipt, repo, outside
  <2>2. history # <<>> /\ receipts = Numbers(Len(history) - 1) /\ sha[a] = Len(history)
    BY <2>1 DEF DerivedInv
  <2>3. Len(history) \in Nat /\ Len(history) > 0
    BY <2>2 DEF RepoType
  <2>4. receipts' = Numbers(Len(history))
    BY <2>1, <2>2, <2>3, NumbersGrow
  <2>5. \A b \in Appliers : b # a => pc[b] \notin {"sha", "discard", "receipt", "refresh"}
    BY <2>1 DEF Locked, UnderLock, Steps
  <2>6. \A b \in Appliers : pc'[b] \notin {"sha", "discard", "receipt"}
    BY <2>1, <2>5
  <2>7. pc'[a] = "refresh" /\ history' = history /\ "commit" \notin pending'
    BY <2>1 DEF NoManual
  <2>8. QED
    BY <2>4, <2>6, <2>7 DEF DerivedInv
<1>4. ASSUME NEW a \in Appliers, Refresh(a) PROVE DerivedInv'
  <2>1. /\ pc[a] = "refresh" /\ pc' = [pc EXCEPT ![a] = "release"] /\ UNCHANGED <<history, receipts, sha, pending>>
        /\ qmdFresh'
    BY <1>4, "qmd" \notin Faults DEF Refresh, repo, outside
  <2>2. QED
    BY <2>1 DEF DerivedInv
<1>5. ASSUME NEW a \in Appliers, UNCHANGED <<history, receipts, qmdFresh, pending>>,
             \A b \in Appliers : b # a => pc'[b] = pc[b] /\ sha'[b] = sha[b],
             pc[a] \notin {"sha", "discard", "receipt", "refresh"}, pc'[a] \notin {"sha", "discard", "receipt", "refresh"}
      PROVE  DerivedInv'
  BY <1>5 DEF DerivedInv
<1>6. ASSUME NEW a \in Appliers, Early(a) \/ Snapshot(a) \/ SnapshotFails(a) \/ Return(a) PROVE DerivedInv'
  <2>1. /\ UNCHANGED <<history, receipts, qmdFresh, pending>>
        /\ \A b \in Appliers : b # a => pc'[b] = pc[b] /\ sha'[b] = sha[b]
        /\ pc[a] \notin {"sha", "discard", "receipt", "refresh"}
        /\ pc'[a] \notin {"sha", "discard", "receipt", "refresh"}
    BY <1>6 DEF Early, Call, Enter, EnterFails, Validate, Snapshot, SnapshotFails, Return, repo, derived, outside
  <2>2. QED
    BY <1>5, <2>1
<1>7. ASSUME NEW a \in Appliers, ApplyOperations(a) PROVE DerivedInv'
  <2>1. /\ UNCHANGED <<history, receipts, qmdFresh, pending>>
        /\ \A b \in Appliers : b # a => pc'[b] = pc[b] /\ sha'[b] = sha[b]
        /\ pc[a] \notin {"sha", "discard", "receipt", "refresh"}
        /\ pc'[a] \notin {"sha", "discard", "receipt", "refresh"}
    BY <1>7 DEF ApplyOperations, Write, SkipDelete, WriteRefused, WriteFails, Row, AppendLog, repo, derived, outside
  <2>2. QED
    BY <1>5, <2>1
<1>8. ASSUME NEW a \in Appliers,
             Stage(a) \/ StageFails(a) \/ NothingToCommit(a) \/ CommitFails(a) \/ Restore(a) PROVE DerivedInv'
  <2>1. /\ UNCHANGED <<history, receipts, qmdFresh, pending>>
        /\ \A b \in Appliers : b # a => pc'[b] = pc[b] /\ sha'[b] = sha[b]
        /\ pc[a] \notin {"sha", "discard", "receipt", "refresh"}
        /\ pc'[a] \notin {"sha", "discard", "receipt", "refresh"}
    BY <1>8 DEF Stage, StageFails, NothingToCommit, CommitFails, Restore, Checkout, Pop, PopAgain, repo, derived, outside
  <2>2. QED
    BY <1>5, <2>1
<1>9. ASSUME Elsewhere PROVE DerivedInv'
  <2>1. UNCHANGED <<history, receipts, qmdFresh, pc, sha>>
    BY <1>9 DEF Elsewhere, EditorWrites, LintReports, LintLogs, ManualStage, ManualCommit, ReconcileReads,
       ReconcileWrites, Begin, End, NoManual, repo, derived
  <2>2. QED
    BY <2>1 DEF DerivedInv, NoManual
<1>10. CASE UNCHANGED vars
  BY <1>10 DEF DerivedInv, vars, repo, derived, outside
<1>11. \A a \in Appliers : ~ReadShaFails(a) /\ ~Crash(a)
  BY DEF ReadShaFails, Crash
<1>12. QED
  BY <1>1, <1>2, <1>3, <1>4, <1>6, <1>7, <1>8, <1>9, <1>10, <1>11
     DEF Next, Step, AtomicCommit, Finish, Early

\* While nobody applies a plan, the sidecar names every commit once and in
\* order, and the qmd index has seen the last one - as long as the steps after a
\* commit do not fail and nobody is killed between them.
THEOREM DerivedFollows ==
    ASSUME Crashing = {}, Faults \cap {"sha", "receipt", "qmd"} = {}, "commit" \notin Others
    PROVE  Spec => []DerivedInStep
<1>1. Init => DerivedInv
  <2>1. Numbers(0) = <<>>
    BY DEF Numbers
  <2>2. QED
    BY <2>1 DEF Init, DerivedInv
<1>2. ApplyInv /\ NoManual /\ NoManual' /\ DerivedInv /\ [Next]_vars => DerivedInv'
  BY DerivedKept
<1>3. ApplyInv /\ DerivedInv => DerivedInStep
  <2> SUFFICES ASSUME ApplyInv, DerivedInv, flock = Nobody
               PROVE  receipts = [i \in DOMAIN history |-> i] /\ qmdFresh
    BY DEF DerivedInStep
  <2>1. \A a \in Appliers : pc[a] \notin {"sha", "discard", "receipt", "refresh"}
    BY ApplyAssumption DEF ApplyInv, Locked, UnderLock, Steps
  <2>2. receipts = Numbers(Len(history)) /\ qmdFresh
    BY <2>1 DEF DerivedInv
  <2>3. DOMAIN history = 1 .. Len(history)
    BY DEF ApplyInv, TypeOK, RepoType
  <2>4. QED
    BY <2>2, <2>3 DEF Numbers
<1>4. QED
  BY <1>1, <1>2, <1>3, ApplyInvariant, NoManualInvariant, PTL DEF Spec
=============================================================================
