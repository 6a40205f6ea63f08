------------------------------ MODULE IngestProofs ------------------------------
(* The library's write path, for any number of pages, versions, runs, crashes  *)
(* and edits by hand - as long as one process ingests at a time.                *)
EXTENDS Ingest, TLAPS

IngestSpec == IngestInit /\ [][IngestNext]_ingestVars

\* No lock makes it so: without it RowsFollowCommit fails (LibraryUnlocked.cfg).
Alone == \A i, j \in Ingests : i = j

Contents == 0 .. Unmanaged
OneVersion(items) == \A x, y \in items : x[1] = y[1] => x = y

PCs == {"idle", "done", "fetch", "items", "look", "write", "init", "add", "initial", "stage", "commit",
        "rows", "sweep", "fold", "hooks"}
\* Where a run's pages are on disk and nowhere else for certain.
Mirrored == {"items", "look", "write", "init", "add", "initial", "stage"}
Durable == {"ok", "locked", "timeout", "busy"}

IngestTypes ==
    /\ source \in [Mirrors -> Versions]
    /\ mirror \in [Mirrors -> Contents] /\ index \in [Mirrors -> Contents]
    /\ head \in [Mirrors -> Contents] /\ row \in [Mirrors -> Contents]
    /\ todo \in [Ingests -> SUBSET Items] /\ wrote \in [Ingests -> SUBSET Items]
    /\ ipc \in [Ingests -> PCs] /\ outcome \in [Ingests -> Results]
    /\ DOMAIN current = Ingests /\ repo \in BOOLEAN

\* How far the pages a run wrote have got: on disk, in the index, in a commit.
PagesOnTheirWay ==
    \A i \in Ingests :
        /\ OneVersion(todo[i] \cup wrote[i])
        /\ ipc[i] = "fetch" => wrote[i] = {}
        /\ ipc[i] \in {"look", "write"} => current[i] \in todo[i]
        /\ ipc[i] \in Mirrored => \A x \in wrote[i] : mirror[x[1]] = x[2]
        /\ ipc[i] = "commit" => \A x \in wrote[i] : index[x[1]] = x[2]
        /\ ipc[i] \in {"rows", "sweep", "fold", "hooks"} => wrote[i] \subseteq everHeld
        /\ ipc[i] \in {"idle", "done"} \/ outcome[i] = "none"

HeadWasHeld == \A p \in Mirrors : head[p] # NoPage => <<p, head[p]>> \in everHeld

IngestInv == IngestTypes /\ PagesOnTheirWay /\ HeadWasHeld /\ RowsFollowCommit /\ EndsDurable

-----------------------------------------------------------------------------
(* Put *)

LEMMA ItemParts ==
    \A x \in Items : /\ x[1] \in Mirrors /\ x[2] \in Versions /\ x[2] # NoPage
                     /\ x = <<x[1], x[2]>>
BY DEF Items, Versions, NoPage

\* Put gives every page of the items its version, and leaves the others alone.
LEMMA PutLookup ==
    ASSUME NEW f \in [Mirrors -> Contents], NEW items \in SUBSET Items, OneVersion(items)
    PROVE  /\ Put(f, items) \in [Mirrors -> Contents]
           /\ \A x \in items : Put(f, items)[x[1]] = x[2]
           /\ \A p \in Mirrors : (\A x \in items : x[1] # p) => Put(f, items)[p] = f[p]
<1> USE IngestAssumption
<1>1. Versions \subseteq Contents
  BY DEF Versions, Contents, Unmanaged
<1>2. ASSUME NEW x \in items PROVE Put(f, items)[x[1]] = x[2]
  <2>1. x[1] \in Mirrors /\ x[2] \in Versions /\ x = <<x[1], x[2]>>
    BY DEF Items
  <2>2. \A v \in Versions : <<x[1], v>> \in items <=> v = x[2]
    BY <2>1 DEF OneVersion
  <2>3. QED
    BY <2>1, <2>2 DEF Put
<1>3. ASSUME NEW p \in Mirrors, \A x \in items : x[1] # p PROVE Put(f, items)[p] = f[p]
  <2>1. ~\E v \in Versions : <<p, v>> \in items
    BY <1>3
  <2>2. QED
    BY <2>1 DEF Put
<1>4. ASSUME NEW p \in Mirrors PROVE Put(f, items)[p] \in Contents
  <2>1. CASE \E x \in items : x[1] = p
    BY <1>1, <1>2, <2>1 DEF Items
  <2>2. CASE ~\E x \in items : x[1] = p
    BY <1>3, <2>2
  <2>3. QED
    BY <2>1, <2>2
<1>5. Put(f, items) \in [Mirrors -> Contents]
  BY <1>4 DEF Put
<1>6. QED
  BY <1>2, <1>3, <1>5

-----------------------------------------------------------------------------
(* The steps *)

LEMMA IngestStart == IngestInit => IngestInv
<1> SUFFICES ASSUME IngestInit PROVE IngestInv
  OBVIOUS
<1>1. NoPage \in Contents /\ 1 \in Versions
  BY IngestAssumption DEF Contents, Unmanaged, NoPage, Versions
<1>2. IngestTypes
  BY <1>1 DEF IngestInit, IngestTypes, PCs, Results
<1>3. PagesOnTheirWay
  BY DEF IngestInit, PagesOnTheirWay, OneVersion, Mirrored
<1>4. HeadWasHeld /\ RowsFollowCommit /\ EndsDurable
  BY DEF IngestInit, HeadWasHeld, RowsFollowCommit, EndsDurable
<1>5. QED
  BY <1>2, <1>3, <1>4 DEF IngestInv

\* The steps of the run itself, which is the only one.
LEMMA RunStepKeeps ==
    ASSUME Alone, IngestInv, NEW i \in Ingests, RunStep(i)
    PROVE  IngestInv'
<1> USE IngestAssumption
    DEF IngestInv, IngestTypes, PagesOnTheirWay, HeadWasHeld, RowsFollowCommit, EndsDurable,
        IngestGoto, Report, tree, locals, PCs, Results, Mirrored
<1>a. wrote[i] \in SUBSET Items /\ todo[i] \in SUBSET Items
  OBVIOUS
<1>b. \A x \in wrote[i] \cup todo[i] : x[1] \in Mirrors /\ x[2] # NoPage /\ x = <<x[1], x[2]>>
  BY <1>a, ItemParts
<1>0. Ingests = {i}
  BY DEF Alone
<1>1. CASE Fetched(i)
  <2>1. PICK got \in SUBSET Claims[i] :
          todo' = [todo EXCEPT ![i] = {<<p, source[p]>> : p \in got}]
    BY <1>1 DEF Fetched
  <2>2. todo'[i] \in SUBSET Items /\ OneVersion(todo'[i])
    BY <2>1 DEF OneVersion, Items
  <2>3. wrote[i] = {} /\ outcome[i] = "none" /\ UNCHANGED <<wrote, tree, row, repo, source, current>>
    BY <1>1 DEF Fetched
  <2>4. todo' \in [Ingests -> SUBSET Items]
    BY <2>1, <2>2
  <2>5. \/ /\ ipc' = [ipc EXCEPT ![i] = "done"]
           /\ \E what \in {"unreachable", "ok"} : outcome' = [outcome EXCEPT ![i] = what]
        \/ ipc' = [ipc EXCEPT ![i] = "items"] /\ UNCHANGED outcome
    BY <1>1 DEF Fetched
  <2>6. IngestTypes'
    BY <2>3, <2>4, <2>5
  <2>7. PagesOnTheirWay'
    <3>1. todo'[i] \cup wrote'[i] = todo'[i]
      BY <2>3
    <3>2. OneVersion(todo'[i] \cup wrote'[i])
      BY <2>2, <3>1
    <3>3. ipc'[i] \in {"done", "items"} /\ wrote'[i] = {}
          /\ (ipc'[i] = "items" => outcome'[i] = "none")
      BY <2>3, <2>5
    <3>4. QED
      BY <1>0, <3>2, <3>3
  <2>8. HeadWasHeld' /\ RowsFollowCommit' /\ EndsDurable'
    BY <2>3, <2>5
  <2>9. QED
    BY <2>6, <2>7, <2>8
<1>2. CASE Considers(i)
  BY <1>0, <1>2 DEF Considers, Drop, Quarantine, OneVersion
<1>3. CASE WriteMirror(i)
  <2>1. CASE /\ \E left \in {Unmanaged, current[i][2]} : mirror' = [mirror EXCEPT ![current[i][1]] = left]
             /\ ipc' = [ipc EXCEPT ![i] = "done"] /\ outcome' = [outcome EXCEPT ![i] = "failed"]
             /\ UNCHANGED <<wrote, todo>>
    <3>1. UNCHANGED <<source, index, head, everHeld, row, repo, wrote, todo>>
          /\ current' = [current EXCEPT ![i] = <<>>]
      BY <1>3, <2>1 DEF WriteMirror
    <3>2. current[i][2] \in Contents /\ Unmanaged \in Contents
      <4>1. current[i] \in Items
        BY <1>3 DEF WriteMirror
      <4>2. QED
        BY <4>1 DEF Items, Versions, Contents, Unmanaged
    <3>3. mirror' \in [Mirrors -> Contents]
      <4>1. PICK left \in {Unmanaged, current[i][2]} : mirror' = [mirror EXCEPT ![current[i][1]] = left]
        BY <2>1
      <4>2. left \in Contents
        BY <3>2, <4>1
      <4>3. QED
        BY <4>1, <4>2
    <3>4. QED
      BY <1>0, <2>1, <3>1, <3>3
  <2>2. CASE /\ mirror' = Put(mirror, {current[i]})
             /\ wrote' = [wrote EXCEPT ![i] = @ \cup {current[i]}]
             /\ todo' = [todo EXCEPT ![i] = @ \ {current[i]}]
             /\ ipc' = [ipc EXCEPT ![i] = "items"] /\ UNCHANGED outcome
    <3> DEFINE it == current[i]
    <3>1. /\ it \in todo[i] /\ it \in Items /\ outcome[i] = "none"
          /\ mirror' = Put(mirror, {it})
          /\ wrote' = [wrote EXCEPT ![i] = @ \cup {it}]
          /\ todo' = [todo EXCEPT ![i] = @ \ {it}]
          /\ ipc' = [ipc EXCEPT ![i] = "items"]
          /\ current' = [current EXCEPT ![i] = <<>>]
          /\ UNCHANGED <<source, index, head, everHeld, row, repo, outcome>>
      BY <1>3, <2>2 DEF WriteMirror
    <3>2. \A x \in wrote[i] : mirror[x[1]] = x[2]
      BY <1>3 DEF WriteMirror
    <3> HIDE DEF it
    <3>3. mirror \in [Mirrors -> Contents] /\ {it} \in SUBSET Items /\ OneVersion({it})
      BY <3>1 DEF OneVersion
    <3>4. /\ mirror' \in [Mirrors -> Contents] /\ mirror'[it[1]] = it[2]
          /\ \A p \in Mirrors : it[1] # p => mirror'[p] = mirror[p]
      <4> HIDE DEF IngestInv, IngestTypes, PagesOnTheirWay
      <4>1. /\ Put(mirror, {it}) \in [Mirrors -> Contents]
            /\ \A x \in {it} : Put(mirror, {it})[x[1]] = x[2]
            /\ \A p \in Mirrors : (\A x \in {it} : x[1] # p) => Put(mirror, {it})[p] = mirror[p]
        BY <3>3, PutLookup
      <4>2. QED
        BY <3>1, <4>1
    <3>5. OneVersion(todo'[i] \cup wrote'[i])
      BY <3>1 DEF OneVersion
    <3>6. \A x \in wrote'[i] : mirror'[x[1]] = x[2]
      <4> SUFFICES ASSUME NEW x \in wrote'[i] PROVE mirror'[x[1]] = x[2]
        OBVIOUS
      <4>1. wrote'[i] = wrote[i] \cup {it} /\ it \in todo[i] \cup wrote[i]
        BY <3>1
      <4>2. OneVersion(todo[i] \cup wrote[i])
        OBVIOUS
      <4>3. x[1] = it[1] => x = it
        BY <4>1, <4>2 DEF OneVersion
      <4>4. x = it \/ (x \in wrote[i] /\ x[1] \in Mirrors /\ it[1] # x[1])
        <5>1. CASE x = it
          BY <5>1
        <5>2. CASE x # it
          <6>1. x \in wrote[i] /\ it[1] # x[1]
            BY <4>1, <4>3, <5>2
          <6>2. x[1] \in Mirrors
            BY <1>b, <6>1
          <6>3. QED
            BY <6>1, <6>2
        <5>3. QED
          BY <5>1, <5>2
      <4>5. QED
        BY <3>2, <3>4, <4>4
    <3>7. IngestTypes'
      <4>1. wrote' \in [Ingests -> SUBSET Items] /\ todo' \in [Ingests -> SUBSET Items]
        BY <3>1
      <4>2. QED
        BY <3>1, <3>4, <4>1
    <3>8. PagesOnTheirWay'
      BY <1>0, <3>1, <3>5, <3>6
    <3>9. HeadWasHeld' /\ RowsFollowCommit' /\ EndsDurable'
      BY <1>0, <3>1
    <3>10. QED
      BY <3>7, <3>8, <3>9
  <2>3. QED
    BY <1>3, <2>1, <2>2 DEF WriteMirror
<1>4. CASE Finalize(i)
  BY <1>0, <1>4 DEF Finalize, OneVersion
<1>5. CASE Stage(i)
  <2>1. CASE CommitFails(i)
    BY <1>0, <1>5, <2>1 DEF Stage, CommitFails
  <2>2. CASE /\ index' = [p \in Mirrors |-> IF \E v \in Versions : <<p, v>> \in wrote[i]
                                             THEN mirror[p] ELSE index[p]]
             /\ ipc' = [ipc EXCEPT ![i] = "commit"] /\ UNCHANGED <<head, everHeld, made, outcome>>
    <3>1. \A x \in wrote[i] : mirror[x[1]] = x[2] /\ x[1] \in Mirrors
      BY <1>5, <1>b DEF Stage
    <3>2. \A x \in wrote[i] : \E v \in Versions : <<x[1], v>> \in wrote[i]
      <4> SUFFICES ASSUME NEW x \in wrote[i] PROVE <<x[1], x[2]>> \in wrote[i] /\ x[2] \in Versions
        OBVIOUS
      <4>1. QED
        BY <1>a, ItemParts
    <3>3. \A x \in wrote[i] : index'[x[1]] = x[2]
      BY <2>2, <3>1, <3>2
    <3>4. UNCHANGED <<source, mirror, row, repo, todo, current, wrote, flags>> /\ outcome[i] = "none"
      BY <1>5 DEF Stage
    <3>5. index' \in [Mirrors -> Contents]
      BY <2>2
    <3>6. QED
      BY <1>0, <2>2, <3>3, <3>4, <3>5
  <2>3. QED
    BY <1>5, <2>1, <2>2 DEF Stage
<1>6. CASE Commit(i)
  <2>1. /\ \A x \in wrote[i] : index[x[1]] = x[2]
        /\ outcome[i] = "none"
        /\ UNCHANGED <<source, mirror, row, repo, todo, current, wrote, flags>>
    BY <1>6 DEF Commit
  <2>2. \A x \in wrote[i] : x[1] \in Mirrors /\ x = <<x[1], x[2]>> /\ x[2] # NoPage
    BY <1>b
  <2>3. CASE CommitFails(i)
    BY <1>0, <2>1, <2>3 DEF CommitFails
  \* Nothing staged: what the run wrote is what HEAD holds already.
  <2>4. CASE index = head /\ ipc' = [ipc EXCEPT ![i] = "rows"]
             /\ UNCHANGED <<head, everHeld, index, outcome>>
    <3>1. wrote[i] \subseteq everHeld
      BY <2>1, <2>2, <2>4
    <3>2. IngestTypes' /\ HeadWasHeld' /\ RowsFollowCommit' /\ EndsDurable'
      BY <1>0, <2>1, <2>4
    <3>3. PagesOnTheirWay'
      <4>1. ipc'[i] = "rows" /\ wrote'[i] \subseteq everHeld' /\ outcome'[i] = "none"
        <5>1. wrote' = wrote /\ ipc'[i] = "rows" /\ outcome' = outcome /\ everHeld' = everHeld
          BY <2>1, <2>4
        <5>2. QED
          BY <2>1, <3>1, <5>1
      <4>2. OneVersion(todo'[i] \cup wrote'[i])
        BY <2>1
      <4>3. QED
        BY <1>0, <4>1, <4>2
    <3>4. QED
      BY <3>2, <3>3
  <2>5. CASE Commits /\ UNCHANGED index
    <3>1. /\ head' = index /\ everHeld \subseteq everHeld'
          /\ \A p \in Mirrors : index[p] # NoPage => <<p, index[p]>> \in everHeld'
      BY <2>5 DEF Commits
    <3>2. wrote[i] \subseteq everHeld'
      BY <2>1, <2>2, <3>1
    <3>3. \/ ipc' = [ipc EXCEPT ![i] = "rows"] /\ UNCHANGED outcome
          \/ ipc' = [ipc EXCEPT ![i] = "done"] /\ outcome' = [outcome EXCEPT ![i] = "commit_failed"]
          \/ CommitFails(i)
      BY <1>6 DEF Commit
    <3>4. QED
      <4>1. CASE CommitFails(i)
        BY <2>3, <4>1
      <4>2. CASE ipc' = [ipc EXCEPT ![i] = "rows"] /\ UNCHANGED outcome
        <5>1. IngestTypes' /\ HeadWasHeld' /\ RowsFollowCommit' /\ EndsDurable'
          BY <1>0, <2>1, <2>5, <3>1, <4>2
        <5>2. PagesOnTheirWay'
          <6>1. ipc'[i] = "rows" /\ wrote'[i] \subseteq everHeld' /\ outcome'[i] = "none"
            <7>1. wrote' = wrote /\ ipc'[i] = "rows" /\ outcome' = outcome
              BY <2>1, <4>2
            <7>2. QED
              BY <2>1, <3>2, <7>1
          <6>2. OneVersion(todo'[i] \cup wrote'[i])
            BY <2>1
          <6>3. QED
            BY <1>0, <6>1, <6>2
        <5>3. QED
          BY <5>1, <5>2
      <4>3. CASE ipc' = [ipc EXCEPT ![i] = "done"] /\ outcome' = [outcome EXCEPT ![i] = "commit_failed"]
        <5>1. IngestTypes' /\ HeadWasHeld' /\ RowsFollowCommit' /\ EndsDurable'
          BY <1>0, <2>1, <2>5, <3>1, <4>3
        <5>2. PagesOnTheirWay'
          BY <1>0, <2>1, <4>3
        <5>3. QED
          BY <5>1, <5>2
      <4>4. QED
        BY <3>3, <4>1, <4>2, <4>3
  <2>6. QED
    BY <1>6, <2>3, <2>4, <2>5 DEF Commit
<1>7. CASE Rows(i)
  <2>1. wrote[i] \subseteq everHeld /\ wrote[i] \in SUBSET Items /\ OneVersion(wrote[i])
        /\ outcome[i] = "none"
    BY <1>7 DEF Rows, OneVersion
  <2>2. CASE UNCHANGED row
    BY <1>0, <1>7, <2>1, <2>2 DEF Rows
  <2>3. CASE row' = Put(row, wrote[i])
    <3>1. /\ row' \in [Mirrors -> Contents]
          /\ \A x \in wrote[i] : row'[x[1]] = x[2]
          /\ \A p \in Mirrors : (\A x \in wrote[i] : x[1] # p) => row'[p] = row[p]
      BY <2>1, <2>3, PutLookup
    <3>2. \A p \in Mirrors : row'[p] # NoPage => <<p, row'[p]>> \in everHeld
      <4> SUFFICES ASSUME NEW p \in Mirrors, row'[p] # NoPage PROVE <<p, row'[p]>> \in everHeld
        OBVIOUS
      <4>1. CASE \E x \in wrote[i] : x[1] = p
        <5>1. PICK x \in wrote[i] : x[1] = p
          BY <4>1
        <5>2. x = <<x[1], x[2]>> /\ row'[p] = x[2]
          BY <1>b, <3>1, <5>1
        <5>3. QED
          BY <2>1, <5>1, <5>2
      <4>2. CASE \A x \in wrote[i] : x[1] # p
        BY <3>1, <4>2
      <4>3. QED
        BY <4>1, <4>2
    <3>3. QED
      BY <1>0, <1>7, <2>1, <3>1, <3>2 DEF Rows
  <2>4. QED
    BY <1>7, <2>2, <2>3 DEF Rows
<1>8. CASE Sweep(i)
  BY <1>0, <1>8 DEF Sweep, Contents, NoPage, OneVersion
<1>9. CASE Fold(i)
  BY <1>0, <1>9 DEF Fold, Commits, OneVersion
<1>10. CASE Hooks(i)
  BY <1>0, <1>10 DEF Hooks, OneVersion
<1>11. CASE Looks(i)
  <2>1. looked' = [looked EXCEPT ![i] = mirror[current[i][1]]]
        /\ UNCHANGED <<source, mirror, index, head, everHeld, row, repo, todo, current, wrote>>
    BY <1>11 DEF Looks
  <2>2. \/ ipc' = [ipc EXCEPT ![i] = "done"] /\ outcome' = [outcome EXCEPT ![i] = "exists"]
        \/ ipc' = [ipc EXCEPT ![i] = "write"] /\ UNCHANGED outcome
    BY <1>11 DEF Looks
  <2>3. ipc[i] = "look"
    BY <1>11 DEF Looks
  <2>4. QED
    BY <1>0, <2>1, <2>2, <2>3
\* The bootstrap's own commit takes the pages on disk: what HEAD then holds was held.
<1>12. CASE BootstrapsRepo(i)
  <2>1. UNCHANGED <<source, mirror, row, todo, wrote, current>> /\ outcome[i] = "none"
    BY <1>12 DEF BootstrapsRepo
  <2>2. \A x \in wrote[i] : mirror[x[1]] = x[2]
    BY <1>12 DEF BootstrapsRepo
  <2>3. \/ /\ ipc' = [ipc EXCEPT ![i] = "done"] /\ outcome' = [outcome EXCEPT ![i] = "failed"]
        \/ \E pc \in {"add", "initial", "stage"} : ipc' = [ipc EXCEPT ![i] = pc] /\ UNCHANGED outcome
    BY <1>12 DEF BootstrapsRepo
  <2>4. repo' \in BOOLEAN /\ (index' = index \/ index' = mirror)
    BY <1>12 DEF BootstrapsRepo
  <2>5. \/ UNCHANGED <<head, everHeld>>
        \/ Commits
    BY <1>12 DEF BootstrapsRepo
  <2>6. /\ head' \in [Mirrors -> Contents] /\ everHeld \subseteq everHeld'
        /\ \A p \in Mirrors : head'[p] # NoPage => <<p, head'[p]>> \in everHeld'
    BY <2>5 DEF Commits
  <2>7. IngestTypes'
    BY <2>1, <2>3, <2>4, <2>6
  <2>8. PagesOnTheirWay'
    BY <1>0, <2>1, <2>2, <2>3
  <2>9. RowsFollowCommit' /\ EndsDurable'
    BY <1>0, <2>1, <2>3, <2>6
  <2>10. QED
    BY <2>6, <2>7, <2>8, <2>9
<1>13. QED
  BY <1>1, <1>2, <1>3, <1>4, <1>5, <1>6, <1>7, <1>8, <1>9, <1>10, <1>11, <1>12 DEF RunStep

\* What starts a run, ends it, or comes from outside.
LEMMA OtherStepKeeps ==
    ASSUME Alone, IngestInv,
           \/ \E i \in Ingests : StartIngest(i) \/ Dies(i)
           \/ \E p \in Mirrors : Publish(p) \/ ByHand(p)
           \/ UNCHANGED ingestVars
    PROVE  IngestInv'
<1> USE IngestAssumption
    DEF IngestInv, IngestTypes, PagesOnTheirWay, HeadWasHeld, RowsFollowCommit, EndsDurable,
        IngestGoto, tree, locals, PCs, Results, Mirrored
<1>1. ASSUME NEW i \in Ingests, StartIngest(i) PROVE IngestInv'
  BY <1>1 DEF StartIngest, OneVersion, Alone
<1>2. ASSUME NEW i \in Ingests, Dies(i) PROVE IngestInv'
  BY <1>2 DEF Dies, OneVersion, Alone
<1>3. ASSUME NEW p \in Mirrors, Publish(p) PROVE IngestInv'
  <2>1. source' \in [Mirrors -> Versions]
    BY <1>3 DEF Publish, Versions
  <2>2. QED
    BY <1>3, <2>1 DEF Publish
\* Nobody touches by hand what a run has written and not yet committed.
<1>4. ASSUME NEW p \in Mirrors, ByHand(p) PROVE IngestInv'
  <2>1. mirror' \in [Mirrors -> Contents]
    BY <1>4 DEF ByHand, Contents, Unmanaged, NoPage
  <2>2. \A q \in Mirrors \ {p} : mirror'[q] = mirror[q]
    BY <1>4 DEF ByHand
  <2>3. \A i \in Ingests : ipc[i] = "done" \/ \A x \in wrote[i] : x[1] # p
    BY <1>4 DEF ByHand
  <2>4. UNCHANGED <<source, index, head, everHeld, row, repo, ipc, todo, current, wrote, flags, made, outcome>>
    BY <1>4 DEF ByHand
  <2>5. ASSUME NEW i \in Ingests, ipc[i] \in Mirrored, NEW x \in wrote[i]
        PROVE  mirror'[x[1]] = x[2]
    <3>1. mirror[x[1]] = x[2] /\ x \in Items
      BY <2>5
    <3>2. x[1] \in Mirrors /\ x[1] # p
      BY <2>3, <2>5, <3>1, ItemParts
    <3>3. QED
      BY <2>2, <3>1, <3>2
  <2>6. IngestTypes' /\ HeadWasHeld' /\ RowsFollowCommit' /\ EndsDurable'
    BY <2>1, <2>4
  <2>7. PagesOnTheirWay'
    <3>1. /\ ipc' = ipc /\ wrote' = wrote /\ todo' = todo /\ current' = current
          /\ everHeld' = everHeld /\ index' = index /\ outcome' = outcome
      BY <2>4
    <3>2. \A i \in Ingests : ipc[i] \in Mirrored => \A x \in wrote[i] : mirror'[x[1]] = x[2]
      BY <2>5
    <3>3. PagesOnTheirWay
      OBVIOUS
    <3> HIDE DEF IngestInv, IngestTypes, HeadWasHeld, RowsFollowCommit, EndsDurable, PCs, Results, Mirrored
    <3>4. QED
      BY <3>1, <3>2, <3>3
  <2>8. QED
    BY <2>6, <2>7
<1>5. CASE UNCHANGED ingestVars
  BY <1>5 DEF ingestVars
<1>6. QED
  BY <1>1, <1>2, <1>3, <1>4, <1>5

LEMMA IngestInductive == ASSUME Alone PROVE IngestSpec => []IngestInv
<1>1. IngestInv /\ [IngestNext]_ingestVars => IngestInv'
  BY RunStepKeeps, OtherStepKeeps DEF IngestNext
<1>2. QED
  BY <1>1, IngestStart, PTL DEF IngestSpec

\* A catalog row never names content that no commit held, whichever step of a run
\* fails or is its last (LibraryWriter.commit, _finalize).
THEOREM RowsNameCommits == ASSUME Alone PROVE IngestSpec => []RowsFollowCommit
<1>1. IngestInv => RowsFollowCommit
  BY DEF IngestInv
<1>2. QED
  BY <1>1, IngestInductive, PTL

\* A run that reports success, or fails after the commit point, has every page
\* it wrote in a commit; a no-op commit means it was committed before.
THEOREM ReportsAreDurable == ASSUME Alone PROVE IngestSpec => []EndsDurable
<1>1. IngestInv => EndsDurable
  BY DEF IngestInv
<1>2. QED
  BY <1>1, IngestInductive, PTL

-----------------------------------------------------------------------------
(* Types, and the mirrors nobody forces: for any number of ingests at once.  *)

Typed ==
    /\ source \in [Mirrors -> Versions]
    /\ mirror \in [Mirrors -> Contents] /\ index \in [Mirrors -> Contents]
    /\ head \in [Mirrors -> Contents] /\ row \in [Mirrors -> Contents]
    /\ everHeld \subseteq Mirrors \X (1 .. Unmanaged)
    /\ todo \in [Ingests -> SUBSET Items] /\ wrote \in [Ingests -> SUBSET Items]
    /\ DOMAIN current = Ingests /\ \A i \in Ingests : current[i] \in Items \/ current[i] = <<>>
    /\ flags \in [Ingests -> SUBSET {"force", "dry", "errors"}] /\ made \in [Ingests -> BOOLEAN]
    /\ ipc \in [Ingests -> PCs] /\ outcome \in [Ingests -> Results]
    /\ \A i \in Ingests : ipc[i] \in {"look", "write"} => current[i] \in Items
    /\ repo \in BOOLEAN /\ looked \in [Ingests -> Contents]
    /\ \A i \in Ingests : ipc[i] = "write" => "force" \in flags[i] \/ looked[i] = NoPage

\* What Put gives a page: a version of an item, or what it had.
LEMMA PutTyped ==
    ASSUME NEW f \in [Mirrors -> Contents], NEW items
    PROVE  /\ Put(f, items) \in [Mirrors -> Contents]
           /\ \A p \in Mirrors : (\A v \in Versions : <<p, v>> \notin items) => Put(f, items)[p] = f[p]
<1>1. Versions \subseteq Contents
  BY IngestAssumption DEF Versions, Contents, Unmanaged
<1>2. ASSUME NEW p \in Mirrors, NEW v \in Versions, <<p, v>> \in items
      PROVE  (CHOOSE w \in Versions : <<p, w>> \in items) \in Contents
  BY <1>1, <1>2
<1>3. QED
  BY <1>2 DEF Put

\* What a commit adds to what commits held.
LEMMA CommitsTyped ==
    ASSUME Typed, Commits
    PROVE  /\ head' \in [Mirrors -> Contents]
           /\ everHeld' \subseteq Mirrors \X (1 .. Unmanaged)
<1>1. \A p \in Mirrors : index[p] # NoPage => index[p] \in 1 .. Unmanaged
  BY IngestAssumption DEF Typed, Contents, Unmanaged, NoPage
<1>2. QED
  BY <1>1 DEF Typed, Commits

\* A write, whole or torn, touches its own page only.
LEMMA WriteTyped ==
    ASSUME Typed, NEW i \in Ingests, WriteMirror(i)
    PROVE  /\ current[i] \in Items /\ mirror' \in [Mirrors -> Contents]
           /\ \A p \in Mirrors : p # current[i][1] => mirror'[p] = mirror[p]
<1>1. current[i] \in Items /\ mirror \in [Mirrors -> Contents]
  BY DEF Typed, WriteMirror
<1>2. CASE mirror' = Put(mirror, {current[i]})
  BY <1>1, <1>2, PutTyped DEF Items
<1>3. CASE \E left \in {Unmanaged, current[i][2]} : mirror' = [mirror EXCEPT ![current[i][1]] = left]
  <2>1. current[i][2] \in Contents /\ Unmanaged \in Contents
    BY <1>1, IngestAssumption DEF Items, Versions, Contents, Unmanaged
  <2>2. QED
    BY <1>1, <1>3, <2>1
<1>4. QED
  BY <1>1, <1>2, <1>3 DEF WriteMirror

LEMMA RunStepTyped ==
    ASSUME Typed, NEW i \in Ingests, RunStep(i)
    PROVE  Typed'
<1> USE IngestAssumption DEF Typed, IngestGoto, Report, tree, locals, PCs, Results
<1>1. CASE Fetched(i)
  <2>1. PICK got \in SUBSET Claims[i] :
          todo' = [todo EXCEPT ![i] = {<<p, source[p]>> : p \in got}]
    BY <1>1 DEF Fetched
  <2>2. {<<p, source[p]>> : p \in got} \in SUBSET Items
    BY DEF Items
  <2>3. todo' \in [Ingests -> SUBSET Items]
    BY <2>1, <2>2
  <2>4. /\ UNCHANGED <<source, mirror, index, head, everHeld, row, repo, current, wrote, made, looked>>
        /\ flags' \in [Ingests -> SUBSET {"force", "dry", "errors"}]
    BY <1>1 DEF Fetched
  <2>5. /\ ipc' \in [Ingests -> PCs] /\ outcome' \in [Ingests -> Results]
        /\ \A j \in Ingests : ipc'[j] \in {"look", "write"} => ipc[j] = ipc'[j] /\ j # i
    BY <1>1 DEF Fetched
  <2>7. \A j \in Ingests : j # i => flags'[j] = flags[j]
    BY <1>1 DEF Fetched
  <2>6. QED
    BY <2>3, <2>4, <2>5, <2>7
<1>2. CASE Considers(i)
  BY <1>2 DEF Considers, Drop, Quarantine
<1>3. CASE WriteMirror(i)
  <2>1. current[i] \in Items /\ current' = [current EXCEPT ![i] = <<>>]
        /\ UNCHANGED <<source, index, head, everHeld, row, repo, flags, made, looked>>
    BY <1>3 DEF WriteMirror
  <2>2. /\ wrote' \in [Ingests -> SUBSET Items] /\ todo' \in [Ingests -> SUBSET Items]
        /\ \/ ipc' = [ipc EXCEPT ![i] = "items"] /\ UNCHANGED outcome
           \/ ipc' = [ipc EXCEPT ![i] = "done"] /\ outcome' = [outcome EXCEPT ![i] = "failed"]
    BY <1>3, <2>1 DEF WriteMirror
  <2>3. mirror' \in [Mirrors -> Contents]
    BY <1>3, <2>1, WriteTyped
  <2>4. \A j \in Ingests : ipc'[j] \in {"look", "write"} => ipc[j] = ipc'[j] /\ j # i
    BY <2>2
  <2>5. /\ DOMAIN current' = Ingests
        /\ \A j \in Ingests : current'[j] = IF j = i THEN <<>> ELSE current[j]
    BY <2>1
  <2>6. ipc' \in [Ingests -> PCs] /\ outcome' \in [Ingests -> Results]
    BY <2>2
  <2>7. QED
    BY <2>1, <2>2, <2>3, <2>4, <2>5, <2>6
<1>4. CASE Finalize(i)
  BY <1>4 DEF Finalize
<1>5. CASE Stage(i)
  <2>1. index' \in [Mirrors -> Contents]
    <3>1. mirror \in [Mirrors -> Contents] /\ index \in [Mirrors -> Contents] /\ head \in [Mirrors -> Contents]
      OBVIOUS
    <3>2. \/ index' = head
          \/ index' = [p \in Mirrors |-> IF \E v \in Versions : <<p, v>> \in wrote[i]
                                         THEN mirror[p] ELSE index[p]]
      BY <1>5 DEF Stage, CommitFails
    <3> HIDE DEF Typed, PCs, Results
    <3>3. QED
      BY <3>1, <3>2
  <2>2. /\ UNCHANGED <<source, mirror, head, everHeld, row, repo, todo, current, wrote, flags, made, looked>>
        /\ \/ ipc' = [ipc EXCEPT ![i] = "commit"] /\ UNCHANGED outcome
           \/ ipc' = [ipc EXCEPT ![i] = "done"] /\ outcome' = [outcome EXCEPT ![i] = "commit_failed"]
    BY <1>5 DEF Stage, CommitFails
  <2>3. QED
    BY <2>1, <2>2
<1>6. CASE Commit(i)
  <2>1. head' \in [Mirrors -> Contents] /\ everHeld' \subseteq Mirrors \X (1 .. Unmanaged)
    BY <1>6, CommitsTyped DEF Commit, CommitFails
  <2>2. /\ UNCHANGED <<source, mirror, row, repo, todo, current, wrote, flags, looked>>
        /\ (index' = index \/ index' = head)
        /\ (made' = made \/ made' = [made EXCEPT ![i] = index # head])
        /\ \/ ipc' = [ipc EXCEPT ![i] = "rows"] /\ UNCHANGED outcome
           \/ ipc' = [ipc EXCEPT ![i] = "done"] /\ outcome' = [outcome EXCEPT ![i] = "commit_failed"]
    BY <1>6 DEF Commit, CommitFails
  <2>3. made' \in [Ingests -> BOOLEAN] /\ index' \in [Mirrors -> Contents]
    BY <2>2
  <2>4. QED
    BY <2>1, <2>2, <2>3
<1>7. CASE Rows(i)
  <2>1. row' \in [Mirrors -> Contents]
    BY <1>7, PutTyped DEF Rows
  <2>2. QED
    BY <1>7, <2>1 DEF Rows
<1>8. CASE Sweep(i)
  <2>1. index' \in [Mirrors -> Contents]
    BY <1>8 DEF Sweep, NoPage, Contents, Unmanaged
  <2>2. QED
    BY <1>8, <2>1 DEF Sweep
<1>9. CASE Fold(i)
  <2>1. head' \in [Mirrors -> Contents] /\ everHeld' \subseteq Mirrors \X (1 .. Unmanaged)
    BY <1>9, CommitsTyped DEF Fold
  <2>2. QED
    BY <1>9, <2>1 DEF Fold
<1>10. CASE Hooks(i)
  BY <1>10 DEF Hooks
<1>11. CASE Looks(i)
  <2>1. current[i][1] \in Mirrors
    BY <1>11 DEF Looks, Items
  <2>2. looked' \in [Ingests -> Contents]
    BY <1>11, <2>1 DEF Looks
  <2>3. ipc'[i] = "write" => "force" \in flags[i] \/ looked'[i] = NoPage
    BY <1>11 DEF Looks, Collides
  <2>4. \A j \in Ingests : j # i => ipc'[j] = ipc[j] /\ looked'[j] = looked[j]
    BY <1>11 DEF Looks
  <2>5. /\ ipc' \in [Ingests -> PCs] /\ outcome' \in [Ingests -> Results]
        /\ UNCHANGED <<source, mirror, index, head, everHeld, row, repo, todo, current, wrote, flags, made>>
    BY <1>11 DEF Looks
  <2>6. \A j \in Ingests : ipc'[j] \in {"look", "write"} => current'[j] \in Items
    BY <1>11, <2>4, <2>5 DEF Looks
  <2>7. \A j \in Ingests : ipc'[j] = "write" => "force" \in flags'[j] \/ looked'[j] = NoPage
    BY <2>3, <2>4, <2>5
  <2>8. QED
    BY <2>2, <2>5, <2>6, <2>7
<1>12. CASE BootstrapsRepo(i)
  <2>1. index' \in [Mirrors -> Contents] /\ repo' \in BOOLEAN
    BY <1>12 DEF BootstrapsRepo
  <2>2. head' \in [Mirrors -> Contents] /\ everHeld' \subseteq Mirrors \X (1 .. Unmanaged)
    BY <1>12, CommitsTyped DEF BootstrapsRepo
  <2>3. UNCHANGED <<source, mirror, row, todo, current, wrote, flags, made, looked>>
    BY <1>12 DEF BootstrapsRepo
  <2>4. \/ ipc' = [ipc EXCEPT ![i] = "done"] /\ outcome' = [outcome EXCEPT ![i] = "failed"]
        \/ \E pc \in {"add", "initial", "stage"} : ipc' = [ipc EXCEPT ![i] = pc] /\ UNCHANGED outcome
    BY <1>12 DEF BootstrapsRepo
  <2>5. QED
    BY <2>1, <2>2, <2>3, <2>4
<1>13. QED
  BY <1>1, <1>2, <1>3, <1>4, <1>5, <1>6, <1>7, <1>8, <1>9, <1>10, <1>11, <1>12 DEF RunStep

LEMMA TypedInductive == IngestSpec => []Typed
<1>1. IngestInit => Typed
  <2>1. NoPage \in Contents /\ 1 \in Versions
    BY IngestAssumption DEF Contents, Unmanaged, NoPage, Versions
  <2>2. SUFFICES ASSUME IngestInit PROVE Typed
    OBVIOUS
  <2>3. /\ source \in [Mirrors -> Versions] /\ mirror \in [Mirrors -> Contents]
        /\ index \in [Mirrors -> Contents] /\ head \in [Mirrors -> Contents]
        /\ row \in [Mirrors -> Contents] /\ looked \in [Ingests -> Contents]
    BY <2>1, <2>2 DEF IngestInit
  <2>4. QED
    BY <2>2, <2>3 DEF IngestInit, Typed, PCs, Results
<1>2. Typed /\ [IngestNext]_ingestVars => Typed'
  <2> SUFFICES ASSUME Typed, [IngestNext]_ingestVars PROVE Typed'
    OBVIOUS
  <2> USE IngestAssumption DEF Typed, IngestGoto, tree, locals, PCs, Results
  <2>1. ASSUME NEW i \in Ingests, StartIngest(i) PROVE Typed'
    BY <2>1 DEF StartIngest
  <2>2. ASSUME NEW i \in Ingests, RunStep(i) PROVE Typed'
    BY <2>2, RunStepTyped
  <2>3. ASSUME NEW i \in Ingests, Dies(i) PROVE Typed'
    BY <2>3 DEF Dies
  <2>4. ASSUME NEW p \in Mirrors, Publish(p) PROVE Typed'
    <3>1. source' \in [Mirrors -> Versions]
      BY <2>4 DEF Publish, Versions
    <3>2. QED
      BY <2>4, <3>1 DEF Publish
  <2>5. ASSUME NEW p \in Mirrors, ByHand(p) PROVE Typed'
    <3>0. Unmanaged \in Contents /\ NoPage \in Contents
      BY DEF Contents, Unmanaged, NoPage
    <3>1. mirror' \in [Mirrors -> Contents]
      <4> HIDE DEF Contents
      <4>1. QED
        BY <2>5, <3>0 DEF ByHand
    <3>2. QED
      BY <2>5, <3>1 DEF ByHand
  <2>6. CASE UNCHANGED ingestVars
    BY <2>6 DEF ingestVars
  <2>7. QED
    BY <2>1, <2>2, <2>3, <2>4, <2>5, <2>6 DEF IngestNext
<1>3. QED
  BY <1>1, <1>2, PTL DEF IngestSpec

\* Every value is one the program can hold, whatever runs at once.
THEOREM IngestTypesHold == IngestSpec => []IngestTypeOK
<1>1. Typed => IngestTypeOK
  BY DEF Typed, IngestTypeOK, Contents
<1>2. QED
  BY <1>1, TypedInductive, PTL

\* One step replaces a mirror's content only in a run that is writing it, forced
\* or after it saw nothing there.
ReplacedByForce ==
    \A p \in Mirrors :
       mirror[p] # NoPage /\ mirror'[p] \notin {mirror[p], NoPage} =>
          \E i \in Ingests : /\ ipc[i] = "write" /\ current[i][1] = p
                             /\ "force" \in flags[i] \/ looked[i] = NoPage

LEMMA OnlyForceReplaces == ASSUME Typed, [IngestNext]_ingestVars PROVE ReplacedByForce
<1>1. ASSUME NEW i \in Ingests, WriteMirror(i) PROVE ReplacedByForce
  <2>1. \A p \in Mirrors : p # current[i][1] => mirror'[p] = mirror[p]
    BY <1>1, WriteTyped
  <2>2. ipc[i] = "write" /\ ("force" \in flags[i] \/ looked[i] = NoPage)
    BY <1>1 DEF WriteMirror, Typed
  <2>3. QED
    BY <2>1, <2>2 DEF ReplacedByForce
<1>2. ASSUME NEW p \in Mirrors, ByHand(p) PROVE ReplacedByForce
  BY <1>2 DEF ByHand, Typed, ReplacedByForce
<1>3. ASSUME ~\E i \in Ingests : WriteMirror(i), ~\E p \in Mirrors : ByHand(p) PROVE mirror' = mirror
  BY <1>3 DEF IngestNext, RunStep, StartIngest, Dies, Publish, Fetched, Considers, Looks, BootstrapsRepo, Finalize, Stage,
     CommitFails, Commit, Rows, Sweep, Fold, Hooks, tree, ingestVars
<1>4. QED
  BY <1>1, <1>2, <1>3 DEF ReplacedByForce

\* Without --force no run changes a file that was there when it looked for the last
\* time, whatever other runs and hands do between its two looks and its write
\* (write_mirror, _process_item).
THEOREM UnforcedKeepsMirrors == IngestSpec => KeptUnlessForced
<1>1. Typed /\ [IngestNext]_ingestVars => [ReplacedByForce]_ingestVars
  BY OnlyForceReplaces
<1>2. QED
  BY <1>1, TypedInductive, PTL DEF IngestSpec, KeptUnlessForced, ReplacedByForce
=============================================================================
