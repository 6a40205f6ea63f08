------------------------------ MODULE TurnProofs ------------------------------
(* Theorems about a wiki's orchestrator for any evidence, attempts, turns,     *)
(* authors, slugs, linters and pages.                                          *)
EXTENDS MCTurn, TLAPS

-------------------------------------------------------------------------------
(* The retry queue: what the proofs add to the properties *)

InHand == pc \in {"enrich", "apply", "reenrich", "reapply"}

\* A drain has visited what is not in the walk; elsewhere there is no walk.
Walks ==
    /\ pc # "drain" => walk = <<>>
    /\ InHand => current \in Evidence /\ fate[current] = "open"

\* Only what failed without a commit is open, and it was replayed in every turn
\* since its own: in this one, unless the drain has yet to visit it.
Ages ==
    \A i \in DOMAIN queue :
        /\ queue[i].turn <= turn
        /\ queue[i].attempts = turn - queue[i].turn - (IF i <= Len(walk) THEN 1 ELSE 0)
Clean == \A e \in Evidence :
    /\ commits[e] <= 1
    /\ fate[e] \in {"new", "open"} => commits[e] = 0

\* Who was told that evidence was deferred was told once it was.
Lines ==
    /\ \A e \in Evidence : "deferred" \in told[e] => fate[e] = "deferred"
    /\ \A e \in Range(deferring) \cup Range(lastDeferred) : fate[e] = "deferred"
    /\ pc = "drain" => \A e \in Range(deferring) : "deferred" \notin told[e]
    /\ pc \notin {"idle", "drain"} => \A e \in Range(lastDeferred) : "deferred" \notin told[e]

QueueInv == TypeOK /\ Walks /\ WalkIsHead /\ Conserved /\ Ages /\ Clean /\ Lines

-------------------------------------------------------------------------------
(* Filing *)

\* Until its run ends an author has committed nothing in it and been told nothing.
Counted == \A a \in F!Authors :
    /\ fpc[a] # "done" => landed[a] = earlier[a].landed /\ fileReceipt[a] = "open"
    /\ fpc[a] \in {"start", "exists", "sha"} => tries[a] = 0
    /\ fpc[a] = "apply" => tries[a] < 3
    /\ earlier[a].receipt = "filed" => earlier[a].landed > 0

FilingInv == F!FilingTypeOK /\ F!ReceiptTruthful /\ Counted

-------------------------------------------------------------------------------
(* Lint *)

Mechanical(f) == f.safe <=> f.category # "missing_required_section"

\* What a run holds: the pass's findings, whose safety is their category's; the
\* report, with findings beside them; a plan that cites one of the report.
Reported(l) ==
    /\ \A f \in shell[l] : Mechanical(f)
    /\ lpc[l] \in {"agent", "translate", "apply", "write"} =>
          /\ shell[l] \subseteq merged[l]
          /\ \A m \in merged[l] : m \in shell[l] \/ \A g \in shell[l] : ~L!SameKey(m, g)
\* What validate_plan lets an operation name.
WellFormed(op) ==
    /\ op.kind = "create_stub" => op.page \in WikiPages
    /\ op.kind = "append_evidence" =>
          op.page \in WikiPages /\ op.target \in WikiPages /\ op.saw \in L!Contents
    /\ op.kind = "append_link" => op.target \in WikiPages
Planned(l) ==
    lpc[l] \in {"translate", "apply"} =>
        /\ repair[l] \in L!Repairs /\ WellFormed(repair[l])
        /\ repair[l].cites \in L!Filtered(l) /\ repair[l].cites.safe

\* What is left of a page that is extended, and the line an operation adds to the index.
Grows(c, d, kind) ==
    /\ d \in L!Contents /\ c.links \subseteq d.links /\ c.mentions \subseteq d.mentions
    /\ d.type # c.type => kind = "append_link"
LineOf(e, op) == e.by = op.kind /\ (op.kind = "update_index" => e.page = op.page)

\* The new content is made from the old.
Made(l) ==
    lpc[l] = "apply" =>
        \/ /\ repair[l].kind = "create_stub" /\ repair[l].page \in WikiPages
           /\ translated[l].old = Nothing /\ translated[l].new = L!Stub
        \/ /\ L!OnIndex(repair[l])
           /\ \E e \in L!Entries : LineOf(e, repair[l])
                                    /\ translated[l].new = Append(translated[l].old, e)
        \/ /\ repair[l].kind \in {"append_link", "append_evidence"} /\ ~L!OnIndex(repair[l])
           /\ repair[l].page \in WikiPages /\ translated[l].old \in L!Contents
           /\ Grows(translated[l].old, translated[l].new, repair[l].kind)

\* An index entry is planned only for a page without one.
Unlisted(l) ==
    (\A m, other \in Linters : m = other) /\ lpc[l] \in {"translate", "apply"} =>
        (repair[l].kind = "update_index" => ~L!Listed(repair[l].page))

LintInv ==
    /\ L!LintTypeOK /\ L!ListedOnce
    /\ translated = [l \in Linters |-> translated[l]]
    /\ \A l \in Linters : Reported(l) /\ Planned(l) /\ Made(l) /\ Unlisted(l)

TurnInv == QueueInv /\ FilingInv /\ LintInv

-------------------------------------------------------------------------------
(* Lemmas about the queue as a sequence *)

\* Removing the first item equal to the head leaves the tail.
LEMMA FirstGoes ==
    ASSUME NEW S, NEW s \in Seq(S), s # <<>> PROVE RemoveFirst(s, Head(s)) = Tail(s)
<1> DEFINE I == {i \in 1 .. Len(s) : s[i] = Head(s)}
<1>1. Len(s) \in Nat /\ Len(s) > 0 /\ 1 \in I /\ I \subseteq Nat /\ \A y \in I : 1 <= y
  OBVIOUS
<1>2. Min(I) = 1
  <2>1. \A x \in I : (\A y \in I : x <= y) => x = 1
    BY <1>1
  <2> HIDE DEF I
  <2>2. QED
    BY <1>1, <2>1 DEF Min
<1>3. SelectInSeq(s, LAMBDA v : v = Head(s)) = 1
  BY <1>1, <1>2 DEF SelectInSeq
<1>4. RemoveFirst(s, Head(s)) = RemoveAt(s, 1)
  BY <1>1, <1>3 DEF RemoveFirst
<1>5. RemoveAt(s, 1) = SubSeq(s, 1, 0) \o SubSeq(s, 2, Len(s))
  BY DEF RemoveAt
<1>6. SubSeq(s, 1, 0) = <<>> /\ SubSeq(s, 2, Len(s)) \in Seq(S) /\ SubSeq(s, 2, Len(s)) = Tail(s)
  BY <1>1
<1>7. QED
  BY <1>4, <1>5, <1>6

LEMMA PrefixIs ==
    ASSUME NEW S, NEW s \in Seq(S), NEW t \in Seq(S)
    PROVE  IsPrefix(s, t) <=> Len(s) <= Len(t) /\ \A i \in 1 .. Len(s) : s[i] = t[i]
<1>1. ASSUME Len(s) <= Len(t), SubSeq(s, 1, Len(s)) = SubSeq(t, 1, Len(s)), NEW i \in 1 .. Len(s)
      PROVE  s[i] = t[i]
  BY <1>1
<1>2. ASSUME Len(s) <= Len(t), \A i \in 1 .. Len(s) : s[i] = t[i]
      PROVE  SubSeq(s, 1, Len(s)) = SubSeq(t, 1, Len(s))
  BY <1>2
<1>3. QED
  BY <1>1, <1>2 DEF IsPrefix

\* What a drain that visits an item has in hand.
Visit ==
    /\ Len(queue) \in Nat /\ Len(walk) \in Nat /\ 1 <= Len(walk) /\ Len(walk) <= Len(queue)
    /\ \A i \in 1 .. Len(walk) : walk[i] = queue[i]
    /\ Head(walk) = queue[1] /\ queue[1] \in Item
    /\ RemoveFirst(queue, Head(walk)) = Tail(queue)
    /\ fate[queue[1].evidence] = "open"
    /\ queue[1].attempts + 1 = turn - queue[1].turn /\ queue[1].turn <= turn

LEMMA VisitHolds == ASSUME QueueInv, Visiting PROVE Visit
<1> USE DEF QueueInv, TypeOK
<1>1. Len(queue) \in Nat /\ Len(walk) \in Nat /\ 1 <= Len(walk)
  BY DEF Visiting
<1>2. Len(walk) <= Len(queue) /\ \A i \in 1 .. Len(walk) : walk[i] = queue[i]
  BY PrefixIs DEF Visiting, WalkIsHead
<1>3. Head(walk) = queue[1] /\ queue # <<>> /\ Head(queue) = queue[1] /\ 1 \in DOMAIN queue /\ queue[1] \in Item
  BY <1>1, <1>2
<1>4. RemoveFirst(queue, Head(walk)) = Tail(queue)
  BY <1>3, FirstGoes
<1>5. queue[1].evidence \in Queued /\ queue[1].evidence \in Evidence
  BY <1>3 DEF Queued, Item
<1>6. fate[queue[1].evidence] = "open"
  BY <1>5 DEF Conserved
<1>7. queue[1].attempts + 1 = turn - queue[1].turn /\ queue[1].turn <= turn
  <2>1. queue[1].attempts = turn - queue[1].turn - 1 /\ queue[1].turn <= turn
    BY <1>1, <1>3 DEF Ages
  <2>2. queue[1].attempts \in Int /\ queue[1].turn \in Int /\ turn \in Int
    BY <1>3, QueueAssumption DEF Item, Attempts
  <2>3. QED
    BY <2>1, <2>2
<1>8. QED
  BY <1>1, <1>2, <1>3, <1>4, <1>6, <1>7 DEF Visit

-------------------------------------------------------------------------------
(* Steps of a drain *)

\* The visited item is gone from both sequences.
Shrinks == queue' = Tail(queue) /\ walk' = Tail(walk)

LEMMA ShrinkIs ==
    ASSUME QueueInv, Visit, queue' = Tail(queue)
    PROVE  /\ queue' \in Seq(Item) /\ Len(queue') = Len(queue) - 1 /\ DOMAIN queue' = 1 .. Len(queue) - 1
           /\ \A i \in DOMAIN queue' : i + 1 \in DOMAIN queue /\ queue'[i] = queue[i + 1]
           /\ \A e \in Evidence : e \in Queued' <=> e \in Queued /\ e # queue[1].evidence
<1>1. /\ queue' \in Seq(Item) /\ Len(queue') = Len(queue) - 1 /\ DOMAIN queue' = 1 .. Len(queue) - 1
      /\ \A i \in DOMAIN queue' : i + 1 \in DOMAIN queue /\ queue'[i] = queue[i + 1]
  BY DEF QueueInv, TypeOK, Visit
<1>2. ASSUME NEW i \in DOMAIN queue, i # 1 PROVE i - 1 \in DOMAIN queue' /\ queue'[i - 1] = queue[i]
  <2>1. DOMAIN queue = 1 .. Len(queue) /\ Len(queue) \in Nat
    BY DEF QueueInv, TypeOK, Visit
  <2>2. i \in Int /\ i - 1 \in 1 .. Len(queue) - 1 /\ (i - 1) + 1 = i
    BY <1>2, <2>1
  <2>3. QED
    BY <1>1, <2>2
<1>3. ASSUME NEW e \in Evidence PROVE e \in Queued' <=> e \in Queued /\ e # queue[1].evidence
  <2>1. ASSUME e \in Queued' PROVE e \in Queued /\ e # queue[1].evidence
    <3>1. PICK i \in DOMAIN queue' : queue'[i].evidence = e
      BY <2>1 DEF Queued
    <3>2. i + 1 \in DOMAIN queue /\ queue[i + 1].evidence = e /\ 1 \in DOMAIN queue /\ i + 1 # 1
      BY <1>1, <3>1 DEF QueueInv, TypeOK, Visit
    <3>3. QED
      BY <3>2 DEF Queued, QueueInv, Conserved
  <2>2. ASSUME e \in Queued, e # queue[1].evidence PROVE e \in Queued'
    <3>1. PICK i \in DOMAIN queue : queue[i].evidence = e
      BY <2>2 DEF Queued
    <3>2. i # 1
      BY <2>2, <3>1
    <3>3. i - 1 \in DOMAIN queue' /\ queue'[i - 1].evidence = e
      BY <1>2, <3>1, <3>2
    <3>4. QED
      BY <3>3 DEF Queued
  <2>3. QED
    BY <2>1, <2>2
<1>4. QED
  BY <1>1, <1>3

\* The item is disposed of: settled, or deferred with a line.
Disposes ==
    LET e == queue[1].evidence IN
    /\ Shrinks
    /\ \/ fate' = [fate EXCEPT ![e] = "settled"] /\ deferring' = deferring
       \/ fate' = [fate EXCEPT ![e] = "deferred"] /\ deferring' = Append(deferring, e)
    /\ commits' = commits \/ commits' = [commits EXCEPT ![e] = @ + 1]
    /\ UNCHANGED <<lastDeferred, turn, pc, current, receipt, told>>

LEMMA DisposeStep == ASSUME QueueInv, Visiting, Disposes PROVE QueueInv'
<1> DEFINE e == queue[1].evidence
<1>v. Visit
  BY VisitHolds
<1>s. /\ queue' \in Seq(Item) /\ Len(queue') = Len(queue) - 1 /\ DOMAIN queue' = 1 .. Len(queue) - 1
      /\ \A i \in DOMAIN queue' : i + 1 \in DOMAIN queue /\ queue'[i] = queue[i + 1]
      /\ \A x \in Evidence : x \in Queued' <=> x \in Queued /\ x # e
  BY <1>v, ShrinkIs DEF Disposes, Shrinks
<1>e. e \in Evidence /\ fate[e] = "open" /\ pc = "drain" /\ pc' = "drain"
  BY <1>v DEF Visit, Item, Visiting, Disposes
<1>w. walk' \in Seq(Item) /\ Len(walk') = Len(walk) - 1 /\ \A i \in 1 .. Len(walk') : walk'[i] = walk[i + 1]
  BY DEF QueueInv, TypeOK, Visiting, Disposes, Shrinks
<1>f. /\ fate' \in [Evidence -> Fates] /\ commits' \in [Evidence -> Nat]
      /\ \A x \in Evidence : x # e => fate'[x] = fate[x] /\ commits'[x] = commits[x]
      /\ fate'[e] \in {"settled", "deferred"} /\ commits'[e] \in {commits[e], commits[e] + 1}
  <2>1. fate \in [Evidence -> Fates] /\ commits \in [Evidence -> Nat] /\ e \in Evidence
    BY <1>e DEF QueueInv, TypeOK
  <2> HIDE DEF e
  <2>2. /\ fate' = [fate EXCEPT ![e] = "settled"] \/ fate' = [fate EXCEPT ![e] = "deferred"]
        /\ commits' = commits \/ commits' = [commits EXCEPT ![e] = @ + 1]
    BY DEF Disposes, e
  <2>3. QED
    BY <2>1, <2>2 DEF Fates
<1>d. /\ deferring' \in Seq(Evidence) /\ Range(deferring') \subseteq Range(deferring) \cup {e}
      /\ e \in Range(deferring') => fate'[e] = "deferred"
  <2>1. deferring \in Seq(Evidence) /\ e \notin Range(deferring) /\ fate'[e] \in {"settled", "deferred"}
    BY <1>e, <1>f DEF QueueInv, TypeOK, Lines
  <2>2. CASE deferring' = deferring
    BY <2>1, <2>2
  <2>3. CASE deferring' = Append(deferring, e) /\ fate' = [fate EXCEPT ![e] = "deferred"]
    <3>1. fate'[e] = "deferred"
      BY <1>e, <2>3 DEF QueueInv, TypeOK
    <3>2. QED
      BY <1>e, <2>1, <2>3, <3>1 DEF Range
  <2>4. QED
    BY <2>2, <2>3 DEF Disposes
<1> HIDE DEF e
<1>1. TypeOK'
  BY <1>s, <1>w, <1>f, <1>d DEF QueueInv, TypeOK, Disposes
<1>2. Walks'
  BY <1>e DEF Walks, InHand
<1>3. WalkIsHead'
  <2>1. Len(walk') <= Len(queue') /\ \A i \in 1 .. Len(walk') : walk'[i] = queue'[i]
    <3>1. Len(walk') <= Len(queue')
      BY <1>v, <1>s, <1>w DEF Visit
    <3>2. ASSUME NEW i \in 1 .. Len(walk') PROVE walk'[i] = queue'[i]
      <4>1. i + 1 \in 1 .. Len(walk) /\ i \in 1 .. Len(queue) - 1
        BY <1>v, <1>w DEF Visit
      <4>2. walk'[i] = walk[i + 1] /\ walk[i + 1] = queue[i + 1]
        BY <1>v, <1>w, <4>1 DEF Visit
      <4>3. QED
        BY <1>s, <4>1, <4>2
    <3>3. QED
      BY <3>1, <3>2
  <2>2. QED
    BY <1>s, <1>w, <2>1, PrefixIs DEF WalkIsHead
<1>4. Conserved'
  <2>1. ASSUME NEW i \in DOMAIN queue', NEW j \in DOMAIN queue', queue'[i].evidence = queue'[j].evidence PROVE i = j
    <3>1. i + 1 = j + 1
      BY <1>s, <2>1 DEF QueueInv, Conserved
    <3>2. i \in Int /\ j \in Int
      BY <1>s, <1>v DEF Visit
    <3>3. QED
      BY <3>1, <3>2
  <2>2. ASSUME NEW x \in Evidence
        PROVE  x \in Queued' <=> fate'[x] = "open" /\ ~(x = current' /\ pc' \in {"enrich", "apply", "reenrich", "reapply"})
    BY <1>s, <1>e, <1>f DEF QueueInv, Conserved
  <2>3. QED
    BY <2>1, <2>2 DEF Conserved
<1>5. Ages'
  <2>1. ASSUME NEW i \in DOMAIN queue'
        PROVE  queue'[i].turn <= turn'
               /\ queue'[i].attempts = turn' - queue'[i].turn - (IF i <= Len(walk') THEN 1 ELSE 0)
    <3>1. i <= Len(walk') <=> i + 1 <= Len(walk)
      BY <1>s, <1>v, <1>w DEF Visit
    <3>2. QED
      BY <1>s, <3>1 DEF QueueInv, Ages, Disposes
  <2>2. QED
    BY <2>1 DEF Ages
<1>6. Clean'
  <2>1. ASSUME NEW x \in Evidence PROVE commits'[x] <= 1 /\ (fate'[x] \in {"new", "open"} => commits'[x] = 0)
    <3>1. CASE x = e
      <4>1. commits[e] = 0
        BY <1>e DEF QueueInv, Clean
      <4>2. QED
        BY <1>f, <3>1, <4>1
    <3>2. CASE x # e
      BY <1>f, <3>2 DEF QueueInv, Clean
    <3>3. QED
      BY <3>1, <3>2
  <2>2. QED
    BY <2>1 DEF Clean
<1>7. Lines'
  <2>1. "deferred" \notin told[e] /\ e \notin Range(lastDeferred)
    BY <1>e DEF QueueInv, Lines
  <2>2. \A x \in Range(deferring') \cup Range(lastDeferred) : x \in Evidence
    BY <1>d DEF QueueInv, TypeOK, Range
  <2>3. told' = told /\ lastDeferred' = lastDeferred
    BY DEF Disposes
  <2>4. \A x \in Evidence : "deferred" \in told'[x] => fate'[x] = "deferred"
    BY <1>f, <2>1, <2>3 DEF QueueInv, Lines
  <2>5. \A x \in Range(deferring') \cup Range(lastDeferred') : fate'[x] = "deferred"
    BY <1>f, <1>d, <2>1, <2>2, <2>3 DEF QueueInv, Lines
  <2>6. \A x \in Range(deferring') : "deferred" \notin told'[x]
    BY <1>d, <1>e, <2>1, <2>3 DEF QueueInv, Lines
  <2>7. QED
    BY <1>e, <2>4, <2>5, <2>6 DEF Lines
<1>8. QED
  BY <1>1, <1>2, <1>3, <1>4, <1>5, <1>6, <1>7 DEF QueueInv

\* The item goes to the tail with one attempt more.
Requeues ==
    /\ queue' = Append(Tail(queue), Requeued(queue[1])) /\ walk' = Tail(walk) /\ ~AtBound(queue[1])
    /\ UNCHANGED <<deferring, lastDeferred, turn, pc, current, receipt, told, commits, fate>>

LEMMA RequeueStep == ASSUME QueueInv, Visiting, Requeues PROVE QueueInv'
<1> DEFINE r == Requeued(queue[1])
<1>v. Visit
  BY VisitHolds
<1>r. r \in Item /\ r.evidence = queue[1].evidence /\ r.turn = queue[1].turn /\ r.attempts = queue[1].attempts + 1
  BY <1>v, QueueAssumption DEF Requeues, Requeued, AtBound, Item, Attempts, Visit
<1> HIDE DEF r
<1>s. /\ queue' \in Seq(Item) /\ Len(queue') = Len(queue) /\ DOMAIN queue' = 1 .. Len(queue) /\ DOMAIN queue = 1 .. Len(queue)
      /\ \A i \in 1 .. Len(queue) - 1 : queue'[i] = queue[i + 1]
      /\ queue'[Len(queue)] = r
  BY <1>v, <1>r DEF QueueInv, TypeOK, Visit, Requeues, r
<1>w. walk' \in Seq(Item) /\ Len(walk') = Len(walk) - 1 /\ \A i \in 1 .. Len(walk') : walk'[i] = walk[i + 1]
  BY DEF QueueInv, TypeOK, Visiting, Requeues
<1>p. pc = "drain" /\ UNCHANGED <<deferring, lastDeferred, turn, pc, current, receipt, told, commits, fate>>
  BY DEF Visiting, Requeues
<1>1. TypeOK'
  BY <1>s, <1>w, <1>p DEF QueueInv, TypeOK
<1>2. Walks'
  BY <1>p DEF Walks, InHand
<1>3. WalkIsHead'
  <2>1. Len(walk') <= Len(queue') /\ \A i \in 1 .. Len(walk') : walk'[i] = queue'[i]
    BY <1>v, <1>s, <1>w DEF Visit
  <2>2. QED
    BY <1>s, <1>w, <2>1, PrefixIs DEF WalkIsHead
<1>4. Conserved'
  <2> DEFINE from(i) == IF i = Len(queue) THEN 1 ELSE i + 1
  <2>1. \A i \in DOMAIN queue' : from(i) \in DOMAIN queue /\ queue'[i].evidence = queue[from(i)].evidence
    BY <1>v, <1>s, <1>r DEF Visit
  <2>2. \A i \in DOMAIN queue', j \in DOMAIN queue' : from(i) = from(j) => i = j
    BY <1>v, <1>s DEF Visit
  <2>3. \A i \in DOMAIN queue : \E j \in DOMAIN queue' : from(j) = i
    <3>1. ASSUME NEW i \in DOMAIN queue PROVE \E j \in DOMAIN queue' : from(j) = i
      <4>1. CASE i = 1
        <5>1. Len(queue) \in DOMAIN queue' /\ from(Len(queue)) = 1
          BY <1>v, <1>s DEF Visit
        <5>2. QED
          BY <4>1, <5>1
      <4>2. CASE i # 1
        <5>1. i - 1 \in DOMAIN queue' /\ from(i - 1) = i
          BY <1>v, <1>s, <4>2 DEF Visit
        <5>2. QED
          BY <5>1
      <4>3. QED
        BY <4>1, <4>2
    <3>2. QED
      BY <3>1
  <2> HIDE DEF from
  <2>4. ASSUME NEW x PROVE x \in Queued' <=> x \in Queued
    BY <2>1, <2>3 DEF Queued
  <2>5. \A i, j \in DOMAIN queue' : queue'[i].evidence = queue'[j].evidence => i = j
    BY <2>1, <2>2 DEF QueueInv, Conserved
  <2>6. QED
    BY <1>p, <2>4, <2>5 DEF QueueInv, Conserved
<1>5. Ages'
  <2>1. ASSUME NEW i \in 1 .. Len(queue) - 1
        PROVE  queue'[i].turn <= turn'
               /\ queue'[i].attempts = turn' - queue'[i].turn - (IF i <= Len(walk') THEN 1 ELSE 0)
    <3>1. (i <= Len(walk') <=> i + 1 <= Len(walk)) /\ i + 1 \in DOMAIN queue
      BY <1>s, <1>v, <1>w DEF Visit
    <3>2. QED
      BY <1>s, <1>p, <3>1 DEF QueueInv, Ages
  <2>2. r.turn <= turn /\ r.attempts = turn - r.turn - 0
    <3>1. r.attempts \in Int /\ r.turn \in Int /\ turn \in Int
      <4>1. r.attempts \in 0 .. MaxAttempts - 1 /\ r.turn \in 0 .. MaxTurns
        BY <1>r DEF Item, Attempts
      <4>2. turn \in 0 .. MaxTurns
        BY DEF QueueInv, TypeOK
      <4>3. QED
        BY <4>1, <4>2, QueueAssumption
    <3>2. r.attempts = turn - r.turn /\ r.turn <= turn
      BY <1>r, <1>v DEF Visit
    <3>3. QED
      BY <3>1, <3>2
  <2>3. ~(Len(queue) <= Len(walk'))
    BY <1>v, <1>w DEF Visit
  <2>4. \A i \in DOMAIN queue' : i \in 1 .. Len(queue) - 1 \/ i = Len(queue)
    BY <1>s, <1>v DEF Visit
  <2>5. QED
    BY <1>s, <1>p, <2>1, <2>2, <2>3, <2>4 DEF Ages
<1>6. Clean' /\ Lines'
  BY <1>p DEF QueueInv, Clean, Lines
<1>7. QED
  BY <1>1, <1>2, <1>3, <1>4, <1>5, <1>6 DEF QueueInv

\* A transient failure has committed nothing; an outcome commits once or not.
LEMMA LandsIs ==
    ASSUME NEW e \in Evidence, NEW outcome \in Outcomes, commits \in [Evidence -> Nat], Lands(e, outcome)
    PROVE  /\ commits' = commits \/ commits' = [commits EXCEPT ![e] = @ + 1]
           /\ outcome \in Transient => commits' = commits
BY DEF Lands, Transient

LEMMA DrainStep == ASSUME QueueInv, Visiting, DrainSettles \/ DrainDefers \/ DrainRetries PROVE QueueInv'
<1> DEFINE e == queue[1].evidence
<1>1. /\ Visit /\ Head(walk) = queue[1] /\ e \in Evidence /\ commits \in [Evidence -> Nat]
      /\ RemoveFirst(queue, Head(walk)) = Tail(queue)
  BY VisitHolds DEF Visit, Item, QueueInv, TypeOK
<1>t. Transient \subseteq Outcomes /\ "applied" \in Outcomes
  BY DEF Transient, Outcomes
<1>2. CASE DrainSettles
  <2>1. Shrinks /\ fate' = [fate EXCEPT ![e] = "settled"] /\ UNCHANGED <<deferring, lastDeferred, turn, pc, current, receipt, told>>
    BY <1>1, <1>2 DEF DrainSettles, Leaves, Shrinks, Becomes
  <2>2. commits' = commits \/ commits' = [commits EXCEPT ![e] = @ + 1]
    <3>1. Lands(e, "applied") \/ commits' = commits
      BY <1>1, <1>2 DEF DrainSettles
    <3>2. QED
      BY <1>1, <1>t, <3>1, LandsIs
  <2>3. QED
    BY <2>1, <2>2, DisposeStep DEF Disposes
<1>3. CASE DrainDefers
  <2>1. /\ Shrinks /\ deferring' = Append(deferring, e) /\ fate' = [fate EXCEPT ![e] = "deferred"]
        /\ UNCHANGED <<lastDeferred, turn, pc, current, receipt, told>>
    BY <1>1, <1>3 DEF DrainDefers, Leaves, Shrinks, Becomes, Defers
  <2>2. commits' = commits \/ commits' = [commits EXCEPT ![e] = @ + 1]
    <3>1. (\E outcome \in Outcomes : Lands(e, outcome)) \/ commits' = commits
      BY <1>1, <1>3 DEF DrainDefers
    <3>2. QED
      BY <1>1, <3>1, LandsIs
  <2>3. QED
    BY <2>1, <2>2, DisposeStep DEF Disposes
<1>4. CASE DrainRetries
  <2>1. commits' = commits
    <3>1. \E outcome \in Transient : Lands(e, outcome)
      BY <1>1, <1>4 DEF DrainRetries
    <3>2. QED
      BY <1>1, <1>t, <3>1, LandsIs
  <2>2. UNCHANGED <<lastDeferred, turn, pc, current, receipt, told>>
    BY <1>4 DEF DrainRetries
  <2>3. CASE AtBound(queue[1])
    <3>1. Shrinks /\ deferring' = Append(deferring, e) /\ fate' = [fate EXCEPT ![e] = "deferred"]
      BY <1>1, <1>4, <2>3 DEF DrainRetries, Leaves, Shrinks, Becomes, Defers
    <3>2. QED
      BY <2>1, <2>2, <3>1, DisposeStep DEF Disposes
  <2>4. CASE ~AtBound(queue[1])
    <3>1. queue' = Append(Tail(queue), Requeued(queue[1])) /\ walk' = Tail(walk) /\ UNCHANGED <<deferring, fate>>
      BY <1>1, <1>4, <2>4 DEF DrainRetries
    <3>2. QED
      BY <2>1, <2>2, <2>4, <3>1, RequeueStep DEF Requeues
  <2>5. QED
    BY <2>3, <2>4
<1>5. QED
  BY <1>2, <1>3, <1>4

-------------------------------------------------------------------------------
(* The other steps of a turn *)

LEMMA TurnBegins == ASSUME QueueInv, StartTurn PROVE QueueInv'
<1> USE DEF QueueInv, StartTurn
<1>0. /\ turn \in Nat /\ turn' = turn + 1 /\ turn' \in 0 .. MaxTurns /\ walk = <<>>
      /\ queue' = queue /\ walk' = queue /\ queue \in Seq(Item) /\ pc = "idle" /\ pc' = "drain"
  BY QueueAssumption DEF TypeOK, Walks
<1>1. TypeOK'
  BY <1>0 DEF TypeOK, States, Receipts, worldVars
<1>2. Walks'
  BY DEF Walks, InHand
<1>3. WalkIsHead'
  BY <1>0, PrefixIs DEF WalkIsHead
<1>4. Conserved'
  BY <1>0 DEF Conserved, Queued, worldVars
<1>5. Ages'
  <2>1. ASSUME NEW i \in DOMAIN queue
        PROVE  queue[i].turn <= turn' /\ queue[i].attempts = turn' - queue[i].turn - 1 /\ i <= Len(queue)
    <3>1. queue[i] \in Item /\ i <= Len(queue) /\ ~(i <= Len(walk))
      BY <1>0
    <3>2. queue[i].turn \in Nat /\ queue[i].turn <= turn /\ queue[i].attempts = turn - queue[i].turn
      BY <1>0, <3>1, QueueAssumption DEF Ages, Item
    <3>3. QED
      BY <1>0, <3>1, <3>2
  <2>2. QED
    BY <1>0, <2>1 DEF Ages
<1>6. Clean'
  BY DEF Clean, worldVars
<1>7. Lines'
  BY DEF Lines, worldVars, Range
<1>8. QED
  BY <1>1, <1>2, <1>3, <1>4, <1>5, <1>6, <1>7

LEMMA DrainEnds == ASSUME QueueInv, EndDrain PROVE QueueInv'
<1> USE DEF QueueInv, EndDrain, worldVars
<1>1. TypeOK'
  BY DEF TypeOK, States
<1>2. Walks' /\ WalkIsHead'
  BY DEF Walks, WalkIsHead, InHand
<1>3. Conserved' /\ Ages' /\ Clean'
  BY DEF Conserved, Queued, Ages, Clean
<1>4. Lines'
  BY DEF Lines
<1>5. QED
  BY <1>1, <1>2, <1>3, <1>4

\* Steps that only move on, with what is in hand or without.
LEMMA MovesOn ==
    ASSUME QueueInv, AgentFails \/ AgentAnswers \/ NoSignal \/ EnricherPlans \/ ConflictRetry PROVE QueueInv'
<1>1. /\ UNCHANGED <<queue, walk, deferring, lastDeferred, turn, current, receipt, told, commits, fate>>
      /\ pc \notin {"drain", "idle"} /\ pc' \in States /\ pc' # "drain" /\ (InHand <=> InHand')
  BY DEF AgentFails, AgentAnswers, NoSignal, EnricherPlans, ConflictRetry, Goto, queueVars, worldVars, States, InHand
<1> USE DEF QueueInv
<1>2. TypeOK'
  BY <1>1 DEF TypeOK
<1>3. Walks' /\ WalkIsHead'
  BY <1>1 DEF Walks, WalkIsHead
<1>4. Conserved'
  BY <1>1 DEF Conserved, Queued, InHand
<1>5. Ages' /\ Clean' /\ Lines'
  BY <1>1 DEF Ages, Clean, Lines
<1>6. QED
  BY <1>2, <1>3, <1>4, <1>5

LEMMA SignalStep == ASSUME QueueInv, NEW e \in Evidence, Signal(e) PROVE QueueInv'
<1>1. /\ UNCHANGED <<queue, walk, deferring, lastDeferred, turn, receipt, told, commits>>
      /\ pc = "signal" /\ pc' = "enrich" /\ fate[e] = "new" /\ current' = e /\ fate' = [fate EXCEPT ![e] = "open"]
  BY DEF Signal, Goto, Becomes, queueVars
<1> USE DEF QueueInv
<1>2. TypeOK'
  BY <1>1 DEF TypeOK, States, Fates
<1>f. fate'[e] = "open" /\ \A x \in Evidence : x # e => fate'[x] = fate[x]
  BY <1>1 DEF TypeOK
<1>3. Walks' /\ WalkIsHead'
  BY <1>1, <1>f DEF Walks, WalkIsHead
<1>4. Conserved'
  BY <1>1, <1>f DEF Conserved, Queued
<1>5. Ages' /\ Clean'
  BY <1>1, <1>f DEF Ages, Clean
<1>6. Lines'
  <2>1. \A x \in Range(deferring) \cup Range(lastDeferred) : x \in Evidence
    BY DEF TypeOK, Range
  <2>2. QED
    BY <1>1, <1>f, <2>1 DEF Lines
<1>7. QED
  BY <1>2, <1>3, <1>4, <1>5, <1>6

\* The evidence in hand gets its verdict.
LEMMA VerdictStep ==
    ASSUME QueueInv, EnricherNoop \/ EnricherCrashes \/ Applied \/ PersistenceFails PROVE QueueInv'
<1> USE DEF QueueInv
<1>1. /\ UNCHANGED <<queue, walk, deferring, lastDeferred, turn, current, told>> /\ InHand /\ pc' = "show"
      /\ receipt' \in Receipts
      /\ \E f \in {"settled", "crashed"} : fate' = [fate EXCEPT ![current] = f]
      /\ commits' = commits \/ \E outcome \in Outcomes : Lands(current, outcome)
  BY DEF EnricherNoop, EnricherCrashes, Applied, PersistenceFails, Ends, Becomes, Goto, Escapes, queueVars, InHand,
     Receipts, Outcomes
<1>2. current \in Evidence /\ fate[current] = "open" /\ commits \in [Evidence -> Nat]
  BY <1>1 DEF Walks, TypeOK
<1>3. commits' = commits \/ commits' = [commits EXCEPT ![current] = @ + 1]
  BY <1>1, <1>2, LandsIs
<1>f. /\ fate'[current] \in {"settled", "crashed"} /\ \A x \in Evidence : x # current => fate'[x] = fate[x]
      /\ fate' \in [Evidence -> Fates]
  BY <1>1, <1>2 DEF TypeOK, Fates
<1>c. /\ commits' \in [Evidence -> Nat] /\ commits'[current] <= 1
      /\ \A x \in Evidence : x # current => commits'[x] = commits[x]
  BY <1>2, <1>3 DEF Clean
<1>4. TypeOK'
  BY <1>1, <1>f, <1>c DEF TypeOK, States
<1>5. Walks' /\ WalkIsHead'
  BY <1>1 DEF Walks, WalkIsHead, InHand
<1>6. Conserved'
  BY <1>1, <1>2, <1>f DEF Conserved, Queued, InHand
<1>7. Ages' /\ Clean'
  BY <1>1, <1>f, <1>c DEF Ages, Clean, Walks, InHand
<1>8. Lines'
  <2>1. \A x \in Range(deferring) \cup Range(lastDeferred) : x \in Evidence
    BY DEF TypeOK, Range
  <2>2. pc \notin {"idle", "drain"}
    BY <1>1 DEF InHand
  <2>3. QED
    BY <1>1, <1>2, <1>f, <2>1, <2>2 DEF Lines
<1>9. QED
  BY <1>4, <1>5, <1>6, <1>7, <1>8

LEMMA EnqueueStep == ASSUME QueueInv, EnqueueAndReport PROVE QueueInv'
<1> USE DEF QueueInv
<1> DEFINE new == [evidence |-> current, attempts |-> 0, turn |-> turn]
<1>1. /\ queue' = Append(queue, new) /\ InHand /\ pc' = "show" /\ receipt' \in Receipts
      /\ UNCHANGED <<walk, deferring, lastDeferred, turn, current, told, fate>>
      /\ \E outcome \in Transient : Lands(current, outcome)
  BY DEF EnqueueAndReport, Enqueue, Goto, Escapes, InHand, Receipts
<1>2. current \in Evidence /\ fate[current] = "open" /\ walk = <<>> /\ pc \notin {"drain", "idle"}
  BY <1>1 DEF Walks, InHand
<1>3. commits' = commits
  BY <1>1, <1>2, LandsIs DEF TypeOK, Transient, Outcomes
<1>n. new \in Item /\ turn \in Nat
  BY <1>2, QueueAssumption DEF Item, Attempts, TypeOK
<1>q. /\ queue' \in Seq(Item) /\ Len(queue') = Len(queue) + 1 /\ Len(queue) \in Nat
      /\ DOMAIN queue = 1 .. Len(queue) /\ DOMAIN queue' = 1 .. Len(queue) + 1
      /\ \A i \in DOMAIN queue : queue'[i] = queue[i]
      /\ queue'[Len(queue) + 1] = new
  BY <1>1, <1>n DEF TypeOK
<1>c. current \notin Queued
  BY <1>1, <1>2 DEF Conserved, InHand
<1>d. new.evidence = current /\ new.attempts = 0 /\ new.turn = turn
  OBVIOUS
<1> HIDE DEF new
<1>4. TypeOK'
  BY <1>1, <1>3, <1>q DEF TypeOK, States
<1>5. Walks' /\ WalkIsHead'
  BY <1>1, <1>2 DEF Walks, WalkIsHead, InHand
<1>6. Conserved'
  <2>1. \A i \in DOMAIN queue : queue[i].evidence # current
    BY <1>c DEF Queued
  <2>2. \A i \in DOMAIN queue' : i \in DOMAIN queue \/ i = Len(queue) + 1
    BY <1>q
  <2>3. \A i, j \in DOMAIN queue' : queue'[i].evidence = queue'[j].evidence => i = j
    BY <1>q, <1>d, <2>1, <2>2 DEF Conserved
  <2>4. \A x : x \in Queued' <=> x \in Queued \/ x = current
    <3>1. Len(queue) + 1 \in DOMAIN queue' /\ \A i \in DOMAIN queue : i \in DOMAIN queue'
      BY <1>q
    <3>2. QED
      BY <1>q, <1>d, <2>2, <3>1 DEF Queued
  <2>5. QED
    BY <1>1, <1>2, <2>3, <2>4 DEF Conserved, InHand
<1>7. Ages'
  <2>1. ASSUME NEW i \in DOMAIN queue'
        PROVE  queue'[i].turn <= turn' /\ queue'[i].attempts = turn' - queue'[i].turn - (IF i <= Len(walk') THEN 1 ELSE 0)
    <3>1. ~(i <= Len(walk')) /\ turn' = turn
      BY <1>1, <1>2, <1>q
    <3>2. CASE i \in DOMAIN queue
      BY <1>1, <1>q, <3>1, <3>2 DEF Ages
    <3>3. CASE i = Len(queue) + 1
      BY <1>q, <1>d, <1>n, <3>1, <3>3
    <3>4. QED
      BY <1>q, <3>2, <3>3
  <2>2. QED
    BY <2>1 DEF Ages
<1>8. Clean' /\ Lines'
  BY <1>1, <1>2, <1>3 DEF Clean, Lines
<1>9. QED
  BY <1>4, <1>5, <1>6, <1>7, <1>8

LEMMA ShowStep == ASSUME QueueInv, Show PROVE QueueInv'
<1> USE DEF QueueInv
<1>1. /\ UNCHANGED <<queue, walk, deferring, lastDeferred, turn, current, receipt, commits, fate>> /\ pc = "show" /\ pc' = "idle"
      /\ told' = [e \in Evidence |-> told[e] \cup (IF e = current THEN {receipt} ELSE {})
                                          \cup (IF e \in Range(lastDeferred) THEN {"deferred"} ELSE {})]
  BY DEF Show, Goto, queueVars, worldVars
<1>2. TypeOK'
  BY <1>1 DEF TypeOK, States
<1>3. Walks' /\ WalkIsHead'
  BY <1>1 DEF Walks, WalkIsHead, InHand
<1>4. Conserved' /\ Ages' /\ Clean'
  BY <1>1 DEF Conserved, Queued, Ages, Clean
<1>5. Lines'
  <2>1. receipt # "deferred"
    BY DEF TypeOK, Receipts
  <2>2. \A e \in Evidence : "deferred" \in told'[e] => "deferred" \in told[e] \/ e \in Range(lastDeferred)
    BY <1>1, <2>1
  <2>3. QED
    BY <1>1, <2>2 DEF Lines
<1>6. QED
  BY <1>2, <1>3, <1>4, <1>5

LEMMA QueueInit == Init => QueueInv
<1> SUFFICES ASSUME Init PROVE QueueInv
  OBVIOUS
<1> USE DEF Init
<1>1. <<>> \in Seq(Item) /\ <<>> \in Seq(Evidence)
  OBVIOUS
<1>2. TypeOK
  BY <1>1, QueueAssumption DEF TypeOK, States, Receipts, Fates
<1>3. Walks /\ WalkIsHead /\ Conserved /\ Ages /\ Clean
  BY DEF Walks, WalkIsHead, Conserved, Queued, Ages, Clean, InHand
<1>4. Lines
  BY DEF Lines, Range
<1>5. QED
  BY <1>2, <1>3, <1>4 DEF QueueInv

LEMMA QueueStep == ASSUME QueueInv, [Next]_vars PROVE QueueInv'
<1>1. CASE UNCHANGED vars
  BY <1>1 DEF vars, QueueInv, TypeOK, Walks, WalkIsHead, Conserved, Queued, Ages, Clean, Lines, InHand
<1>2. CASE DrainSettles \/ DrainDefers \/ DrainRetries
  BY <1>2, DrainStep DEF DrainSettles, DrainDefers, DrainRetries
<1>3. QED
  BY <1>1, <1>2, TurnBegins, DrainEnds, MovesOn, SignalStep, VerdictStep, EnqueueStep, ShowStep
     DEF Next, Drain, Enrich, Persist

-------------------------------------------------------------------------------
(* Filing: every step keeps what is counted *)

LEMMA FilingStarts == F!FilingInit => FilingInv
<1> SUFFICES ASSUME F!FilingInit PROVE FilingInv
  OBVIOUS
<1> USE DEF F!FilingInit, F!FirstRun
<1>1. F!FilingTypeOK
  BY TurnAssumption DEF F!FilingTypeOK, F!Receipts
<1>2. F!ReceiptTruthful /\ Counted
  BY DEF F!ReceiptTruthful, Counted
<1>3. QED
  BY <1>1, <1>2 DEF FilingInv

\* An author goes on, or ends its run, before anything is tried.
LEMMA AuthorGoesOn ==
    ASSUME FilingInv, NEW a \in F!Authors,
           F!RunQuery(a) \/ F!PageWrite(a) \/ F!SecondRunFails(a) \/ F!BuildRefuses(a)
    PROVE  FilingInv'
<1> USE DEF FilingInv
<1>1. /\ UNCHANGED <<page, target, seen, tries, landed, earlier, fileEdits>>
      /\ fpc[a] \in {"start", "exists"}
      /\ \/ fpc' = [fpc EXCEPT ![a] = "exists"] /\ UNCHANGED fileReceipt
         \/ \E r \in {"answer", "collision", "refused", "invalid", earlier[a].receipt} :
               fpc' = [fpc EXCEPT ![a] = "done"] /\ fileReceipt' = [fileReceipt EXCEPT ![a] = r]
  BY DEF F!RunQuery, F!PageWrite, F!SecondRunFails, F!BuildRefuses, F!Goto, F!Ends
<1>t. /\ earlier[a].receipt \in F!Receipts /\ fileReceipt[a] = "open" /\ landed[a] = earlier[a].landed
      /\ landed[a] \in Nat
  BY <1>1 DEF F!FilingTypeOK, Counted
<1>p. fpc' \in [F!Authors -> {"start", "exists", "sha", "apply", "done"}]
  BY <1>1 DEF F!FilingTypeOK
<1>r. fileReceipt' \in [F!Authors -> F!Receipts]
  <2>1. fileReceipt \in [F!Authors -> F!Receipts]
    BY DEF F!FilingTypeOK
  <2>2. \A r \in {"answer", "collision", "refused", "invalid", earlier[a].receipt} : r \in F!Receipts
    BY <1>t DEF F!Receipts
  <2>3. QED
    BY <1>1, <2>1, <2>2
<1>2. F!FilingTypeOK'
  BY <1>1, <1>p, <1>r DEF F!FilingTypeOK
<1>3. F!ReceiptTruthful' /\ Counted'
  <2>1. ASSUME NEW b \in F!Authors, b # a PROVE fpc'[b] = fpc[b] /\ fileReceipt'[b] = fileReceipt[b]
    BY <1>1, <2>1 DEF F!FilingTypeOK
  <2>2. \/ fpc'[a] = "exists" /\ fileReceipt'[a] = "open"
        \/ fpc'[a] = "done" /\ fileReceipt'[a] \in {"answer", "collision", "refused", "invalid", earlier[a].receipt}
    BY <1>1, <1>t DEF F!FilingTypeOK
  <2>3. F!ReceiptTruthful'
    BY <1>1, <1>t, <2>1, <2>2 DEF F!ReceiptTruthful, Counted
  <2>4. Counted'
    BY <1>1, <1>t, <2>1, <2>2 DEF Counted
  <2>5. QED
    BY <2>3, <2>4
<1>4. QED
  BY <1>2, <1>3

LEMMA AuthorPlans ==
    ASSUME FilingInv, NEW a \in F!Authors, F!BuildPlan(a) \/ F!ShaLookup(a) PROVE FilingInv'
<1> USE DEF FilingInv
<1>1. /\ UNCHANGED <<page, target, tries, landed, fileReceipt, earlier, fileEdits>>
      /\ fpc[a] \in {"exists", "sha"} /\ \E to \in {"sha", "apply"} : fpc' = [fpc EXCEPT ![a] = to]
      /\ seen' = seen \/ \E v \in {0, F!Missing, page[target[a]]} : seen' = [seen EXCEPT ![a] = v]
  BY DEF F!BuildPlan, F!ShaLookup, F!Goto
<1>2. F!FilingTypeOK'
  BY <1>1 DEF F!FilingTypeOK
<1>3. F!ReceiptTruthful' /\ Counted'
  BY <1>1 DEF F!ReceiptTruthful, Counted, F!FilingTypeOK
<1>4. QED
  BY <1>2, <1>3

LEMMA AsksAgain == ASSUME FilingInv, NEW a \in F!Authors, F!FormatOverride(a) PROVE FilingInv'
<1> USE DEF FilingInv
<1>1. /\ UNCHANGED <<page, target, seen, landed, fileEdits>>
      /\ fpc[a] = "done" /\ fpc' = [fpc EXCEPT ![a] = "start"]
      /\ earlier' = [earlier EXCEPT ![a] = [receipt |-> fileReceipt[a], landed |-> landed[a]]]
      /\ fileReceipt' = [fileReceipt EXCEPT ![a] = "open"] /\ tries' = [tries EXCEPT ![a] = 0]
  BY DEF F!FormatOverride, F!Goto
<1>2. F!FilingTypeOK'
  BY <1>1 DEF F!FilingTypeOK, F!Receipts
<1>3. ASSUME NEW b \in F!Authors, b # a
      PROVE  fpc'[b] = fpc[b] /\ fileReceipt'[b] = fileReceipt[b] /\ tries'[b] = tries[b] /\ earlier'[b] = earlier[b]
  BY <1>1, <1>3 DEF F!FilingTypeOK
<1>4. /\ fpc'[a] = "start" /\ fileReceipt'[a] = "open" /\ tries'[a] = 0 /\ landed[a] \in Nat
      /\ earlier'[a].receipt = fileReceipt[a] /\ earlier'[a].landed = landed[a]
  BY <1>1 DEF F!FilingTypeOK
<1>5. F!ReceiptTruthful'
  BY <1>1, <1>3, <1>4 DEF F!ReceiptTruthful
<1>6. Counted'
  BY <1>1, <1>3, <1>4 DEF F!ReceiptTruthful, Counted
<1>7. QED
  BY <1>2, <1>5, <1>6

\* A try commits or not, by its outcome, and is counted.
LEMMA Tried ==
    ASSUME FilingInv, NEW a \in F!Authors, F!Try(a)
    PROVE  /\ fpc[a] = "apply" /\ tries' = [tries EXCEPT ![a] = @ + 1]
           /\ UNCHANGED <<target, seen, earlier, fileEdits>>
           /\ \/ /\ F!Verdict(a) = "valid"
                 /\ page' = [page EXCEPT ![target[a]] = @ + 1] /\ landed' = [landed EXCEPT ![a] = @ + 1]
                 /\ \E r \in {"filed", "crashed"} :
                       fpc' = [fpc EXCEPT ![a] = "done"] /\ fileReceipt' = [fileReceipt EXCEPT ![a] = r]
              \/ /\ UNCHANGED <<page, landed>>
                 /\ \E r \in {"exhausted", "crashed"} :
                       fpc' = [fpc EXCEPT ![a] = "done"] /\ fileReceipt' = [fileReceipt EXCEPT ![a] = r]
              \/ UNCHANGED <<page, landed, fpc, fileReceipt>> /\ tries[a] < 2
<1>1. PICK outcome \in F!Outcome(a) :
         /\ F!Commits(a, outcome)
         /\ IF F!Retried(outcome)
              THEN IF tries[a] < 2 THEN UNCHANGED <<fpc, fileReceipt>>
                   ELSE F!Ends(a, "apply", "exhausted")
              ELSE F!Ends(a, "apply", IF outcome = "applied" THEN "filed" ELSE "crashed")
  BY DEF F!Try
<1>2. CASE outcome \in {"applied", "late"}
  <2>1. F!Verdict(a) = "valid" /\ ~F!Retried(outcome)
    BY <1>2 DEF F!Outcome, F!Verdict, F!Retried, F!Transient
  <2>2. QED
    BY <1>1, <1>2, <2>1 DEF F!Commits, F!Ends, F!Goto, F!Try
<1>3. CASE outcome \notin {"applied", "late"}
  BY <1>1, <1>3 DEF F!Commits, F!Ends, F!Goto, F!Try
<1>4. QED
  BY <1>2, <1>3

LEMMA TryStep == ASSUME FilingInv, NEW a \in F!Authors, F!Try(a) PROVE FilingInv'
<1> USE DEF FilingInv
<1>a. /\ target[a] \in Slugs /\ page[target[a]] \in Nat /\ landed[a] \in Nat /\ tries[a] \in 0 .. 2
      /\ landed[a] = earlier[a].landed /\ fileReceipt[a] = "open"
  BY Tried DEF F!FilingTypeOK, Counted
<1>b. tries'[a] = tries[a] + 1 /\ tries' \in [F!Authors -> 0 .. 3] /\ \A b \in F!Authors : b # a => tries'[b] = tries[b]
  BY <1>a, Tried DEF F!FilingTypeOK
<1>c. page' \in [Slugs -> Nat] /\ landed' \in [F!Authors -> Nat]
  <2>1. page \in [Slugs -> Nat] /\ landed \in [F!Authors -> Nat]
    BY DEF F!FilingTypeOK
  <2>2. (page' = page \/ page' = [page EXCEPT ![target[a]] = page[target[a]] + 1])
        /\ (landed' = landed \/ landed' = [landed EXCEPT ![a] = landed[a] + 1])
    BY Tried
  <2>3. QED
    BY <1>a, <2>1, <2>2
<1>d. /\ fpc' = fpc \/ fpc' = [fpc EXCEPT ![a] = "done"]
      /\ fileReceipt' = fileReceipt
         \/ \E r \in {"filed", "exhausted", "crashed"} : fileReceipt' = [fileReceipt EXCEPT ![a] = r]
  BY Tried
<1>e. fpc' \in [F!Authors -> {"start", "exists", "sha", "apply", "done"}]
  BY <1>d DEF F!FilingTypeOK
<1>f. fileReceipt' \in [F!Authors -> F!Receipts]
  <2>1. fileReceipt \in [F!Authors -> F!Receipts] /\ {"filed", "exhausted", "crashed"} \subseteq F!Receipts
    BY DEF F!FilingTypeOK, F!Receipts
  <2>2. QED
    BY <1>d, <2>1
<1>1. F!FilingTypeOK'
  <2>1. UNCHANGED <<target, seen, earlier, fileEdits>>
    BY Tried
  <2>2. QED
    BY <1>b, <1>c, <1>e, <1>f, <2>1 DEF F!FilingTypeOK
<1>2. ASSUME NEW b \in F!Authors, b # a
      PROVE  fpc'[b] = fpc[b] /\ fileReceipt'[b] = fileReceipt[b] /\ landed'[b] = landed[b]
  BY <1>2, Tried DEF F!FilingTypeOK
<1>3. \/ fpc'[a] = "done" /\ landed'[a] = landed[a] + 1 /\ fileReceipt'[a] \in {"filed", "crashed"}
      \/ fpc'[a] = "done" /\ landed'[a] = landed[a] /\ fileReceipt'[a] \in {"exhausted", "crashed"}
      \/ fpc'[a] = "apply" /\ landed'[a] = landed[a] /\ fileReceipt'[a] = "open" /\ tries'[a] < 3
  BY <1>a, <1>b, Tried DEF F!FilingTypeOK
<1>4. earlier' = earlier
  BY Tried
<1>5. F!ReceiptTruthful'
  BY <1>a, <1>2, <1>3, <1>4 DEF F!ReceiptTruthful
<1>6. Counted'
  BY <1>a, <1>b, <1>2, <1>3, <1>4 DEF Counted
<1>7. QED
  BY <1>1, <1>5, <1>6

LEMMA OthersWrite == ASSUME FilingInv, NEW s \in Slugs, F!OtherWriter(s) PROVE FilingInv'
<1> USE DEF FilingInv
<1>1. /\ UNCHANGED <<fpc, target, seen, tries, landed, fileReceipt, earlier>>
      /\ fileEdits < MaxEdits /\ fileEdits' = fileEdits + 1
      /\ \E v \in {0, page[s] + 1} : page' = [page EXCEPT ![s] = v]
  BY DEF F!OtherWriter
<1>2. fileEdits' \in 0 .. MaxEdits
  BY <1>1, TurnAssumption DEF F!FilingTypeOK
<1>3. page' \in [Slugs -> Nat]
  BY <1>1 DEF F!FilingTypeOK
<1>4. QED
  BY <1>1, <1>2, <1>3 DEF F!FilingTypeOK, F!ReceiptTruthful, Counted

LEMMA FilingKeeps == ASSUME FilingInv, [F!FilingNext]_filing PROVE FilingInv'
<1>1. CASE UNCHANGED filing
  BY <1>1 DEF filing, FilingInv, F!FilingTypeOK, F!ReceiptTruthful, Counted
<1>2. ASSUME NEW a \in F!Authors, F!FilingStep(a) \/ F!FormatOverride(a) PROVE FilingInv'
  BY <1>2, AuthorGoesOn, AuthorPlans, AsksAgain, TryStep DEF F!FilingStep
<1>3. QED
  BY <1>1, <1>2, OthersWrite DEF F!FilingNext

\* Only a try of a plan whose page is as it was seen commits.
LEMMA NothingClobbered ==
    ASSUME FilingInv, [F!FilingNext]_filing, NEW a \in F!Authors, landed'[a] > landed[a]
    PROVE  seen[a] = page[target[a]]
<1>1. landed \in [F!Authors -> Nat]
  BY DEF FilingInv, F!FilingTypeOK
<1>2. landed' # landed
  BY <1>1
<1>3. PICK b \in F!Authors : F!Try(b)
  BY <1>2 DEF filing, F!FilingNext, F!FilingStep, F!FormatOverride, F!RunQuery, F!PageWrite, F!SecondRunFails,
     F!BuildRefuses, F!BuildPlan, F!ShaLookup, F!OtherWriter
<1>4. F!Verdict(b) = "valid" /\ landed' = [landed EXCEPT ![b] = @ + 1]
  BY <1>2, <1>3, Tried
<1>5. a = b
  BY <1>1, <1>4
<1>6. QED
  BY <1>4, <1>5 DEF F!Verdict

-------------------------------------------------------------------------------
(* Lint: what one run does is seen by no other *)

Locals(l) == <<lpc[l], check[l], shell[l], merged[l], repair[l], translated[l]>>

LEMMA OneRunMoves ==
    ASSUME LintInv, NEW l \in Linters,
           L!LintTypeOK', L!ListedOnce', (translated = [m \in Linters |-> translated[m]])',
           \A m \in Linters : m # l => Locals(m)' = Locals(m),
           Reported(l)', Planned(l)', Made(l)', Unlisted(l)'
    PROVE  LintInv'
<1>1. ASSUME NEW m \in Linters, m # l PROVE (Reported(m) /\ Planned(m) /\ Made(m) /\ Unlisted(m))'
  <2>1. /\ lpc'[m] = lpc[m] /\ check'[m] = check[m] /\ shell'[m] = shell[m] /\ merged'[m] = merged[m]
        /\ repair'[m] = repair[m] /\ translated'[m] = translated[m]
    BY <1>1 DEF Locals
  <2>2. Reported(m)'
    BY <2>1 DEF LintInv, Reported
  <2>3. Planned(m)'
    BY <2>1 DEF LintInv, Planned, L!Filtered
  <2>4. Made(m)'
    BY <2>1 DEF LintInv, Made
  <2>5. Unlisted(m)'
    BY <1>1 DEF Unlisted
  <2>6. QED
    BY <2>2, <2>3, <2>4, <2>5
<1>2. QED
  BY <1>1 DEF LintInv

LEMMA LintStarts == L!LintInit => LintInv
<1> SUFFICES ASSUME L!LintInit PROVE LintInv
  OBVIOUS
<1> USE DEF L!LintInit
<1>1. wiki \in [WikiPages -> L!Contents \cup {Nothing}]
  BY DEF L!Contents
<1>2. L!LintTypeOK
  BY <1>1, TurnAssumption DEF L!LintTypeOK
<1>3. L!ListedOnce
  BY DEF L!ListedOnce
<1>4. ASSUME NEW l \in Linters PROVE Reported(l) /\ Planned(l) /\ Made(l) /\ Unlisted(l)
  BY DEF Reported, Planned, Made, Unlisted
<1>5. translated = [l \in Linters |-> translated[l]]
  OBVIOUS
<1>6. QED
  BY <1>2, <1>3, <1>4, <1>5 DEF LintInv

LEMMA FindingIs ==
    ASSUME NEW c \in L!Categories, NEW ps \in (SUBSET WikiPages) \ {{}}, NEW m \in {"shell", "other"}, NEW safe \in BOOLEAN
    PROVE  /\ L!Finding(c, ps, m, safe) \in L!Findings
           /\ L!Finding(c, ps, m, safe).category = c /\ L!Finding(c, ps, m, safe).safe = safe
BY DEF L!Finding, L!Findings

\* The deterministic pass calls a finding safe by its category.
LEMMA ShellReportIs ==
    ASSUME L!LintTypeOK PROVE L!ShellReport \subseteq L!Findings /\ \A f \in L!ShellReport : Mechanical(f)
<1>1. L!Present \subseteq WikiPages
  BY DEF L!Present
<1>c. {"orphan", "missing_xref", "missing_required_section"} \subseteq L!Categories
  BY DEF L!Categories
<1>2. ASSUME NEW p \in L!Present
      PROVE  LET f == L!Finding("orphan", {p}, "shell", TRUE) IN f \in L!Findings /\ Mechanical(f)
  BY <1>1, <1>c, FindingIs DEF Mechanical
<1>3. ASSUME NEW p \in L!Present, NEW other \in L!Present
      PROVE  LET f == L!Finding("missing_xref", {p, other}, "shell", TRUE) IN f \in L!Findings /\ Mechanical(f)
  <2>1. {p, other} \in (SUBSET WikiPages) \ {{}}
    BY <1>1
  <2>2. QED
    BY <2>1, <1>c, FindingIs DEF Mechanical
<1>4. ASSUME NEW p \in L!Present
      PROVE  LET f == L!Finding("missing_required_section", {p}, "shell", FALSE) IN f \in L!Findings /\ Mechanical(f)
  BY <1>1, <1>c, FindingIs DEF Mechanical
<1>5. ASSUME NEW f \in L!ShellReport
      PROVE  \/ \E p \in L!Present : f = L!Finding("orphan", {p}, "shell", TRUE)
             \/ \E p \in L!Present, other \in L!Present : f = L!Finding("missing_xref", {p, other}, "shell", TRUE)
             \/ \E p \in L!Present : f = L!Finding("missing_required_section", {p}, "shell", FALSE)
  BY DEF L!ShellReport
<1>6. ASSUME NEW f \in L!ShellReport PROVE f \in L!Findings /\ Mechanical(f)
  BY <1>2, <1>3, <1>4, <1>5
<1>7. QED
  BY <1>6

LEMMA ReportBegins == ASSUME LintInv, NEW l \in Linters, L!BuildReport(l) PROVE LintInv'
<1>1. /\ UNCHANGED <<wiki, listing, onDisk, merged, repair, translated, touched>>
      /\ lpc[l] = "start" /\ lpc' = [lpc EXCEPT ![l] = "linter"]
      /\ runs < LintRuns /\ runs' = runs + 1
      /\ \E c \in {"all", "orphan"} : check' = [check EXCEPT ![l] = c]
      /\ shell' = [shell EXCEPT ![l] = L!ShellReport]
  BY DEF L!BuildReport, L!Goto
<1>s. L!ShellReport \subseteq L!Findings /\ \A f \in L!ShellReport : Mechanical(f)
  BY ShellReportIs DEF LintInv
<1>2. L!LintTypeOK'
  <2>1. runs' \in 0 .. LintRuns
    BY <1>1, TurnAssumption DEF LintInv, L!LintTypeOK
  <2>2. shell' \in [Linters -> SUBSET L!Findings]
    BY <1>1, <1>s DEF LintInv, L!LintTypeOK
  <2>3. check' \in [Linters -> L!Categories \cup {"all"}]
    BY <1>1 DEF LintInv, L!LintTypeOK, L!Categories
  <2>4. QED
    BY <1>1, <2>1, <2>2, <2>3 DEF LintInv, L!LintTypeOK
<1>3. \A m \in Linters : m # l => Locals(m)' = Locals(m)
  BY <1>1 DEF Locals, LintInv, L!LintTypeOK
<1>4. lpc'[l] = "linter" /\ shell'[l] = L!ShellReport
  BY <1>1 DEF LintInv, L!LintTypeOK
<1>5. Reported(l)' /\ Planned(l)' /\ Made(l)' /\ Unlisted(l)'
  BY <1>s, <1>4 DEF Reported, Planned, Made, Unlisted
<1>6. L!ListedOnce' /\ (translated = [m \in Linters |-> translated[m]])'
  BY <1>1 DEF LintInv, L!ListedOnce
<1>7. QED
  BY <1>2, <1>3, <1>5, <1>6, OneRunMoves

LEMMA LinterSpeaks == ASSUME LintInv, NEW l \in Linters, L!CallLinter(l) PROVE LintInv'
<1>1. PICK said \in SUBSET L!Findings :
      /\ UNCHANGED <<wiki, listing, onDisk, check, shell, repair, translated, runs, touched>>
      /\ lpc[l] = "linter" /\ \E to \in {"agent", "write"} : lpc' = [lpc EXCEPT ![l] = to]
      /\ merged' = [merged EXCEPT ![l] = L!Merge(shell[l], said)]
  BY DEF L!CallLinter, L!Goto, L!AgentFindings
<1>m. L!Merge(shell[l], said) \subseteq L!Findings
  BY DEF L!Merge, LintInv, L!LintTypeOK
<1>2. L!LintTypeOK'
  <2>1. merged' \in [Linters -> SUBSET L!Findings]
    BY <1>1, <1>m DEF LintInv, L!LintTypeOK
  <2>2. QED
    BY <1>1, <2>1 DEF LintInv, L!LintTypeOK
<1>3. \A m \in Linters : m # l => Locals(m)' = Locals(m)
  BY <1>1 DEF Locals, LintInv, L!LintTypeOK
<1>4. lpc'[l] \in {"agent", "write"} /\ merged'[l] = L!Merge(shell[l], said) /\ shell'[l] = shell[l]
  BY <1>1 DEF LintInv, L!LintTypeOK
<1>5. Reported(l)'
  BY <1>4 DEF LintInv, Reported, L!Merge
<1>6. Planned(l)' /\ Made(l)' /\ Unlisted(l)'
  BY <1>4 DEF Planned, Made, Unlisted
<1>7. L!ListedOnce' /\ (translated = [m \in Linters |-> translated[m]])'
  BY <1>1 DEF LintInv, L!ListedOnce
<1>8. QED
  BY <1>2, <1>3, <1>5, <1>6, <1>7, OneRunMoves

LEMMA NothingToRepair == ASSUME LintInv, NEW l \in Linters, L!NoRepair(l) PROVE LintInv'
<1>1. /\ UNCHANGED <<wiki, listing, onDisk, check, shell, merged, repair, translated, runs, touched>>
      /\ lpc[l] = "agent" /\ lpc' = [lpc EXCEPT ![l] = "write"]
  BY DEF L!NoRepair, L!Goto, L!runLocals
<1>2. L!LintTypeOK'
  BY <1>1 DEF LintInv, L!LintTypeOK
<1>3. (\A m \in Linters : m # l => Locals(m)' = Locals(m)) /\ lpc'[l] = "write"
  BY <1>1 DEF Locals, LintInv, L!LintTypeOK
<1>4. Reported(l)' /\ Planned(l)' /\ Made(l)' /\ Unlisted(l)'
  BY <1>1, <1>3 DEF LintInv, Reported, Planned, Made, Unlisted
<1>5. L!ListedOnce' /\ (translated = [m \in Linters |-> translated[m]])'
  BY <1>1 DEF LintInv, L!ListedOnce
<1>6. QED
  BY <1>2, <1>3, <1>4, <1>5, OneRunMoves

LEMMA RepairPlanned ==
    ASSUME LintInv, NEW l \in Linters, NEW op \in L!Proposals(l), L!PlanRepair(l, op)
    PROVE  LintInv'
<1>1. /\ UNCHANGED <<wiki, listing, onDisk, check, shell, merged, translated, runs, touched>>
      /\ lpc[l] = "agent" /\ lpc' = [lpc EXCEPT ![l] = "translate"]
      /\ op.cites \in L!Filtered(l) /\ op.cites.safe
      /\ op.kind = "update_index" => ~L!Listed(op.page)
      /\ repair' = [repair EXCEPT ![l] = op]
  BY DEF L!PlanRepair, L!Goto, L!Valid, L!Redundant
<1>p. \A q \in L!Present : q \in WikiPages /\ wiki[q] \in L!Contents
  BY DEF LintInv, L!LintTypeOK, L!Present, L!Exists
<1>f. /\ op \in [kind : L!Kinds, cites : merged[l], page : WikiPages \cup {Nothing},
                 target : WikiPages \cup {Nothing}, saw : {wiki[p] : p \in WikiPages} \cup {Nothing}]
      /\ op.target = Nothing <=> op.kind \in {"create_stub", "update_index"}
      /\ op.saw = IF op.kind = "append_evidence" /\ op.page \in WikiPages
                    THEN wiki[op.page] ELSE Nothing
  BY DEF L!Proposals
<1>w. WellFormed(op)
  <2>1. op.kind = "create_stub" => op.page \in WikiPages
    BY DEF L!PlanRepair, L!Valid
  <2>2. op.kind = "append_link" => op.target \in WikiPages
    BY <1>p DEF L!PlanRepair, L!Valid
  <2>3. CASE op.kind = "append_evidence"
    <3>1. op.page \in L!Present
      BY <2>3 DEF L!PlanRepair, L!Valid
    <3>2. op.target \in WikiPages
      BY <1>f, <2>3
    <3>3. QED
      BY <1>f, <1>p, <2>1, <2>2, <2>3, <3>1, <3>2 DEF WellFormed
  <2>4. QED
    BY <2>1, <2>2, <2>3 DEF WellFormed
<1>o. op \in L!Repairs
  <2>1. merged[l] \subseteq L!Findings
    BY DEF LintInv, L!LintTypeOK
  <2>2. {wiki[p] : p \in WikiPages} \subseteq L!Contents \cup {Nothing}
    BY DEF LintInv, L!LintTypeOK
  <2>3. QED
    BY <1>f, <2>1, <2>2 DEF L!Repairs
<1>2. L!LintTypeOK'
  <2>1. repair' \in [Linters -> L!Repairs \cup {Nothing}]
    BY <1>1, <1>o DEF LintInv, L!LintTypeOK
  <2>2. QED
    BY <1>1, <2>1 DEF LintInv, L!LintTypeOK
<1>3. \A m \in Linters : m # l => Locals(m)' = Locals(m)
  BY <1>1 DEF Locals, LintInv, L!LintTypeOK
<1>4. lpc'[l] = "translate" /\ repair'[l] = op
  BY <1>1 DEF LintInv, L!LintTypeOK
<1>5. Reported(l)' /\ Made(l)'
  BY <1>1, <1>4 DEF LintInv, Reported, Made
<1>6. Planned(l)'
  BY <1>1, <1>4, <1>o, <1>w DEF Planned, L!Filtered
<1>7. Unlisted(l)'
  BY <1>1, <1>4 DEF Unlisted, L!Listed
<1>8. L!ListedOnce' /\ (translated = [m \in Linters |-> translated[m]])'
  BY <1>1 DEF LintInv, L!ListedOnce
<1>9. QED
  BY <1>2, <1>3, <1>5, <1>6, <1>7, <1>8, OneRunMoves

LEMMA LinkedMore ==
    ASSUME NEW c \in L!Contents, NEW t \in WikiPages
    PROVE  Grows(c, [c EXCEPT !.links = @ \cup {t}, !.type = "directory"], "append_link")
BY DEF L!Contents, Grows

LEMMA MentionedMore ==
    ASSUME NEW c \in L!Contents, NEW t \in WikiPages, NEW kind
    PROVE  Grows(c, [c EXCEPT !.mentions = @ \cup {t}], kind)
BY DEF L!Contents, Grows

LEMMA RepairTranslated == ASSUME LintInv, NEW l \in Linters, L!Translate(l) PROVE LintInv'
<1>1. /\ UNCHANGED <<wiki, listing, onDisk, check, shell, merged, repair, runs, touched>>
      /\ lpc[l] = "translate"
      /\ \/ lpc' = [lpc EXCEPT ![l] = "write"] /\ UNCHANGED translated
         \/ /\ lpc' = [lpc EXCEPT ![l] = "apply"]
            /\ ~L!Untranslatable(repair[l])
            /\ translated' = [translated EXCEPT ![l] = [old |-> L!Old(repair[l]), new |-> L!New(repair[l])]]
  BY DEF L!Translate, L!Goto
<1>2. L!LintTypeOK'
  BY <1>1 DEF LintInv, L!LintTypeOK
<1>3. \A m \in Linters : m # l => Locals(m)' = Locals(m)
  BY <1>1 DEF Locals, LintInv, L!LintTypeOK
<1>t. (translated = [m \in Linters |-> translated[m]])'
  BY <1>1 DEF LintInv
<1>4. /\ lpc'[l] \in {"write", "apply"}
      /\ lpc'[l] = "apply" =>
           /\ ~L!Untranslatable(repair[l])
           /\ translated'[l] = [old |-> L!Old(repair[l]), new |-> L!New(repair[l])]
  BY <1>1 DEF LintInv, L!LintTypeOK
<1>5. Reported(l)' /\ Planned(l)' /\ Unlisted(l)'
  BY <1>1, <1>4 DEF LintInv, Reported, Planned, Unlisted, L!Filtered, L!Listed
<1>6. Made(l)'
  <2> SUFFICES ASSUME lpc'[l] = "apply" PROVE Made(l)'
    BY DEF Made
  <2> DEFINE op == repair[l]
  <2>1. /\ repair'[l] = op /\ op.kind \in L!Kinds /\ op.page \in WikiPages \cup {Nothing}
        /\ WellFormed(op) /\ wiki \in [WikiPages -> L!Contents \cup {Nothing}]
    BY <1>1 DEF LintInv, Planned, L!Repairs, L!LintTypeOK
  <2>t. translated'[l].old = L!Old(op) /\ translated'[l].new = L!New(op) /\ ~L!Untranslatable(op)
    BY <1>4
  <2> HIDE DEF op
  <2>2. CASE op.kind = "create_stub"
    <3>1. L!Old(op) = Nothing /\ L!New(op) = L!Stub
      BY <2>2 DEF L!Old, L!New, L!OnIndex
    <3>2. QED
      BY <2>1, <2>t, <2>2, <3>1 DEF Made, WellFormed
  <2>3. CASE op.kind = "update_index"
    <3> DEFINE e == [page |-> op.page, by |-> "update_index"]
    <3>1. L!OnIndex(op) /\ L!Old(op) = listing /\ L!New(op) = Append(listing, e)
      BY <2>3 DEF L!Old, L!New, L!OnIndex
    <3>2. op.page \in WikiPages
      BY <2>1, <2>t, <2>3 DEF L!Untranslatable
    <3>3. e \in L!Entries /\ LineOf(e, op)
      BY <2>3, <3>2 DEF L!Entries, LineOf
    <3> HIDE DEF e
    <3>4. QED
      BY <2>1, <2>t, <3>1, <3>3 DEF Made
  <2>4. CASE op.kind = "append_link" /\ op.page = Nothing
    <3> DEFINE e == [page |-> op.target, by |-> "append_link"]
    <3>1. L!OnIndex(op) /\ L!Old(op) = listing /\ L!New(op) = Append(listing, e)
      BY <2>4 DEF L!Old, L!New, L!OnIndex
    <3>2. e \in L!Entries /\ LineOf(e, op)
      BY <2>1, <2>4 DEF L!Entries, LineOf, WellFormed
    <3> HIDE DEF e
    <3>3. QED
      BY <2>1, <2>t, <3>1, <3>2 DEF Made
  <2>5. CASE op.kind = "append_link" /\ op.page # Nothing
    <3> DEFINE c == wiki[op.page]
               d == [c EXCEPT !.links = @ \cup {op.target}, !.type = "directory"]
    <3>1. op.page \in WikiPages /\ ~L!OnIndex(op) /\ c \in L!Contents
      BY <2>1, <2>t, <2>5 DEF L!Untranslatable, L!OnIndex, L!Exists
    <3>2. L!Old(op) = c /\ L!New(op) = d
      BY <2>5, <3>1 DEF L!Old, L!New
    <3>3. Grows(c, d, op.kind)
      BY <2>1, <2>5, <3>1, LinkedMore DEF WellFormed
    <3> HIDE DEF c, d
    <3>4. QED
      BY <2>1, <2>t, <2>5, <3>1, <3>2, <3>3 DEF Made
  <2>6. CASE op.kind = "append_evidence"
    <3> DEFINE c == op.saw
               d == [c EXCEPT !.mentions = @ \cup {op.target}]
    <3>1. op.page \in WikiPages /\ ~L!OnIndex(op) /\ c \in L!Contents
      BY <2>1, <2>6 DEF WellFormed, L!OnIndex
    <3>2. L!Old(op) = c /\ L!New(op) = d
      BY <2>6, <3>1 DEF L!Old, L!New
    <3>3. Grows(c, d, op.kind)
      BY <2>1, <2>6, <3>1, MentionedMore DEF WellFormed
    <3> HIDE DEF c, d
    <3>4. QED
      BY <2>1, <2>t, <2>6, <3>1, <3>2, <3>3 DEF Made
  <2>7. QED
    BY <2>1, <2>2, <2>3, <2>4, <2>5, <2>6 DEF L!Kinds
<1>7. L!ListedOnce'
  BY <1>1 DEF LintInv, L!ListedOnce
<1>8. QED
  BY <1>2, <1>3, <1>t, <1>5, <1>6, <1>7, OneRunMoves

\* What an applied repair does to the wiki: nothing, a page that was not there, a
\* line more in the index, a page that grows.
RepairDoes(l) ==
    LET p == repair[l].page IN
    \/ UNCHANGED <<wiki, listing>>
    \/ /\ UNCHANGED listing /\ p \in WikiPages /\ wiki[p] = Nothing
       /\ wiki' = [wiki EXCEPT ![p] = L!Stub]
    \/ /\ UNCHANGED wiki
       /\ \E e \in L!Entries : LineOf(e, repair[l]) /\ listing' = Append(listing, e)
    \/ /\ UNCHANGED listing /\ p \in WikiPages /\ wiki[p] \in L!Contents
       /\ \E d \in L!Contents : Grows(wiki[p], d, repair[l].kind) /\ wiki' = [wiki EXCEPT ![p] = d]

LEMMA RepairIs == ASSUME LintInv, NEW l \in Linters, L!Apply(l) PROVE RepairDoes(l)
<1>1. Made(l) /\ lpc[l] = "apply"
  BY DEF LintInv, L!Apply, L!Goto
<1>3. CASE UNCHANGED <<wiki, listing>>
  BY <1>3 DEF RepairDoes
<1>4. CASE L!Current(l) /\ L!Write(l)
  <2>1. CASE /\ repair[l].kind = "create_stub" /\ repair[l].page \in WikiPages
             /\ translated[l].old = Nothing /\ translated[l].new = L!Stub
    BY <1>4, <2>1 DEF RepairDoes, L!Current, L!Write, L!OnIndex
  <2>2. CASE /\ L!OnIndex(repair[l])
             /\ \E e \in L!Entries : LineOf(e, repair[l])
                                      /\ translated[l].new = Append(translated[l].old, e)
    BY <1>4, <2>2 DEF RepairDoes, L!Current, L!Write
  <2>3. CASE /\ ~L!OnIndex(repair[l])
             /\ repair[l].page \in WikiPages /\ translated[l].old \in L!Contents
             /\ Grows(translated[l].old, translated[l].new, repair[l].kind)
    BY <1>4, <2>3 DEF RepairDoes, L!Current, L!Write, Grows
  <2>4. QED
    BY <1>1, <2>1, <2>2, <2>3 DEF Made
<1>5. QED
  BY <1>3, <1>4 DEF L!Apply

LEMMA ApplyStep == ASSUME LintInv, NEW l \in Linters, L!Apply(l) PROVE LintInv'
<1>1. /\ UNCHANGED <<onDisk, check, shell, merged, repair, translated, runs, touched>>
      /\ lpc[l] = "apply" /\ lpc' = [lpc EXCEPT ![l] = "write"]
  BY DEF L!Apply, L!Goto, L!runLocals
<1> DEFINE p == repair[l].page
<1>2. RepairDoes(l)
  BY RepairIs
<1>w. wiki' \in [WikiPages -> L!Contents \cup {Nothing}]
  <2>1. wiki \in [WikiPages -> L!Contents \cup {Nothing}] /\ L!Stub \in L!Contents
    BY DEF LintInv, L!LintTypeOK, L!Stub, L!Contents
  <2>2. wiki' = wiki \/ (p \in WikiPages /\ \E c \in L!Contents : wiki' = [wiki EXCEPT ![p] = c])
    BY <1>2, <2>1 DEF RepairDoes
  <2>3. QED
    BY <2>1, <2>2
<1>l. listing \in Seq(L!Entries) /\ listing' \in Seq(L!Entries)
  <2>1. listing \in Seq(L!Entries)
    BY DEF LintInv, L!LintTypeOK
  <2>2. listing' = listing \/ \E e \in L!Entries : listing' = Append(listing, e)
    BY <1>2 DEF RepairDoes
  <2>3. QED
    BY <2>1, <2>2
<1>3. L!LintTypeOK'
  <2>1. lpc' \in [Linters -> {"start", "linter", "agent", "translate", "apply", "write"}]
    BY <1>1 DEF LintInv, L!LintTypeOK
  <2>2. QED
    BY <1>1, <1>w, <1>l, <2>1 DEF LintInv, L!LintTypeOK
<1>4. L!ListedOnce'
  <2> SUFFICES ASSUME \A m, other \in Linters : m = other
               PROVE  \A i, j \in DOMAIN listing' :
                          i < j /\ listing'[i].page = listing'[j].page => listing'[j].by = "append_link"
    BY DEF L!ListedOnce
  <2>1. CASE UNCHANGED listing
    BY <2>1 DEF LintInv, L!ListedOnce
  <2>2. ASSUME NEW e \in L!Entries, LineOf(e, repair[l]), listing' = Append(listing, e)
        PROVE  \A i, j \in DOMAIN listing' :
                   i < j /\ listing'[i].page = listing'[j].page => listing'[j].by = "append_link"
    <3>1. \/ e.by = "append_link"
          \/ e.by = "update_index" /\ \A i \in DOMAIN listing : listing[i].page # e.page
      BY <1>1, <2>2 DEF LintInv, Unlisted, L!Listed, LineOf, L!Entries
    <3>2. \A i, j \in DOMAIN listing :
              i < j /\ listing[i].page = listing[j].page => listing[j].by = "append_link"
      BY DEF LintInv, L!ListedOnce
    <3>3. /\ DOMAIN listing = 1 .. Len(listing) /\ DOMAIN listing' = 1 .. Len(listing) + 1 /\ Len(listing) \in Nat
          /\ \A i \in DOMAIN listing : listing'[i] = listing[i]
          /\ listing'[Len(listing) + 1] = e
      BY <1>l, <2>2
    <3>4. \A i \in DOMAIN listing' : i \in DOMAIN listing \/ i = Len(listing) + 1
      BY <3>3
    <3>5. QED
      BY <3>1, <3>2, <3>3, <3>4
  <2>3. QED
    BY <1>2, <2>1, <2>2 DEF RepairDoes
<1>5. (\A m \in Linters : m # l => Locals(m)' = Locals(m)) /\ lpc'[l] = "write"
  BY <1>1 DEF Locals, LintInv, L!LintTypeOK
<1>6. Reported(l)' /\ Planned(l)' /\ Made(l)' /\ Unlisted(l)'
  BY <1>1, <1>5 DEF LintInv, Reported, Planned, Made, Unlisted
<1>7. (translated = [m \in Linters |-> translated[m]])'
  BY <1>1 DEF LintInv
<1>8. QED
  BY <1>3, <1>4, <1>5, <1>6, <1>7, OneRunMoves

\* A run ends: the report is written, or an exception ends it.
LEMMA RunEnds == ASSUME LintInv, NEW l \in Linters, L!RunRaises(l) \/ L!WriteReport(l) PROVE LintInv'
<1>1. /\ UNCHANGED <<wiki, listing, runs, touched>> /\ onDisk' \in {onDisk, merged[l]}
      /\ lpc' = [lpc EXCEPT ![l] = "start"] /\ L!Forget(l)
  BY DEF L!RunRaises, L!WriteReport, L!Goto
<1>2. L!LintTypeOK'
  <2>1. shell' \in [Linters -> SUBSET L!Findings] /\ merged' \in [Linters -> SUBSET L!Findings]
    BY <1>1 DEF LintInv, L!LintTypeOK, L!Forget
  <2>2. repair' \in [Linters -> L!Repairs \cup {Nothing}] /\ check' \in [Linters -> L!Categories \cup {"all"}]
    BY <1>1 DEF LintInv, L!LintTypeOK, L!Forget
  <2>3. lpc' \in [Linters -> {"start", "linter", "agent", "translate", "apply", "write"}] /\ onDisk' \subseteq L!Findings
    BY <1>1 DEF LintInv, L!LintTypeOK
  <2>4. QED
    BY <1>1, <2>1, <2>2, <2>3 DEF LintInv, L!LintTypeOK
<1>3. \A m \in Linters : m # l => Locals(m)' = Locals(m)
  BY <1>1 DEF Locals, LintInv, L!LintTypeOK, L!Forget
<1>4. lpc'[l] = "start" /\ shell'[l] = {}
  BY <1>1 DEF LintInv, L!LintTypeOK, L!Forget
<1>5. Reported(l)' /\ Planned(l)' /\ Made(l)' /\ Unlisted(l)'
  BY <1>4 DEF Reported, Planned, Made, Unlisted
<1>6. L!ListedOnce' /\ (translated = [m \in Linters |-> translated[m]])'
  BY <1>1 DEF LintInv, L!ListedOnce, L!Forget
<1>7. QED
  BY <1>2, <1>3, <1>5, <1>6, OneRunMoves

LEMMA EditorStep == ASSUME LintInv, NEW p \in WikiPages, L!EditorChanges(p) PROVE LintInv'
<1>1. /\ UNCHANGED <<listing, onDisk, lpc, check, shell, merged, repair, translated, runs>>
      /\ touched < LintEdits /\ touched' = touched + 1
      /\ \E c \in {Nothing, [links |-> WikiPages \ {p}, mentions |-> {}, complete |-> TRUE, type |-> "own"]} : wiki' = [wiki EXCEPT ![p] = c]
  BY DEF L!EditorChanges, L!runLocals
<1>2. L!LintTypeOK'
  <2>1. [links |-> WikiPages \ {p}, mentions |-> {}, complete |-> TRUE, type |-> "own"] \in L!Contents
    BY DEF L!Contents
  <2>2. wiki' \in [WikiPages -> L!Contents \cup {Nothing}]
    BY <1>1, <2>1 DEF LintInv, L!LintTypeOK
  <2>3. touched' \in 0 .. LintEdits
    BY <1>1, TurnAssumption DEF LintInv, L!LintTypeOK
  <2>4. QED
    BY <1>1, <2>2, <2>3 DEF LintInv, L!LintTypeOK
<1>3. L!ListedOnce' /\ (translated = [m \in Linters |-> translated[m]])'
  BY <1>1 DEF LintInv, L!ListedOnce
<1>4. ASSUME NEW l \in Linters PROVE (Reported(l) /\ Planned(l) /\ Made(l) /\ Unlisted(l))'
  BY <1>1 DEF LintInv, Reported, Planned, L!Filtered, Made, Unlisted, L!Listed
<1>5. QED
  BY <1>2, <1>3, <1>4 DEF LintInv

LEMMA LintUnchanged == ASSUME LintInv, UNCHANGED lint PROVE LintInv'
<1>1. UNCHANGED <<wiki, listing, onDisk, lpc, check, shell, merged, repair, translated, runs, touched>>
  BY DEF lint
<1>2. L!LintTypeOK' /\ L!ListedOnce' /\ (translated = [l \in Linters |-> translated[l]])'
  BY <1>1 DEF LintInv, L!LintTypeOK, L!ListedOnce
<1>3. ASSUME NEW l \in Linters PROVE (Reported(l) /\ Planned(l) /\ Made(l) /\ Unlisted(l))'
  BY <1>1 DEF LintInv, Reported, Planned, L!Filtered, Made, Unlisted, L!Listed
<1>4. QED
  BY <1>2, <1>3 DEF LintInv

LEMMA LintKeeps == ASSUME LintInv, [L!LintNext]_lint PROVE LintInv'
<1>1. ASSUME NEW l \in Linters, L!LintStep(l) PROVE LintInv'
  BY <1>1, ReportBegins, LinterSpeaks, NothingToRepair, RepairPlanned, RepairTranslated, ApplyStep, RunEnds
     DEF L!LintStep
<1>2. QED
  BY <1>1, EditorStep, LintUnchanged DEF L!LintNext

-------------------------------------------------------------------------------
(* Lint: what a step may never do *)

\* A plan that lands fits the check and cites nothing the pass calls unsafe.
LEMMA AskedRepairs ==
    ASSUME LintInv, NEW l \in Linters, L!Lands(l)
    PROVE  /\ repair[l].cites.category = check[l] \/ check[l] = "all"
           /\ ~\E f \in shell[l] : L!SameKey(f, repair[l].cites) /\ ~f.safe
<1>1. lpc[l] = "apply" /\ Planned(l) /\ Reported(l)
  BY DEF LintInv, L!Lands
<1> DEFINE cited == repair[l].cites
<1>2. cited \in L!Filtered(l) /\ cited.safe /\ cited \in merged[l]
  BY <1>1 DEF Planned, L!Filtered
<1>3. cited.category = check[l] \/ check[l] = "all"
  BY <1>2 DEF L!Filtered
<1>4. ASSUME NEW f \in shell[l], L!SameKey(f, cited) PROVE f.safe
  <2>1. CASE cited \in shell[l]
    BY <1>1, <1>2, <1>4, <2>1 DEF Reported, Mechanical, L!SameKey
  <2>2. CASE \A g \in shell[l] : ~L!SameKey(cited, g)
    BY <1>4, <2>2 DEF L!SameKey
  <2>3. QED
    BY <1>1, <1>2, <2>1, <2>2 DEF Reported
<1>5. QED
  BY <1>3, <1>4

\* What no step but an editor's does to a page, and what the index gains.
Kept(p) ==
    /\ wiki'[p] # Nothing
    /\ wiki[p].links \subseteq wiki'[p].links
    /\ wiki[p].mentions \subseteq wiki'[p].mentions
    /\ wiki'[p].type # wiki[p].type =>
         \E l \in Linters : /\ lpc[l] = "apply" /\ repair[l].kind = "append_link"
                            /\ repair[l].page = p
Lengthened == \E tail \in {<<>>} \cup {<<e>> : e \in L!Entries} : listing' = listing \o tail

LEMMA OnlyAdded ==
    ASSUME LintInv, [L!LintNext]_lint, touched' = touched
    PROVE  (\A p \in L!Present : Kept(p)) /\ Lengthened
<1>t. /\ listing \in Seq(L!Entries) /\ touched # touched + 1
      /\ wiki \in [WikiPages -> L!Contents \cup {Nothing}]
  BY TurnAssumption DEF LintInv, L!LintTypeOK
<1>p. \A p \in L!Present : p \in WikiPages /\ wiki[p] # Nothing
  BY DEF L!Present, L!Exists
<1>s. UNCHANGED listing => Lengthened
  <2>1. listing = listing \o <<>>
    BY <1>t
  <2>2. QED
    BY <2>1 DEF Lengthened
<1>0. CASE UNCHANGED <<wiki, listing>>
  BY <1>0, <1>p, <1>s DEF Kept
<1>1. ASSUME NEW l \in Linters, L!Apply(l), ~UNCHANGED <<wiki, listing>>
      PROVE  (\A p \in L!Present : Kept(p)) /\ Lengthened
  <2> DEFINE q == repair[l].page
  <2>1. RepairDoes(l) /\ lpc[l] = "apply"
    BY <1>1, RepairIs DEF L!Apply, L!Goto
  <2>2. ASSUME UNCHANGED wiki, NEW e \in L!Entries, listing' = Append(listing, e)
        PROVE  (\A p \in L!Present : Kept(p)) /\ Lengthened
    <3>1. listing' = listing \o <<e>>
      BY <1>t, <2>2
    <3>2. QED
      BY <1>p, <2>2, <3>1 DEF Kept, Lengthened
  <2>3. CASE UNCHANGED listing /\ wiki[q] = Nothing /\ wiki' = [wiki EXCEPT ![q] = L!Stub]
    <3>1. ASSUME NEW p \in L!Present PROVE Kept(p)
      <4>1. wiki'[p] = wiki[p] /\ wiki[p] # Nothing
        BY <1>t, <1>p, <2>3
      <4>2. QED
        BY <4>1 DEF Kept
    <3>2. QED
      BY <1>s, <2>3, <3>1
  <2>4. ASSUME UNCHANGED listing, wiki[q] \in L!Contents, NEW d \in L!Contents,
               Grows(wiki[q], d, repair[l].kind), wiki' = [wiki EXCEPT ![q] = d]
        PROVE  (\A p \in L!Present : Kept(p)) /\ Lengthened
    <3>1. ASSUME NEW p \in L!Present PROVE Kept(p)
      <4>1. CASE p # q
        <5>1. wiki'[p] = wiki[p] /\ wiki[p] # Nothing
          BY <1>t, <1>p, <2>4, <4>1
        <5>2. QED
          BY <5>1 DEF Kept
      <4>2. CASE p = q
        <5>1. wiki'[p] = d /\ d # Nothing
          BY <1>t, <1>p, <2>4, <4>2, TurnAssumption
        <5>2. QED
          BY <2>1, <2>4, <4>2, <5>1 DEF Kept, Grows
      <4>3. QED
        BY <4>1, <4>2
    <3>2. QED
      BY <1>s, <2>4, <3>1
  <2>5. QED
    BY <1>1, <2>1, <2>2, <2>3, <2>4 DEF RepairDoes
<1>2. UNCHANGED <<wiki, listing>> \/ \E l \in Linters : L!Apply(l)
  BY <1>t DEF lint, L!LintNext, L!LintStep, L!BuildReport, L!CallLinter, L!NoRepair, L!PlanRepair, L!Translate,
     L!RunRaises, L!WriteReport, L!EditorChanges
<1>3. QED
  BY <1>0, <1>1, <1>2

\* Only a run that ends writes the report, with all its shell found.
LEMMA WholeReports ==
    ASSUME LintInv, [L!LintNext]_lint, onDisk' # onDisk
    PROVE  \E l \in Linters : lpc[l] = "write" /\ lpc'[l] = "start" /\ shell[l] \subseteq onDisk'
<1>1. PICK l \in Linters : L!WriteReport(l)
  BY DEF lint, L!LintNext, L!LintStep, L!BuildReport, L!CallLinter, L!NoRepair, L!PlanRepair, L!Translate, L!Apply,
     L!RunRaises, L!EditorChanges
<1>2. lpc[l] = "write" /\ lpc'[l] = "start" /\ onDisk' = merged[l] /\ shell[l] \subseteq merged[l]
  BY <1>1 DEF LintInv, L!LintTypeOK, Reported, L!WriteReport, L!Goto
<1>3. QED
  BY <1>2

-------------------------------------------------------------------------------
(* The retry queue: what a step may never do *)

ToldOnce ==
    \A e \in Evidence : pc = "show" /\ pc' = "idle" /\ "deferred" \in told[e] => e \notin Range(lastDeferred)
Final ==
    \A e \in Evidence : fate[e] \in {"settled", "deferred", "crashed"}
        => fate'[e] = fate[e] /\ commits'[e] = commits[e]

LEMMA LinesAreNew == QueueInv => ToldOnce
BY DEF QueueInv, Lines, ToldOnce

LEMMA VerdictsAreFinal == ASSUME QueueInv, [Next]_vars PROVE Final
<1> SUFFICES ASSUME NEW e \in Evidence, fate[e] \in {"settled", "deferred", "crashed"}
             PROVE  fate'[e] = fate[e] /\ commits'[e] = commits[e]
  BY DEF Final
<1>t. fate \in [Evidence -> Fates] /\ commits \in [Evidence -> Nat]
  BY DEF QueueInv, TypeOK
<1>1. CASE DrainSettles \/ DrainDefers \/ DrainRetries
  <2>1. Visiting
    BY <1>1 DEF DrainSettles, DrainDefers, DrainRetries
  <2> DEFINE x == Head(walk).evidence
  <2>2. x \in Evidence /\ x # e
    BY <2>1, VisitHolds DEF Visit, Item
  <2>3. /\ commits' = commits \/ \E outcome \in Outcomes : Lands(x, outcome)
        /\ fate' = fate \/ \E f \in Fates : fate' = [fate EXCEPT ![x] = f]
    BY <1>1 DEF DrainSettles, DrainDefers, DrainRetries, Leaves, Becomes, Defers, Fates, Outcomes, Transient
  <2>4. commits' = commits \/ commits' = [commits EXCEPT ![x] = @ + 1]
    BY <1>t, <2>2, <2>3, LandsIs
  <2> HIDE DEF x
  <2>5. QED
    BY <1>t, <2>2, <2>3, <2>4
<1>2. CASE EnricherNoop \/ EnricherCrashes \/ Applied \/ PersistenceFails \/ EnqueueAndReport
  <2>1. /\ InHand
        /\ commits' = commits \/ \E outcome \in Outcomes : Lands(current, outcome)
        /\ fate' = fate \/ \E f \in Fates : fate' = [fate EXCEPT ![current] = f]
    BY <1>2 DEF EnricherNoop, EnricherCrashes, Applied, PersistenceFails, EnqueueAndReport, Ends, Becomes, Goto,
       Escapes, queueVars, InHand, Fates, Outcomes, Transient
  <2>2. current \in Evidence /\ current # e
    BY <2>1 DEF QueueInv, Walks
  <2>3. commits' = commits \/ commits' = [commits EXCEPT ![current] = @ + 1]
    BY <1>t, <2>1, <2>2, LandsIs
  <2>4. QED
    BY <1>t, <2>1, <2>2, <2>3
<1>3. ASSUME NEW x \in Evidence, Signal(x) PROVE UNCHANGED commits /\ fate'[e] = fate[e]
  BY <1>t, <1>3 DEF Signal, Becomes
<1>4. CASE StartTurn \/ EndDrain \/ AgentFails \/ AgentAnswers \/ NoSignal \/ EnricherPlans \/ ConflictRetry \/ Show
           \/ UNCHANGED vars
  BY <1>4 DEF StartTurn, EndDrain, AgentFails, AgentAnswers, NoSignal, EnricherPlans, ConflictRetry, Show, vars, worldVars
<1>5. QED
  BY <1>1, <1>2, <1>3, <1>4 DEF Next, Drain, Enrich, Persist

-------------------------------------------------------------------------------
(* The three together *)

LEMMA StepOfEachPart ==
    [MCNext]_allVars => [Next]_vars /\ [F!FilingNext]_filing /\ [L!LintNext]_lint
BY DEF MCNext, QueueNext, FilingNext, LintNext, allVars

LEMMA TurnStarts == MCInit => TurnInv
BY QueueInit, FilingStarts, LintStarts DEF MCInit, TurnInv

LEMMA TurnKeeps == TurnInv /\ [MCNext]_allVars => TurnInv'
BY StepOfEachPart, QueueStep, FilingKeeps, LintKeeps DEF TurnInv

LEMMA TurnInvHolds == MCSpec => []TurnInv
BY TurnStarts, TurnKeeps, PTL DEF MCSpec

LEMMA ReplayedWhenIdle == ASSUME QueueInv, pc = "idle", NEW i \in DOMAIN queue
    PROVE  queue[i].attempts = turn - queue[i].turn /\ queue[i].attempts < MaxAttempts
<1>1. /\ walk = <<>> /\ queue[i] \in Item /\ queue \in Seq(Item) /\ turn \in 0 .. MaxTurns
      /\ queue[i].attempts = turn - queue[i].turn - (IF i <= Len(walk) THEN 1 ELSE 0)
  BY DEF QueueInv, Walks, Ages, TypeOK
<1>2. ~(i <= Len(walk)) /\ queue[i].attempts \in 0 .. MaxAttempts - 1 /\ queue[i].turn \in 0 .. MaxTurns
  BY <1>1 DEF Item, Attempts
<1>3. QED
  BY <1>1, <1>2, QueueAssumption

\* The retry queue accounts for every piece of evidence, for any evidence, any
\* bound on attempts and any length of a session: in one place, committed at most
\* once, replayed in every turn since its own (memory/retry.py, orchestrator.run).
THEOREM EvidenceIsAccounted == MCSpec => []EvidenceAccounted
<1>1. QueueInv => TypeOK /\ WalkIsHead /\ Conserved /\ CommittedOnce
  BY DEF QueueInv, Clean, CommittedOnce
<1>2. QueueInv => ReplayedEachTurn
  BY ReplayedWhenIdle DEF ReplayedEachTurn
<1>3. TurnInv => EvidenceAccounted
  BY <1>1, <1>2 DEF TurnInv, EvidenceAccounted
<1>4. QED
  BY TurnInvHolds, <1>3, PTL

\* What a caller is told fits what was committed, and update_index lists no page
\* that is listed, for any authors, slugs, pages and runs (orchestrator.py).
THEOREM ToldHolds == MCSpec => []ToldIsTrue
<1>1. TurnInv => ToldIsTrue
  BY DEF TurnInv, FilingInv, LintInv, ToldIsTrue
<1>2. QED
  BY TurnInvHolds, <1>1, PTL

\* Nobody is told twice that evidence was deferred, and evidence with a verdict is
\* never worked on again (orchestrator.run, EnrichmentRetryQueue.drain).
THEOREM VerdictsHold == MCSpec => VerdictsStand
<1>1. TurnInv /\ [MCNext]_allVars => [ToldOnce]_vars /\ [Final]_vars
  BY StepOfEachPart, LinesAreNew, VerdictsAreFinal DEF TurnInv
<1>2. MCSpec => [][ToldOnce]_vars /\ [][Final]_vars
  BY TurnInvHolds, <1>1, PTL DEF MCSpec
<1>3. MCSpec => DeferredOnce /\ VerdictIsFinal
  BY <1>2, PTL DEF DeferredOnce, VerdictIsFinal, ToldOnce, Final
<1>4. QED
  BY <1>3, PTL DEF VerdictsStand

\* The steps WritesAreAsked is made of.
Unclobbered == \A a \in F!Authors : landed'[a] > landed[a] => seen[a] = page[target[a]]
Asked == \A l \in Linters : L!Lands(l) =>
    /\ repair[l].cites.category = check[l] \/ check[l] = "all"
    /\ ~\E f \in shell[l] : L!SameKey(f, repair[l].cites) /\ ~f.safe
Adds == touched' = touched => (\A p \in L!Present : Kept(p)) /\ Lengthened
Whole == onDisk' # onDisk =>
    \E l \in Linters : lpc[l] = "write" /\ lpc'[l] = "start" /\ shell[l] \subseteq onDisk'

\* A page is written only as its author saw it: filing replaces no page that moved
\* on; a repair cites a finding of the check that was run which the deterministic
\* pass did not call unsafe, and takes no page, link, mention or index entry away;
\* a report shows all its run found, for any number of authors, runs and editors
\* (page/author.py, memory/repair.py, agents/repair_validation.py).
THEOREM WritesHold == MCSpec => WritesAreAsked
<1>1. FilingInv /\ [F!FilingNext]_filing => Unclobbered
  BY NothingClobbered DEF Unclobbered
<1>2. LintInv /\ [L!LintNext]_lint => Asked /\ Adds /\ Whole
  BY AskedRepairs, OnlyAdded, WholeReports DEF Asked, Adds, Whole
<1>3. TurnInv /\ [MCNext]_allVars
        => [Unclobbered]_(F!filingVars) /\ [Asked]_(L!lintVars) /\ [Adds]_(L!lintVars) /\ [Whole]_(L!lintVars)
  BY <1>1, <1>2, StepOfEachPart DEF TurnInv
<1>4. MCSpec => /\ [][Unclobbered]_(F!filingVars) /\ [][Asked]_(L!lintVars)
                /\ [][Adds]_(L!lintVars) /\ [][Whole]_(L!lintVars)
  BY TurnInvHolds, <1>3, PTL DEF MCSpec
<1>5. MCSpec => F!NoClobber /\ L!RepairsWhatWasAsked /\ L!RepairOnlyAdds /\ L!ReportIsWhole
  BY <1>4, PTL DEF F!NoClobber, L!RepairsWhatWasAsked, L!RepairOnlyAdds, L!ReportIsWhole,
     Unclobbered, Asked, Adds, Whole, Kept, Lengthened
<1>6. QED
  BY <1>5, PTL DEF WritesAreAsked
=============================================================================
