--------------------------- MODULE EnrichmentQueue ---------------------------
(***************************************************************************)
(* The invisible memory of a conversation: memory/retry.py's queue of      *)
(* evidence awaiting replay, and the turn of orchestrator.py that drains   *)
(* it, answers, enriches the wiki and reports.  apply_plan is seen by its  *)
(* outcome only (MemoryApply is the detail).                               *)
(***************************************************************************)
EXTENDS Naturals, SequencesExt

CONSTANTS
    Evidence,      \* the envelopes (MemoryEnricherDeps) turns may collect
    NoEvidence,    \* None
    MaxAttempts,   \* EnrichmentQueue(max_attempts=...)
    MaxTurns       \* bound on the turns of a session

ASSUME QueueAssumption ==
    /\ NoEvidence \notin Evidence
    /\ MaxAttempts \in Nat \ {0} /\ MaxTurns \in Nat

VARIABLES
    queue,         \* _items: what is queued, oldest first
    walk,          \* the part of a drain's list(self._items) not visited yet
    deferring,     \* the drain's local list of deferred evidence
    lastDeferred,  \* _last_deferred, what format_receipt_lines renders
    turn,          \* _turn_counter
    pc,            \* where the turn is
    current,       \* the evidence this turn collected
    receipt,       \* the receipt of this turn's own enrichment
    told,          \* [Evidence -> what the answers shown so far said of it]
    commits,       \* [Evidence -> how many commits its plans have made]
    fate           \* [Evidence -> how the program disposed of it], a history

vars == <<queue, walk, deferring, lastDeferred, turn, pc, current, receipt,
          told, commits, fate>>
queueVars == <<queue, walk, deferring, lastDeferred>>
worldVars == <<commits, fate>>

Attempts == 0 .. MaxAttempts - 1
Item == [evidence : Evidence, attempts : Attempts, turn : 0 .. MaxTurns]
Receipts == {"none", "filed", "noop", "queued", "crashed"}
Fates == {"new", "open", "settled", "deferred", "crashed"}
States == {"idle", "drain", "agent", "signal", "enrich", "apply", "reenrich", "reapply", "show"}

TypeOK ==
    /\ queue \in Seq(Item) /\ walk \in Seq(Item)
    /\ deferring \in Seq(Evidence) /\ lastDeferred \in Seq(Evidence)
    /\ turn \in 0 .. MaxTurns
    /\ pc \in States
    /\ current \in Evidence \cup {NoEvidence}
    /\ receipt \in Receipts
    /\ told \in [Evidence -> SUBSET (Receipts \cup {"deferred"})]
    /\ commits \in [Evidence -> Nat] /\ fate \in [Evidence -> Fates]

Init ==
    /\ queue = <<>> /\ walk = <<>> /\ deferring = <<>> /\ lastDeferred = <<>>
    /\ turn = 0 /\ pc = "idle" /\ current = NoEvidence /\ receipt = "none"
    /\ told = [e \in Evidence |-> {}]
    /\ commits = [e \in Evidence |-> 0] /\ fate = [e \in Evidence |-> "new"]

-----------------------------------------------------------------------------
(* What an apply_plan call ends in *)

\* "late" is the failure of rev-parse after the commit stands: like every git
\* failure it surfaces as CommitError.
Outcomes == {"applied", "busy", "conflict", "commitError", "late", "invalid"}

\* TRANSIENT_PERSISTENCE_ERRORS; nothing raises its third name, WikiCommitFailed.
Transient == {"busy", "conflict"}

Lands(e, outcome) ==
    commits' = [commits EXCEPT ![e] = IF outcome \in {"applied", "late"} THEN @ + 1 ELSE @]
Becomes(e, f) == fate' = [fate EXCEPT ![e] = f]

-----------------------------------------------------------------------------
(* EnrichmentQueue *)

Requeued(item) == [item EXCEPT !.attempts = @ + 1]

\* enqueue: a new pending retry with attempts 0.
Enqueue(e) == queue' = Append(queue, [evidence |-> e, attempts |-> 0, turn |-> turn])

StartTurn ==
    /\ pc = "idle" /\ turn < MaxTurns
    /\ turn' = turn + 1
    /\ walk' = queue /\ deferring' = <<>>
    /\ current' = NoEvidence /\ receipt' = "none"
    /\ pc' = "drain"
    /\ UNCHANGED <<queue, lastDeferred, told, worldVars>>

Visiting == pc = "drain" /\ walk # <<>>

\* deque.remove takes the first item equal to this one.
Leaves(item) == queue' = RemoveFirst(queue, item) /\ walk' = Tail(walk)

\* The item leaves the queue without a word: applied, or the plan is a noop.
DrainSettles ==
    /\ Visiting
    /\ Leaves(Head(walk))
    /\ Lands(Head(walk).evidence, "applied") \/ UNCHANGED commits
    /\ Becomes(Head(walk).evidence, "settled")
    /\ UNCHANGED <<deferring, lastDeferred, turn, pc, current, receipt, told>>

Defers(e) == deferring' = Append(deferring, e) /\ Becomes(e, "deferred")

\* The enricher raised, or apply_plan raised what is not transient: terminal.
DrainDefers ==
    /\ Visiting
    /\ Leaves(Head(walk))
    /\ Defers(Head(walk).evidence)
    /\ \/ \E outcome \in Outcomes \ (Transient \cup {"applied"}) :
             Lands(Head(walk).evidence, outcome)
       \/ UNCHANGED commits
    /\ UNCHANGED <<lastDeferred, turn, pc, current, receipt, told>>

AtBound(item) == item.attempts + 1 >= MaxAttempts

\* A transient failure: to the tail with one attempt more, or out at the bound.
DrainRetries ==
    /\ Visiting
    /\ LET item == Head(walk) IN
       /\ \E outcome \in Transient : Lands(item.evidence, outcome)
       /\ IF AtBound(item)
            THEN Leaves(item) /\ Defers(item.evidence)
            ELSE /\ queue' = Append(RemoveFirst(queue, item), Requeued(item))
                 /\ walk' = Tail(walk)
                 /\ UNCHANGED <<deferring, fate>>
    /\ UNCHANGED <<lastDeferred, turn, pc, current, receipt, told>>

\* Mutant: a drain that defers nothing leaves the lines of the drain before.
EndDrainStale ==
    /\ pc = "drain" /\ walk = <<>>
    /\ lastDeferred' = IF deferring = <<>> THEN lastDeferred ELSE deferring
    /\ pc' = "agent"
    /\ UNCHANGED <<queue, walk, deferring, turn, current, receipt, told, worldVars>>

\* The drain's list replaces the one before it, shown or not.
EndDrain ==
    /\ pc = "drain" /\ walk = <<>>
    /\ lastDeferred' = deferring
    /\ pc' = "agent"
    /\ UNCHANGED <<queue, walk, deferring, turn, current, receipt, told, worldVars>>

-----------------------------------------------------------------------------
(* The turn *)

Goto(from, to) == pc = from /\ pc' = to

\* _answer_without_enrichment: the plain answer, without any memory lines.
AgentFails ==
    /\ Goto("agent", "idle")
    /\ UNCHANGED <<queueVars, turn, current, receipt, told, worldVars>>

AgentAnswers ==
    /\ Goto("agent", "signal")
    /\ UNCHANGED <<queueVars, turn, current, receipt, told, worldVars>>

\* _enrichment_signal is false.
NoSignal ==
    /\ Goto("signal", "show")
    /\ UNCHANGED <<queueVars, turn, current, receipt, told, worldVars>>

\* Pages read, or project material named in the command: a new envelope.
Signal(e) ==
    /\ Goto("signal", "enrich")
    /\ fate[e] = "new"
    /\ current' = e
    /\ Becomes(e, "open")
    /\ UNCHANGED <<queueVars, turn, receipt, told, commits>>

Ends(f, r) == Becomes(current, f) /\ receipt' = r

\* The enricher proposes a plan that changes nothing.
EnricherNoop ==
    /\ Goto("enrich", "show") \/ Goto("reenrich", "show")
    /\ Ends("settled", "noop")
    /\ UNCHANGED <<queueVars, turn, current, told, commits>>

EnricherCrashes ==
    /\ Goto("enrich", "show") \/ Goto("reenrich", "show")
    /\ Ends("crashed", "crashed")
    /\ UNCHANGED <<queueVars, turn, current, told, commits>>

EnricherPlans ==
    /\ Goto("enrich", "apply") \/ Goto("reenrich", "reapply")
    /\ UNCHANGED <<queueVars, turn, current, receipt, told, worldVars>>

Applied ==
    /\ Goto("apply", "show") \/ Goto("reapply", "show")
    /\ Lands(current, "applied")
    /\ Ends("settled", "filed")
    /\ UNCHANGED <<queueVars, turn, current, told>>

\* _apply_with_conflict_retry: the pages are read again, the enricher asked again.
ConflictRetry ==
    /\ Goto("apply", "reenrich")
    /\ UNCHANGED <<queueVars, turn, current, receipt, told, worldVars>>

\* What reaches the handlers of _run_enrichment: a conflict is retried there once.
Escapes(outcome) ==
    \/ Goto("apply", "show") /\ outcome # "conflict"
    \/ Goto("reapply", "show")

\* Mutant: a transient failure is reported as queued and not enqueued.
ReportOnly ==
    /\ \E outcome \in Transient : Escapes(outcome) /\ Lands(current, outcome)
    /\ receipt' = "queued"
    /\ UNCHANGED <<queueVars, turn, current, told, fate>>

EnqueueAndReport ==
    /\ \E outcome \in Transient : Escapes(outcome) /\ Lands(current, outcome)
    /\ Enqueue(current)
    /\ receipt' = "queued"
    /\ UNCHANGED <<walk, deferring, lastDeferred, turn, current, told, fate>>

\* Every other failure ends the evidence with an error on the receipt.
PersistenceFails ==
    /\ \E outcome \in Outcomes \ (Transient \cup {"applied"}) :
          Escapes(outcome) /\ Lands(current, outcome)
    /\ Ends("crashed", "crashed")
    /\ UNCHANGED <<queueVars, turn, current, told>>

\* The answer, its own receipt (silent for a noop) and the drain's lines.
Show ==
    /\ Goto("show", "idle")
    /\ told' = [e \in Evidence |->
                  told[e] \cup (IF e = current THEN {receipt} ELSE {})
                    \cup (IF e \in Range(lastDeferred) THEN {"deferred"} ELSE {})]
    /\ UNCHANGED <<queueVars, turn, current, receipt, worldVars>>

Drain == DrainSettles \/ DrainDefers \/ DrainRetries \/ EndDrain
Enrich == EnricherNoop \/ EnricherCrashes \/ EnricherPlans
Persist == Applied \/ ConflictRetry \/ EnqueueAndReport \/ PersistenceFails
Next ==
    \/ StartTurn \/ Drain \/ AgentFails \/ AgentAnswers \/ NoSignal
    \/ \E e \in Evidence : Signal(e)
    \/ Enrich \/ Persist \/ Show

Spec == Init /\ [][Next]_vars

-----------------------------------------------------------------------------
(* Properties *)

Queued == {queue[i].evidence : i \in DOMAIN queue}

\* What a drain has still to visit is the head of the queue, in order, however
\* many items it has moved to the tail: replay neither skips nor repeats.
WalkIsHead == pc = "drain" => IsPrefix(walk, queue)

\* Evidence is in exactly one place: new, in the hands of this turn, queued
\* once, or disposed of with a verdict.  Nothing is lost and nothing is kept
\* after its verdict.
Conserved ==
    /\ \A i, j \in DOMAIN queue : queue[i].evidence = queue[j].evidence => i = j
    /\ \A e \in Evidence :
         e \in Queued <=> fate[e] = "open" /\ ~(e = current /\ pc \in {"enrich", "apply", "reenrich", "reapply"})

\* The evidence of one turn is committed at most once, whatever is retried: what
\* failed after its commit is not tried again.
CommittedOnce == \A e \in Evidence : commits[e] <= 1

\* Between turns an item has been replayed in every turn since its own, so none
\* is older than max_attempts turns.
ReplayedEachTurn ==
    pc = "idle" => \A i \in DOMAIN queue :
        /\ queue[i].attempts = turn - queue[i].turn
        /\ queue[i].attempts < MaxAttempts

\* Nobody is told twice that the same evidence was deferred.
DeferredOnce ==
    [][\A e \in Evidence : pc = "show" /\ pc' = "idle" /\ "deferred" \in told[e]
         => e \notin Range(lastDeferred)]_vars

\* A verdict is final: evidence that was settled, deferred or reported as
\* crashed is never worked on again.
VerdictIsFinal ==
    [][\A e \in Evidence : fate[e] \in {"settled", "deferred", "crashed"}
         => fate'[e] = fate[e] /\ commits'[e] = commits[e]]_vars
=============================================================================
