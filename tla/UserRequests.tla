----------------------------- MODULE UserRequests -----------------------------
(* What a user or an agent asks LIES for, from outside: `mcp up` and `down`,    *)
(* `sync`, a question to the library, the tail of a prompt, an extractive       *)
(* answer.  They share no variable; `part` picks the one a behaviour runs.      *)
EXTENDS McpDaemon, PromptTail, Retrieval

CONSTANTS
    Syncs, Nobody, MaxSyncs,
    Requests, Collections, Relevant, Fabricated, Unscoped, MaxSearches, MaxChanges

VARIABLES
    part,
    createLock, heartbeat, fdFile, hourOld, spc, waits, overran, raced, syncs,
    registry, indexed, tool, stage, filter, scope, searches, diag, shown, failed, bundle, answer,
    changes

S == INSTANCE SyncLock
L == INSTANCE LibraryAsk

\* Nobody is no process, no daemon has the stranger's name, an unscoped question
\* has no filter.
ASSUME RequestsAssumption ==
    /\ Nobody \notin Syncs /\ "stranger" \notin Pids \cup {NoPid}
    /\ MaxSearches \in Nat /\ MaxChanges \in Nat
    /\ Unscoped \notin [include : SUBSET Collections, exclude : SUBSET Collections]

syncing == <<createLock, heartbeat, fdFile, hourOld, spc, waits, overran, raced, syncs>>
asking == <<registry, indexed, tool, stage, filter, scope, searches, diag, shown, failed, bundle,
            answer, changes>>
requestVars == <<part, daemonVars, syncing, asking, tailVars, retrievalVars>>

RequestsInit == McpInit /\ S!SyncInit /\ L!AskInit /\ TailInit /\ RetrievalInit

RequestsNext ==
    \/ part = "daemon" /\ McpNext /\ UNCHANGED <<part, syncing, asking, tailVars, retrievalVars>>
    \/ part = "sync" /\ S!SyncNext /\ UNCHANGED <<part, daemonVars, asking, tailVars, retrievalVars>>
    \/ part = "ask" /\ L!AskNext /\ UNCHANGED <<part, daemonVars, syncing, tailVars, retrievalVars>>
    \/ part = "tail" /\ TailNext /\ UNCHANGED <<part, daemonVars, syncing, asking, retrievalVars>>
    \/ part = "retrieve" /\ RetrievalNext /\ UNCHANGED <<part, daemonVars, syncing, asking, tailVars>>

RequestsSpec == RequestsInit /\ [][RequestsNext]_requestVars

\* A daemon of this wiki that lives is recorded or waited for, but for the children
\* NoneUntracked names and lock files taken from commands at work, and a record
\* names one that has listened (mcp/daemon.py).
DaemonTracked == McpTypeOK /\ NoneUntracked /\ RecordServed

\* One sync at a time is inside, for the hour its lock counts and unless two take
\* over one orphan, and a heartbeat means a lock behind it (etl/sync_helper.py).
SyncExclusive == S!SyncTypeOK /\ S!OneSyncInside /\ S!HeartbeatHoldsLock

\* What an answer is made of: a search that did not finish is told as no miss, the
\* excerpts given to a synthesizer and the claims the orchestrator keeps were
\* returned to their own request, a digest that claims an empty corpus searched
\* some collection, a grounded one stays in its scope (agents/librarian.py,
\* mcp/grounding.py).  The extractive answer tells a failure of qmd from a miss,
\* keeps the library's pages to the scope, cites each page once, and calls itself
\* ungrounded only without a page of the library (query/synthesizer.py).
AnswersAreFounded ==
    /\ L!AskTypeOK
    /\ L!NoMissFromFailure /\ L!EvidenceWasReturned /\ L!ClaimsWereReturned
    /\ L!EmptyMeansSearched /\ L!GroundedInScope
    /\ RetrievalTypeOK /\ MissWasSearched /\ ScopeIsKept /\ SourcesAreTold

\* A prompt's tail reaches the command it becomes: of a library verb nothing is
\* dropped, of an ingest of one source no more than an earlier --source, but for
\* value flags spelled with a single dash; an unknown flag asks, the source named is
\* the one ingested, flags pass on to sync, what deletes is confirmed, a question
\* keeps its words (mcp/prompts_impl.py).
TailsAreKept ==
    /\ TailTypeOK
    /\ NothingLost /\ IngestShowsRest /\ UndeclaredFlagAsks /\ IngestsNamedSource
    /\ SyncCarriesFlags /\ DestructiveIsConfirmed /\ QuestionKeepsWords
===============================================================================
