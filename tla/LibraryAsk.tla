----------------------------- MODULE LibraryAsk -----------------------------
(***************************************************************************)
(* Questions to the library: lib_ask (mcp/synth.py, agents/librarian.py    *)
(* with the search and read tools of mcp/search.py and mcp/read.py), the   *)
(* orchestrator's query, and synthesize over ground (mcp/grounding.py).    *)
(* Several are in flight at once, while collections are registered with    *)
(* LIES and with qmd and taken away again.                                 *)
(*                                                                         *)
(* A page is named by the collection it lies in: one page for each tells   *)
(* the scopes apart.  Fabricated is a page no collection has.  The         *)
(* language models are free: the librarian calls its tools as it likes and *)
(* returns any bundle, the synthesizer claims what it likes.               *)
(***************************************************************************)
EXTENDS Integers, FiniteSets

CONSTANTS
  Requests,     \* questions in flight
  Collections,  \* collection names
  Relevant,     \* the collections whose page answers the question
  Fabricated,   \* a page no tool ever returns
  Unscoped,     \* the filter of a question without a tag expression
  MaxSearches,  \* searches one librarian runs
  MaxChanges    \* registrations and removals while questions are asked

VARIABLES
  registry,  \* collections registered with LIES
  indexed,    \* collections the qmd daemon serves
  tool,      \* tool[r]: the surface r was asked on
  stage,     \* stage[r]: where the request stands
  filter,    \* filter[r]: the filter of the search under way
  scope,     \* scope[r]: the collections the search under way is scoped to
  searches,  \* searches[r]: searches the librarian has run
  diag,      \* diag[r]: the dispatch's SearchDiagnostics
  shown,     \* shown[r]: the pages the tools have returned to this dispatch
  failed,    \* failed[r]: some retrieval of this request did not finish
  bundle,    \* bundle[r]: the LibrarianOutput or ArchivistDigest
  answer,    \* answer[r]: what the caller is told
  changes    \* registrations and removals so far

askVars == <<registry, indexed, tool, stage, filter, scope, searches, diag, shown,
             failed, bundle, answer, changes>>
requestVars == <<tool, stage, filter, scope, searches, diag, shown, failed, bundle, answer>>

Pages == Collections \union {Fabricated}
Filters == {Unscoped} \union
           [include : SUBSET Collections, exclude : {{}} \union {{c} : c \in Collections}]
NoFilter == [include |-> {}, exclude |-> {}]
Reasons == {"refused", "unfinished", "unattested", "model"}

NoDiag == [transient |-> FALSE, reasons |-> {}, attested |-> {}]
NoBundle == [excerpts |-> {}, empty |-> FALSE, transient |-> FALSE, reasons |-> {},
             scope |-> {}, noLibrary |-> FALSE]
NoAnswer == [kind |-> "none", evidence |-> {}, claims |-> {}, reasons |-> {}]
Answer(kind, evidence, claims, reasons) ==
  [kind |-> kind, evidence |-> evidence, claims |-> claims, reasons |-> reasons]
AnswerKinds == {"none", "answered", "inconclusive", "miss", "unsynthesized", "error"}

Goto(r, s) == stage' = [stage EXCEPT ![r] = s]
Raises(r) ==
  /\ answer' = [answer EXCEPT ![r] = Answer("error", {}, {}, {})]
  /\ Goto(r, "done")

-----------------------------------------------------------------------------
(* The tag filter.                                                         *)

\* The registered collections a filter selects; an exclude alone includes
\* every collection.
CollectionsMatching(f) ==
  IF f = Unscoped THEN registry ELSE (registry \intersect f.include) \ f.exclude

\* The search tool takes exclude_tags and drops them.
SearchScope(f) ==
  IF f = Unscoped THEN registry ELSE registry \intersect f.include

\* validate_scope: the part of a scope the daemon serves, as it says itself.
ServedPart(s) == s \intersect indexed

\* The daemon answers a scope with a name it does not serve with no rows.
DaemonRows(s) == IF s \subseteq indexed THEN s \intersect Relevant ELSE {}

-----------------------------------------------------------------------------
(* The search and read tools, and the record of what they returned.        *)

Envelope(hits, transient, reasons) ==
  [hits |-> hits, transient |-> transient, reasons |-> reasons]
Unfinished == Envelope({}, TRUE, {"unfinished"})
Refused == Envelope({}, FALSE, {"refused"})

\* Mutant: the record keeps the last envelope's verdict.
RecordsLast(r, e) ==
  /\ diag' = [diag EXCEPT ![r] =
       [transient |-> e.transient,
        reasons   |-> IF e.reasons = {} THEN diag[r].reasons ELSE e.reasons,
        attested  |-> diag[r].attested \union e.hits]]
  /\ shown' = [shown EXCEPT ![r] = @ \union e.hits]
  /\ failed' = [failed EXCEPT ![r] = @ \/ e.transient]
  /\ Goto(r, "librarian")

\* SearchDiagnostics.record: a failure sticks, the last reason wins, every
\* path returned is attested.  The model sees the envelope after that.
Records(r, e) ==
  /\ diag' = [diag EXCEPT ![r] =
       [transient |-> @.transient \/ e.transient,
        reasons   |-> IF e.reasons = {} THEN @.reasons ELSE e.reasons,
        attested  |-> @.attested \union e.hits]]
  /\ shown' = [shown EXCEPT ![r] = @ \union e.hits]
  /\ failed' = [failed EXCEPT ![r] = @ \/ e.transient]
  /\ Goto(r, "librarian")

\* The librarian searches: the scope is resolved from the registry.  A tag
\* expression that selects nothing and an empty library are refused.
SearchScopes(r) ==
  /\ stage[r] = "librarian"
  /\ searches[r] < MaxSearches
  /\ searches' = [searches EXCEPT ![r] = @ + 1]
  /\ \E f \in {Unscoped} \union [include : SUBSET Collections, exclude : {{}}] :
       LET s == SearchScope(f) IN
       IF s = {}
       THEN Records(r, Refused) /\ UNCHANGED <<filter, scope>>
       ELSE /\ filter' = [filter EXCEPT ![r] = f]
            /\ scope' = [scope EXCEPT ![r] = s]
            /\ Goto(r, "validate")
            /\ UNCHANGED <<diag, shown, failed>>
  /\ UNCHANGED <<registry, indexed, tool, bundle, answer, changes>>

\* validate_scope asks the daemon what it serves: one collection it does not
\* serve refuses the whole search, a wedged daemon ends it unfinished.
SearchValidates(r) ==
  /\ stage[r] = "validate"
  /\ \/ scope[r] = ServedPart(scope[r]) /\ Goto(r, "query") /\ UNCHANGED <<diag, shown, failed>>
     \/ scope[r] # ServedPart(scope[r]) /\ Records(r, Refused)
     \/ Records(r, Unfinished)
  /\ UNCHANGED <<registry, indexed, tool, filter, scope, searches, bundle, answer, changes>>

\* The query is posted: it returns rows, or did not finish (wedged, timed out,
\* queued past its budget, any other failure).
SearchQueries(r) ==
  /\ stage[r] = "query"
  /\ \E e \in {Envelope(DaemonRows(scope[r]), FALSE, {}), Unfinished} : Records(r, e)
  /\ UNCHANGED <<registry, indexed, tool, filter, scope, searches, bundle, answer, changes>>

\* The librarian reads pages: those the daemon has come back and are attested.
\* A batch without one body raises, as a daemon that is down does; see
\* DispatchFails.
LibrarianReads(r) ==
  /\ stage[r] = "librarian"
  /\ \E paths \in SUBSET Pages :
       LET bodies == paths \intersect indexed IN
       /\ bodies # {}
       /\ diag' = [diag EXCEPT ![r].attested = @ \union bodies]
       /\ shown' = [shown EXCEPT ![r] = @ \union bodies]
  /\ UNCHANGED <<registry, indexed, tool, stage, filter, scope, searches, failed, bundle,
                 answer, changes>>

-----------------------------------------------------------------------------
(* The librarian's bundle.                                                 *)

\* with_search_diagnostics: excerpts no tool returned are dropped, a bundle
\* that loses all of them is a failed run, and a bundle without excerpts takes
\* the recorded verdict and reason.
WithSearchDiagnostics(out, d) ==
  LET kept == out.excerpts \intersect d.attested IN
  IF out.excerpts = {}
  THEN [out EXCEPT !.reasons = IF d.reasons = {} THEN @ ELSE d.reasons,
                   !.transient = @ \/ d.transient,
                   !.empty = @ /\ ~d.transient]
  ELSE IF kept = out.excerpts THEN out
  ELSE IF kept = {}
  THEN [out EXCEPT !.excerpts = {}, !.transient = TRUE, !.empty = FALSE,
                   !.reasons = {"unattested"} \union d.reasons]
  ELSE [out EXCEPT !.excerpts = kept, !.reasons = {"unattested"} \union d.reasons]

\* The librarian returns: any bundle.
LibrarianReturns(r) ==
  /\ stage[r] = "librarian"
  /\ \E excerpts \in SUBSET Pages, empty \in BOOLEAN, transient \in BOOLEAN :
       bundle' = [bundle EXCEPT ![r] = WithSearchDiagnostics(
         [NoBundle EXCEPT !.excerpts = excerpts, !.empty = empty,
                          !.transient = transient, !.reasons = {"model"}], diag[r])]
  /\ Goto(r, "bundle")
  /\ UNCHANGED <<registry, indexed, tool, filter, scope, searches, diag, shown, failed,
                 answer, changes>>

\* The dispatch raises: the model runs out of retries, a tool raises, the
\* daemon is down.  lib_ask builds a transient bundle, the orchestrator's query
\* fails.
DispatchFails(r) ==
  /\ stage[r] \in {"librarian", "validate", "query"}
  /\ \/ /\ tool[r] = "ask"
        /\ bundle' = [bundle EXCEPT ![r] = WithSearchDiagnostics(
             [NoBundle EXCEPT !.transient = TRUE, !.reasons = {"model"}], diag[r])]
        /\ Goto(r, "bundle")
        /\ UNCHANGED answer
     \/ /\ tool[r] = "query"
        /\ Raises(r)
        /\ UNCHANGED bundle
  /\ failed' = [failed EXCEPT ![r] = TRUE]
  /\ UNCHANGED <<registry, indexed, tool, filter, scope, searches, diag, shown, changes>>

-----------------------------------------------------------------------------
(* The answer.                                                             *)

\* _validate_claim_citations: a claim survives when its quote is found in the
\* excerpt it cites.  Claims are named by the page they cite; quotes are genuine
\* when the excerpt is there.
ValidClaims(claims, excerpts) == claims \intersect excerpts

\* _ask_impl: a transient bundle is inconclusive, one without excerpts is a
\* miss, and only a bundle with excerpts reaches the synthesizer, whose failure
\* the caller sees.  The pages it cites are the model's own: nothing compares them
\* with the excerpts it was given.
AskAnswers(r) ==
  /\ stage[r] = "bundle" /\ tool[r] = "ask"
  /\ \/ /\ bundle[r].transient
        /\ answer' = [answer EXCEPT ![r] = Answer("inconclusive", {}, {}, bundle[r].reasons)]
     \/ /\ ~bundle[r].transient /\ bundle[r].excerpts = {}
        /\ answer' = [answer EXCEPT ![r] = Answer("miss", {}, {}, bundle[r].reasons)]
     \/ /\ ~bundle[r].transient /\ bundle[r].excerpts # {}
        /\ \/ \E cited \in SUBSET Pages : answer' = [answer EXCEPT ![r] =
                Answer("answered", bundle[r].excerpts, cited, bundle[r].reasons)]
           \/ answer' = [answer EXCEPT ![r] = Answer("error", {}, {}, {})]
  /\ Goto(r, "done")
  /\ UNCHANGED <<registry, indexed, tool, filter, scope, searches, diag, shown, failed, bundle,
                 changes>>

\* _call_synthesizer: the orchestrator synthesizes from any bundle, an empty or
\* a transient one too, and keeps the claims that validate.
QueryAnswers(r) ==
  /\ stage[r] = "bundle" /\ tool[r] = "query"
  /\ \E claims \in SUBSET Pages :
       answer' = [answer EXCEPT ![r] =
         Answer("answered", bundle[r].excerpts,
                ValidClaims(claims, bundle[r].excerpts), {})]
  /\ Goto(r, "done")
  /\ UNCHANGED <<registry, indexed, tool, filter, scope, searches, diag, shown, failed, bundle,
                 changes>>

-----------------------------------------------------------------------------
(* ground and synthesize.                                                  *)

Inconclusive(r, reasons) ==
  /\ bundle' = [bundle EXCEPT ![r] =
       [NoBundle EXCEPT !.transient = TRUE, !.reasons = reasons, !.scope = scope'[r]]]
  /\ failed' = [failed EXCEPT ![r] = TRUE]
  /\ Goto(r, "digest")

\* ground resolves the filter.  An empty library is said to be none; a filter
\* that selects nothing goes to the librarian, whose run_sync cannot run inside
\* the event loop ground runs in.
GroundScopes(r) ==
  /\ stage[r] = "ground"
  /\ \E f \in Filters :
       LET s == CollectionsMatching(f) IN
       /\ filter' = [filter EXCEPT ![r] = f]
       /\ scope' = [scope EXCEPT ![r] = s]
       /\ \/ /\ s = {} /\ f = Unscoped
             /\ bundle' = [bundle EXCEPT ![r] =
                  [NoBundle EXCEPT !.empty = TRUE, !.noLibrary = TRUE]]
             /\ Goto(r, "digest")
             /\ UNCHANGED failed
          \/ s = {} /\ f # Unscoped /\ Inconclusive(r, {})
          \/ s # {} /\ Goto(r, "groundValidate") /\ UNCHANGED <<bundle, failed>>
  /\ UNCHANGED <<registry, indexed, tool, searches, diag, shown, answer, changes>>

\* _fanout_collections drops what the daemon does not serve.  When nothing is
\* left the digest says it searched nothing, and claims nothing of the corpus.
\* A daemon down or wedged raises, any other failure is a transient digest.
GroundValidates(r) ==
  /\ stage[r] = "groundValidate"
  /\ \/ /\ scope' = [scope EXCEPT ![r] = ServedPart(@)]
        /\ bundle' = [bundle EXCEPT ![r] = NoBundle]
        /\ Goto(r, IF scope'[r] = {} THEN "digest" ELSE "groundQuery")
        /\ UNCHANGED <<failed, answer>>
     \/ /\ UNCHANGED <<scope, answer>>
        /\ \E reasons \in {{}, {"unfinished"}} : Inconclusive(r, reasons)
     \/ Raises(r) /\ UNCHANGED <<scope, bundle, failed>>
  /\ UNCHANGED <<registry, indexed, tool, filter, searches, diag, shown, changes>>

\* The query over what is indexed; an excerpt without prose gives no citation.
GroundQueries(r) ==
  /\ stage[r] = "groundQuery"
  /\ \/ /\ \E cited \in SUBSET DaemonRows(scope[r]) :
             bundle' = [bundle EXCEPT ![r] =
               [NoBundle EXCEPT !.excerpts = cited, !.scope = scope[r],
                                !.empty = DaemonRows(scope[r]) = {}]]
        /\ shown' = [shown EXCEPT ![r] = @ \union DaemonRows(scope[r])]
        /\ Goto(r, "digest")
        /\ UNCHANGED <<scope, failed, answer>>
     \/ /\ UNCHANGED <<scope, answer, shown>>
        /\ \E reasons \in {{}, {"unfinished"}} : Inconclusive(r, reasons)
     \/ Raises(r) /\ UNCHANGED <<scope, bundle, failed, shown>>
  /\ UNCHANGED <<registry, indexed, tool, filter, searches, diag, changes>>

\* synthesize: inconclusive before empty, and a model that is not configured or
\* fails leaves an envelope without an answer.
Synthesizes(r) ==
  /\ stage[r] = "digest"
  /\ \/ /\ bundle[r].transient
        /\ answer' = [answer EXCEPT ![r] = Answer("inconclusive", {}, {}, bundle[r].reasons)]
     \/ /\ ~bundle[r].transient /\ bundle[r].excerpts = {}
        /\ answer' = [answer EXCEPT ![r] = Answer("miss", {}, {}, {})]
     \/ /\ ~bundle[r].transient /\ bundle[r].excerpts # {}
        /\ \E kind \in {"answered", "unsynthesized"} :
             answer' = [answer EXCEPT ![r] = Answer(kind, bundle[r].excerpts, {}, {})]
  /\ Goto(r, "done")
  /\ UNCHANGED <<registry, indexed, tool, filter, scope, searches, diag, shown, failed, bundle,
                 changes>>

-----------------------------------------------------------------------------
(* The environment and the specification.                                  *)

Asks(r) ==
  /\ stage[r] = "idle"
  /\ \E t \in {"ask", "query", "synthesize"} :
       /\ tool' = [tool EXCEPT ![r] = t]
       /\ Goto(r, IF t = "synthesize" THEN "ground" ELSE "librarian")
  /\ UNCHANGED <<registry, indexed, filter, scope, searches, diag, shown, failed, bundle,
                 answer, changes>>

\* A collection is registered or removed, with LIES or with qmd.
CollectionsChange ==
  /\ changes < MaxChanges
  /\ changes' = changes + 1
  /\ \E c \in Collections :
       \/ registry' = (registry \ {c}) \union ({c} \ registry) /\ UNCHANGED indexed
       \/ indexed' = (indexed \ {c}) \union ({c} \ indexed) /\ UNCHANGED registry
  /\ UNCHANGED requestVars

AskInit ==
  /\ registry = Collections /\ indexed = Collections
  /\ tool = [r \in Requests |-> "none"]
  /\ stage = [r \in Requests |-> "idle"]
  /\ filter = [r \in Requests |-> NoFilter]
  /\ scope = [r \in Requests |-> {}]
  /\ searches = [r \in Requests |-> 0]
  /\ diag = [r \in Requests |-> NoDiag]
  /\ shown = [r \in Requests |-> {}]
  /\ failed = [r \in Requests |-> FALSE]
  /\ bundle = [r \in Requests |-> NoBundle]
  /\ answer = [r \in Requests |-> NoAnswer]
  /\ changes = 0

RequestStep(r) ==
  \/ SearchScopes(r) \/ SearchValidates(r) \/ SearchQueries(r) \/ LibrarianReads(r)
  \/ LibrarianReturns(r) \/ DispatchFails(r) \/ AskAnswers(r) \/ QueryAnswers(r)
  \/ GroundScopes(r) \/ GroundValidates(r) \/ GroundQueries(r) \/ Synthesizes(r)

AskNext == CollectionsChange \/ \E r \in Requests : Asks(r) \/ RequestStep(r)

AskTypeOK ==
  /\ registry \subseteq Collections /\ indexed \subseteq Collections
  /\ \A r \in Requests :
       /\ tool[r] \in {"none", "ask", "query", "synthesize"}
       /\ stage[r] \in {"idle", "librarian", "validate", "query", "bundle", "ground",
                        "groundValidate", "groundQuery", "digest", "done"}
       /\ filter[r] \in Filters
       /\ scope[r] \subseteq Collections
       /\ searches[r] \in 0..MaxSearches
       /\ diag[r] \in [transient : BOOLEAN, reasons : SUBSET Reasons,
                       attested : SUBSET Pages]
       /\ shown[r] \subseteq Pages /\ failed[r] \in BOOLEAN
       /\ bundle[r].excerpts \subseteq Pages /\ bundle[r].reasons \subseteq Reasons
       /\ answer[r].kind \in AnswerKinds
       /\ answer[r].reasons \subseteq Reasons
  /\ changes \in 0..MaxChanges

-----------------------------------------------------------------------------
(* Properties.                                                             *)

\* "No relevant content found in library" is never said by a request one of
\* whose retrievals did not finish: not when a later search of the librarian
\* came back clean, not when the model calls an unfinished lookup empty.
NoMissFromFailure ==
  \A r \in Requests : answer[r].kind = "miss" => ~failed[r]

\* The excerpts a synthesizer is given were returned by a tool to this very
\* dispatch, not invented by the librarian.
EvidenceWasReturned ==
  \A r \in Requests : answer[r].evidence \subseteq shown[r]

\* A claim the orchestrator keeps (and files as evidence) cites a page a tool
\* returned to this dispatch, whatever the two models between the tool and the
\* claim wrote.  lib_ask cites what its synthesizer says.
ClaimsWereReturned ==
  \A r \in Requests : tool[r] = "query" => answer[r].claims \subseteq shown[r]

\* A digest that claims the library has nothing searched something: collections
\* that are registered and not indexed are a problem of scope.  It is the digest
\* that keeps to this: synthesize answers "No relevant content found" of both.
EmptyMeansSearched ==
  \A r \in Requests :
    tool[r] = "synthesize" /\ bundle[r].empty
      => bundle[r].scope # {} \/ bundle[r].noLibrary

\* ground cites no page of a collection the caller excluded or did not include.
GroundedInScope ==
  \A r \in Requests :
    tool[r] = "synthesize" /\ filter[r] # Unscoped
      => bundle[r].excerpts \subseteq filter[r].include \ filter[r].exclude
=============================================================================
