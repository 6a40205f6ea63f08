------------------------------ MODULE Retrieval ------------------------------
(***************************************************************************)
(* The extractive answer (query/synthesizer.py): two passes of `qmd query`, *)
(* one for the library's collections and one for the wiki's own, whose hits *)
(* are read from the library or the wiki while files come and go, and what  *)
(* the answer says of where it comes from.  A document is named by its      *)
(* collection; the wiki may have a file at the same relative path.          *)
(***************************************************************************)
EXTENDS Naturals, FiniteSets, Functions, Subsequences

CONSTANTS
    Documents,     \* a document of each collection
    TopN,          \* top_n, and the limit of qmd_query
    Everything,    \* the scope of a question without a filter
    MaxRows,       \* bound: rows qmd prints
    MaxFiles       \* bound: files that appear or go meanwhile

ASSUME RetrievalAssumption == TopN \in Nat /\ MaxFiles \in Nat

VARIABLES
    wanted,        \* collection_filter of the first pass, or Everything
    library, wikiFiles,  \* the documents readable in either root
    step,          \* the pass under way and where it stands
    hits,          \* the rows of this pass that qmd_query returned
    found,         \* [Passes -> the pages read]
    failure,       \* [Passes -> the failure of the pass]
    pages, reason, \* what retrieve_pages returns
    note,          \* what the answer says of its sources
    fileChanges

retrievalVars == <<wanted, library, wikiFiles, step, hits, found, failure, pages, reason, note,
                   fileChanges>>

Passes == {"library", "wiki"}
Failures == {"none", "unavailable", "failed", "noResults"}

\* A row of qmd by the URI it carries: a document of a library collection, one of
\* wiki_<name>, or none (_normalize_qmd_result: path "").
Hits == [root : Passes, doc : Documents] \cup {[root |-> "none", doc |-> d] : d \in Documents}
NoUri(h) == h.root = "none"
Page(source, doc) == [source |-> source, doc |-> doc]
PageReads == [source : Passes, doc : Documents]

RetrievalTypeOK ==
    /\ wanted \in (SUBSET Documents) \cup {Everything}
    /\ library \subseteq Documents /\ wikiFiles \subseteq Documents
    /\ step \in [pass : Passes, at : {"search", "read"}]
               \cup [pass : {"both"}, at : {"merge", "assemble", "done"}]
    /\ hits \in Seq(Hits) /\ Len(hits) <= TopN
    /\ \A p \in Passes : found[p] \in Seq(PageReads) /\ failure[p] \in Failures
    /\ pages \in Seq(PageReads) /\ reason \in Failures \cup {"wikiOnly"}
    /\ note \in {"", "no pages", "not grounded", "open", "raised"} /\ fileChanges \in 0 .. MaxFiles

Place(pass, where) == [pass |-> pass, at |-> where]
At(pass, where) == step = Place(pass, where)

RetrievalInit ==
    /\ wanted \in (SUBSET Documents) \cup {Everything}
    /\ library \in SUBSET Documents /\ wikiFiles \in SUBSET Documents
    /\ At("library", "search") /\ hits = <<>>
    /\ found = [p \in Passes |-> <<>>] /\ failure = [p \in Passes |-> "none"]
    /\ pages = <<>> /\ reason = "none" /\ note = "open" /\ fileChanges = 0

-----------------------------------------------------------------------------
(* qmd_query *)

\* The rows qmd may print: it has its own cap, and an index that may be older
\* than the files.
Rows == {rows \in UNION {[1 .. n -> Hits] : n \in 0 .. MaxRows} :
             /\ \A i, j \in DOMAIN rows : rows[i] = rows[j] => i = j
             /\ Cardinality({i \in DOMAIN rows : NoUri(rows[i])}) <= 1}

\* The filter, by the first segment of the path; the wiki's pass has its own
\* collection for a filter, whatever was wanted.
Passing(pass, h) ==
    IF pass = "wiki" THEN h.root = "wiki"
    ELSE wanted = Everything \/ (h.root = "library" /\ h.doc \in wanted)

Take(s) == SubSeq(s, 1, IF Len(s) < TopN THEN Len(s) ELSE TopN)
Kept(pass, rows) == Take(ValuesAt(rows, {i \in DOMAIN rows : Passing(pass, rows[i])}))

-----------------------------------------------------------------------------
(* The two passes *)

After(pass) == IF pass = "library" THEN Place("wiki", "search") ELSE Place("both", "merge")

\* _qmd_search_dispatch: a failure of qmd, a time-out included, is one of three.
PassFails(pass, why) ==
    /\ failure' = [failure EXCEPT ![pass] = why]
    /\ step' = After(pass)
    /\ UNCHANGED <<wanted, library, wikiFiles, hits, found, pages, reason, note, fileChanges>>

QmdFails(pass) == At(pass, "search") /\ \E why \in {"unavailable", "failed"} : PassFails(pass, why)

\* A lock of qmd that is not got within its budget, or whose holder cannot be told
\* dead or alive, is none of the three: the caller gets the error and no answer.
Raises(pass) ==
    /\ At(pass, "search") /\ step' = Place("both", "done") /\ note' = "raised"
    /\ UNCHANGED <<wanted, library, wikiFiles, hits, found, failure, pages, reason, fileChanges>>

QmdAnswers(pass) ==
    /\ At(pass, "search")
    /\ \E rows \in Rows :
          IF Kept(pass, rows) = <<>> THEN PassFails(pass, "noResults")
          ELSE /\ hits' = Kept(pass, rows)
               /\ step' = [step EXCEPT !.at = "read"]
               /\ UNCHANGED <<wanted, library, wikiFiles, found, failure, pages, reason, note, fileChanges>>

\* A hit is looked for under the library's root, then under the wiki's, with the
\* wiki's own prefix taken off; a path that is in both gives two pages.
InLibrary(h) == h.root = "library" /\ h.doc \in library
InWiki(h) == ~NoUri(h) /\ h.doc \in wikiFiles
Looked(rows) ==
    [k \in 1 .. 2 * Len(rows) |->
       Page(IF k % 2 = 1 THEN "library" ELSE "wiki", rows[(k + 1) \div 2].doc)]
Readable(rows, k) ==
    LET h == rows[(k + 1) \div 2] IN IF k % 2 = 1 THEN InLibrary(h) ELSE InWiki(h)
Resolved(rows) ==
    Take(ValuesAt(Looked(rows), {k \in 1 .. 2 * Len(rows) : Readable(rows, k)}))

Reads(pass) ==
    /\ At(pass, "read")
    /\ IF Resolved(hits) = <<>> THEN PassFails(pass, "noResults")
       ELSE /\ found' = [found EXCEPT ![pass] = Resolved(hits)]
            /\ step' = After(pass)
            /\ UNCHANGED <<wanted, library, wikiFiles, hits, failure, pages, reason, note, fileChanges>>

-----------------------------------------------------------------------------
(* The answer *)

\* One page per path and source: both passes may return a page of the wiki.
Deduped(s) == ValuesAt(s, {i \in DOMAIN s : \A j \in 1 .. (i - 1) : s[j] # s[i]})

\* Why the answer is not the library's: with no page at all, the worst failure.
Reason(read) ==
    LET failures == {failure[p] : p \in Passes} IN
    CASE read = <<>> /\ "unavailable" \in failures -> "unavailable"
      [] read = <<>> /\ "unavailable" \notin failures /\ "failed" \in failures -> "failed"
      [] read = <<>> /\ failures \cap {"unavailable", "failed"} = {} -> "noResults"
      [] read # <<>> /\ found["library"] = <<>> -> "wikiOnly"
      [] OTHER -> "none"

Merges ==
    /\ At("both", "merge") /\ step' = Place("both", "assemble")
    /\ pages' = Deduped(found["library"] \o found["wiki"])
    /\ reason' = Reason(found["library"] \o found["wiki"])
    /\ UNCHANGED <<wanted, library, wikiFiles, hits, found, failure, note, fileChanges>>

\* synthesize_answer: build_answer_from_pages cites every page in order and says
\* when none is a primary source; _empty_answer names the reason.
Assembles ==
    /\ At("both", "assemble") /\ step' = Place("both", "done")
    /\ note' = IF pages = <<>> THEN "no pages" ELSE IF reason = "wikiOnly" THEN "not grounded" ELSE ""
    /\ UNCHANGED <<wanted, library, wikiFiles, hits, found, failure, pages, reason, fileChanges>>

\* A sync, a migration or an editor meanwhile.
FileChanges ==
    /\ step.at \in {"search", "read"} /\ fileChanges < MaxFiles /\ fileChanges' = fileChanges + 1
    /\ \E d \in Documents :
         \/ library' = (library \ {d}) \cup ({d} \ library) /\ UNCHANGED wikiFiles
         \/ wikiFiles' = (wikiFiles \ {d}) \cup ({d} \ wikiFiles) /\ UNCHANGED library
    /\ UNCHANGED <<wanted, step, hits, found, failure, pages, reason, note>>

RetrievalNext ==
    \/ \E pass \in Passes : QmdFails(pass) \/ Raises(pass) \/ QmdAnswers(pass) \/ Reads(pass)
    \/ Merges \/ Assembles \/ FileChanges

-----------------------------------------------------------------------------
(* Properties *)

\* "No results" is said only of a search that both passes finished: a failure of
\* qmd is never told as an empty corpus (retrieve_pages' fallback reasons).
MissWasSearched ==
    reason = "noResults" => \A p \in Passes : failure[p] = "noResults"

\* A page of the library is in the scope that was asked for, also when the wiki
\* has files at the same paths and the second pass brings pages of its own.
ScopeIsKept ==
    wanted # Everything => \A i \in DOMAIN pages : pages[i].source = "library" => pages[i].doc \in wanted

\* The answer that calls itself ungrounded cites no page of the library, and every
\* page of the wiki's pass is cited once, whichever pass met it first.  Not the
\* other way round: a first pass that returns pages of the wiki only, as one
\* without a filter may, counts as the library's.
SourcesAreTold ==
    At("both", "done") /\ note # "raised" =>
        /\ note = "not grounded" => \A i \in DOMAIN pages : pages[i].source = "wiki"
        /\ note = "no pages" <=> pages = <<>>
        /\ \A i, j \in DOMAIN pages : pages[i] = pages[j] => i = j
        /\ Range(found["wiki"]) \cup Range(found["library"]) = Range(pages)
=============================================================================
