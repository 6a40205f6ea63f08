------------------------------- MODULE Filing -------------------------------
(***************************************************************************)
(* How an answer or a text becomes a wiki page: run_query's filing gate,   *)
(* file_back_synthesis and `lies page write`, which all build a plan of    *)
(* one operation (page/author.py) and hand it to file_back_author          *)
(* (orchestrator.py), which tries apply_plan three times.  A page is its   *)
(* version, 0 while it does not exist; other writers change pages too.     *)
(***************************************************************************)
EXTENDS Integers

CONSTANTS
    Queries,       \* runs of run_query
    Writes,        \* runs of `lies page write`
    Slugs,
    MaxEdits       \* bound: changes by other writers

Authors == Queries \cup Writes

VARIABLES
    page,          \* [Slugs -> version of the page, 0 when there is none]
    fpc,           \* per author: step
    target,        \* per author: the slug written to
    seen,          \* per author: the version its plan expects, 0 for a PageCreate
    tries,         \* per author: calls of apply_plan
    landed,        \* per author: commits made
    fileReceipt,   \* per author: what the caller is told
    earlier,       \* per author: what the first run of its question had told and
                   \* committed when the second began (`lies query --format`)
    fileEdits      \* counter of the bound

filingVars == <<page, fpc, target, seen, tries, landed, fileReceipt, earlier, fileEdits>>

Missing == -1    \* the expected hash of a page that is gone: ""
Receipts == {"open", "answer", "collision", "refused", "invalid", "filed",
             "crashed", "exhausted"}

\* Nothing came before a first run.
FirstRun == [receipt |-> "open", landed |-> 0]

FilingTypeOK ==
    /\ page \in [Slugs -> Nat]
    /\ fpc \in [Authors -> {"start", "exists", "sha", "apply", "done"}]
    /\ target \in [Authors -> Slugs]
    /\ seen \in [Authors -> Nat \cup {Missing}]
    /\ tries \in [Authors -> 0 .. 3] /\ landed \in [Authors -> Nat]
    /\ fileReceipt \in [Authors -> Receipts]
    /\ earlier \in [Authors -> [receipt : Receipts, landed : Nat]]
    /\ fileEdits \in 0 .. MaxEdits

FilingInit ==
    /\ page \in [Slugs -> {0, 1}]
    /\ fpc = [a \in Authors |-> "start"]
    /\ target \in [Authors -> Slugs]
    /\ seen = [a \in Authors |-> 0]
    /\ tries = [a \in Authors |-> 0] /\ landed = [a \in Authors |-> 0]
    /\ fileReceipt = [a \in Authors |-> "open"] /\ fileEdits = 0
    /\ earlier = [a \in Authors |-> FirstRun]

Goto(a, from, to) == fpc[a] = from /\ fpc' = [fpc EXCEPT ![a] = to]
Ends(a, from, r) ==
    Goto(a, from, "done") /\ fileReceipt' = [fileReceipt EXCEPT ![a] = r]

-----------------------------------------------------------------------------
(* Before the plan *)

\* What the synthesizer and the librarian return, as far as the gate looks:
\* the verdict, the distinct pages, whether the body has three lines, and the
\* slug of the body's first line (not of the question).
Answers == [shouldFile : BOOLEAN, pages : {1, 2}, substantive : BOOLEAN, heading : Slugs]

\* A row of the catalog, which apply_plan keeps in step with the pages.
HasExistingConceptPage(answer) == page[answer.heading] > 0

ShouldFile(answer) ==
    /\ ~HasExistingConceptPage(answer)
    /\ answer.shouldFile
    /\ answer.pages >= 2
    /\ answer.substantive

\* run_query up to the gate: the answer alone, or a page of it as well.
RunQuery(a) ==
    /\ a \in Queries
    /\ \E answer \in Answers :
          IF ShouldFile(answer)
            THEN Goto(a, "start", "exists") /\ UNCHANGED fileReceipt
            ELSE Ends(a, "start", "answer")
    /\ UNCHANGED <<page, target, seen, tries, landed, earlier, fileEdits>>

\* `lies page write`: a page that is there is refused without --force.
PageWrite(a) ==
    /\ a \in Writes
    /\ \E force \in BOOLEAN :
          IF page[target[a]] > 0 /\ ~force
            THEN Ends(a, "start", "collision")
            ELSE Goto(a, "start", "exists") /\ UNCHANGED fileReceipt
    /\ UNCHANGED <<page, target, seen, tries, landed, earlier, fileEdits>>

\* `lies query --format X` of an answer in another format asks the whole question
\* a second time (run_query_with_format), with the same file_back.
Again(a) == earlier[a] # FirstRun

FormatOverride(a) ==
    /\ a \in Queries /\ ~Again(a) /\ fileReceipt[a] # "invalid"
    /\ Goto(a, "done", "start")
    /\ earlier' = [earlier EXCEPT ![a] = [receipt |-> fileReceipt[a], landed |-> landed[a]]]
    /\ fileReceipt' = [fileReceipt EXCEPT ![a] = "open"]
    /\ tries' = [tries EXCEPT ![a] = 0]
    /\ UNCHANGED <<page, target, seen, landed, fileEdits>>

\* An error of the second run leaves the first run's answer on the screen.
SecondRunFails(a) ==
    /\ Again(a) /\ Ends(a, "start", earlier[a].receipt)
    /\ UNCHANGED <<page, target, seen, tries, landed, earlier, fileEdits>>

-----------------------------------------------------------------------------
(* build_author_plan *)

\* A missing section is refused; an empty body or no derived_from is an error.
BuildRefuses(a) ==
    /\ \/ Ends(a, "exists", "refused")
       \/ Ends(a, "exists", IF Again(a) THEN earlier[a].receipt ELSE "invalid")
    /\ UNCHANGED <<page, target, seen, tries, landed, earlier, fileEdits>>

\* exists(): PageCreate for a page that is not there, else PageUpdate.
BuildPlan(a) ==
    /\ IF page[target[a]] = 0
         THEN Goto(a, "exists", "apply") /\ seen' = [seen EXCEPT ![a] = 0]
         ELSE Goto(a, "exists", "sha") /\ UNCHANGED seen
    /\ UNCHANGED <<page, target, tries, landed, fileReceipt, earlier, fileEdits>>

\* sha_lookup() is a second read; the page may have gone since the first.
ShaLookup(a) ==
    /\ Goto(a, "sha", "apply")
    /\ seen' = [seen EXCEPT ![a] = IF page[target[a]] = 0 THEN Missing ELSE page[target[a]]]
    /\ UNCHANGED <<page, target, tries, landed, fileReceipt, earlier, fileEdits>>

-----------------------------------------------------------------------------
(* file_back_author: apply_plan, up to three times *)

Transient == {"busy", "conflict"}

\* validate_plan: a create finds its page, an update has no hash or another one.
Verdict(a) ==
    IF seen[a] = Missing THEN "invalid"
    ELSE IF seen[a] = page[target[a]] THEN "valid"
    ELSE IF seen[a] = 0 THEN "invalid" ELSE "conflict"

\* What apply_plan may do with the plan now; "late" is a commit whose sha
\* could not be read.
Outcome(a) ==
    {"busy"} \cup (IF Verdict(a) = "valid" THEN {"applied", "failed", "late"} ELSE {Verdict(a)})

Commits(a, outcome) ==
    IF outcome \in {"applied", "late"}
      THEN /\ page' = [page EXCEPT ![target[a]] = @ + 1]
           /\ landed' = [landed EXCEPT ![a] = @ + 1]
      ELSE UNCHANGED <<page, landed>>

\* Mutant: a late failure is tried again.
TransientOrLate(outcome) == outcome \in Transient \cup {"late"}

Retried(outcome) == outcome \in Transient

\* Mutant: tries are not counted.
TryForever(a) ==
    /\ fpc[a] = "apply"
    /\ \E outcome \in Outcome(a) :
         /\ Commits(a, outcome)
         /\ IF Retried(outcome) THEN UNCHANGED <<fpc, fileReceipt>>
            ELSE Ends(a, "apply", IF outcome = "applied" THEN "filed" ELSE "crashed")
    /\ UNCHANGED <<target, seen, tries, earlier, fileEdits>>

Try(a) ==
    /\ fpc[a] = "apply"
    /\ tries' = [tries EXCEPT ![a] = @ + 1]
    /\ \E outcome \in Outcome(a) :
         /\ Commits(a, outcome)
         /\ IF Retried(outcome)
              THEN IF tries[a] < 2 THEN UNCHANGED <<fpc, fileReceipt>>
                   ELSE Ends(a, "apply", "exhausted")
              ELSE Ends(a, "apply", IF outcome = "applied" THEN "filed" ELSE "crashed")
    /\ UNCHANGED <<target, seen, earlier, fileEdits>>

-----------------------------------------------------------------------------
(* Editors, lint repairs, other tools: a page appears, changes or goes. *)
OtherWriter(s) ==
    /\ fileEdits < MaxEdits
    /\ fileEdits' = fileEdits + 1
    /\ \E v \in {0, page[s] + 1} : v # page[s] /\ page' = [page EXCEPT ![s] = v]
    /\ UNCHANGED <<fpc, target, seen, tries, landed, fileReceipt, earlier>>

FilingStep(a) ==
    \/ RunQuery(a) \/ PageWrite(a) \/ SecondRunFails(a) \/ BuildRefuses(a)
    \/ BuildPlan(a) \/ ShaLookup(a) \/ Try(a)
FilingNext ==
    \/ \E a \in Authors : FilingStep(a) \/ FormatOverride(a)
    \/ \E s \in Slugs : OtherWriter(s)

\* A call of run_query or of the command runs to its end by itself.
FilingFairness == \A a \in Authors : WF_filingVars(FilingStep(a))

-----------------------------------------------------------------------------
(* Properties *)

\* An author replaces exactly the version its plan was built on, whatever
\* happened between building the plan and the third try: what another writer
\* did in between is never overwritten unread, nor a page created twice.
NoClobber ==
    [][\A a \in Authors : landed'[a] > landed[a] => seen[a] = page[target[a]]]_filingVars

\* However often a plan is tried, each run of a question commits at most once, and
\* what the caller is told fits: "filed" is a commit - the first run's, when the
\* second failed and its receipt is shown again; an answer, a collision, a
\* refusal or three failures leave none of that run.  Only a crash report is
\* ambiguous (a commit whose sha could not be read).
ReceiptTruthful ==
    \A a \in Authors :
        /\ landed[a] - earlier[a].landed \in {0, 1}
        /\ fileReceipt[a] = "filed" => landed[a] > 0
        /\ fileReceipt[a] \in {"open", "answer", "collision", "refused", "invalid", "exhausted"}
             => landed[a] = earlier[a].landed

\* Every question and every command comes to an end, busy wiki or not.
FilingSettles == \A a \in Authors : <>[](fpc[a] = "done")
=============================================================================
