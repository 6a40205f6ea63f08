------------------------------- MODULE MCTurn -------------------------------
(* What one wiki's orchestrator does with model output: conversations with   *)
(* their retry queue, answers and texts that become pages, lint repairs.     *)
(* The three share no variable here; `part` picks the one a behaviour runs,  *)
(* so the states add up instead of multiplying.                              *)
EXTENDS EnrichmentQueue

CONSTANTS Queries, Writes, Slugs, MaxEdits,
          Linters, WikiPages, Nothing, LintRuns, LintEdits

VARIABLES
    part,
    page, fpc, target, seen, tries, landed, fileReceipt, earlier, fileEdits,
    wiki, listing, onDisk, lpc, check, shell, merged, repair, translated, runs, touched

F == INSTANCE Filing
L == INSTANCE LintRepair

\* An absent page is no page, and no plan is no plan.
ASSUME TurnAssumption ==
    /\ MaxEdits \in Nat /\ LintRuns \in Nat /\ LintEdits \in Nat
    /\ Nothing \notin L!Contents /\ Nothing \notin L!Repairs /\ Nothing \notin WikiPages

filing == <<page, fpc, target, seen, tries, landed, fileReceipt, earlier, fileEdits>>
lint == <<wiki, listing, onDisk, lpc, check, shell, merged, repair, translated, runs, touched>>
allVars == <<part, vars, filing, lint>>

\* The parts that do not run stand still in one initial state.  Slugs differ by
\* name only: queries file under one of them.
MCInit ==
    /\ part \in {"queue", "filing", "lint"}
    /\ Init /\ F!FilingInit /\ L!LintInit
    /\ \A a \in Queries : target[a] = CHOOSE s \in Slugs : TRUE
    /\ part # "filing" => /\ \A s \in Slugs : page[s] = 0
                          /\ \A a \in F!Authors : target[a] = CHOOSE s \in Slugs : TRUE
    /\ part # "lint" => \A p \in WikiPages : wiki[p] = Nothing

QueueNext == part = "queue" /\ Next /\ UNCHANGED <<part, filing, lint>>
FilingNext == part = "filing" /\ F!FilingNext /\ UNCHANGED <<part, vars, lint>>
LintNext == part = "lint" /\ L!LintNext /\ UNCHANGED <<part, vars, filing>>
MCNext == QueueNext \/ FilingNext \/ LintNext

MCSpec ==
    /\ MCInit /\ [][MCNext]_allVars
    /\ \A a \in F!Authors : WF_filing(part = "filing" /\ F!FilingStep(a))

\* The retry queue accounts for every piece of evidence (memory/retry.py): it is
\* new, in the hands of this turn, queued once, or settled with one verdict; an
\* item was replayed in every turn since its own; a drain walks what it queued;
\* nothing is committed twice.
EvidenceAccounted == TypeOK /\ WalkIsHead /\ Conserved /\ CommittedOnce /\ ReplayedEachTurn

\* Across turns: a deferred line is shown once, and a verdict is never revised
\* (orchestrator.run, EnrichmentRetryQueue.drain).
VerdictsStand == DeferredOnce /\ VerdictIsFinal

\* What a caller is told fits what was committed: a receipt of a filed answer or
\* page, whatever was retried in between; what update_index reports as redundant
\* is, and what it adds to the index is not.
ToldIsTrue ==
    F!FilingTypeOK /\ F!ReceiptTruthful /\ L!LintTypeOK /\ L!ListedOnce

\* A page is written only as its author saw it: filing replaces no page that
\* moved on; a repair cites a finding of the check that was run which the
\* deterministic pass did not call unsafe, and takes no page, link, mention or
\* index entry away; the report shows every finding of its run.
WritesAreAsked ==
    F!NoClobber /\ L!RepairsWhatWasAsked /\ L!RepairOnlyAdds /\ L!ReportIsWhole

\* Every answer or text ends filed or refused, also when its pages keep changing
\* (_file_back, _retry_plan).
FilingSettles == part = "filing" => F!FilingSettles

\* The deterministic pass's word on what is safe to repair stands
\* (merge_lint_reports).
ShellSafetyKept == L!ShellSafetyKept
=============================================================================
