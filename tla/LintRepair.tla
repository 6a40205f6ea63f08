----------------------------- MODULE LintRepair -----------------------------
(***************************************************************************)
(* `lies lint [--fix] [--check c]`: Orchestrator.run_lint with the         *)
(* deterministic report, the linter agent's findings merged into it, the   *)
(* repair agent's plan, its validation (agents/repair_validation.py), its  *)
(* translation (memory/repair.py) and its application.  A page is what the *)
(* report looks at - its links, the titles it mentions, whether its        *)
(* sections are complete - and whose frontmatter `type` it carries.  Both  *)
(* agents may propose anything their types allow; of a plan, whose         *)
(* operations are on different paths and are validated each on its own,    *)
(* one is followed.                                                        *)
(***************************************************************************)
EXTENDS Naturals, Sequences

CONSTANTS
    Linters,        \* runs of lint, each may be repeated
    WikiPages,      \* the ordinary pages
    Nothing,        \* an absent page, and no plan
    LintRuns,       \* bound: lint runs in all
    LintEdits       \* bound: changes by an editor in all

VARIABLES
    wiki,           \* [WikiPages -> content or Nothing]
    listing,        \* wiki/index.md: the pages it links, in order, and who wrote each line
    onDisk,         \* lint-report.md: the findings it shows
    lpc,            \* per run: step
    check,          \* per run: the category asked for, or "all"
    shell,          \* per run: the deterministic findings
    merged,         \* per run: what the report has in full
    repair,         \* per run: the repair agent's operation, or Nothing
    translated,     \* per run: the PageCreate or PageUpdate of it
    runs, touched   \* counters of the bounds

lintVars == <<wiki, listing, onDisk, lpc, check, shell, merged, repair,
              translated, runs, touched>>
runLocals == <<check, shell, merged, repair, translated>>

\* `type`: the page's own, or the one append_link derives from its directory.
Contents == [links : SUBSET WikiPages, mentions : SUBSET WikiPages, complete : BOOLEAN,
             type : {"own", "directory"}]
Categories == {"orphan", "missing_xref", "missing_required_section", "contradiction"}
\* "shell" stands for the message the deterministic pass gives this finding.
Findings == [category : Categories, pages : (SUBSET WikiPages) \ {{}},
             message : {"shell", "other"}, safe : BOOLEAN]
Kinds == {"append_link", "update_index", "create_stub", "append_evidence"}
\* page: Nothing when a link goes to index.md, or an update_index names no page.
\* saw: what append_evidence's expected_sha256 was taken from.
Repairs == [kind : Kinds, cites : Findings, page : WikiPages \cup {Nothing},
            target : WikiPages \cup {Nothing}, saw : Contents \cup {Nothing}]
Entries == [page : WikiPages, by : {"update_index", "append_link"}]

Stub == [links |-> {}, mentions |-> {}, complete |-> TRUE, type |-> "own"]
Exists(p) == wiki[p] # Nothing
Present == {p \in WikiPages : Exists(p)}

LintTypeOK ==
    /\ wiki \in [WikiPages -> Contents \cup {Nothing}]
    /\ listing \in Seq(Entries)
    /\ onDisk \subseteq Findings
    /\ lpc \in [Linters -> {"start", "linter", "agent", "translate", "apply", "write"}]
    /\ check \in [Linters -> Categories \cup {"all"}]
    /\ shell \in [Linters -> SUBSET Findings] /\ merged \in [Linters -> SUBSET Findings]
    /\ repair \in [Linters -> Repairs \cup {Nothing}]
    /\ runs \in 0 .. LintRuns /\ touched \in 0 .. LintEdits

\* A wiki of pages that mention each other, none listed or linked.
LintInit ==
    /\ \E missing \in SUBSET WikiPages :
          wiki = [p \in WikiPages |-> IF p \in missing THEN Nothing ELSE
                    [links |-> {}, mentions |-> WikiPages \ {p}, complete |-> FALSE, type |-> "own"]]
    /\ listing = <<>> /\ onDisk = {}
    /\ lpc = [l \in Linters |-> "start"]
    /\ check = [l \in Linters |-> "all"]
    /\ shell = [l \in Linters |-> {}] /\ merged = [l \in Linters |-> {}]
    /\ repair = [l \in Linters |-> Nothing] /\ translated = [l \in Linters |-> Nothing]
    /\ runs = 0 /\ touched = 0

Goto(l, from, to) == lpc[l] = from /\ lpc' = [lpc EXCEPT ![l] = to]

-----------------------------------------------------------------------------
(* The report *)

Finding(category, ps, message, safe) ==
    [category |-> category, pages |-> ps, message |-> message, safe |-> safe]
SameKey(f, g) == f.category = g.category /\ f.pages = g.pages /\ f.message = g.message

\* index.md, log.md, the report and overview.md are not among the pages, so a
\* link from the index saves no page from being an orphan; one from itself does.
Linked == UNION {wiki[p].links : p \in Present}

\* _build_lint_report; a title mentioned without a link to its page, whose
\* links count only while their target exists.
ShellReport ==
    {Finding("orphan", {p}, "shell", TRUE) : p \in Present \ Linked}
    \cup (UNION {{Finding("missing_xref", {p, other}, "shell", TRUE) :
                     other \in (Present \cap wiki[p].mentions) \ (wiki[p].links \cup {p})} :
                  p \in Present})
    \cup {Finding("missing_required_section", {p}, "shell", FALSE) :
            p \in {q \in Present : ~wiki[q].complete}}

\* Mutant: the linter agent's findings come first.
MergeAgentWins(ours, theirs) ==
    theirs \cup {f \in ours : \A g \in theirs : ~SameKey(f, g)}

\* merge_lint_reports: one finding per category, pages and message, the shell's
\* first; the agent's finding in other words stays beside it.
Merge(ours, theirs) ==
    ours \cup {f \in theirs : \A g \in ours : ~SameKey(f, g)}

\* _filter_lint_report
Filtered(l) ==
    IF check[l] = "all" THEN merged[l] ELSE {f \in merged[l] : f.category = check[l]}

\* run_lint begins: the deterministic pass over the pages.
BuildReport(l) ==
    /\ runs < LintRuns
    /\ Goto(l, "start", "linter")
    /\ runs' = runs + 1
    /\ check' \in {[check EXCEPT ![l] = c] : c \in {"all", "orphan"}}
    /\ shell' = [shell EXCEPT ![l] = ShellReport]
    /\ UNCHANGED <<wiki, listing, onDisk, merged, repair, translated, touched>>

\* A finding the agent calls safe, of a kind the shell has too: in its words, or
\* in others, also of a page the shell finds nothing in.
AgentFindings ==
    {f \in Findings : /\ \E p \in WikiPages : f.pages = {p}
                      /\ f.category = "missing_required_section" /\ f.safe}

\* _call_linter and the merge: a finding of the agent, or none when it fails.
\* The run repairs ("agent") or only reports ("write").
CallLinter(l) ==
    /\ Goto(l, "linter", "agent") \/ Goto(l, "linter", "write")
    /\ \E said \in {{}} \cup {{f} : f \in AgentFindings} :
          merged' = [merged EXCEPT ![l] = Merge(shell[l], said)]
    /\ UNCHANGED <<wiki, listing, onDisk, check, shell, repair, translated, runs, touched>>

-----------------------------------------------------------------------------
(* The repair *)

\* validate_plan, rules 1 to 4: the cited finding is one of the filtered report
\* and safe to fix; a stub must be new, a page to extend and a link's ends must
\* exist.  Rule 3 compares the finding's pages with a list the agent fills in
\* freely, or leaves empty, and not with the path it writes: it keeps no page out.
Valid(l, op) ==
    /\ op.cites \in Filtered(l)
    /\ op.cites.safe
    /\ op.kind = "create_stub" => op.page \in WikiPages \ Present
    /\ op.kind = "append_evidence" => op.page \in Present
    /\ op.kind = "append_link" => op.page # op.target /\ op.page \in Present \cup {Nothing}
                                                    /\ op.target \in Present

Listed(p) == \E i \in DOMAIN listing : listing[i].page = p

\* Rule 5: an index entry that is there is dropped, and reported as skipped.  A
\* link appended to index.md is not looked up.
Redundant(op) == op.kind = "update_index" /\ Listed(op.page)

\* The repair agent's plan is refused, empty, or dropped: nothing to apply.
NoRepair(l) ==
    /\ Goto(l, "agent", "write")
    /\ UNCHANGED <<wiki, listing, onDisk, runLocals, runs, touched>>

\* What the agent may propose.  A hash it took from an older or no text of the
\* page is one the apply refuses.
Proposals(l) ==
    {op \in [kind : Kinds, cites : merged[l], page : WikiPages \cup {Nothing},
             target : WikiPages \cup {Nothing}, saw : {wiki[p] : p \in WikiPages} \cup {Nothing}] :
        /\ op.target = Nothing <=> op.kind \in {"create_stub", "update_index"}
        /\ op.saw = IF op.kind = "append_evidence" /\ op.page \in WikiPages
                      THEN wiki[op.page] ELSE Nothing}

PlanRepair(l, op) ==
    /\ Goto(l, "agent", "translate")
    /\ Valid(l, op) /\ ~Redundant(op)
    /\ repair' = [repair EXCEPT ![l] = op]
    /\ UNCHANGED <<wiki, listing, onDisk, check, shell, merged, translated, runs, touched>>

OnIndex(op) == op.kind = "update_index" \/ (op.kind = "append_link" /\ op.page = Nothing)

\* from_repair_plan reads the page or the index a second time: the content it
\* makes the new one from, whose hash the apply compares.  A link's host gets the
\* frontmatter type of its directory, whatever it had (_ensure_frontmatter_type).
Old(op) == CASE op.kind = "create_stub" -> Nothing
             [] OnIndex(op) -> listing
             [] op.kind = "append_link" /\ ~OnIndex(op) -> wiki[op.page]
             [] op.kind = "append_evidence" -> op.saw
New(op) == CASE op.kind = "create_stub" -> Stub
             [] op.kind = "update_index" ->
                   Append(listing, [page |-> op.page, by |-> "update_index"])
             [] op.kind = "append_link" /\ OnIndex(op) ->
                   Append(listing, [page |-> op.target, by |-> "append_link"])
             [] op.kind = "append_link" /\ ~OnIndex(op) ->
                   [wiki[op.page] EXCEPT !.links = @ \cup {op.target}, !.type = "directory"]
             [] op.kind = "append_evidence" ->
                   [op.saw EXCEPT !.mentions = @ \cup {op.target}]

\* No page to list is a ValueError, a host that is gone a FileNotFoundError; both
\* end in the receipt's errors.
Untranslatable(op) ==
    \/ op.kind = "update_index" /\ op.page = Nothing
    \/ op.kind = "append_link" /\ ~OnIndex(op) /\ ~Exists(op.page)

Translate(l) ==
    /\ lpc[l] = "translate"
    /\ LET op == repair[l] IN
       IF Untranslatable(op)
         THEN Goto(l, "translate", "write") /\ UNCHANGED translated
         ELSE /\ Goto(l, "translate", "apply")
              /\ translated' = [translated EXCEPT ![l] = [old |-> Old(op), new |-> New(op)]]
    /\ UNCHANGED <<wiki, listing, onDisk, check, shell, merged, repair, runs, touched>>

Write(l) ==
    IF OnIndex(repair[l])
      THEN listing' = translated[l].new /\ UNCHANGED wiki
      ELSE wiki' = [wiki EXCEPT ![repair[l].page] = translated[l].new] /\ UNCHANGED listing

Current(l) ==
    translated[l].old = IF OnIndex(repair[l]) THEN listing ELSE wiki[repair[l].page]

\* apply_repair_plan: under the wiki's lock; a conflict or another failure is
\* reported in the receipt.
Apply(l) ==
    /\ Goto(l, "apply", "write")
    /\ (Current(l) /\ Write(l)) \/ UNCHANGED <<wiki, listing>>
    /\ UNCHANGED <<onDisk, runLocals, runs, touched>>

\* The run's locals are gone.
Forget(l) ==
    /\ shell' = [shell EXCEPT ![l] = {}] /\ merged' = [merged EXCEPT ![l] = {}]
    /\ check' = [check EXCEPT ![l] = "all"]
    /\ repair' = [repair EXCEPT ![l] = Nothing] /\ translated' = [translated EXCEPT ![l] = Nothing]

\* An exception of the repair agent, and WikiLockBusy and WikiFlockUnrepairable
\* of the apply, end the run before it has written its report.
RunRaises(l) ==
    /\ Goto(l, "agent", "start") \/ Goto(l, "apply", "start")
    /\ Forget(l)
    /\ UNCHANGED <<wiki, listing, onDisk, runs, touched>>

\* The report in full, whatever was asked for, and a line in the log.
WriteReport(l) ==
    /\ Goto(l, "write", "start")
    /\ onDisk' = merged[l]
    /\ Forget(l)
    /\ UNCHANGED <<wiki, listing, runs, touched>>

-----------------------------------------------------------------------------
\* An editor removes a page, or changes what it links and mentions.
EditorChanges(p) ==
    /\ touched < LintEdits
    /\ touched' = touched + 1
    /\ \/ Exists(p) /\ wiki' = [wiki EXCEPT ![p] = Nothing]
       \/ wiki' = [wiki EXCEPT ![p] = [links |-> WikiPages \ {p}, mentions |-> {}, complete |-> TRUE,
                                        type |-> "own"]]
    /\ UNCHANGED <<listing, onDisk, lpc, runLocals, runs>>

LintStep(l) ==
    \/ BuildReport(l) \/ CallLinter(l) \/ NoRepair(l)
    \/ \E op \in Proposals(l) : PlanRepair(l, op)
    \/ Translate(l) \/ Apply(l) \/ RunRaises(l) \/ WriteReport(l)
LintNext == (\E l \in Linters : LintStep(l)) \/ \E p \in WikiPages : EditorChanges(p)

-----------------------------------------------------------------------------
(* Properties *)

Lands(l) == lpc[l] = "apply" /\ lpc'[l] = "write" /\ <<wiki, listing>>' # <<wiki, listing>>

\* What a repair lands cites a finding of the category asked for, and not one
\* the deterministic pass called unsafe: neither a linter agent that repeats that
\* finding as safe nor a repair agent that cites another one gets a write through.
RepairsWhatWasAsked ==
    [][\A l \in Linters : Lands(l) =>
          /\ repair[l].cites.category = check[l] \/ check[l] = "all"
          /\ ~\E f \in shell[l] : SameKey(f, repair[l].cites) /\ ~f.safe]_lintVars

\* "the deterministic shell's safe_to_fix semantics are preserved for mechanical
\* categories" (merge_lint_reports): a page the pass calls unsafe to fix in a
\* category is not repaired under that category.
ShellSafetyKept ==
    [][\A l \in Linters : Lands(l) =>
          ~\E f \in shell[l] : f.category = repair[l].cites.category
                                /\ f.pages = repair[l].cites.pages /\ ~f.safe]_lintVars

\* No page, link, mention or index entry that is there when a repair lands is
\* lost, an editor's latest ones included; of the frontmatter, only a link's host
\* loses the `type` it had.
RepairOnlyAdds ==
    [][touched' = touched =>
         /\ \A p \in Present :
               /\ wiki'[p] # Nothing
               /\ wiki[p].links \subseteq wiki'[p].links
               /\ wiki[p].mentions \subseteq wiki'[p].mentions
               /\ wiki'[p].type # wiki[p].type =>
                    \E l \in Linters : /\ lpc[l] = "apply" /\ repair[l].kind = "append_link"
                                       /\ repair[l].page = p
         /\ \E tail \in {<<>>} \cup {<<e>> : e \in Entries} : listing' = listing \o tail]_lintVars

\* lint-report.md never shows less than a whole run found: what the shell saw
\* when a run began is all in the report it writes, and nobody else writes one.
ReportIsWhole ==
    [][onDisk' # onDisk =>
         \E l \in Linters : lpc[l] = "write" /\ lpc'[l] = "start" /\ shell[l] \subseteq onDisk']_lintVars

\* As long as runs do not overlap, update_index lists no page that is listed: a
\* page that stands twice in the index got its later line from an append_link.
ListedOnce ==
    (\A l, other \in Linters : l = other) =>
        \A i, j \in DOMAIN listing :
            i < j /\ listing[i].page = listing[j].page => listing[j].by = "append_link"
=============================================================================
