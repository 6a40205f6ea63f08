------------------------------ MODULE WikiPlan ------------------------------
(***************************************************************************)
(* The files of a wiki and what a memory plan does to them: the data that  *)
(* memory/models.py (plans), memory/service.py (_apply_operations) and     *)
(* memory/sidecar.py (append_log_entry) share.  A file's content is the    *)
(* sequence of the pieces written to it, or Absent.                        *)
(***************************************************************************)
EXTENDS Naturals, Sequences

CONSTANTS
    Pages,        \* ordinary pages, which the catalog has rows for
    Index, Log,   \* wiki/index.md and wiki/log.md
    Report,       \* wiki/lint-report.md, which no plan writes
    Bodies,       \* the pieces of text that plans and people write
    Plans,        \* the plans callers propose: sequences of operations
    Absent

Files == Pages \cup {Index, Log, Report}
Kinds == {"create", "update", "append", "delete"}
Operations == [kind : Kinds, page : Pages \cup {Index, Log}, body : Bodies]

ASSUME PlanAssumption ==
    /\ Index \notin Pages /\ Log \notin Pages \cup {Index}
    /\ Report \notin Pages \cup {Index, Log}
    /\ Plans \subseteq Seq(Operations)
    /\ \A plan \in Plans : \A i, j \in DOMAIN plan :
          plan[i].page = plan[j].page => i = j

\* The log line of one operation, and that of a lint run.
Entry(op) == <<op.kind, op.page>>
LintEntry == <<"lint">>
Pieces == Bodies \cup {LintEntry} \cup (Kinds \X (Pages \cup {Index, Log}))
Contents == Seq(Pieces) \cup {Absent}
Trees == [Files -> Contents]

\* A file that is not there has no content.
ASSUME AbsentAssumption == Absent \notin Seq(Pieces)

Text(content) == IF content = Absent THEN <<>> ELSE content

\* The operations that carry an expected_sha256.
Versioned(op) == op.kind \in {"update", "append"}

Targets(plan) == {plan[i].page : i \in DOMAIN plan}

\* The content an operation leaves in its page, given what was there.
Written(op, old) ==
    CASE op.kind \in {"create", "update"} -> <<op.body>>
      [] op.kind = "append" -> Append(Text(old), op.body)
      [] op.kind = "delete" -> Absent

Do(tree, op) == [tree EXCEPT ![op.page] = Written(op, @)]

\* One log line per operation, deletions of absent pages included.
LogLines(plan) == [i \in DOMAIN plan |-> Entry(plan[i])]
Logged(tree, plan) == [tree EXCEPT ![Log] = Text(@) \o LogLines(plan)]

\* A whole plan, applied to a tree: its operations meet no page twice.
Effect(tree, plan) ==
    Logged([f \in Files |-> IF f \in Targets(plan)
                              THEN Written(plan[CHOOSE i \in DOMAIN plan : plan[i].page = f], tree[f])
                              ELSE tree[f]], plan)
=============================================================================
