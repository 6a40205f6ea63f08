----------------------------- MODULE WikiHistory -----------------------------
(***************************************************************************)
(* What WikiMemoryService.apply_plan promises of a wiki's history: every   *)
(* commit is one whole plan, log lines included, on top of the commit      *)
(* before it.  The working tree, the stash and the steps of a call are not *)
(* visible here.                                                           *)
(***************************************************************************)
EXTENDS WikiPlan

CONSTANT Start    \* the tree of the initial commit

VARIABLES
    head,         \* the committed tree
    history       \* the plans committed so far, oldest first

vars == <<head, history>>

Init == head = Start /\ history = <<>>

CommitPlan ==
    \E plan \in Plans :
        /\ head' = Effect(head, plan)
        /\ history' = Append(history, plan)

Next == CommitPlan

Spec == Init /\ [][Next]_vars
=============================================================================
