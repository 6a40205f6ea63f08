-------------------------------- MODULE Receipts --------------------------------
(* The memory sidecar memory_plans.jsonl: one line per commit of a plan,      *)
(* appended after the commit, rewritten by the operator from the git log or   *)
(* down to its last lines.  No lock covers it.  memory/sidecar.py, with the   *)
(* commands of cli/memory (log, reconcile, truncate).                         *)
EXTENDS Naturals, Sequences, SequencesExt

CONSTANTS MaxCommits, MaxRewrites

VARIABLES
    history,      \* commits, oldest first: do they carry a Pages trailer?
    lines,        \* commits the sidecar lists
    appending,    \* commits whose line is still to be appended
    rewrite,      \* <<>>, or the lines a rewrite has read and will install
    from,         \* commits there were when it read them
    excused,      \* commits that lost their line, in one of the ways below
    rewrites

receiptVars == <<history, lines, appending, rewrite, from, excused, rewrites>>
CommitIds == DOMAIN history
WithTrailer == {n \in CommitIds : history[n]}

ReceiptInit ==
    /\ history = <<>> /\ lines = <<>> /\ appending = {} /\ excused = {}
    /\ rewrite = [kind |-> "none", lines |-> <<>>] /\ from = {} /\ rewrites = 0

\* Somebody commits: a plan, with trailers and a receipt to come, or another
\* commit with a tag, without.
CommitsPlan ==
    /\ Len(history) < MaxCommits
    /\ \E plan \in BOOLEAN :
          /\ history' = Append(history, plan)
          /\ appending' = IF plan THEN appending \cup {Len(history) + 1} ELSE appending
    /\ UNCHANGED <<lines, rewrite, from, excused, rewrites>>

\* Mutant: any line is taken for the commit's own.
DuplicateOfAny(n) == n \in CommitIds /\ lines # <<>>

\* _is_duplicate compares with the last line alone.
Duplicate(n) == lines # <<>> /\ Last(lines) = n

\* append_receipt: a failing write is only reported.  An append while a rewrite
\* is under way goes to the file that is about to be replaced.
AppendsReceipt(n) ==
    /\ n \in appending /\ appending' = appending \ {n}
    /\ \/ /\ lines' = IF Duplicate(n) THEN lines ELSE Append(lines, n)
          /\ excused' = IF rewrite.kind = "none" THEN excused ELSE excused \cup {n}
       \/ UNCHANGED lines /\ excused' = excused \cup {n}
    /\ UNCHANGED <<history, rewrite, from, rewrites>>

ApplierDies(n) ==
    /\ n \in appending /\ appending' = appending \ {n} /\ excused' = excused \cup {n}
    /\ UNCHANGED <<history, lines, rewrite, from, rewrites>>

\* git log lists the newest first; commits without a Pages trailer are skipped.
\* So are those whose message git fails to read, and all of them if the log fails.
Logs == {log \in UNION {[1 .. k -> WithTrailer] : k \in 0 .. Len(history)} :
            \A i, j \in DOMAIN log : i < j => log[i] > log[j]}

\* reconcile_from_git_log reads the history ...
ReadsLog ==
    /\ rewrite.kind = "none" /\ rewrites < MaxRewrites /\ rewrites' = rewrites + 1
    /\ \E log \in Logs : rewrite' = [kind |-> "reconcile", lines |-> log]
    /\ from' = WithTrailer
    /\ UNCHANGED <<history, lines, appending, excused>>

\* ... truncate the last lines of the file ...
ReadsLines ==
    /\ rewrite.kind = "none" /\ rewrites < MaxRewrites /\ rewrites' = rewrites + 1
    /\ \E keep \in 1 .. Len(lines) :
          rewrite' = [kind |-> "truncate", lines |-> SubSeq(lines, Len(lines) - keep + 1, Len(lines))]
    /\ from' = WithTrailer
    /\ UNCHANGED <<history, lines, appending, excused>>

\* ... and replace it; or they fail and leave it.
Replaces ==
    /\ rewrite.kind # "none" /\ rewrite' = [kind |-> "none", lines |-> <<>>] /\ from' = {}
    /\ \/ /\ lines' = rewrite.lines
          /\ LET back == Range(rewrite.lines)
             IN excused' = IF rewrite.kind = "reconcile"
                           THEN (excused \ back) \cup (from \ (back \cup appending))
                           ELSE excused \cup (Range(lines) \ back)
       \/ UNCHANGED <<lines, excused>>
    /\ UNCHANGED <<history, appending, rewrites>>

ReceiptNext ==
    \/ CommitsPlan \/ ReadsLog \/ ReadsLines \/ Replaces
    \/ \E n \in CommitIds : AppendsReceipt(n) \/ ApplierDies(n)

ReceiptTypeOK ==
    /\ history \in Seq(BOOLEAN) /\ appending \subseteq CommitIds /\ excused \subseteq CommitIds
    /\ Range(lines) \subseteq CommitIds

\* Every commit of a plan has its line, or its line is still to come, or was lost
\* in one of five ways: to a crash, a failed write, a truncation, a rewrite during
\* which it was appended, or a reconcile whose git log failed or could not read
\* the commit.  A reconcile takes back those the log gave it (append_receipt,
\* reconcile_from_git_log, truncate).
ReceiptsComplete == WithTrailer \subseteq Range(lines) \cup appending \cup excused
=============================================================================
