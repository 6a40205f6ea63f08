---------------------------- MODULE QmdSubprocess ----------------------------
(***************************************************************************)
(* _run_qmd (qmd/_subprocess.py): one qmd command read through two pipes,  *)
(* killed when it is silent or late, with every process it forked.         *)
(***************************************************************************)
EXTENDS Naturals

CONSTANTS
    Total, Idle,   \* the two bounds, in poll intervals
    PipeCap,       \* what the pipes hold before a writer blocks
    CaptureCap     \* _MAX_STDERR_BYTES, in the same unit

VARIABLES
    child,      \* the command: running, exited by itself, or killed
    forked,     \* a grandchild of its process group is alive
    pipe,       \* unread output
    writers,    \* somebody still holds the write ends
    streams,    \* open_streams is not zero
    now, last,  \* the clock since the start, and last_output_at
    captured,   \* kept stderr
    rpc,        \* where the helper is
    ended       \* "result", or the bound a QmdWedgeError names

runVars == <<child, forked, pipe, writers, streams, now, last, captured, rpc, ended>>

RunTypeOK ==
    /\ child \in {"runs", "exited", "killed"} /\ {forked, writers, streams} \subseteq BOOLEAN
    /\ pipe \in 0 .. PipeCap
    /\ now \in 0 .. Total + 1 /\ last \in 0 .. now
    /\ captured \in 0 .. CaptureCap
    /\ rpc \in {"loop", "wait", "done"}
    /\ ended \in {"no", "result", "idle", "total"}

RunInit ==
    /\ child = "runs" /\ forked = FALSE /\ pipe = 0 /\ writers = TRUE
    /\ streams = TRUE /\ now = 0 /\ last = 0 /\ captured = 0
    /\ rpc = "loop" /\ ended = "no"

-----------------------------------------------------------------------------
(* The command, which may do any of this or nothing *)

helper == <<streams, now, last, captured, rpc, ended>>
Lives == child = "runs" \/ forked

Emits ==
    /\ Lives /\ writers /\ pipe < PipeCap
    /\ pipe' = pipe + 1
    /\ UNCHANGED <<child, forked, writers, helper>>

Forks ==
    /\ child = "runs" /\ ~forked
    /\ forked' = TRUE
    /\ UNCHANGED <<child, pipe, writers, helper>>

ClosesPipes ==
    /\ Lives /\ writers
    /\ writers' = FALSE
    /\ UNCHANGED <<child, forked, pipe, helper>>

\* A command whose pipe is full is blocked in a write and cannot exit.
Exits ==
    /\ child = "runs" /\ ~(writers /\ pipe = PipeCap)
    /\ child' = "exited"
    /\ writers' = (writers /\ forked)
    /\ UNCHANGED <<forked, pipe, helper>>

GrandchildExits ==
    /\ forked
    /\ forked' = FALSE
    /\ writers' = (writers /\ child = "runs")
    /\ UNCHANGED <<child, pipe, helper>>

-----------------------------------------------------------------------------
(* The helper *)

\* os.killpg: the session start_new_session gave the command.
KillsGroup ==
    /\ child' = IF child = "runs" THEN "killed" ELSE child
    /\ forked' = FALSE /\ writers' = FALSE

\* Mutant: a normal exit needs no kill.
EndsPlain(how) ==
    /\ rpc' = "done" /\ ended' = how
    /\ IF how = "result" THEN UNCHANGED <<child, forked, writers>> ELSE KillsGroup
    /\ UNCHANGED <<pipe, streams, now, last, captured>>

Ends(how) ==
    /\ rpc' = "done" /\ ended' = how
    /\ KillsGroup
    /\ UNCHANGED <<pipe, streams, now, last, captured>>

\* The total bound is asked before the idle bound.
Bound == CASE now > Total -> "total" [] now <= Total /\ now - last > Idle -> "idle" [] OTHER -> "none"

Cut == rpc = "loop" /\ streams /\ Bound # "none" /\ Ends(Bound)

Looping == rpc = "loop" /\ streams /\ Bound = "none"

\* Bytes past the capture cap are read and dropped.
Reads ==
    /\ Looping /\ pipe > 0
    /\ pipe' = 0
    /\ captured' = IF captured + pipe > CaptureCap THEN CaptureCap ELSE captured + pipe
    /\ now' = now + 1 /\ last' = now
    /\ UNCHANGED <<child, forked, writers, streams, rpc, ended>>

SelectTimesOut ==
    /\ Looping /\ pipe = 0 /\ writers
    /\ now' = now + 1
    /\ UNCHANGED <<child, forked, pipe, writers, streams, last, captured, rpc, ended>>

EndOfFile ==
    /\ Looping /\ pipe = 0 /\ ~writers
    /\ streams' = FALSE /\ rpc' = "wait"
    /\ UNCHANGED <<child, forked, pipe, writers, now, last, captured, ended>>

\* proc.wait: the exit code, or a kill once the drain window is over.
Reaps == rpc = "wait" /\ Ends(IF child = "exited" THEN "result" ELSE "total")

HelperStep == Cut \/ Reads \/ SelectTimesOut \/ EndOfFile \/ Reaps

RunNext ==
    \/ Emits \/ Forks \/ ClosesPipes \/ Exits \/ GrandchildExits
    \/ HelperStep

-----------------------------------------------------------------------------
(* Properties *)

\* Whichever way the helper ends, nothing of the command is left running: no
\* grandchild outlives it (_run_qmd, start_new_session).
GroupIsGone == rpc = "done" => child # "runs" /\ ~forked

\* A result carries an exit code the command itself produced; a command that was
\* killed is reported as a wedge (_run_qmd).
ResultIsReal == ended = "result" => child = "exited"

\* A command never stays blocked on a full pipe, however much it writes: the
\* reader goes on past what it keeps (_run_qmd).
NeverBlocked == (pipe = PipeCap) ~> (pipe < PipeCap \/ rpc = "done")

\* The helper returns although the command never exits or falls silent.
RunEnds == <>(rpc = "done")
=============================================================================
