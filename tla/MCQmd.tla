-------------------------------- MODULE MCQmd --------------------------------
(* Everything between LIES and qmd: the lock, the daemon and its callers, one *)
(* subprocess, the index.  `part` picks the one a behaviour runs.             *)
EXTENDS QmdAccess

CONSTANTS Total, Idle, PipeCap, CaptureCap, Names, Dirs, Absent, MaxOps

ASSUME QmdAssumption ==
    /\ {Total, Idle, PipeCap, CaptureCap, MaxOps} \subseteq Nat
    /\ Names # {} /\ Dirs # {} /\ Absent \notin Dirs

VARIABLES
    part,
    child, forked, pipe, writers, streams, now, last, captured, rpc, ended,
    registry, docs, vectors, onDisk, sandbox, op, ipc, result, ops

R == INSTANCE QmdSubprocess
X == INSTANCE QmdIndex

access == <<lockVars, accessVars>>
subprocess == <<child, forked, pipe, writers, streams, now, last, captured, rpc, ended>>
indexes == <<registry, docs, vectors, onDisk, sandbox, op, ipc, result, ops>>
allVars == <<part, access, subprocess, indexes>>

\* The parts that do not run stand still in one initial state.  Of two callers
\* of the daemon one is a query or the operator.
MCInit ==
    /\ part \in {"lock", "access", "run", "index"}
    /\ LockInit /\ AccessInit /\ R!RunInit /\ X!IndexInit
    /\ kind[CHOOSE c \in Clients : TRUE] \in {"query", "operator"}
    /\ "ensure" \notin {kind[c] : c \in Clients} => sidecar = "none"
    /\ part # "lock" => env = CHOOSE p \in LockPaths : TRUE
    /\ part # "access" => /\ kind = [c \in Clients |-> "query"]
                          /\ daemon = NoDaemon /\ sidecar = "none"
    /\ part # "index" => /\ registry = [n \in Names |-> Absent]
                         /\ sandbox = [data |-> FALSE, cache |-> FALSE]

MCNext ==
    \/ part = "lock" /\ LockNext /\ UNCHANGED <<part, accessVars, subprocess, indexes>>
    \/ part = "access" /\ AccessNext /\ UNCHANGED <<part, subprocess, indexes>>
    \/ part = "run" /\ R!RunNext /\ UNCHANGED <<part, access, indexes>>
    \/ part = "index" /\ X!IndexNext /\ UNCHANGED <<part, access, subprocess>>

MCSpec ==
    /\ MCInit /\ [][MCNext]_allVars
    /\ \A c \in Clients : /\ WF_lockVars(part = "lock" /\ LockStep(c))
                          /\ WF_access(part = "access" /\ AccessStep(c))
    /\ WF_subprocess(part = "run" /\ R!HelperStep)

\* One context at a time holds the site-wide lock of its path, by its own depth;
\* at most one query is with the daemon; and a payload that wedged a daemon is not
\* sent to its replacement (qmd/lock.py, qmd/access.py).
OneAtATime ==
    LockTypeOK /\ OwnedByDepth /\ AccessTypeOK /\ QueriesAlone /\ WedgedOnce

\* When the subprocess helper returns its whole process group is gone, and a
\* result is the command's own exit (qmd/_subprocess.py).
ResultsAreReal == R!RunTypeOK /\ R!GroupIsGone /\ R!ResultIsReal

\* What the integrity check and the reindex report is true of the index: no
\* document of a lost collection goes unnoticed, no stage after a failed one runs
\* (qmd/integrity.py, qmd/cli.py).
IndexIsTold == X!IndexTypeOK /\ X!NoDriftUnseen /\ X!ReindexTellsTruth

\* A call asks for a recycle only when the daemon it was sent to does not serve
\* any more, and a call that recovered one found it serving (qmd/access.py).
RecoveryForCause == RecyclesForCause /\ RecoveryWasSeen

\* A refresh that reports success leaves the collection registered where it was
\* asked to be, and a sandboxed library never changes the live index.
IndexKept == X!RefreshedIsRegistered /\ X!LiveIndexUntouched

\* Whoever polls for the lock, calls the daemon or runs a command gets an answer
\* or an error, although daemons hang, pipes fill and commands never exit.
CallsEnd ==
    /\ part = "lock" => EveryWaitEnds
    /\ part = "access" => EveryCallSettles
    /\ part = "run" => R!NeverBlocked /\ R!RunEnds
=============================================================================
