------------------------------ MODULE CreateLock ------------------------------
(***************************************************************************)
(* The cross-process create-lock of src/lies/utils/exclusive.py, as its    *)
(* two envelope callers drive it: the memory flock of a wiki               *)
(* (memory/service.py:_acquire_wiki_flock) and the site-wide qmd flock     *)
(* (qmd/lock.py:_attempt_acquire/_release).                                *)
(*                                                                         *)
(* The lock is three sibling files: the O_CREAT|O_EXCL sentinel, the pid   *)
(* file and the heartbeat.  Every access to one of them is a step of its   *)
(* own, so that contenders interleave exactly where the operating system   *)
(* lets them.                                                              *)
(***************************************************************************)
EXTENDS Naturals

CONSTANTS
    Threads,      \* contenders: threads (or tasks) that call the acquire
    Procs,        \* operating-system processes, named by their pid
    ProcOf,       \* [Threads -> Procs]
    Foreign,      \* processes that os.kill(pid, 0) answers with EPERM
    Exiting,      \* processes that may exit once all their calls returned
    Crashing,     \* processes that may be killed at any step
    Forcers,      \* threads that pass force_repair=True
    Operators,    \* threads that run `lies flock <wiki> force-repair`
    Caller,       \* "memory" or "qmd": which call site owns the lock
    NoThread, NoProc

ASSUME ConstantsAssumption ==
    /\ ProcOf \in [Threads -> Procs]
    /\ Foreign \subseteq Procs /\ Exiting \subseteq Procs /\ Crashing \subseteq Procs
    /\ Forcers \subseteq Threads /\ Operators \subseteq Threads
    /\ Forcers \cap Operators = {}
    /\ Caller \in {"memory", "qmd"}
    /\ NoThread \notin Threads /\ NoProc \notin Procs

\* Mutant: the qmd call site drops self_acquire_is_stale=False.
SelfAcquireAlwaysStale == TRUE

\* qmd/lock.py passes self_acquire_is_stale=False; the memory flock leaves the default.
SelfAcquireIsStale == Caller = "memory"

VARIABLES
    sentinel,     \* the thread whose create made the sentinel file, or NoThread
    pidFile,      \* the pid stored in the pid file, or NoProc when it is absent
    heartbeat,    \* the heartbeat file: "absent", "fresh" or "stale" (older than max_age_s)
    alive,        \* [Procs -> BOOLEAN]
    pc,           \* where each thread is in acquire / hold / release
    seen          \* the pid each thread read from the pid file

files == <<sentinel, pidFile, heartbeat>>
vars == <<sentinel, pidFile, heartbeat, alive, pc, seen>>

\* From a won create to the unlink of the sentinel.
OwningStates == {"won", "registered", "held", "relState", "relPid", "relLock"}
ReapingStates == {"reapState", "reapPid", "reapLock", "retry"}
\* The outcomes acquire can report besides a won lock.
Outcomes == {"busy", "indeterminate", "lost", "leaked", "repaired"}
States == OwningStates \cup ReapingStates \cup Outcomes
            \cup {"idle", "contended", "judge", "gone"}

TypeOK ==
    /\ sentinel \in Threads \cup {NoThread}
    /\ pidFile \in Procs \cup {NoProc}
    /\ heartbeat \in {"absent", "fresh", "stale"}
    /\ alive \in [Procs -> BOOLEAN]
    /\ pc \in [Threads -> States]
    /\ seen \in [Threads -> Procs \cup {NoProc}]

Init ==
    /\ sentinel = NoThread /\ pidFile = NoProc /\ heartbeat = "absent"
    /\ alive = [p \in Procs |-> TRUE]
    /\ pc = [t \in Threads |-> "idle"]
    /\ seen = [t \in Threads |-> NoProc]

Goto(t, from, to) == pc[t] = from /\ pc' = [pc EXCEPT ![t] = to]

-----------------------------------------------------------------------------
(* acquire_create_lock *)

\* The first O_CREAT|O_EXCL create: the file system admits one winner.  A
\* qmd force-repair that wins outright releases at once (cli/operator.py).
AfterWin(t) == IF t \in Forcers /\ Caller = "qmd" THEN "relState" ELSE "won"

\* Mutant: the create is opened without O_EXCL.
CreateWithoutExcl(t) ==
    /\ t \notin Operators
    /\ Goto(t, "idle", AfterWin(t))
    /\ sentinel' = t
    /\ UNCHANGED <<pidFile, heartbeat, alive, seen>>

CreateWins(t) ==
    /\ t \notin Operators
    /\ sentinel = NoThread
    /\ Goto(t, "idle", AfterWin(t))
    /\ sentinel' = t
    /\ UNCHANGED <<pidFile, heartbeat, alive, seen>>

\* FileExistsError: a forcer reaps whoever holds it, others inspect the envelope.
CreateFails(t) ==
    /\ t \notin Operators
    /\ sentinel # NoThread
    /\ Goto(t, "idle", IF t \in Forcers THEN "reapState" ELSE "contended")
    /\ UNCHANGED <<files, alive, seen>>

\* _reap_if_stale reads the pid file; a missing one is "busy".
ReadPid(t) ==
    /\ Goto(t, "contended", IF pidFile = NoProc THEN "busy" ELSE "judge")
    /\ seen' = [seen EXCEPT ![t] = pidFile]
    /\ UNCHANGED <<files, alive>>

\* Mutant: ESRCH is classed with the errors that decide nothing.
LivenessWithoutEsrch(t, p) ==
    IF ~alive[p] \/ (p \in Foreign /\ p # ProcOf[t]) THEN "indeterminate" ELSE "alive"

\* pid_alive_fn, asked by thread t about pid p.
Liveness(t, p) ==
    IF ~alive[p] THEN "dead"
    ELSE IF p \in Foreign /\ p # ProcOf[t] THEN "indeterminate" ELSE "alive"

\* Mutant: the wall clock alone makes a holder stale.
VerdictByAge(t) == IF heartbeat = "stale" THEN "reapState" ELSE "busy"

\* What _reap_if_stale decides from the pid it read, the liveness of that pid
\* now and the heartbeat now: a missing heartbeat counts as started at 0.0.
Verdict(t) ==
    LET liveness == Liveness(t, seen[t]) IN
    IF (seen[t] = ProcOf[t] /\ SelfAcquireIsStale) \/ liveness = "dead" THEN "reapState"
    ELSE IF liveness = "indeterminate" /\ heartbeat # "fresh" THEN "indeterminate"
    ELSE "busy"

Judge(t) ==
    /\ Goto(t, "judge", Verdict(t))
    /\ UNCHANGED <<files, alive, seen>>

\* _reap_files: heartbeat, pid file, sentinel; missing files are ignored.
ReapState(t) ==
    /\ Goto(t, "reapState", "reapPid")
    /\ heartbeat' = "absent"
    /\ UNCHANGED <<sentinel, pidFile, alive, seen>>

ReapPid(t) ==
    /\ Goto(t, "reapPid", "reapLock")
    /\ pidFile' = NoProc
    /\ UNCHANGED <<sentinel, heartbeat, alive, seen>>

\* Mutant: the reap leaves the sentinel.
ReapLockForgotten(t) ==
    /\ Goto(t, "reapLock", "retry")
    /\ UNCHANGED <<files, alive, seen>>

ReapLock(t) ==
    /\ Goto(t, "reapLock", "retry")
    /\ sentinel' = NoThread
    /\ UNCHANGED <<pidFile, heartbeat, alive, seen>>

\* The one retry after a reap; losing it returns None.
Retry(t) ==
    /\ t \notin Operators
    /\ IF sentinel = NoThread
         THEN Goto(t, "retry", AfterWin(t)) /\ sentinel' = t
         ELSE Goto(t, "retry", "lost") /\ UNCHANGED sentinel
    /\ UNCHANGED <<pidFile, heartbeat, alive, seen>>

-----------------------------------------------------------------------------
(* Registration and the critical section *)

\* write_owner_pid renames a finished file into place.
WritePid(t) ==
    /\ Goto(t, "won", "registered")
    /\ pidFile' = ProcOf[t]
    /\ UNCHANGED <<sentinel, heartbeat, alive, seen>>

WriteHeartbeat(t) ==
    /\ Goto(t, "registered", "held")
    /\ heartbeat' = "fresh"
    /\ UNCHANGED <<sentinel, pidFile, alive, seen>>

\* An OSError while registering.  _register_holder logs it and the qmd call
\* runs; in _acquire_wiki_flock it escapes before the try whose finally
\* releases, so the sentinel stays behind.
RegisterFails(t) ==
    /\ pc[t] \in {"won", "registered"}
    /\ pc' = [pc EXCEPT ![t] = IF Caller = "qmd" THEN "held" ELSE "leaked"]
    /\ UNCHANGED <<files, alive, seen>>

Leave(t) ==
    /\ Goto(t, "held", "relState")
    /\ UNCHANGED <<files, alive, seen>>

\* release_create_lock unlinks what is there, whoever made it.
ReleaseState(t) ==
    /\ Goto(t, "relState", "relPid")
    /\ heartbeat' = "absent"
    /\ UNCHANGED <<sentinel, pidFile, alive, seen>>

ReleasePid(t) ==
    /\ Goto(t, "relPid", "relLock")
    /\ pidFile' = NoProc
    /\ UNCHANGED <<sentinel, heartbeat, alive, seen>>

\* Mutant: the descriptor is closed, the sentinel stays.
ReleaseLockForgotten(t) ==
    /\ Goto(t, "relLock", "idle")
    /\ UNCHANGED <<files, alive, seen>>

ReleaseLock(t) ==
    /\ Goto(t, "relLock", "idle")
    /\ sentinel' = NoThread
    /\ UNCHANGED <<pidFile, heartbeat, alive, seen>>

\* The caller raises or sleeps one poll interval; either way its next try is
\* a whole new acquire.
Return(t) ==
    /\ pc[t] \in Outcomes
    /\ pc' = [pc EXCEPT ![t] = "idle"]
    /\ UNCHANGED <<files, alive, seen>>

-----------------------------------------------------------------------------
(* cli/operator.py:flock_force_repair reaps first and asks afterwards, then *)
(* closes the descriptor it won without unlinking the sentinel.  The        *)
(* envelope-less acquire finds any sentinel made since the reap too young   *)
(* to be an orphan.                                                         *)

OperatorStart(t) ==
    /\ t \in Operators
    /\ Goto(t, "idle", "reapState")
    /\ UNCHANGED <<files, alive, seen>>

OperatorRetry(t) ==
    /\ t \in Operators
    /\ IF sentinel = NoThread
         THEN Goto(t, "retry", "repaired") /\ sentinel' = t
         ELSE Goto(t, "retry", "lost") /\ UNCHANGED sentinel
    /\ UNCHANGED <<pidFile, heartbeat, alive, seen>>

-----------------------------------------------------------------------------
(* The environment *)

Stop(p) ==
    /\ alive[p]
    /\ alive' = [alive EXCEPT ![p] = FALSE]
    /\ pc' = [t \in Threads |-> IF ProcOf[t] = p THEN "gone" ELSE pc[t]]
    /\ UNCHANGED <<files, seen>>

\* A command-line process whose calls have all returned ends.
Exit(p) ==
    /\ p \in Exiting
    /\ \A t \in Threads : ProcOf[t] = p => pc[t] = "idle"
    /\ Stop(p)

Crash(p) == p \in Crashing /\ Stop(p)

\* The holder's heartbeat, written once, passes max_age_s.
Age ==
    /\ heartbeat = "fresh"
    /\ heartbeat' = "stale"
    /\ UNCHANGED <<sentinel, pidFile, alive, pc, seen>>

Acquire(t) == CreateWins(t) \/ CreateFails(t) \/ ReadPid(t) \/ Judge(t)
Reap(t) == ReapState(t) \/ ReapPid(t) \/ ReapLock(t) \/ Retry(t)
Register(t) == WritePid(t) \/ WriteHeartbeat(t) \/ RegisterFails(t)
Release(t) == Leave(t) \/ ReleaseState(t) \/ ReleasePid(t) \/ ReleaseLock(t)
Operate(t) == OperatorStart(t) \/ OperatorRetry(t)

Step(t) == Acquire(t) \/ Reap(t) \/ Register(t) \/ Release(t) \/ Operate(t) \/ Return(t)

Next ==
    \/ \E t \in Threads : Step(t)
    \/ \E p \in Procs : Exit(p) \/ Crash(p)
    \/ Age

Spec == Init /\ [][Next]_vars

\* Every thread keeps being scheduled, and callers keep coming: a step of a
\* live thread that stays possible is taken.  A repair is finished once begun,
\* but nobody has to begin one.
FairSpec ==
    Spec /\ \A t \in Threads :
              WF_vars(Step(t) /\ (t \in Forcers \cup Operators => pc[t] # "idle"))

\* Somebody also begins a repair as often as the lock calls for it.
RepairSpec == Spec /\ \A t \in Threads : WF_vars(Step(t))

-----------------------------------------------------------------------------
(* Properties *)

\* The lock as its callers see it: the sentinel's maker holds it, and runs
\* the protected section while its thread is in "held".
Abstract == INSTANCE ExclusiveLock
              WITH Clients <- Threads, Nobody <- NoThread, holder <- sentinel,
                   inside <- {t \in Threads : pc[t] = "held"}

\* Every file access is invisible to the callers or is one of their four steps.
Implements == Abstract!Spec

Owns(t) == pc[t] \in OwningStates

\* "makes the decision single-winner": from its won create to the unlink of
\* its sentinel, a thread is the only one that believes it has the lock.
MutualExclusion == \A t, u \in Threads : Owns(t) /\ Owns(u) => t = u

\* No contender deletes the sentinel under a thread that has the lock, so a
\* release never unlinks somebody else's.
OwnerKeepsSentinel == \A t \in Threads : Owns(t) => sentinel = t

\* "never reap a live process": whoever is deleting the envelope on its own
\* verdict read the pid of a process that is dead, or its own pid where
\* same-pid self-recovery is on - however old the heartbeat.
ReapsOnlyStale ==
    \A t \in Threads \ (Forcers \cup Operators) :
        pc[t] \in ReapingStates =>
            \/ ~alive[seen[t]]
            \/ SelfAcquireIsStale /\ seen[t] = ProcOf[t]

\* A pid file whose process lives is never left behind by a lock that is
\* gone: the release and the reap unlink it before the sentinel.
PidHasSentinel == pidFile # NoProc => sentinel # NoThread /\ ProcOf[sentinel] = pidFile

\* The lock among cooperating live processes, as one inductive invariant: what
\* a file says, and what a thread has read of it, is about the sentinel's maker.
AllAlive == \A p \in Procs : alive[p]
JudgesOwnLeak ==
    \A t \in Threads : pc[t] = "judge" =>
        /\ seen[t] \in Procs
        /\ SelfAcquireIsStale /\ seen[t] = ProcOf[t] => sentinel = t
ReapsOwnLeak ==
    \A t \in Threads : pc[t] \in {"reapState", "reapPid", "reapLock"} => sentinel = t
PidGoneBeforeSentinel ==
    \A t \in Threads : pc[t] \in {"relLock", "reapLock"} => pidFile = NoProc
CooperativeInv ==
    /\ TypeOK /\ AllAlive /\ OwnerKeepsSentinel /\ PidHasSentinel
    /\ JudgesOwnLeak /\ ReapsOwnLeak /\ PidGoneBeforeSentinel

\* The process that made the sentinel has died.
Orphaned(t) == sentinel = t /\ ~alive[ProcOf[t]]

\* A dead holder that had registered is reaped by the contenders that keep
\* coming.
RegisteredOrphanReaped ==
    \A t \in Threads : (Orphaned(t) /\ pidFile = ProcOf[t]) ~> sentinel # t

\* The stronger promise of the module docstring: "A dead holder yields reap
\* + one retry", whenever it died.
OrphanReaped == \A t \in Threads : Orphaned(t) ~> sentinel # t

\* "so the envelope is empty when the command exits": a force-repair that
\* reports success has not kept the lock.
RepairLeavesLockFree ==
    \A t \in Forcers \cup Operators : pc[t] \in {"idle", "repaired"} => sentinel # t
=============================================================================
