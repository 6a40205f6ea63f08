------------------------------- MODULE McpDaemon -------------------------------
(* The detached LIES MCP daemon of one wiki: `lies mcp up` and `down` under a *)
(* create lock that a contender takes over once it is 60 s old, the daemon's  *)
(* record, its process and its port.  mcp/daemon.py; the commands are in      *)
(* cli/operator.py.                                                           *)
EXTENDS Naturals, FiniteSets

CONSTANTS
    Callers,      \* processes that run `up` or `down`
    Pids,         \* process ids a daemon may get
    NoPid,
    MaxCalls      \* commands started in all

ASSUME McpAssumption == NoPid \notin Callers \cup Pids

VARIABLES
    proc,         \* what runs under each pid
    port,         \* who listens on the daemon's port: NoPid, a pid or "stranger"
    record,       \* the pid file
    served,       \* daemons whose port accepted a connection of theirs
    daemonLock,   \* who made the create lock's file
    stolen,       \* a contender unlinked the file of a command at work
    dpc, child,
    abandoned,    \* children of an `up` that died or was interrupted, could not write
                  \* the record, or did not get rid of them
    calls, strangers

daemonVars == <<proc, port, record, served, daemonLock, stolen, dpc, child, abandoned, calls, strangers>>

Living == {p \in Pids : proc[p] \in {"starting", "serving", "stopping", "killed"}}
Contending == {"create", "stat", "reap", "recreate"}
AtWork == {c \in Callers : dpc[c] \notin {"idle"} \cup Contending}

McpInit ==
    /\ proc = [p \in Pids |-> "unused"] /\ port = NoPid /\ record = NoPid /\ served = {}
    /\ daemonLock = NoPid /\ stolen = FALSE
    /\ dpc = [c \in Callers |-> "idle"] /\ child = [c \in Callers |-> NoPid]
    /\ abandoned = {} /\ calls = 0 /\ strangers = 0

Step(c, pc) == dpc' = [dpc EXCEPT ![c] = pc]

\* The finally of both commands: the lock file is unlinked, whoever made it.
Return(c) ==
    /\ Step(c, "idle") /\ child' = [child EXCEPT ![c] = NoPid]
    /\ daemonLock' = NoPid /\ UNCHANGED stolen
kept == <<daemonLock, stolen, child>>
elsewhere == <<proc, port, record, served, child, abandoned, strangers>>

\* acquire_create_lock: a file in the way is looked at, unlinked if it is more
\* than 60 s old, and the create tried once more: three steps.  A file of any
\* command may be that old: `up --timeout 90` takes longer.
Starts(c) ==
    /\ dpc[c] = "idle" /\ calls < MaxCalls /\ calls' = calls + 1
    /\ Step(c, "create") /\ UNCHANGED <<elsewhere, daemonLock, stolen>>
Creates(c) ==
    /\ dpc[c] \in {"create", "recreate"}
    /\ \/ /\ daemonLock = NoPid /\ daemonLock' = c
          /\ \E verb \in {"up", "down"} : Step(c, verb)
       \/ /\ daemonLock # NoPid /\ UNCHANGED daemonLock
          /\ Step(c, IF dpc[c] = "create" THEN "stat" ELSE "idle")
    /\ UNCHANGED <<elsewhere, stolen, calls>>
Stats(c) ==
    /\ dpc[c] = "stat"
    /\ \/ Step(c, "idle")
       \/ daemonLock # NoPid /\ Step(c, "reap")
    /\ UNCHANGED <<elsewhere, daemonLock, stolen, calls>>
Reaps(c) ==
    /\ dpc[c] = "reap" /\ Step(c, "recreate")
    /\ daemonLock' = NoPid /\ stolen' = (stolen \/ daemonLock \in AtWork)
    /\ UNCHANGED <<elsewhere, calls>>

\* The process is gone, or is nobody's daemon.  A pid that another wiki's
\* daemon got passes for this one.
Stale(p) == proc[p] \in {"gone", "foreign"}

\* spawn_daemon reads the record, clears a stale one and probes the port.
UpReads(c) ==
    /\ dpc[c] = "up"
    /\ IF record # NoPid /\ ~Stale(record) THEN Return(c) /\ UNCHANGED record
       ELSE /\ record' = NoPid
            /\ IF port # NoPid THEN Return(c) ELSE Step(c, "spawn") /\ UNCHANGED kept
    /\ UNCHANGED <<proc, port, served, abandoned, calls, strangers>>

\* An `up` that has not reaped its child keeps the pid from being used again.
Unreaped == {child[d] : d \in {e \in Callers : dpc[e] \in {"wait", "write"}}}

\* The child gets a pid that is free by now, or none can be started.
UpSpawns(c) ==
    /\ dpc[c] = "spawn"
    /\ \/ Return(c) /\ UNCHANGED <<proc, served, abandoned>>
       \/ \E p \in Pids \ Unreaped :
             /\ proc[p] \in {"unused", "gone"}
             /\ proc' = [proc EXCEPT ![p] = "starting"] /\ child' = [child EXCEPT ![c] = p]
             /\ served' = served \ {p} /\ abandoned' = abandoned \ {p}
             /\ Step(c, "wait") /\ UNCHANGED <<daemonLock, stolen>>
    /\ UNCHANGED <<port, record, calls, strangers>>

\* Mutant: a child that is not ready in time is left alone.
GivesUpOnly(c) == Return(c) /\ UNCHANGED <<proc, port, abandoned>>

\* _kill_now waits two seconds for the child to go, and says nothing if it stays.
GivesUp(c) ==
    LET p == child[c]
    IN /\ Return(c)
       /\ \/ /\ proc' = [proc EXCEPT ![p] = "gone"] /\ UNCHANGED abandoned
             /\ port' = IF port = p THEN NoPid ELSE port
          \/ /\ proc' = [proc EXCEPT ![p] = "killed"] /\ abandoned' = abandoned \cup {p}
             /\ UNCHANGED port

\* _wait_until_accepting: the child's exit comes first, then whether anybody
\* accepts on the port; at the deadline the child is killed.
UpWaits(c) ==
    /\ dpc[c] = "wait"
    /\ \/ proc[child[c]] = "gone" /\ Return(c) /\ UNCHANGED <<proc, port, abandoned>>
       \/ proc[child[c]] # "gone" /\ port = NoPid /\ GivesUp(c)
       \/ /\ proc[child[c]] # "gone" /\ port # NoPid
          /\ Step(c, "write") /\ UNCHANGED <<proc, port, abandoned, kept>>
    /\ UNCHANGED <<record, served, calls, strangers>>

\* The record, or an OSError of its write: the child runs on, untracked.
UpWrites(c) ==
    /\ dpc[c] = "write"
    /\ \/ record' = child[c] /\ Return(c) /\ UNCHANGED abandoned
       \/ Return(c) /\ abandoned' = abandoned \cup {child[c]} /\ UNCHANGED record
    /\ UNCHANGED <<proc, port, served, calls, strangers>>

\* stop_daemon: no record, a stale one, or SIGTERM to whatever has the pid.
DownReads(c) ==
    /\ dpc[c] = "down"
    /\ \/ record = NoPid /\ Return(c) /\ UNCHANGED <<record, proc>>
       \/ /\ record # NoPid /\ Stale(record)
          /\ Return(c) /\ record' = NoPid /\ UNCHANGED proc
       \/ /\ record # NoPid /\ ~Stale(record)
          /\ Step(c, "term") /\ child' = [child EXCEPT ![c] = record]
          /\ UNCHANGED <<record, proc, daemonLock, stolen>>
    /\ UNCHANGED <<port, served, abandoned, calls, strangers>>

\* Another program that has the pid gets the signal too; Exits has its end.
Signalled(p, how) == IF p \in Living THEN [proc EXCEPT ![p] = how] ELSE proc

\* Mutant: the record goes with the signal.
DownTermsNow(c) ==
    /\ dpc[c] = "term" /\ record' = NoPid
    /\ proc' = Signalled(child[c], "stopping")
    /\ Step(c, "grace") /\ UNCHANGED <<kept, port, served, abandoned, calls, strangers>>

\* A process of another user cannot be signalled: the error leaves the record.
DownTerms(c) ==
    /\ dpc[c] = "term"
    /\ \/ proc[child[c]] = "gone" /\ Return(c) /\ record' = NoPid /\ UNCHANGED proc
       \/ proc[child[c]] = "foreign" /\ Return(c) /\ UNCHANGED <<record, proc>>
       \/ /\ proc[child[c]] # "gone" /\ proc' = Signalled(child[c], "stopping")
          /\ Step(c, "grace") /\ UNCHANGED <<kept, record>>
    /\ UNCHANGED <<port, served, abandoned, calls, strangers>>

\* The process exits within the grace period, or gets SIGKILL at its end.
DownWaits(c) ==
    /\ dpc[c] = "grace"
    /\ IF proc[child[c]] = "gone" THEN record' = NoPid /\ Return(c) /\ UNCHANGED proc
       ELSE /\ proc' = Signalled(child[c], "killed")
            /\ Step(c, "kill") /\ UNCHANGED <<kept, record>>
    /\ UNCHANGED <<port, served, abandoned, calls, strangers>>

\* A process that survives SIGKILL for two seconds keeps its record.
DownEnds(c) ==
    /\ dpc[c] = "kill"
    /\ IF proc[child[c]] = "gone" THEN record' = NoPid /\ Return(c)
       ELSE Return(c) /\ UNCHANGED record
    /\ UNCHANGED <<proc, port, served, abandoned, calls, strangers>>

\* A command is killed where it stands; its lock file stays.  Or it is
\* interrupted: then the finally releases the lock, but an `up` that is waiting
\* for its child kills it for a failed start only.
Leaves(c) == abandoned' = abandoned \cup (IF dpc[c] \in {"wait", "write"} THEN {child[c]} ELSE {})
CallerDies(c) ==
    /\ dpc[c] # "idle" /\ Step(c, "idle") /\ Leaves(c)
    /\ child' = [child EXCEPT ![c] = NoPid]
    /\ UNCHANGED <<proc, port, record, served, daemonLock, stolen, calls, strangers>>
Interrupted(c) ==
    /\ c \in AtWork /\ Return(c) /\ Leaves(c)
    /\ UNCHANGED <<proc, port, record, served, calls, strangers>>

-------------------------------------------------------------------------------
\* The processes.  A daemon that finds its port taken exits.
Binds(p) ==
    /\ proc[p] = "starting"
    /\ IF port = NoPid
       THEN port' = p /\ proc' = [proc EXCEPT ![p] = "serving"] /\ served' = served \cup {p}
       ELSE proc' = [proc EXCEPT ![p] = "gone"] /\ UNCHANGED <<port, served>>
    /\ UNCHANGED <<record, kept, dpc, abandoned, calls, strangers>>
Exits(p) ==
    /\ p \in Living \/ proc[p] \in {"foreign", "sibling"}
    /\ proc' = [proc EXCEPT ![p] = "gone"]
    /\ port' = IF port = p THEN NoPid ELSE port
    /\ UNCHANGED <<record, served, kept, dpc, abandoned, calls, strangers>>
\* A stranger listens on the port, and leaves.
Stranger ==
    /\ port \in {NoPid, "stranger"} /\ strangers < 2 /\ strangers' = strangers + 1
    /\ port' = IF port = NoPid THEN "stranger" ELSE NoPid
    /\ UNCHANGED <<proc, record, served, kept, dpc, abandoned, calls>>
\* The pid of a dead daemon goes to another program, or to another wiki's daemon.
PidReused(p) ==
    /\ proc[p] = "gone" /\ p \notin Unreaped
    /\ \E q \in {"foreign", "sibling"} : proc' = [proc EXCEPT ![p] = q]
    /\ UNCHANGED <<port, record, served, kept, dpc, abandoned, calls, strangers>>

CommandStep(c) ==
    \/ Creates(c) \/ Stats(c) \/ Reaps(c)
    \/ UpReads(c) \/ UpSpawns(c) \/ UpWaits(c) \/ UpWrites(c)
    \/ DownReads(c) \/ DownTerms(c) \/ DownWaits(c) \/ DownEnds(c)
McpNext ==
    \/ \E c \in Callers : Starts(c) \/ CommandStep(c) \/ CallerDies(c) \/ Interrupted(c)
    \/ \E p \in Pids : Binds(p) \/ Exits(p) \/ PidReused(p)
    \/ Stranger

McpTypeOK ==
    /\ proc \in [Pids -> {"unused", "starting", "serving", "stopping", "killed", "gone", "foreign",
                          "sibling"}]
    /\ record \in Pids \cup {NoPid} /\ served \subseteq Pids /\ abandoned \subseteq Pids
    /\ daemonLock \in Callers \cup {NoPid}
    /\ child \in [Callers -> Pids \cup {NoPid}]

\* While no contender unlinks the lock file of a command at work, the record is
\* taken from a daemon only when its process is gone: a `down` that is still
\* waiting, has failed or died does not make a live daemon untracked, nor does
\* an `up`, nor a command that took over a dead one's lock file ("Only down
\* clears it"; stop_daemon clears after _wait_for_exit).
TrackedUntilGone ==
    [][~stolen' /\ record # NoPid /\ record' # record => proc[record] \notin {"starting", "serving",
          "stopping", "killed"}]_daemonVars

\* While no contender unlinks the lock file of a command at work, every living
\* daemon of this wiki is recorded, or its `up` is still waiting for it.  What
\* the code loses sight of is named: the child of an `up` that died, was
\* interrupted, could not write the record, or waited in vain for the child to
\* go (_kill_now).
NoneUntracked ==
    ~stolen => \A p \in Living \ abandoned :
                  p = record \/ \E c \in Callers : dpc[c] \in {"wait", "write"} /\ child[c] = p

\* "up never reports success for a dead child": a recorded daemon has listened,
\* unless a stranger, or the child a died `up` left behind, took the port between
\* the probe and the bind and accepted in its stead.
RecordServed ==
    strangers = 0 /\ abandoned = {} /\ ~stolen /\ record # NoPid => record \in served

\* Every command ends, however long the daemon takes to start or to stop.
CommandEnds == \A c \in Callers : dpc[c] # "idle" ~> dpc[c] = "idle"
=============================================================================
