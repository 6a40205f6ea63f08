------------------------------ MODULE QmdAccess ------------------------------
(***************************************************************************)
(* One qmd daemon per host and everybody who talks to it: the library's    *)
(* calls (qmd/access.py), an agent's toolset (qmd/mcp.py, capability.py),  *)
(* `lies up` (qmd/daemon.py) and the operator (qmd/lifecycle.py).  Each    *)
(* may kill and replace the daemon while the others are calling it.        *)
(***************************************************************************)
EXTENDS QmdLock, Sequences

CONSTANTS
    MaxStarts,   \* bound on daemon processes
    Paths        \* how many paths a batched read asks for

ASSUME QmdAccessAssumption == {MaxStarts, Paths} \subseteq Nat \ {0}

VARIABLES
    daemon,     \* [pid, hung, stale]; pid 0: nothing listens
    starts,     \* daemons started so far
    sidecar,    \* the scope recorded for the daemon
    pc, kind,   \* where each client is, and what it does
    frame,      \* the locals of its call
    verdict     \* what the caller is told

accessVars == <<daemon, starts, sidecar, pc, kind, frame, verdict>>

\* goal: why it restarts the daemon; seen: the pid its reap, or its call, is
\* about; fails: how its sends failed; session: the daemon the session of a
\* batched read was opened to; bodies: what that read has collected.
Blank == [goal |-> "none", seen |-> 0, fails |-> <<>>, session |-> 0, bodies |-> <<>>]

Kinds == {"query", "get", "batch", "agent", "construct", "ensure", "operator"}
PCs == {"idle", "lock", "scope", "probe", "stale", "reap", "kill", "spawn", "sidecar", "ready",
        "call", "recall", "wait", "rewait", "live", "done"}
Goals == {"none", "call", "raise", "retry", "start", "replace", "construct", "recycle"}
Verdicts == {"none", "ok", "busy", "unavailable", "wedged", "error", "modelRetry",
             "toolFailed", "native", "fallback", "notServing"}
NoDaemon == [pid |-> 0, hung |-> FALSE, stale |-> FALSE]

-----------------------------------------------------------------------------
(* The taxonomy *)

\* A failed call, as classify_call_error sees it: the families of its class
\* names, its JSON-RPC code, and those of what stands on its __cause__ chain.
Failures == [
    readTimeout  |-> [is |-> {"wedge", "transport"}, cause |-> {}, code |-> "none"],
    malformed    |-> [is |-> {"local", "transport"}, cause |-> {}, code |-> "none"],
    refused      |-> [is |-> {"transport"}, cause |-> {}, code |-> "none"],
    deadSession  |-> [is |-> {}, cause |-> {"transport"}, code |-> "none"],
    lateWrapped  |-> [is |-> {}, cause |-> {"wedge", "transport"}, code |-> "none"],
    closed       |-> [is |-> {}, cause |-> {}, code |-> "connectionClosed"],
    slowRequest  |-> [is |-> {}, cause |-> {}, code |-> "requestTimeout"],
    toolError    |-> [is |-> {}, cause |-> {}, code |-> "none"]]

\* Mutant: a malformed request is a transport error like the others.
ClassNoLocal(names) ==
    IF "wedge" \in names THEN "raise"
    ELSE IF "transport" \in names THEN "retry"
    ELSE "none"

Class(names) ==
    IF "wedge" \in names THEN "raise"
    ELSE IF "local" \in names THEN "pass"
    ELSE IF "transport" \in names THEN "retry"
    ELSE "none"

\* "raise" recycles and raises, "retry" recycles and retries, "pass" re-raises.
Classify(f) ==
    LET e == Failures[f] IN
    IF Class(e.is) # "none" THEN Class(e.is)
    ELSE IF Class(e.cause) # "none" THEN Class(e.cause)
    ELSE CASE e.code = "connectionClosed" -> "raise"
           [] e.code = "requestTimeout" -> "retry"
           [] OTHER -> "pass"

AccessTypeOK ==
    /\ daemon \in [pid : 0 .. MaxStarts, hung : BOOLEAN, stale : BOOLEAN]
    /\ starts \in 0 .. MaxStarts
    /\ sidecar \in {"none", "ours", "foreign"}
    /\ pc \in [Clients -> PCs] /\ kind \in [Clients -> Kinds]
    /\ verdict \in [Clients -> Verdicts]
    /\ \A c \in Clients : LET f == frame[c] IN
         /\ f.goal \in Goals
         /\ {f.seen, f.session} \subseteq 0 .. MaxStarts
         /\ f.fails \in Seq(DOMAIN Failures) /\ Len(f.fails) <= 2
         /\ f.bodies \in Seq({"body", "none"}) /\ Len(f.bodies) < Paths

AccessInit ==
    /\ \/ daemon = NoDaemon /\ starts = 0
       \/ \E h, s \in BOOLEAN : daemon = [pid |-> 1, hung |-> h, stale |-> s] /\ starts = 1
    /\ sidecar \in {"none", "ours", "foreign"}
    /\ pc = [c \in Clients |-> "idle"] /\ kind \in [Clients -> Kinds]
    /\ frame = [c \in Clients |-> Blank]
    /\ verdict = [c \in Clients |-> "none"]

-----------------------------------------------------------------------------
(* Steps of one client *)

At(c, label) == pc[c] = label
Jump(c, label) == pc' = [pc EXCEPT ![c] = label] /\ UNCHANGED <<verdict, lockVars>>
Goto(c, label) == Jump(c, label) /\ UNCHANGED frame
Aim(c, label, why) == Jump(c, label) /\ frame' = [frame EXCEPT ![c].goal = why]
Goal(c) == frame[c].goal
world == <<daemon, starts, sidecar>>

\* The caller has its answer; a query also leaves the lock.
Finish(c, v) ==
    /\ pc' = [pc EXCEPT ![c] = "done"]
    /\ verdict' = [verdict EXCEPT ![c] = v]
    /\ frame' = [frame EXCEPT ![c] = Blank]
    /\ IF depth[c] > 0 THEN Leaves(c) ELSE UNCHANGED lockVars

\* daemon_tool gates `query` alone.
Gated(c) == kind[c] = "query"

Begin(c) ==
    /\ At(c, "idle")
    /\ IF Gated(c)
       THEN /\ pc' = [pc EXCEPT ![c] = "lock"]
            /\ StartsPolling(c, NoClient)
            /\ UNCHANGED <<frame, verdict>>
       ELSE CASE kind[c] = "agent" -> Goto(c, "call")
              [] kind[c] = "ensure" -> Goto(c, "scope")
              [] kind[c] = "operator" -> Aim(c, "reap", "recycle")
              [] OTHER -> Goto(c, "probe")
    /\ UNCHANGED <<world, kind>>

Gate(c) ==
    /\ At(c, "lock")
    /\ \/ Wins(c) /\ pc' = [pc EXCEPT ![c] = "probe"] /\ UNCHANGED verdict
       \/ Polls(c) /\ UNCHANGED <<pc, verdict>>
       \/ /\ TimesOut(c)
          /\ pc' = [pc EXCEPT ![c] = "done"] /\ verdict' = [verdict EXCEPT ![c] = "busy"]
    /\ UNCHANGED <<world, kind, frame>>

\* qmd_daemon_reachable: a TCP connect, which a hung daemon accepts.
Probe(c) ==
    /\ At(c, "probe")
    /\ IF daemon.pid # 0
       THEN Goto(c, IF kind[c] = "batch" THEN "call" ELSE "stale")
       ELSE Finish(c, IF kind[c] = "construct" THEN "fallback" ELSE "unavailable")
    /\ UNCHANGED <<world, kind>>

\* ensure_qmd_daemon: a sidecar of another scope has the daemon replaced, and so
\* has a stale one; any other is only started.
CheckScope(c) ==
    /\ At(c, "scope")
    /\ IF sidecar = "foreign" THEN Aim(c, "reap", "replace") ELSE Goto(c, "stale")
    /\ UNCHANGED <<world, kind>>

\* _is_daemon_stale: the last-write marker is younger than the pid file.
StaleCheck(c) ==
    /\ At(c, "stale")
    /\ CASE kind[c] = "ensure" /\ daemon.stale -> Aim(c, "reap", "replace")
         [] kind[c] = "ensure" /\ ~daemon.stale -> Aim(c, "spawn", "start")
         [] kind[c] = "construct" -> Aim(c, IF daemon.stale THEN "reap" ELSE "live", "construct")
         [] OTHER -> Aim(c, IF daemon.stale THEN "reap" ELSE "call", "call")
    /\ UNCHANGED <<world, kind>>

-----------------------------------------------------------------------------
(* Replacing the daemon *)

\* _reap_qmd_daemon reads the pid from `qmd status`; when that fails or times
\* out it returns, and the spawn meets the old daemon.
ReapReads(c) ==
    /\ At(c, "reap") /\ kind[c] # "operator"
    /\ \/ /\ daemon.pid # 0
          /\ Jump(c, "kill")
          /\ frame' = [frame EXCEPT ![c].seen = daemon.pid]
       \/ Goto(c, "spawn")
    /\ UNCHANGED <<world, kind>>

\* `qmd mcp stop`, whose failure and timeout are swallowed.
Down(c) ==
    /\ At(c, "reap") /\ kind[c] = "operator"
    /\ daemon' \in {daemon, NoDaemon}
    /\ Goto(c, "spawn")
    /\ UNCHANGED <<starts, sidecar, kind>>

\* SIGTERM, then SIGKILL, to the pid read before.
Kill(c) ==
    /\ At(c, "kill")
    /\ daemon' = IF daemon.pid = frame[c].seen THEN NoDaemon ELSE daemon
    /\ Goto(c, "spawn")
    /\ UNCHANGED <<starts, sidecar, kind>>

\* `qmd mcp --http --daemon` finds a daemon ("already running"), starts one, or
\* fails.  A command that cannot run is swallowed, and the sidecar written,
\* unless the start was plain (raise_on_error); one that exits with an error is
\* looked at after the sidecar is written.
Spawned ==
    \/ daemon.pid # 0 /\ UNCHANGED <<daemon, starts>>
    \/ /\ daemon.pid = 0 /\ starts < MaxStarts
       /\ starts' = starts + 1
       /\ \E h \in BOOLEAN : daemon' = [pid |-> starts + 1, hung |-> h, stale |-> FALSE]
    \/ daemon.pid = 0 /\ UNCHANGED <<daemon, starts>>

Spawn(c) ==
    /\ At(c, "spawn") /\ kind[c] # "operator"
    /\ Spawned
    /\ CASE Goal(c) = "call" -> Goto(c, "call")
         [] Goal(c) = "start" /\ daemon'.pid = 0 -> Finish(c, "notServing") \/ Goto(c, "sidecar")
         [] OTHER -> Goto(c, "sidecar")
    /\ UNCHANGED <<sidecar, kind>>

\* lifecycle._up polls the port only, and raises when nothing binds it.
Up(c) ==
    /\ At(c, "spawn") /\ kind[c] = "operator"
    /\ Spawned
    /\ IF daemon'.pid = 0 THEN Finish(c, "notServing") ELSE Goto(c, "ready")
    /\ UNCHANGED <<sidecar, kind>>

\* write_sidecar_scope, which a stale call skips.
Sidecar(c) ==
    /\ At(c, "sidecar")
    /\ sidecar' = "ours"
    /\ CASE Goal(c) \in {"start", "replace"} -> Finish(c, IF daemon.pid = 0 THEN "notServing" ELSE "ok")
         [] Goal(c) = "construct" -> Goto(c, "live")
         [] OTHER -> Goto(c, "ready")
    /\ UNCHANGED <<daemon, starts, kind>>

Serves == daemon.pid # 0 /\ ~daemon.hung

\* The library keeps its own diagnosis, served or not, and even retries on a
\* daemon that never served.
AfterRecycle(c) == IF Goal(c) = "raise" THEN Finish(c, "wedged") ELSE Goto(c, "recall")

\* The toolset turns a failed recycle into ToolFailed and a wedge into ModelRetry.
AfterToolsetRecycle(c, served) ==
    CASE ~served -> Finish(c, "toolFailed")
      [] served /\ Goal(c) = "raise" -> Finish(c, "modelRetry")
      [] OTHER -> Goto(c, "recall")

Restarted(c, served) ==
    CASE kind[c] = "operator" -> Finish(c, IF served THEN "ok" ELSE "notServing")
      [] kind[c] = "agent" -> AfterToolsetRecycle(c, served)
      [] OTHER -> AfterRecycle(c)

\* The probe is repeated until it is answered, or the budget is spent.
Ready(c) ==
    /\ At(c, "ready")
    /\ Restarted(c, Serves)
    /\ UNCHANGED <<world, kind>>

\* as_capability: one list_tools decides what the agent is shown.  Its except
\* clause lacks the RuntimeError fastmcp raises for a refused connection.
Live(c) ==
    /\ At(c, "live")
    /\ Finish(c, IF Serves THEN "native" ELSE IF daemon.pid = 0 THEN "error" ELSE "fallback")
    /\ UNCHANGED <<world, kind>>

-----------------------------------------------------------------------------
(* The call itself *)

\* A batched read opens one session, outside the recovery, for all its paths.
Send(c) ==
    /\ pc[c] \in {"call", "recall"}
    /\ LET opened == IF frame[c].session = 0 THEN daemon.pid ELSE frame[c].session IN
       IF kind[c] = "batch" /\ opened = 0
       THEN Finish(c, "error")
       ELSE /\ Jump(c, IF At(c, "call") THEN "wait" ELSE "rewait")
            /\ frame' = [frame EXCEPT ![c].seen = opened,
                                      ![c].session = IF kind[c] = "batch" THEN opened ELSE 0]
    /\ UNCHANGED <<world, kind>>

Waiting(c) == pc[c] \in {"wait", "rewait"}

\* What may come back from a send to that daemon.
Possible(c) ==
    IF frame[c].seen = 0 THEN {"refused", "deadSession"}
    ELSE IF daemon.pid # frame[c].seen THEN {"closed", "deadSession"}
    ELSE IF daemon.hung THEN {"readTimeout", "lateWrapped", "slowRequest"}
    ELSE {"toolError", "malformed"}

\* One entry per path; the last one ends the batch.
Collects(c, entry) ==
    IF Len(frame[c].bodies) + 1 = Paths
    THEN Finish(c, "ok")
    ELSE /\ Jump(c, "call")
         /\ frame' = [frame EXCEPT ![c].bodies = Append(@, entry), ![c].fails = <<>>]

Answered(c) ==
    /\ Waiting(c) /\ Serves /\ daemon.pid = frame[c].seen
    /\ IF kind[c] = "batch" THEN Collects(c, "body") ELSE Finish(c, "ok")
    /\ UNCHANGED <<world, kind>>

\* Mutant: a wedged payload gets its second chance too.
ActionRetries(f) == IF Classify(f) = "raise" THEN "retry" ELSE Classify(f)

Action(f) == Classify(f)

\* What is not the daemon's fault costs a batch one entry, another call itself.
Passed(c) == IF kind[c] = "batch" THEN Collects(c, "none") ELSE Finish(c, "error")

\* Mutant: every failure is worth a recycle.
FailsAgainRestarts(c, f) == Aim(c, "reap", Action(f))

FailsAgain(c, f) ==
    Finish(c, IF kind[c] = "agent" THEN "toolFailed"
              ELSE IF Action(f) = "raise" THEN "wedged"
              ELSE "unavailable")

\* _call_with_recovery and QmdRecycleToolset: one recycle, at most one more send.
Failed(c) ==
    /\ Waiting(c)
    /\ \E f \in Possible(c) :
         CASE Action(f) = "pass" -> Passed(c)
           [] Action(f) # "pass" /\ At(c, "wait") ->
                /\ Jump(c, "reap")
                /\ frame' = [frame EXCEPT ![c].goal = Action(f), ![c].fails = Append(@, f)]
           [] Action(f) # "pass" /\ At(c, "rewait") -> FailsAgain(c, f)
    /\ UNCHANGED <<world, kind>>

-----------------------------------------------------------------------------
(* The daemon *)

clients == <<lockVars, pc, kind, frame, verdict>>

Hangs ==
    /\ Serves
    /\ daemon' = [daemon EXCEPT !.hung = TRUE]
    /\ UNCHANGED <<starts, sidecar, clients>>

\* A commit touches the marker (memory/service.py, library/writer.py).
Written ==
    /\ daemon.pid # 0 /\ ~daemon.stale
    /\ daemon' = [daemon EXCEPT !.stale = TRUE]
    /\ UNCHANGED <<starts, sidecar, clients>>

Dies ==
    /\ daemon.pid # 0
    /\ daemon' = NoDaemon
    /\ UNCHANGED <<starts, sidecar, clients>>

AccessStep(c) ==
    \/ Gate(c) \/ Probe(c) \/ CheckScope(c) \/ StaleCheck(c)
    \/ ReapReads(c) \/ Kill(c) \/ Spawn(c) \/ Down(c) \/ Up(c) \/ Sidecar(c) \/ Ready(c) \/ Live(c)
    \/ Send(c) \/ Answered(c) \/ Failed(c)

AccessNext == (\E c \in Clients : Begin(c) \/ AccessStep(c)) \/ Hangs \/ Written \/ Dies

-----------------------------------------------------------------------------
(* Properties *)

InQuery(c) == kind[c] = "query" /\ Waiting(c)

\* The daemon gets the library's queries one at a time, through every recycle
\* and retry of the one that holds the lock (daemon_tool).
QueriesAlone == \A c, d \in Clients : InQuery(c) /\ InQuery(d) => c = d

\* A payload that wedged the daemon is never sent to its replacement by the same
\* call, and no payload is sent a third time (_call_with_recovery).
WedgedOnce ==
    \A c \in Clients : Waiting(c) => /\ Len(frame[c].fails) <= 1
                                     /\ \A i \in DOMAIN frame[c].fails : Classify(frame[c].fails[i]) = "retry"

\* A call has the daemon replaced only when the one it was sent to hung, is gone
\* or was replaced: an error that daemon answered with, or a request it could not
\* parse, costs nobody else the daemon (classify_call_error).  This is about the
\* decision: the reap then kills the pid that is recorded by then, whose ever.
RecyclesForCause ==
    [][\A c \in Clients :
          Waiting(c) /\ pc'[c] = "reap" => ~(Serves /\ daemon.pid = frame[c].seen)]_accessVars

\* A caller that was told the daemon serves again was told so by a daemon that
\* answered (recycle_qmd_daemon, lifecycle.recycle).
RecoveryWasSeen ==
    [][\A c \in Clients :
          pc[c] = "ready" /\ verdict'[c] \in {"ok", "modelRetry"} => Serves]_accessVars

\* Every call ends with an answer or an error, although each client may kill
\* the daemon another is waiting for (daemon_tool, QmdRecycleToolset).
EveryCallSettles == \A c \in Clients : ~At(c, "idle") ~> At(c, "done")
=============================================================================
