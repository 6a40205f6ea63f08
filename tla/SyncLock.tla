-------------------------------- MODULE SyncLock --------------------------------
(* One `lies sync` at a time: a create lock that a contender takes over once  *)
(* its file is an hour old, and a heartbeat that says who is inside and since *)
(* when.  etl/heartbeat.py and sync_helper.py; the command is sync in         *)
(* cli/ingestion.py.  The hour is one event for both files.                   *)
EXTENDS Naturals

CONSTANTS
    Syncs,        \* processes
    Nobody,
    MaxSyncs      \* commands started in all

VARIABLES
    createLock,   \* who made the lock file
    heartbeat,    \* whom the heartbeat names
    fdFile,       \* whose descriptor the sidecar file holds
    hourOld,      \* {"lock", "heartbeat"}: the files that are older than an hour
    spc,          \* of each process
    waits,
    overran,      \* some sync has held the lock for more than an hour
    raced,        \* a contender looked at an orphan and unlinked a younger file
    syncs

syncVars == <<createLock, heartbeat, fdFile, hourOld, spc, waits, overran, raced, syncs>>
held == <<createLock, heartbeat, fdFile, hourOld>>
Outside == {"idle", "acquire", "stat", "reap", "recreate", "wait", "retry"}
Holding == {s \in Syncs : spc[s] \notin Outside}
Inside == {s \in Holding : spc[s] # "check"}

SyncInit ==
    /\ createLock = Nobody /\ heartbeat = Nobody /\ fdFile = Nobody /\ hourOld = {}
    /\ spc = [s \in Syncs |-> "idle"] /\ waits = [s \in Syncs |-> FALSE]
    /\ overran = FALSE /\ raced = FALSE /\ syncs = 0

To(s, pc) == spc' = [spc EXCEPT ![s] = pc]
ExitsBusy(s) == To(s, "idle")

Dead(s) == spc[s] = "idle"

\* Mutant: only a dead process makes a heartbeat stale.
StaleIfDead == heartbeat # Nobody /\ Dead(heartbeat)

\* heartbeat_is_stale: the process is dead or the file is an hour old.
StaleHeartbeat == heartbeat # Nobody /\ (Dead(heartbeat) \/ "heartbeat" \in hourOld)
LiveHeartbeat == heartbeat # Nobody /\ ~StaleHeartbeat

StartSync(s) ==
    /\ spc[s] = "idle" /\ syncs < MaxSyncs /\ syncs' = syncs + 1
    /\ heartbeat # s        \* a new process has a pid of its own
    /\ \E w \in BOOLEAN : waits' = [waits EXCEPT ![s] = w]
    /\ To(s, "acquire")
    /\ UNCHANGED <<held, overran, raced>>

\* Not got: exit code 2, or, the first time with --wait, wait for the heartbeat.
Contended(s) ==
    /\ IF waits[s] THEN To(s, "wait") /\ waits' = [waits EXCEPT ![s] = FALSE]
       ELSE ExitsBusy(s) /\ UNCHANGED waits
    /\ UNCHANGED <<createLock, hourOld>>
others == <<heartbeat, fdFile, overran, syncs>>

\* Mutant: the lock is not needed when the heartbeat is stale.
CreatesStale(s) ==
    /\ spc[s] \in {"acquire", "retry", "recreate"}
    /\ IF LiveHeartbeat THEN ExitsBusy(s) /\ UNCHANGED createLock
       ELSE To(s, "check") /\ createLock' = s
    /\ UNCHANGED <<others, raced, waits, hourOld>>

\* acquire_create_lock: a file in the way is looked at, unlinked if it is an
\* hour old, and the create tried once more: three steps of their own.
Creates(s) ==
    /\ spc[s] \in {"acquire", "retry", "recreate"}
    /\ \/ /\ createLock = Nobody /\ createLock' = s /\ To(s, "check")
          /\ UNCHANGED <<hourOld, waits>>
       \/ /\ createLock # Nobody /\ spc[s] # "recreate" /\ To(s, "stat")
          /\ UNCHANGED <<createLock, hourOld, waits>>
       \/ createLock # Nobody /\ spc[s] = "recreate" /\ Contended(s)
    /\ UNCHANGED <<others, raced>>
Stats(s) ==
    /\ spc[s] = "stat"
    /\ IF "lock" \in hourOld THEN To(s, "reap") /\ UNCHANGED <<createLock, hourOld, waits>>
       ELSE Contended(s)
    /\ UNCHANGED <<others, raced>>
Reaps(s) ==
    /\ spc[s] = "reap" /\ To(s, "recreate")
    /\ createLock' = Nobody /\ hourOld' = hourOld \ {"lock"}
    /\ raced' = (raced \/ (createLock \in Holding /\ "lock" \notin hourOld))
    /\ UNCHANGED <<others, waits>>

\* wait_until_free looks at the heartbeat alone, which a process that has just
\* made the lock has not written yet.
WaitsUntilFree(s) ==
    /\ spc[s] = "wait" /\ ~LiveHeartbeat
    /\ To(s, "retry") /\ UNCHANGED <<held, waits, overran, raced, syncs>>

\* A live heartbeat under the lock: the file goes again, and the command exits.
ChecksHeartbeat(s) ==
    /\ spc[s] = "check"
    /\ IF LiveHeartbeat THEN ExitsBusy(s) /\ createLock' = Nobody /\ hourOld' = hourOld \ {"lock"}
       ELSE To(s, "beat") /\ UNCHANGED <<createLock, hourOld>>
    /\ UNCHANGED <<heartbeat, fdFile, waits, overran, raced, syncs>>

Beats(s) ==
    /\ spc[s] = "beat" /\ To(s, "fd")
    /\ heartbeat' = s /\ hourOld' = hourOld \ {"heartbeat"}
    /\ UNCHANGED <<createLock, fdFile, waits, overran, raced, syncs>>
WritesFd(s) ==
    /\ spc[s] = "fd" /\ To(s, "sync") /\ fdFile' = s
    /\ UNCHANGED <<createLock, heartbeat, hourOld, waits, overran, raced, syncs>>

\* The collections are synced, with documents in error or not, or the command
\* is refused (a mismatched source, no terminal for the wizard); in every case
\* the finally releases.
Synchronizes(s) ==
    /\ spc[s] = "sync" /\ To(s, "clear")
    /\ UNCHANGED <<held, waits, overran, raced, syncs>>

\* release_heartbeat: the heartbeat, the descriptor's file and the lock file are
\* removed, whoever's they are by then.
ClearsHeartbeat(s) ==
    /\ spc[s] = "clear" /\ To(s, "unlink")
    /\ heartbeat' = Nobody /\ hourOld' = hourOld \ {"heartbeat"}
    /\ UNCHANGED <<createLock, fdFile, waits, overran, raced, syncs>>
UnlinksFd(s) ==
    /\ spc[s] = "unlink" /\ To(s, "release") /\ fdFile' = Nobody
    /\ UNCHANGED <<createLock, heartbeat, hourOld, waits, overran, raced, syncs>>
Releases(s) ==
    /\ spc[s] = "release" /\ To(s, "idle")
    /\ createLock' = Nobody /\ hourOld' = hourOld \ {"lock"}
    /\ UNCHANGED <<heartbeat, fdFile, waits, overran, raced, syncs>>

\* An hour passes: for a process inside, or for what a dead one left.
HourPasses ==
    /\ hourOld' = (IF createLock = Nobody THEN {} ELSE {"lock"})
                   \cup (IF heartbeat = Nobody THEN {} ELSE {"heartbeat"})
    /\ hourOld # hourOld' /\ overran' = (overran \/ Holding # {})
    /\ UNCHANGED <<createLock, heartbeat, fdFile, spc, waits, raced, syncs>>

SyncDies(s) ==
    /\ spc[s] # "idle" /\ To(s, "idle")
    /\ UNCHANGED <<held, waits, overran, raced, syncs>>

SyncStep(s) ==
    \/ Creates(s) \/ Stats(s) \/ Reaps(s) \/ WaitsUntilFree(s) \/ ChecksHeartbeat(s) \/ Beats(s) \/ WritesFd(s)
    \/ Synchronizes(s) \/ ClearsHeartbeat(s) \/ UnlinksFd(s) \/ Releases(s)
SyncNext ==
    \/ \E s \in Syncs : StartSync(s) \/ SyncStep(s) \/ SyncDies(s)
    \/ HourPasses

SyncTypeOK ==
    /\ {createLock, heartbeat, fdFile} \subseteq Syncs \cup {Nobody}
    /\ hourOld \subseteq {"lock", "heartbeat"}
    /\ {overran, raced} \subseteq BOOLEAN
    /\ waits \in [Syncs -> BOOLEAN]

\* Two syncs of one wiki write the library together only if one of them has
\* been at it for more than an hour, or two found the lock file of the same dead
\* sync and one unlinked the file the other had just made ("cannot both succeed",
\* sync_helper.py, leaves that out), whoever dies or waits in between.
OneSyncInside == ~overran /\ ~raced => \A s, other \in Inside : s = other

\* A release takes nobody else's heartbeat or lock away: but for those two cases
\* the process a live heartbeat names holds the lock file.
HeartbeatHoldsLock ==
    LiveHeartbeat /\ ~overran /\ ~raced => createLock = heartbeat

\* A sync that waits for another one ends, even if the other hangs for ever:
\* the heartbeat goes stale after an hour (sync --wait).
WaitingEnds == \A s \in Syncs : spc[s] = "wait" ~> spc[s] # "wait"
=============================================================================
