-------------------------- MODULE UserRequestsProofs --------------------------
(* Theorems about what users and agents ask LIES for, for any number of          *)
(* processes, daemons, questions and collections.                                 *)
EXTENDS UserRequests, Sequences, FiniteSetTheorems, SequenceTheorems, TLAPS

-------------------------------------------------------------------------------
(* The daemon *)

PCs == {"idle", "create", "stat", "reap", "recreate", "up", "spawn", "wait", "write", "down", "term", "grace", "kill"}

\* Until a lock file has been taken from somebody at work: whoever is at work made
\* it, `up` has found no record, and `down` signals whom the record names.
RecordInv ==
    /\ dpc \in [Callers -> PCs] /\ child \in [Callers -> Pids \cup {NoPid}]
    /\ record \in Pids \cup {NoPid} /\ stolen \in BOOLEAN
    /\ ~stolen => \A c \in Callers :
          /\ c \in AtWork => daemonLock = c
          /\ dpc[c] \in {"spawn", "wait", "write"} => record = NoPid
          /\ dpc[c] \in {"term", "grace", "kill"} => child[c] = record

\* The step of TrackedUntilGone.
DaemonKept ==
    ~stolen' /\ record # NoPid /\ record' # record =>
        proc[record] \notin {"starting", "serving", "stopping", "killed"}


LEMMA RecordStarts == McpInit => RecordInv
BY McpAssumption DEF McpInit, RecordInv, PCs, AtWork, Contending

LEMMA RecordKeeps == ASSUME RecordInv, [McpNext]_daemonVars PROVE RecordInv'
<1> USE McpAssumption
<1> USE DEF RecordInv, PCs, AtWork, Contending, Step, Return, kept
<1>0. ASSUME NEW c \in Callers, Starts(c) \/ Stats(c) PROVE RecordInv'
  BY <1>0 DEF Starts, Stats, elsewhere
<1>1. ASSUME NEW c \in Callers, Creates(c) \/ Reaps(c) PROVE RecordInv'
  <2>1. CASE Creates(c) /\ daemonLock # NoPid
    BY <1>1, <2>1 DEF Creates, elsewhere
  <2>2. CASE Creates(c) /\ daemonLock = NoPid
    \* Whoever were at work would have made a file.
    <3>1. ~stolen => \A d \in Callers : d \notin AtWork
      BY <2>2
    <3>2. PICK verb \in {"up", "down"} : dpc' = [dpc EXCEPT ![c] = verb]
      BY <2>2 DEF Creates
    <3>3. daemonLock' = c /\ UNCHANGED <<stolen, child, record>>
      BY <2>2 DEF Creates, elsewhere
    <3>4. QED
      BY <3>1, <3>2, <3>3
  <2>3. CASE Reaps(c)
    <3>1. /\ dpc' = [dpc EXCEPT ![c] = "recreate"] /\ UNCHANGED <<child, record>>
          /\ stolen' = (stolen \/ daemonLock \in AtWork)
      BY <2>3 DEF Reaps, elsewhere
    <3>2. ~stolen' => ~stolen /\ \A d \in Callers : d \notin AtWork
      BY <3>1
    <3>3. stolen' \in BOOLEAN
      BY <3>1
    <3>4. QED
      BY <3>1, <3>2, <3>3
  <2>4. QED
    BY <1>1, <2>1, <2>2, <2>3
<1>2. ASSUME NEW c \in Callers, UpReads(c) PROVE RecordInv'
  BY <1>2 DEF UpReads
<1>3. ASSUME NEW c \in Callers, UpSpawns(c) PROVE RecordInv'
  BY <1>3 DEF UpSpawns, Unreaped
<1>4. ASSUME NEW c \in Callers, UpWaits(c) PROVE RecordInv'
  BY <1>4 DEF UpWaits, GivesUp
<1>5. ASSUME NEW c \in Callers, UpWrites(c) PROVE RecordInv'
  BY <1>5 DEF UpWrites
<1>6. ASSUME NEW c \in Callers, DownReads(c) PROVE RecordInv'
  BY <1>6 DEF DownReads
<1>7. ASSUME NEW c \in Callers, DownTerms(c) PROVE RecordInv'
  BY <1>7 DEF DownTerms, Signalled
<1>8. ASSUME NEW c \in Callers, DownWaits(c) PROVE RecordInv'
  BY <1>8 DEF DownWaits, Signalled
<1>9. ASSUME NEW c \in Callers, DownEnds(c) PROVE RecordInv'
  BY <1>9 DEF DownEnds
<1>10. ASSUME NEW c \in Callers, CallerDies(c) \/ Interrupted(c) PROVE RecordInv'
  BY <1>10 DEF CallerDies, Interrupted
<1>11. ASSUME NEW p \in Pids, Binds(p) \/ Exits(p) \/ PidReused(p) PROVE RecordInv'
  BY <1>11 DEF Binds, Exits, PidReused
<1>12. CASE Stranger
  BY <1>12 DEF Stranger
<1>13. CASE UNCHANGED daemonVars
  BY <1>13 DEF daemonVars
<1>14. QED
  BY <1>0, <1>1, <1>2, <1>3, <1>4, <1>5, <1>6, <1>7, <1>8, <1>9, <1>10, <1>11, <1>12, <1>13
  DEF McpNext, CommandStep

LEMMA RecordIsKept == ASSUME RecordInv, McpNext PROVE DaemonKept
<1> USE McpAssumption
<1> USE DEF DaemonKept
<1> USE DEF RecordInv, PCs, AtWork, Contending, Step, Return, kept
<1>1. ASSUME NEW c \in Callers, UpReads(c) PROVE DaemonKept
  BY <1>1 DEF UpReads, Stale
<1>2. ASSUME NEW c \in Callers, UpWrites(c) PROVE DaemonKept
  BY <1>2 DEF UpWrites
<1>3. ASSUME NEW c \in Callers, DownReads(c) PROVE DaemonKept
  BY <1>3 DEF DownReads, Stale
<1>4. ASSUME NEW c \in Callers, DownTerms(c) PROVE DaemonKept
  BY <1>4 DEF DownTerms, Signalled
<1>5. ASSUME NEW c \in Callers, DownWaits(c) \/ DownEnds(c) PROVE DaemonKept
  BY <1>5 DEF DownWaits, DownEnds, Signalled
<1>6. ASSUME NEW c \in Callers,
             \/ Starts(c) \/ Creates(c) \/ Stats(c) \/ Reaps(c)
             \/ UpSpawns(c) \/ UpWaits(c) \/ CallerDies(c) \/ Interrupted(c)
      PROVE DaemonKept
  BY <1>6 DEF Starts, Creates, Stats, Reaps, UpSpawns, UpWaits, CallerDies, Interrupted, elsewhere
<1>7. ASSUME Stranger \/ \E p \in Pids : Binds(p) \/ Exits(p) \/ PidReused(p) PROVE DaemonKept
  BY <1>7 DEF Stranger, Binds, Exits, PidReused
<1>8. QED
  BY <1>1, <1>2, <1>3, <1>4, <1>5, <1>6, <1>7 DEF McpNext, CommandStep

\* Who listens is a daemon that runs, or a stranger that came; a command at work
\* with a daemon has its pid.
Working == {"wait", "write", "term", "grace", "kill"}
PortInv ==
    /\ RecordInv /\ McpTypeOK /\ strangers \in Nat
    /\ port \in Pids \cup {NoPid, "stranger"}
    /\ port \in Pids => proc[port] \in {"serving", "stopping", "killed"} /\ port \in served
    /\ port = "stranger" => strangers > 0
    /\ \A c \in Callers : dpc[c] \in Working => child[c] \in Pids

\* Without a stranger or an abandoned child, who is about to be recorded has listened.
Written == strangers = 0 /\ abandoned = {} /\ ~stolen => \A c \in Callers : dpc[c] = "write" => child[c] \in served

DaemonInv == PortInv /\ NoneUntracked /\ RecordServed /\ Written

LEMMA DaemonStarts == McpInit => DaemonInv
<1> SUFFICES ASSUME McpInit PROVE DaemonInv
  OBVIOUS
<1>1. PortInv
  BY RecordStarts, McpAssumption, RequestsAssumption
     DEF McpInit, PortInv, McpTypeOK, Working
<1>2. NoneUntracked /\ RecordServed /\ Written
  BY DEF McpInit, NoneUntracked, RecordServed, Written, Living
<1>3. QED
  BY <1>1, <1>2 DEF DaemonInv

LEMMA PortKeeps == ASSUME PortInv, [McpNext]_daemonVars PROVE PortInv'
<1>r. RecordInv'
  BY RecordKeeps DEF PortInv
<1> USE McpAssumption, RequestsAssumption DEF PortInv, McpTypeOK, Step, Return, kept, Living, Working
<1>n. RecordInv => child \in [Callers -> Pids \cup {NoPid}] /\ record \in Pids \cup {NoPid} /\ dpc \in [Callers -> PCs]
  BY DEF RecordInv
<1>0. ASSUME NEW c \in Callers, Starts(c) \/ Stats(c) \/ Reaps(c) PROVE PortInv'
  BY <1>r, <1>n, <1>0 DEF Starts, Stats, Reaps, elsewhere
<1>1. ASSUME NEW c \in Callers, Creates(c) PROVE PortInv'
  BY <1>r, <1>n, <1>1 DEF Creates, elsewhere
<1>2. ASSUME NEW c \in Callers, UpReads(c) PROVE PortInv'
  BY <1>r, <1>n, <1>2 DEF UpReads
<1>3. ASSUME NEW c \in Callers, UpSpawns(c) PROVE PortInv'
  BY <1>r, <1>n, <1>3 DEF UpSpawns, Unreaped
<1>4. ASSUME NEW c \in Callers, UpWaits(c) PROVE PortInv'
  BY <1>r, <1>n, <1>4 DEF UpWaits, GivesUp
<1>5. ASSUME NEW c \in Callers, UpWrites(c) PROVE PortInv'
  BY <1>r, <1>n, <1>5 DEF UpWrites
<1>6. ASSUME NEW c \in Callers, DownReads(c) PROVE PortInv'
  BY <1>r, <1>n, <1>6 DEF DownReads
<1>7. ASSUME NEW c \in Callers, DownTerms(c) PROVE PortInv'
  BY <1>r, <1>n, <1>7 DEF DownTerms, Signalled
<1>8. ASSUME NEW c \in Callers, DownWaits(c) PROVE PortInv'
  BY <1>r, <1>n, <1>8 DEF DownWaits, Signalled
<1>9. ASSUME NEW c \in Callers, DownEnds(c) PROVE PortInv'
  BY <1>r, <1>n, <1>9 DEF DownEnds
<1>10. ASSUME NEW c \in Callers, CallerDies(c) \/ Interrupted(c) PROVE PortInv'
  BY <1>r, <1>n, <1>10 DEF CallerDies, Interrupted, Leaves, AtWork, Contending
<1>11. ASSUME NEW p \in Pids, Binds(p) PROVE PortInv'
  <2>1. CASE port = NoPid
    <3>1. /\ port' = p /\ proc' = [proc EXCEPT ![p] = "serving"] /\ served' = served \cup {p}
          /\ UNCHANGED <<record, kept, dpc, abandoned, calls, strangers>>
      BY <1>11, <2>1 DEF Binds
    <3>2. McpTypeOK' /\ port' # "stranger" /\ p \in Living'
      BY <1>11, <3>1
    <3>3. QED
      BY <1>r, <1>n, <3>1, <3>2
  <2>2. CASE port # NoPid
    BY <1>r, <1>n, <1>11, <2>2 DEF Binds
  <2>3. QED
    BY <2>1, <2>2
<1>12. ASSUME NEW p \in Pids, Exits(p) PROVE PortInv'
  BY <1>r, <1>n, <1>12 DEF Exits
<1>13. ASSUME NEW p \in Pids, PidReused(p) PROVE PortInv'
  BY <1>r, <1>n, <1>13 DEF PidReused
<1>14. CASE Stranger
  BY <1>r, <1>n, <1>14 DEF Stranger
<1>15. CASE UNCHANGED daemonVars
  BY <1>r, <1>n, <1>15 DEF daemonVars
<1>16. QED
  BY <1>0, <1>1, <1>2, <1>3, <1>4, <1>5, <1>6, <1>7, <1>8, <1>9, <1>10, <1>11, <1>12, <1>13, <1>14, <1>15
  DEF McpNext, CommandStep

LEMMA TrackingKeeps == ASSUME DaemonInv, [McpNext]_daemonVars PROVE (NoneUntracked /\ RecordServed /\ Written)'
<1>p. PortInv' /\ PortInv
  BY PortKeeps DEF DaemonInv
<1> USE McpAssumption, RequestsAssumption
    DEF DaemonInv, PortInv, RecordInv, McpTypeOK, Step, Return, kept, Living, Working, NoneUntracked, RecordServed, Written
<1>0. ASSUME NEW c \in Callers, Starts(c) \/ Stats(c) \/ Reaps(c) PROVE (NoneUntracked /\ RecordServed /\ Written)'
  BY <1>p, <1>0 DEF Starts, Stats, Reaps, elsewhere
<1>1. ASSUME NEW c \in Callers, Creates(c) PROVE (NoneUntracked /\ RecordServed /\ Written)'
  BY <1>p, <1>1 DEF Creates, elsewhere
<1>2. ASSUME NEW c \in Callers, UpReads(c) PROVE (NoneUntracked /\ RecordServed /\ Written)'
  BY <1>p, <1>2 DEF UpReads, Stale
<1>3. ASSUME NEW c \in Callers, UpSpawns(c) PROVE (NoneUntracked /\ RecordServed /\ Written)'
  <2>1. CASE Return(c) /\ UNCHANGED <<proc, served, abandoned, port, record, calls, strangers>>
    BY <1>p, <1>3, <2>1 DEF UpSpawns
  <2>2. ASSUME NEW p \in Pids, proc' = [proc EXCEPT ![p] = "starting"], child' = [child EXCEPT ![c] = p],
               served' = served \ {p}, abandoned' = abandoned \ {p},
               dpc' = [dpc EXCEPT ![c] = "wait"], UNCHANGED <<daemonLock, stolen, port, record, strangers>>
        PROVE (NoneUntracked /\ RecordServed /\ Written)'
    <3>1. dpc[c] = "spawn" /\ dpc \in [Callers -> PCs] /\ child \in [Callers -> Pids \cup {NoPid}]
      BY <1>p, <1>3 DEF UpSpawns
    <3>2. ~stolen => record = NoPid /\ \A d \in Callers : d # c => dpc[d] \notin {"wait", "write"}
      BY <1>p, <3>1, McpAssumption DEF AtWork, Contending
    <3>3. NoneUntracked'
      <4>1. ASSUME ~stolen, NEW q \in Living', q \notin abandoned'
            PROVE q = record \/ \E d \in Callers : dpc'[d] \in {"wait", "write"} /\ child'[d] = q
        <5>1. CASE q = p
          BY <2>2, <3>1, <5>1
        <5>2. CASE q # p
          <6>1. q \in Living \ abandoned
            BY <1>p, <2>2, <4>1, <5>2
          <6>2. QED
            BY <1>p, <3>1, <3>2, <4>1, <6>1
        <5>3. QED
          BY <5>1, <5>2
      <4>2. QED
        BY <2>2, <4>1
    <3>4. RecordServed'
      BY <2>2, <3>2
    <3>5. Written'
      BY <2>2, <3>1, <3>2
    <3>6. QED
      BY <3>3, <3>4, <3>5
  <2>3. QED
    BY <1>3, <2>1, <2>2 DEF UpSpawns
<1>4. ASSUME NEW c \in Callers, UpWaits(c) PROVE (NoneUntracked /\ RecordServed /\ Written)'
  <2>1. /\ dpc[c] = "wait" /\ child[c] \in Pids /\ dpc \in [Callers -> PCs]
        /\ child \in [Callers -> Pids \cup {NoPid}] /\ UNCHANGED <<record, served, strangers>>
    BY <1>p, <1>4 DEF UpWaits
  <2>2. ~stolen => record = NoPid /\ \A d \in Callers : d # c => dpc[d] \notin {"wait", "write"}
    BY <1>p, <2>1, McpAssumption DEF AtWork, Contending
  <2>3. CASE Return(c) /\ proc[child[c]] = "gone" /\ UNCHANGED <<proc, port, abandoned>>
    BY <1>p, <2>1, <2>2, <2>3
  <2>4. CASE GivesUp(c)
    <3>1. /\ dpc' = [dpc EXCEPT ![c] = "idle"] /\ child' = [child EXCEPT ![c] = NoPid] /\ UNCHANGED stolen
          /\ \/ proc' = [proc EXCEPT ![child[c]] = "gone"] /\ UNCHANGED abandoned
             \/ proc' = [proc EXCEPT ![child[c]] = "killed"] /\ abandoned' = abandoned \cup {child[c]}
      BY <2>4 DEF GivesUp
    <3>2. ASSUME ~stolen, NEW q \in Living', q \notin abandoned' PROVE FALSE
      <4>1. q \in Living /\ q \notin abandoned /\ q # child[c]
        BY <1>p, <2>1, <3>1, <3>2
      <4>2. QED
        BY <1>p, <2>1, <2>2, <3>2, <4>1
    <3>3. NoneUntracked'
      BY <3>1, <3>2
    <3>4. RecordServed' /\ Written'
      BY <2>1, <2>2, <3>1
    <3>5. QED
      BY <3>3, <3>4
  <2>5. CASE /\ proc[child[c]] # "gone" /\ port # NoPid
             /\ Step(c, "write") /\ UNCHANGED <<proc, port, abandoned, kept>>
    <3>1. NoneUntracked' /\ RecordServed'
      BY <1>p, <2>1, <2>5
    <3>2. ASSUME strangers = 0, abandoned = {}, ~stolen PROVE child[c] \in served
      BY <1>p, <2>1, <2>2, <2>5, <3>2
    <3>3. Written'
      BY <2>1, <2>2, <2>5, <3>2
    <3>4. QED
      BY <3>1, <3>3
  <2>6. QED
    BY <1>4, <2>3, <2>4, <2>5 DEF UpWaits
<1>5. ASSUME NEW c \in Callers, UpWrites(c) PROVE (NoneUntracked /\ RecordServed /\ Written)'
  BY <1>p, <1>5 DEF UpWrites
<1>6. ASSUME NEW c \in Callers, DownReads(c) PROVE (NoneUntracked /\ RecordServed /\ Written)'
  BY <1>p, <1>6 DEF DownReads, Stale
<1>7. ASSUME NEW c \in Callers, DownTerms(c) PROVE (NoneUntracked /\ RecordServed /\ Written)'
  BY <1>p, <1>7 DEF DownTerms, Signalled
<1>8. ASSUME NEW c \in Callers, DownWaits(c) PROVE (NoneUntracked /\ RecordServed /\ Written)'
  BY <1>p, <1>8 DEF DownWaits, Signalled
<1>9. ASSUME NEW c \in Callers, DownEnds(c) PROVE (NoneUntracked /\ RecordServed /\ Written)'
  BY <1>p, <1>9 DEF DownEnds
<1>10. ASSUME NEW c \in Callers, CallerDies(c) \/ Interrupted(c) PROVE (NoneUntracked /\ RecordServed /\ Written)'
  BY <1>p, <1>10 DEF CallerDies, Interrupted, Leaves, AtWork, Contending
<1>11. ASSUME NEW p \in Pids, Binds(p) PROVE (NoneUntracked /\ RecordServed /\ Written)'
  BY <1>p, <1>11 DEF Binds
<1>12. ASSUME NEW p \in Pids, Exits(p) \/ PidReused(p) PROVE (NoneUntracked /\ RecordServed /\ Written)'
  BY <1>p, <1>12 DEF Exits, PidReused
<1>14. CASE Stranger
  BY <1>p, <1>14 DEF Stranger
<1>15. CASE UNCHANGED daemonVars
  BY <1>p, <1>15 DEF daemonVars
<1>16. QED
  BY <1>0, <1>1, <1>2, <1>3, <1>4, <1>5, <1>6, <1>7, <1>8, <1>9, <1>10, <1>11, <1>12, <1>14, <1>15
  DEF McpNext, CommandStep

-------------------------------------------------------------------------------
(* The sync lock *)

SyncPCs == {"idle", "acquire", "stat", "reap", "recreate", "wait", "retry", "check", "beat",
            "fd", "sync", "clear", "unlink", "release"}

\* Until a sync has been at it for an hour, or a young file has been taken for an
\* orphan's, whoever holds the lock made its file, which is young; the heartbeat
\* names a sync that has beaten or is dead.
SyncInv ==
    /\ S!SyncTypeOK /\ spc \in [Syncs -> SyncPCs]
    /\ heartbeat \in Syncs => spc[heartbeat] \in {"idle", "fd", "sync", "clear"}
    /\ createLock = Nobody => "lock" \notin hourOld
    /\ ~overran /\ ~raced => \A s \in S!Holding : createLock = s /\ "lock" \notin hourOld

LEMMA SyncStarts == S!SyncInit => SyncInv
BY RequestsAssumption DEF S!SyncInit, SyncInv, S!SyncTypeOK, SyncPCs, S!Holding, S!Outside

LEMMA SyncKeeps == ASSUME SyncInv, [S!SyncNext]_syncing PROVE SyncInv'
<1> USE RequestsAssumption DEF SyncInv, S!SyncTypeOK, SyncPCs, S!Holding, S!Outside, S!To, S!ExitsBusy, S!held
<1>1. ASSUME NEW s \in Syncs, S!StartSync(s) PROVE SyncInv'
  BY <1>1 DEF S!StartSync
<1>2. ASSUME NEW s \in Syncs, S!Creates(s) \/ S!Stats(s) PROVE SyncInv'
  <2>1. /\ UNCHANGED <<heartbeat, fdFile, overran, raced, syncs, hourOld>> /\ spc[s] \in S!Outside \ {"idle"}
        /\ waits' \in [Syncs -> BOOLEAN]
        /\ \/ createLock = Nobody /\ createLock' = s /\ spc' = [spc EXCEPT ![s] = "check"]
           \/ /\ UNCHANGED createLock
              /\ \E to \in {"stat", "reap", "wait", "idle"} : spc' = [spc EXCEPT ![s] = to]
    BY <1>2 DEF S!Creates, S!Stats, S!Contended, S!others
  <2>2. S!SyncTypeOK' /\ spc' \in [Syncs -> SyncPCs]
    <3>1. createLock' \in Syncs \cup {Nobody} /\ (createLock' = Nobody => "lock" \notin hourOld')
      BY <2>1
    <3>2. spc' \in [Syncs -> SyncPCs]
      BY <2>1
    <3>3. QED
      BY <2>1, <3>1, <3>2
  <2>3. heartbeat \in Syncs => spc'[heartbeat] = spc[heartbeat]
    BY <2>1
  <2>4. ASSUME ~overran', ~raced', NEW t \in S!Holding' PROVE createLock' = t /\ "lock" \notin hourOld'
    <3>1. CASE UNCHANGED createLock
      BY <2>1, <2>4, <3>1
    <3>2. CASE createLock = Nobody /\ createLock' = s /\ spc' = [spc EXCEPT ![s] = "check"]
      BY <2>1, <2>4, <3>2
    <3>3. QED
      BY <2>1, <3>1, <3>2
  <2>5. QED
    BY <2>1, <2>2, <2>3, <2>4
<1>14. ASSUME NEW s \in Syncs, S!Reaps(s) PROVE SyncInv'
  BY <1>14 DEF S!Reaps, S!others
<1>3. ASSUME NEW s \in Syncs, S!WaitsUntilFree(s) PROVE SyncInv'
  BY <1>3 DEF S!WaitsUntilFree
<1>4. ASSUME NEW s \in Syncs, S!ChecksHeartbeat(s) PROVE SyncInv'
  <2>1. /\ UNCHANGED <<heartbeat, fdFile, waits, overran, raced, syncs>> /\ spc[s] = "check" /\ heartbeat # s
        /\ \/ createLock' = Nobody /\ hourOld' = hourOld \ {"lock"} /\ spc' = [spc EXCEPT ![s] = "idle"]
           \/ UNCHANGED <<createLock, hourOld>> /\ spc' = [spc EXCEPT ![s] = "beat"]
    BY <1>4 DEF S!ChecksHeartbeat
  <2>2. S!SyncTypeOK' /\ spc' \in [Syncs -> SyncPCs]
    BY <2>1
  <2>3. heartbeat \in Syncs => spc'[heartbeat] = spc[heartbeat]
    BY <2>1
  <2>4. ASSUME ~overran', ~raced', NEW t \in S!Holding' PROVE createLock' = t /\ "lock" \notin hourOld'
    BY <2>1, <2>4
  <2>5. QED
    BY <2>1, <2>2, <2>3, <2>4
<1>5. ASSUME NEW s \in Syncs, S!Beats(s) \/ S!WritesFd(s) PROVE SyncInv'
  BY <1>5 DEF S!Beats, S!WritesFd
<1>6. ASSUME NEW s \in Syncs, S!Synchronizes(s) PROVE SyncInv'
  BY <1>6 DEF S!Synchronizes
<1>7. ASSUME NEW s \in Syncs, S!ClearsHeartbeat(s) PROVE SyncInv'
  BY <1>7 DEF S!ClearsHeartbeat
<1>8. ASSUME NEW s \in Syncs, S!UnlinksFd(s) PROVE SyncInv'
  BY <1>8 DEF S!UnlinksFd
<1>9. ASSUME NEW s \in Syncs, S!Releases(s) PROVE SyncInv'
  BY <1>9 DEF S!Releases
<1>10. ASSUME NEW s \in Syncs, S!SyncDies(s) PROVE SyncInv'
  BY <1>10 DEF S!SyncDies
<1>11. CASE S!HourPasses
  BY <1>11 DEF S!HourPasses
<1>12. CASE UNCHANGED syncing
  BY <1>12 DEF syncing
<1>13. QED
  BY <1>1, <1>2, <1>3, <1>4, <1>5, <1>6, <1>7, <1>8, <1>9, <1>10, <1>11, <1>12, <1>14 DEF S!SyncNext, S!SyncStep

LEMMA SyncIsExclusive == SyncInv => SyncExclusive
<1> SUFFICES ASSUME SyncInv PROVE SyncExclusive
  OBVIOUS
<1> USE RequestsAssumption DEF SyncInv, SyncPCs, S!Holding, S!Outside
<1>1. S!OneSyncInside
  BY DEF S!OneSyncInside, S!Inside
<1>2. S!HeartbeatHoldsLock
  BY DEF S!HeartbeatHoldsLock, S!LiveHeartbeat, S!StaleHeartbeat, S!Dead, S!SyncTypeOK
<1>3. QED
  BY <1>1, <1>2 DEF SyncExclusive

-------------------------------------------------------------------------------
(* Questions to the library: what holds of one of them *)

Librarians == {"librarian", "validate", "query"}
Grounding == {"ground", "groundValidate", "groundQuery"}
Excluded == {{}} \union {{c} : c \in Collections}
FilterRecords == [include : SUBSET Collections, exclude : Excluded]

Stages == {"idle", "done", "bundle", "digest"} \union Librarians \union Grounding
Diags == [transient : BOOLEAN, reasons : SUBSET L!Reasons, attested : SUBSET L!Pages]
Bundles == [excerpts : SUBSET L!Pages, empty : BOOLEAN, transient : BOOLEAN,
            reasons : SUBSET L!Reasons, scope : SUBSET Collections, noLibrary : BOOLEAN]
Answers == [kind : L!AnswerKinds, evidence : SUBSET L!Pages, claims : SUBSET L!Pages, reasons : SUBSET L!Reasons]

\* Each variable of the requests is a function, of values of its type.
AskTypes ==
    /\ registry \subseteq Collections /\ indexed \subseteq Collections /\ changes \in 0 .. MaxChanges
    /\ tool \in [Requests -> {"none", "ask", "query", "synthesize"}]
    /\ stage \in [Requests -> Stages]
    /\ filter \in [Requests -> {Unscoped} \union FilterRecords]
    /\ scope \in [Requests -> SUBSET Collections]
    /\ searches \in [Requests -> 0 .. MaxSearches]
    /\ diag \in [Requests -> Diags]
    /\ shown \in [Requests -> SUBSET L!Pages] /\ failed \in [Requests -> BOOLEAN]
    /\ bundle \in [Requests -> Bundles] /\ answer \in [Requests -> Answers]

\* A question to the librarian, whose record knows of every failure and of every
\* page; one of a grounded digest, whose scope is its filter's; the bundle of
\* either rests on what was shown.
Asked(r) ==
    /\ stage[r] \in Librarians \union {"bundle"} => tool[r] \in {"ask", "query"}
    /\ stage[r] \in Grounding \union {"digest"} => tool[r] = "synthesize"
    /\ stage[r] # "done" => answer[r].kind = "none" /\ answer[r].evidence = {} /\ answer[r].claims = {}
    /\ stage[r] \notin {"bundle", "digest", "done"} => bundle[r] = L!NoBundle
Recorded(r) ==
    /\ diag[r].attested \subseteq shown[r]
    /\ bundle[r].excerpts \subseteq shown[r]
    /\ answer[r].evidence \subseteq shown[r]
    /\ tool[r] = "query" => answer[r].claims \subseteq shown[r]
Honest(r) ==
    /\ stage[r] \in Librarians /\ failed[r] => diag[r].transient
    /\ stage[r] \in Grounding \union {"idle"} => ~failed[r]
    /\ stage[r] \in {"bundle", "digest"} /\ failed[r] => bundle[r].transient \/ bundle[r].excerpts # {}
    /\ answer[r].kind = "miss" => ~failed[r]
Scoped(r) ==
    /\ stage[r] = "groundQuery" => scope[r] # {}
    /\ tool[r] = "synthesize" /\ bundle[r].empty => bundle[r].scope # {} \/ bundle[r].noLibrary
    /\ tool[r] = "synthesize" /\ filter[r] # Unscoped =>
          /\ bundle[r].excerpts \subseteq filter[r].include \ filter[r].exclude
          /\ stage[r] \in Grounding \ {"ground"} => scope[r] \subseteq filter[r].include \ filter[r].exclude

AskInv == AskTypes /\ \A r \in Requests : Asked(r) /\ Recorded(r) /\ Honest(r) /\ Scoped(r)

AskHolds(r) == Asked(r) /\ Recorded(r) /\ Honest(r) /\ Scoped(r)
AskLocals(r) == <<tool[r], stage[r], filter[r], scope[r], diag[r], shown[r], failed[r], bundle[r], answer[r]>>

\* What one question does is seen by no other.
LEMMA OneAsks ==
    ASSUME AskInv, NEW r \in Requests, AskTypes', AskHolds(r)',
           \A q \in Requests : q # r => AskLocals(q)' = AskLocals(q)
    PROVE  AskInv'
<1>1. ASSUME NEW q \in Requests, q # r PROVE AskHolds(q)'
  <2>1. /\ tool'[q] = tool[q] /\ stage'[q] = stage[q] /\ filter'[q] = filter[q] /\ scope'[q] = scope[q]
        /\ diag'[q] = diag[q] /\ shown'[q] = shown[q] /\ failed'[q] = failed[q] /\ bundle'[q] = bundle[q]
        /\ answer'[q] = answer[q]
    BY <1>1 DEF AskLocals
  <2>2. AskHolds(q)
    BY DEF AskInv, AskHolds
  <2>3. QED
    BY <2>1, <2>2 DEF AskHolds, Asked, Recorded, Honest, Scoped
<1>2. QED
  BY <1>1 DEF AskInv, AskHolds

LEMMA FilterIs ==
    ASSUME NEW f \in FilterRecords PROVE f # Unscoped /\ f.include \subseteq Collections /\ f.exclude \subseteq Collections
BY RequestsAssumption DEF FilterRecords, Excluded

LEMMA AskStarts == L!AskInit => AskInv
<1> SUFFICES ASSUME L!AskInit PROVE AskInv
  OBVIOUS
<1> USE DEF L!AskInit
<1>1. L!NoFilter \in FilterRecords /\ L!NoDiag \in Diags
  BY DEF L!NoFilter, FilterRecords, Excluded, L!NoDiag, Diags
<1>2. L!NoBundle \in Bundles /\ L!NoAnswer \in Answers
  BY DEF L!NoBundle, L!NoAnswer, L!AnswerKinds, Bundles, Answers
<1>3. AskTypes
  <2>1. changes \in 0 .. MaxChanges /\ searches \in [Requests -> 0 .. MaxSearches]
    BY RequestsAssumption
  <2>2. QED
    BY <1>1, <1>2, <2>1 DEF AskTypes, Stages
<1>4. ASSUME NEW r \in Requests PROVE Asked(r) /\ Recorded(r) /\ Honest(r) /\ Scoped(r)
  BY DEF Asked, Recorded, Honest, Scoped, L!NoDiag, L!NoBundle, L!NoAnswer, Librarians, Grounding
<1>5. QED
  BY <1>3, <1>4 DEF AskInv

\* A tool's envelope is recorded: its failure and its pages.
LEMMA RecordsStep ==
    ASSUME AskInv, NEW r \in Requests, stage[r] \in Librarians,
           NEW e \in [hits : SUBSET L!Pages, transient : BOOLEAN, reasons : SUBSET L!Reasons],
           L!Records(r, e), UNCHANGED <<registry, indexed, tool, filter, scope, bundle, answer, changes>>,
           searches' \in [Requests -> 0 .. MaxSearches]
    PROVE  AskInv'
<1>t. /\ diag[r].transient \in BOOLEAN /\ diag[r].reasons \subseteq L!Reasons /\ diag[r].attested \subseteq L!Pages
      /\ shown[r] \subseteq L!Pages /\ failed[r] \in BOOLEAN /\ DOMAIN diag = Requests /\ DOMAIN shown = Requests
      /\ DOMAIN failed = Requests /\ DOMAIN stage = Requests
  BY DEF AskInv, AskTypes, Diags
<1> DEFINE d == [transient |-> diag[r].transient \/ e.transient,
                 reasons |-> IF e.reasons = {} THEN diag[r].reasons ELSE e.reasons,
                 attested |-> diag[r].attested \union e.hits]
<1>1. /\ diag' = [diag EXCEPT ![r] = d] /\ shown' = [shown EXCEPT ![r] = shown[r] \union e.hits]
      /\ failed' = [failed EXCEPT ![r] = failed[r] \/ e.transient] /\ stage' = [stage EXCEPT ![r] = "librarian"]
  BY DEF L!Records, L!Goto
<1>2. /\ d \in Diags
      /\ d.transient = (diag[r].transient \/ e.transient) /\ d.attested = diag[r].attested \union e.hits
  BY <1>t DEF Diags
<1> HIDE DEF d
<1>3. AskTypes'
  <2>1. diag' \in [Requests -> Diags]
    BY <1>1, <1>2 DEF AskInv, AskTypes
  <2>2. shown' \in [Requests -> SUBSET L!Pages] /\ failed' \in [Requests -> BOOLEAN]
    BY <1>1, <1>t DEF AskInv, AskTypes
  <2>3. stage' \in [Requests -> Stages]
    BY <1>1 DEF AskInv, AskTypes, Librarians, Stages
  <2>4. QED
    BY <2>1, <2>2, <2>3 DEF AskInv, AskTypes
<1>4. /\ stage'[r] = "librarian" /\ diag'[r] = d /\ shown'[r] = shown[r] \union e.hits
      /\ failed'[r] = (failed[r] \/ e.transient)
  BY <1>1, <1>t
<1>5. \A q \in Requests : q # r => AskLocals(q)' = AskLocals(q)
  BY <1>1, <1>t DEF AskLocals
<1>6. AskHolds(r)'
  <2>1. AskHolds(r)
    BY DEF AskInv, AskHolds
  <2>2. QED
    BY <1>2, <1>4, <2>1, <1>t DEF AskHolds, Asked, Recorded, Honest, Scoped, Librarians, Grounding
<1>7. QED
  BY <1>3, <1>5, <1>6, OneAsks

\* The search under way gets its filter and its scope.
LEMMA ScopesStep == ASSUME AskInv, NEW r \in Requests, L!SearchScopes(r) PROVE AskInv'
<1>s. searches' \in [Requests -> 0 .. MaxSearches]
  <2>1. searches[r] \in 0 .. MaxSearches /\ searches[r] < MaxSearches /\ searches' = [searches EXCEPT ![r] = searches[r] + 1]
    BY DEF L!SearchScopes, AskInv, AskTypes
  <2>2. searches[r] + 1 \in 0 .. MaxSearches
    BY <2>1, RequestsAssumption
  <2>3. QED
    BY <2>1, <2>2 DEF AskInv, AskTypes
<1>1. CASE L!Records(r, L!Refused) /\ UNCHANGED <<filter, scope>>
  <2>1. L!Refused \in [hits : SUBSET L!Pages, transient : BOOLEAN, reasons : SUBSET L!Reasons]
    BY DEF L!Refused, L!Envelope, L!Reasons
  <2>2. stage[r] \in Librarians /\ UNCHANGED <<registry, indexed, tool, bundle, answer, changes>>
    BY DEF L!SearchScopes, Librarians
  <2>3. QED
    BY <1>s, <1>1, <2>1, <2>2, RecordsStep
<1>2. ASSUME NEW f \in {Unscoped} \union FilterRecords,
             filter' = [filter EXCEPT ![r] = f], scope' = [scope EXCEPT ![r] = L!SearchScope(f)],
             L!Goto(r, "validate"), UNCHANGED <<diag, shown, failed>>
      PROVE  AskInv'
  <2>1. stage[r] = "librarian" /\ UNCHANGED <<registry, indexed, tool, bundle, answer, changes>>
    BY DEF L!SearchScopes
  <2>2. L!SearchScope(f) \subseteq Collections
    BY DEF L!SearchScope, AskInv, AskTypes
  <2>3. AskTypes'
    <3>1. filter' \in [Requests -> {Unscoped} \union FilterRecords] /\ scope' \in [Requests -> SUBSET Collections]
      BY <1>2, <2>2 DEF AskInv, AskTypes
    <3>2. stage' \in [Requests -> Stages]
      BY <1>2 DEF AskInv, AskTypes, L!Goto, Librarians, Stages
    <3>3. QED
      BY <1>s, <1>2, <2>1, <3>1, <3>2 DEF AskInv, AskTypes
  <2>4. stage'[r] = "validate" /\ (\A q \in Requests : q # r => AskLocals(q)' = AskLocals(q))
    BY <1>2, <2>1 DEF AskLocals, L!Goto, AskInv, AskTypes
  <2>5. AskHolds(r)'
    <3>1. AskHolds(r)
      BY DEF AskInv, AskHolds
    <3>2. QED
      BY <1>2, <2>1, <2>4, <3>1 DEF AskHolds, Asked, Recorded, Honest, Scoped, Librarians, Grounding
  <2>6. QED
    BY <2>3, <2>4, <2>5, OneAsks
<1>3. [include : SUBSET Collections, exclude : {{}}] \subseteq FilterRecords
  BY DEF FilterRecords, Excluded
<1>4. QED
  BY <1>1, <1>2, <1>3 DEF L!SearchScopes

LEMMA ValidatesStep == ASSUME AskInv, NEW r \in Requests, L!SearchValidates(r) \/ L!SearchQueries(r) PROVE AskInv'
<1>1. /\ stage[r] \in Librarians /\ UNCHANGED <<registry, indexed, tool, filter, scope, searches, bundle, answer, changes>>
      /\ searches' \in [Requests -> 0 .. MaxSearches]
  BY DEF L!SearchValidates, L!SearchQueries, Librarians, AskInv, AskTypes
<1> DEFINE Envelopes == [hits : SUBSET L!Pages, transient : BOOLEAN, reasons : SUBSET L!Reasons]
<1>2. L!Refused \in Envelopes /\ L!Unfinished \in Envelopes
  BY DEF L!Refused, L!Unfinished, L!Envelope, L!Reasons
<1>3. L!Envelope(L!DaemonRows(scope[r]), FALSE, {}) \in Envelopes
  <2>1. L!DaemonRows(scope[r]) \subseteq L!Pages
    BY DEF L!DaemonRows, L!Pages, AskInv, AskTypes
  <2>2. QED
    BY <2>1 DEF L!Envelope
<1>4. CASE \E e \in Envelopes : L!Records(r, e)
  BY <1>1, <1>4, RecordsStep
<1>5. CASE L!Goto(r, "query") /\ UNCHANGED <<diag, shown, failed>>
  <2>1. AskTypes'
    BY <1>1, <1>5 DEF AskInv, AskTypes, L!Goto, Librarians, Stages
  <2>2. stage'[r] = "query" /\ (\A q \in Requests : q # r => AskLocals(q)' = AskLocals(q))
    BY <1>1, <1>5 DEF AskLocals, L!Goto, AskInv, AskTypes
  <2>3. AskHolds(r)'
    <3>1. AskHolds(r)
      BY DEF AskInv, AskHolds
    <3>2. QED
      BY <1>1, <1>5, <2>2, <3>1 DEF AskHolds, Asked, Recorded, Honest, Scoped, Librarians, Grounding
  <2>4. QED
    BY <2>1, <2>2, <2>3, OneAsks
<1> HIDE DEF Envelopes
<1>6. QED
  BY <1>2, <1>3, <1>4, <1>5 DEF L!SearchValidates, L!SearchQueries

LEMMA ReadsStep == ASSUME AskInv, NEW r \in Requests, L!LibrarianReads(r) PROVE AskInv'
<1>1. PICK bodies \in SUBSET L!Pages :
        /\ stage[r] = "librarian" /\ diag' = [diag EXCEPT ![r].attested = @ \union bodies]
        /\ shown' = [shown EXCEPT ![r] = @ \union bodies]
        /\ UNCHANGED <<registry, indexed, tool, stage, filter, scope, searches, failed, bundle, answer, changes>>
  BY DEF L!LibrarianReads
<1>2. /\ diag'[r].attested = diag[r].attested \union bodies /\ diag'[r].transient = diag[r].transient
      /\ diag' \in [Requests -> Diags]
  BY <1>1 DEF AskInv, AskTypes, Diags
<1>3. shown'[r] = shown[r] \union bodies /\ shown' \in [Requests -> SUBSET L!Pages]
  BY <1>1 DEF AskInv, AskTypes
<1>4. AskTypes'
  BY <1>1, <1>2, <1>3 DEF AskInv, AskTypes
<1>5. \A q \in Requests : q # r => AskLocals(q)' = AskLocals(q)
  BY <1>1 DEF AskLocals, AskInv, AskTypes
<1>6. AskHolds(r)'
  <2>1. AskHolds(r)
    BY DEF AskInv, AskHolds
  <2>2. QED
    BY <1>1, <1>2, <1>3, <2>1 DEF AskHolds, Asked, Recorded, Honest, Scoped
<1>7. QED
  BY <1>4, <1>5, <1>6, OneAsks

\* A bundle keeps only what was attested, and one without excerpts is transient
\* when a search was.
LEMMA DiagnosedIs ==
    ASSUME NEW out \in Bundles, NEW d \in Diags
    PROVE  LET b == L!WithSearchDiagnostics(out, d) IN
           /\ b \in Bundles /\ b.excerpts \subseteq d.attested
           /\ d.transient \/ (out.transient /\ out.excerpts = {}) => b.transient \/ b.excerpts # {}
<1> DEFINE b == L!WithSearchDiagnostics(out, d)
           genuine == out.excerpts \intersect d.attested
<1> USE DEF Bundles, Diags
<1>u. "unattested" \in L!Reasons
  BY DEF L!Reasons
<1>1. CASE out.excerpts = {}
  <2>1. b = [out EXCEPT !.reasons = IF d.reasons = {} THEN @ ELSE d.reasons,
                        !.transient = @ \/ d.transient, !.empty = @ /\ ~d.transient]
    BY <1>1 DEF L!WithSearchDiagnostics
  <2> HIDE DEF b
  <2>2. b.excerpts = {} /\ b.transient = (out.transient \/ d.transient) /\ b \in Bundles
    BY <1>1, <2>1
  <2>3. QED
    BY <2>2 DEF b
<1>2. CASE out.excerpts # {} /\ genuine = out.excerpts
  <2>1. b = out
    BY <1>2 DEF L!WithSearchDiagnostics
  <2> HIDE DEF b
  <2>2. b \in Bundles /\ b.excerpts \subseteq d.attested /\ b.excerpts # {}
    BY <1>2, <2>1
  <2>3. QED
    BY <2>2 DEF b
<1>3. CASE out.excerpts # {} /\ genuine # out.excerpts /\ genuine = {}
  <2>1. b = [out EXCEPT !.excerpts = {}, !.transient = TRUE, !.empty = FALSE, !.reasons = {"unattested"} \union d.reasons]
    BY <1>3 DEF L!WithSearchDiagnostics
  <2> HIDE DEF b
  <2>2. b.excerpts = {} /\ b.transient /\ b \in Bundles
    BY <1>u, <2>1
  <2>3. QED
    BY <2>2 DEF b
<1>4. CASE out.excerpts # {} /\ genuine # out.excerpts /\ genuine # {}
  <2>1. b = [out EXCEPT !.excerpts = genuine, !.reasons = {"unattested"} \union d.reasons]
    BY <1>4 DEF L!WithSearchDiagnostics
  <2> HIDE DEF b
  <2>2. b.excerpts = genuine /\ b \in Bundles
    BY <1>u, <2>1
  <2>3. QED
    BY <1>4, <2>2 DEF b
<1>5. QED
  BY <1>1, <1>2, <1>3, <1>4

\* A librarian's dispatch ends with a bundle its record has been held against.
LEMMA BundlesStep ==
    ASSUME AskInv, NEW r \in Requests, stage[r] \in Librarians, NEW out \in Bundles, failed' \in [Requests -> BOOLEAN],
           bundle' = [bundle EXCEPT ![r] = L!WithSearchDiagnostics(out, diag[r])], L!Goto(r, "bundle"),
           \A q \in Requests : q # r => failed'[q] = failed[q],
           failed'[r] => failed[r] \/ (out.transient /\ out.excerpts = {}),
           tool[r] = "synthesize" => FALSE,
           UNCHANGED <<registry, indexed, tool, filter, scope, searches, diag, shown, answer, changes>>
    PROVE  AskInv'
<1> DEFINE b == L!WithSearchDiagnostics(out, diag[r])
<1>1. diag[r] \in Diags
  BY DEF AskInv, AskTypes
<1>2. /\ b \in Bundles /\ b.excerpts \subseteq diag[r].attested
      /\ diag[r].transient \/ (out.transient /\ out.excerpts = {}) => b.transient \/ b.excerpts # {}
  BY <1>1, DiagnosedIs
<1>3. bundle' = [bundle EXCEPT ![r] = b] /\ stage' = [stage EXCEPT ![r] = "bundle"]
  BY DEF L!Goto
<1> HIDE DEF b
<1>4. bundle'[r] = b /\ stage'[r] = "bundle" /\ bundle' \in [Requests -> Bundles] /\ stage' \in [Requests -> Stages]
  BY <1>2, <1>3 DEF AskInv, AskTypes, Stages
<1>5. AskTypes'
  BY <1>4 DEF AskInv, AskTypes
<1>6. \A q \in Requests : q # r => AskLocals(q)' = AskLocals(q)
  BY <1>3 DEF AskLocals, AskInv, AskTypes
<1>7. AskHolds(r)'
  <2>1. AskHolds(r)
    BY DEF AskInv, AskHolds
  <2>2. failed'[r] => b.transient \/ b.excerpts # {}
    BY <1>2, <2>1 DEF AskHolds, Honest
  <2>3. QED
    BY <1>2, <1>4, <2>1, <2>2 DEF AskHolds, Asked, Recorded, Honest, Scoped, Librarians, Grounding
<1>8. QED
  BY <1>5, <1>6, <1>7, OneAsks

LEMMA ReturnsStep == ASSUME AskInv, NEW r \in Requests, L!LibrarianReturns(r) PROVE AskInv'
<1>1. PICK excerpts \in SUBSET L!Pages, empty \in BOOLEAN, transient \in BOOLEAN :
        bundle' = [bundle EXCEPT ![r] = L!WithSearchDiagnostics(
          [L!NoBundle EXCEPT !.excerpts = excerpts, !.empty = empty,
                             !.transient = transient, !.reasons = {"model"}], diag[r])]
  BY DEF L!LibrarianReturns
<1>2. [L!NoBundle EXCEPT !.excerpts = excerpts, !.empty = empty,
                         !.transient = transient, !.reasons = {"model"}] \in Bundles
  BY DEF L!NoBundle, Bundles, L!Reasons
<1>3. /\ stage[r] = "librarian" /\ L!Goto(r, "bundle")
      /\ UNCHANGED <<registry, indexed, tool, filter, scope, searches, diag, shown, failed, answer, changes>>
  BY DEF L!LibrarianReturns
<1>4. stage[r] \in Librarians /\ tool[r] # "synthesize"
  BY <1>3 DEF AskInv, Asked, Librarians
<1>5. failed' \in [Requests -> BOOLEAN]
  BY <1>3 DEF AskInv, AskTypes
<1>6. QED
  BY <1>1, <1>2, <1>3, <1>4, <1>5, BundlesStep

LEMMA FailsStep == ASSUME AskInv, NEW r \in Requests, L!DispatchFails(r) PROVE AskInv'
<1> DEFINE out == [L!NoBundle EXCEPT !.transient = TRUE, !.reasons = {"model"}]
<1>1. out \in Bundles /\ out.transient /\ out.excerpts = {}
  BY DEF L!NoBundle, Bundles, L!Reasons
<1>2. /\ stage[r] \in Librarians /\ failed' = [failed EXCEPT ![r] = TRUE]
      /\ UNCHANGED <<registry, indexed, tool, filter, scope, searches, diag, shown, changes>>
  BY DEF L!DispatchFails, Librarians
<1>3. failed' \in [Requests -> BOOLEAN] /\ \A q \in Requests : q # r => failed'[q] = failed[q]
  BY <1>2 DEF AskInv, AskTypes
<1>4. CASE bundle' = [bundle EXCEPT ![r] = L!WithSearchDiagnostics(out, diag[r])] /\ L!Goto(r, "bundle") /\ UNCHANGED answer
           /\ tool[r] = "ask"
  <2> HIDE DEF out
  <2>1. QED
    BY <1>1, <1>2, <1>3, <1>4, BundlesStep
<1>5. CASE L!Raises(r) /\ UNCHANGED bundle
  <2>1. AskInv /\ L!Raises(r) /\ stage[r] \notin {"done"} /\ UNCHANGED <<bundle, tool, diag, shown, filter>>
    BY <1>2, <1>5 DEF Librarians
  <2>2. answer' = [answer EXCEPT ![r] = L!Answer("error", {}, {}, {})] /\ stage' = [stage EXCEPT ![r] = "done"]
    BY <1>5 DEF L!Raises, L!Goto
  <2>3. L!Answer("error", {}, {}, {}) \in Answers
    BY DEF L!Answer, Answers, L!AnswerKinds
  <2>4. AskTypes'
    BY <1>2, <1>3, <1>5, <2>2, <2>3 DEF AskInv, AskTypes, Stages
  <2>5. /\ answer'[r].kind = "error" /\ answer'[r].evidence = {} /\ answer'[r].claims = {} /\ stage'[r] = "done"
        /\ \A q \in Requests : q # r => AskLocals(q)' = AskLocals(q)
    BY <1>2, <1>3, <1>5, <2>2 DEF L!Answer, AskInv, AskTypes, AskLocals
  <2>6. AskHolds(r)
    BY DEF AskInv, AskHolds
  <2>7. AskHolds(r)'
    BY <1>2, <1>5, <2>5, <2>6 DEF AskHolds, Asked, Recorded, Honest, Scoped, Librarians, Grounding
  <2>8. QED
    BY <2>4, <2>5, <2>7, OneAsks
<1>6. QED
  BY <1>4, <1>5 DEF L!DispatchFails

\* The caller is told.
LEMMA ToldStep ==
    ASSUME AskInv, NEW r \in Requests, NEW a \in Answers, answer' = [answer EXCEPT ![r] = a], L!Goto(r, "done"),
           a.evidence \subseteq shown[r], tool[r] = "query" => a.claims \subseteq shown[r],
           a.kind = "miss" => ~failed[r],
           UNCHANGED <<registry, indexed, tool, filter, scope, searches, diag, shown, failed, bundle, changes>>
    PROVE  AskInv'
<1>1. stage' = [stage EXCEPT ![r] = "done"]
  BY DEF L!Goto
<1>2. /\ answer'[r] = a /\ stage'[r] = "done"
      /\ answer' \in [Requests -> Answers] /\ stage' \in [Requests -> Stages]
  BY <1>1 DEF AskInv, AskTypes, Stages
<1>3. AskTypes'
  BY <1>2 DEF AskInv, AskTypes
<1>4. \A q \in Requests : q # r => AskLocals(q)' = AskLocals(q)
  BY <1>1 DEF AskLocals, AskInv, AskTypes
<1>5. AskHolds(r)'
  <2>1. AskHolds(r)
    BY DEF AskInv, AskHolds
  <2>2. QED
    BY <1>2, <2>1 DEF AskHolds, Asked, Recorded, Honest, Scoped, Librarians, Grounding
<1>6. QED
  BY <1>3, <1>4, <1>5, OneAsks

LEMMA AnswerIs ==
    ASSUME NEW kind \in L!AnswerKinds, NEW evidence \in SUBSET L!Pages, NEW claims \in SUBSET L!Pages,
           NEW reasons \in SUBSET L!Reasons
    PROVE  LET a == L!Answer(kind, evidence, claims, reasons) IN
           a \in Answers /\ a.kind = kind /\ a.evidence = evidence /\ a.claims = claims
BY DEF L!Answer, Answers

LEMMA TellsStep ==
    ASSUME AskInv, NEW r \in Requests, stage[r] \in {"bundle", "digest"}, L!Goto(r, "done"),
           UNCHANGED <<registry, indexed, tool, filter, scope, searches, diag, shown, failed, bundle, changes>>,
           NEW kind \in L!AnswerKinds, NEW evidence \in {{}, bundle[r].excerpts},
           NEW claims \in SUBSET L!Pages, tool[r] = "query" => claims \subseteq bundle[r].excerpts,
           NEW reasons \in SUBSET L!Reasons,
           answer' = [answer EXCEPT ![r] = L!Answer(kind, evidence, claims, reasons)],
           kind = "miss" => ~bundle[r].transient /\ bundle[r].excerpts = {}
    PROVE  AskInv'
<1>1. /\ bundle[r].excerpts \subseteq L!Pages /\ bundle[r].excerpts \subseteq shown[r]
      /\ failed[r] => bundle[r].transient \/ bundle[r].excerpts # {}
  BY DEF AskInv, AskTypes, Bundles, Recorded, Honest
<1>2. /\ evidence \in SUBSET L!Pages /\ claims \in SUBSET L!Pages
      /\ evidence \subseteq shown[r] /\ (tool[r] = "query" => claims \subseteq shown[r])
      /\ (kind = "miss" => ~failed[r])
  BY <1>1
<1> DEFINE a == L!Answer(kind, evidence, claims, reasons)
<1>3. a \in Answers /\ a.kind = kind /\ a.evidence = evidence /\ a.claims = claims
  BY <1>2, AnswerIs
<1>4. answer' = [answer EXCEPT ![r] = a]
  OBVIOUS
<1> HIDE DEF a
<1>5. QED
  BY <1>2, <1>3, <1>4, ToldStep

LEMMA AnswersStep ==
    ASSUME AskInv, NEW r \in Requests, L!AskAnswers(r) \/ L!QueryAnswers(r) \/ L!Synthesizes(r)
    PROVE  AskInv'
<1>1. /\ stage[r] \in {"bundle", "digest"} /\ L!Goto(r, "done")
      /\ UNCHANGED <<registry, indexed, tool, filter, scope, searches, diag, shown, failed, bundle, changes>>
  BY DEF L!AskAnswers, L!QueryAnswers, L!Synthesizes
<1>2. bundle[r].reasons \in SUBSET L!Reasons /\ {} \in SUBSET L!Reasons
  BY DEF AskInv, AskTypes, Bundles
<1>3. {"answered", "inconclusive", "miss", "unsynthesized", "error"} \subseteq L!AnswerKinds
  BY DEF L!AnswerKinds
<1>11. bundle[r].excerpts \in SUBSET L!Pages
  BY DEF AskInv, AskTypes, Bundles
<1>4. ASSUME NEW kind \in {"answered", "unsynthesized"}, NEW claims \in SUBSET L!Pages,
             tool[r] = "query" => claims \subseteq bundle[r].excerpts,
             NEW reasons \in {{}, bundle[r].reasons},
             answer' = [answer EXCEPT ![r] = L!Answer(kind, bundle[r].excerpts, claims, reasons)]
      PROVE  AskInv'
  <2>1. kind # "miss" /\ kind \in L!AnswerKinds /\ reasons \in SUBSET L!Reasons
    BY <1>2, <1>3
  <2>2. QED
    BY <1>1, <1>4, <2>1, TellsStep
<1>5. ASSUME NEW kind \in {"inconclusive", "error"}, NEW reasons \in {{}, bundle[r].reasons},
             answer' = [answer EXCEPT ![r] = L!Answer(kind, {}, {}, reasons)]
      PROVE  AskInv'
  <2>1. kind # "miss" /\ kind \in L!AnswerKinds /\ reasons \in SUBSET L!Reasons
    BY <1>2, <1>3
  <2>2. QED
    BY <1>1, <1>5, <2>1, TellsStep
<1>6. ASSUME ~bundle[r].transient, bundle[r].excerpts = {}, NEW reasons \in {{}, bundle[r].reasons},
             answer' = [answer EXCEPT ![r] = L!Answer("miss", {}, {}, reasons)]
      PROVE  AskInv'
  <2>1. "miss" \in L!AnswerKinds /\ reasons \in SUBSET L!Reasons
    BY <1>2, <1>3
  <2>2. QED
    BY <1>1, <1>6, <2>1, TellsStep
<1>7. CASE L!AskAnswers(r)
  BY <1>4, <1>5, <1>6, <1>7 DEF L!AskAnswers
<1>8. CASE L!QueryAnswers(r)
  BY <1>4, <1>8, <1>11 DEF L!QueryAnswers, L!ValidClaims
<1>9. CASE L!Synthesizes(r)
  BY <1>4, <1>5, <1>6, <1>9 DEF L!Synthesizes
<1>10. QED
  BY <1>7, <1>8, <1>9

\* A grounded digest that is given up for now.
LEMMA GivesUpStep ==
    ASSUME AskInv, NEW r \in Requests, NEW reasons \in SUBSET L!Reasons, stage[r] \in Grounding,
           filter' \in [Requests -> {Unscoped} \union FilterRecords],
           scope' \in [Requests -> SUBSET Collections], L!Inconclusive(r, reasons),
           \A q \in Requests : q # r => filter'[q] = filter[q] /\ scope'[q] = scope[q],
           UNCHANGED <<registry, indexed, tool, searches, diag, shown, answer, changes>>
    PROVE  AskInv'
<1> DEFINE b == [L!NoBundle EXCEPT !.transient = TRUE, !.reasons = reasons, !.scope = scope'[r]]
<1>1. b \in Bundles /\ b.transient /\ b.excerpts = {} /\ ~b.empty
  BY DEF L!NoBundle, Bundles
<1>2. /\ bundle' = [bundle EXCEPT ![r] = b] /\ failed' = [failed EXCEPT ![r] = TRUE]
      /\ stage' = [stage EXCEPT ![r] = "digest"]
  BY DEF L!Inconclusive, L!Goto
<1> HIDE DEF b
<1>3. /\ bundle'[r] = b /\ stage'[r] = "digest" /\ bundle' \in [Requests -> Bundles] /\ stage' \in [Requests -> Stages]
      /\ failed' \in [Requests -> BOOLEAN]
  BY <1>1, <1>2 DEF AskInv, AskTypes, Stages
<1>4. AskTypes'
  BY <1>3 DEF AskInv, AskTypes
<1>5. \A q \in Requests : q # r => AskLocals(q)' = AskLocals(q)
  BY <1>2 DEF AskLocals, AskInv, AskTypes
<1>6. AskHolds(r)'
  <2>1. AskHolds(r)
    BY DEF AskInv, AskHolds
  <2>2. tool[r] = "synthesize"
    BY <2>1 DEF AskHolds, Asked
  <2>3. QED
    BY <1>1, <1>3, <2>1, <2>2 DEF AskHolds, Asked, Recorded, Honest, Scoped, Librarians, Grounding
<1>7. QED
  BY <1>4, <1>5, <1>6, OneAsks

\* A collection that a filter selects is one it includes and does not exclude.
LEMMA MatchingIs ==
    ASSUME AskInv, NEW f \in {Unscoped} \union FilterRecords
    PROVE  /\ L!CollectionsMatching(f) \subseteq Collections
           /\ f # Unscoped => L!CollectionsMatching(f) \subseteq f.include \ f.exclude
BY DEF L!CollectionsMatching, AskInv, AskTypes

LEMMA GroundScopesStep == ASSUME AskInv, NEW r \in Requests, L!GroundScopes(r) PROVE AskInv'
<1>1. PICK f \in {Unscoped} \union FilterRecords :
        /\ filter' = [filter EXCEPT ![r] = f] /\ scope' = [scope EXCEPT ![r] = L!CollectionsMatching(f)]
        /\ \/ /\ bundle' = [bundle EXCEPT ![r] = [L!NoBundle EXCEPT !.empty = TRUE, !.noLibrary = TRUE]]
              /\ L!Goto(r, "digest") /\ UNCHANGED failed
           \/ L!Inconclusive(r, {})
           \/ L!CollectionsMatching(f) # {} /\ L!Goto(r, "groundValidate") /\ UNCHANGED <<bundle, failed>>
  <2>1. L!Filters = {Unscoped} \union FilterRecords
    BY DEF L!Filters, FilterRecords, Excluded
  <2>2. QED
    BY <2>1 DEF L!GroundScopes
<1>2. /\ stage[r] = "ground" /\ stage[r] \in Grounding
      /\ UNCHANGED <<registry, indexed, tool, searches, diag, shown, answer, changes>>
  BY DEF L!GroundScopes, Grounding
<1>3. /\ L!CollectionsMatching(f) \subseteq Collections
      /\ f # Unscoped => L!CollectionsMatching(f) \subseteq f.include \ f.exclude
  BY MatchingIs
<1>4. /\ filter' \in [Requests -> {Unscoped} \union FilterRecords] /\ scope' \in [Requests -> SUBSET Collections]
      /\ filter'[r] = f /\ scope'[r] = L!CollectionsMatching(f)
      /\ \A q \in Requests : q # r => filter'[q] = filter[q] /\ scope'[q] = scope[q]
  BY <1>1, <1>3 DEF AskInv, AskTypes
<1>a. AskHolds(r)
  BY DEF AskInv, AskHolds
<1>b. tool[r] = "synthesize" /\ ~failed[r] /\ bundle[r] = L!NoBundle
  BY <1>2, <1>a DEF AskHolds, Asked, Honest, Grounding
<1>5. CASE /\ bundle' = [bundle EXCEPT ![r] = [L!NoBundle EXCEPT !.empty = TRUE, !.noLibrary = TRUE]]
           /\ L!Goto(r, "digest") /\ UNCHANGED failed
  <2> DEFINE b == [L!NoBundle EXCEPT !.empty = TRUE, !.noLibrary = TRUE]
  <2>1. b \in Bundles /\ b.excerpts = {} /\ b.noLibrary
    BY DEF L!NoBundle, Bundles
  <2>2. bundle' = [bundle EXCEPT ![r] = b] /\ stage' = [stage EXCEPT ![r] = "digest"]
    BY <1>5 DEF L!Goto
  <2> HIDE DEF b
  <2>3. bundle'[r] = b /\ stage'[r] = "digest" /\ bundle' \in [Requests -> Bundles] /\ stage' \in [Requests -> Stages]
    BY <2>1, <2>2 DEF AskInv, AskTypes, Stages
  <2>4. AskTypes'
    BY <1>2, <1>4, <1>5, <2>3 DEF AskInv, AskTypes
  <2>5. \A q \in Requests : q # r => AskLocals(q)' = AskLocals(q)
    BY <1>2, <1>4, <1>5, <2>2 DEF AskLocals, AskInv, AskTypes
  <2>6. AskHolds(r)'
    BY <1>2, <1>5, <1>a, <1>b, <2>1, <2>3 DEF AskHolds, Asked, Recorded, Honest, Scoped, Librarians, Grounding
  <2>7. QED
    BY <2>4, <2>5, <2>6, OneAsks
<1>6. CASE L!Inconclusive(r, {})
  BY <1>2, <1>4, <1>6, GivesUpStep
<1>7. CASE L!CollectionsMatching(f) # {} /\ L!Goto(r, "groundValidate") /\ UNCHANGED <<bundle, failed>>
  <2>1. stage'[r] = "groundValidate" /\ stage' \in [Requests -> Stages]
    BY <1>7 DEF L!Goto, AskInv, AskTypes, Stages, Grounding
  <2>2. AskTypes'
    BY <1>2, <1>4, <1>7, <2>1 DEF AskInv, AskTypes
  <2>3. \A q \in Requests : q # r => AskLocals(q)' = AskLocals(q)
    BY <1>2, <1>4, <1>7 DEF AskLocals, AskInv, AskTypes, L!Goto
  <2>4. L!NoBundle.excerpts = {} /\ ~L!NoBundle.empty
    BY DEF L!NoBundle
  <2>5. AskHolds(r)'
    BY <1>2, <1>3, <1>4, <1>7, <1>a, <1>b, <2>1, <2>4 DEF AskHolds, Asked, Recorded, Honest, Scoped, Librarians, Grounding
  <2>6. QED
    BY <2>2, <2>3, <2>5, OneAsks
<1>8. QED
  BY <1>1, <1>5, <1>6, <1>7

\* The daemon that grounds a digest is down.
LEMMA GroundRaises ==
    ASSUME AskInv, NEW r \in Requests, L!Raises(r),
           UNCHANGED <<registry, indexed, tool, filter, scope, searches, diag, shown, failed, bundle, changes>>
    PROVE  AskInv'
<1> DEFINE a == L!Answer("error", {}, {}, {})
<1>1. a \in Answers /\ a.kind = "error" /\ a.evidence = {} /\ a.claims = {}
  BY DEF L!Answer, Answers, L!AnswerKinds
<1>2. answer' = [answer EXCEPT ![r] = a] /\ L!Goto(r, "done")
  BY DEF L!Raises
<1> HIDE DEF a
<1>3. QED
  BY <1>1, <1>2, ToldStep

LEMMA GroundValidatesStep == ASSUME AskInv, NEW r \in Requests, L!GroundValidates(r) PROVE AskInv'
<1>1. /\ stage[r] = "groundValidate" /\ stage[r] \in Grounding
      /\ UNCHANGED <<registry, indexed, tool, filter, searches, diag, shown, changes>>
  BY DEF L!GroundValidates, Grounding
<1>2. CASE /\ scope' = [scope EXCEPT ![r] = L!ServedPart(@)] /\ bundle' = [bundle EXCEPT ![r] = L!NoBundle]
           /\ L!Goto(r, IF scope'[r] = {} THEN "digest" ELSE "groundQuery") /\ UNCHANGED <<failed, answer>>
  <2>1. /\ scope' = [scope EXCEPT ![r] = scope[r] \intersect indexed]
        /\ stage' = [stage EXCEPT ![r] = IF scope'[r] = {} THEN "digest" ELSE "groundQuery"]
    BY <1>2 DEF L!ServedPart, L!Goto
  <2>2. /\ scope'[r] = scope[r] \intersect indexed /\ scope' \in [Requests -> SUBSET Collections]
        /\ stage'[r] \in {"digest", "groundQuery"} /\ (stage'[r] = "groundQuery" => scope'[r] # {})
        /\ stage' \in [Requests -> Stages]
    BY <2>1 DEF AskInv, AskTypes, Stages, Grounding
  <2>3. L!NoBundle \in Bundles /\ L!NoBundle.excerpts = {} /\ ~L!NoBundle.empty
    BY DEF L!NoBundle, Bundles
  <2>4. bundle'[r] = L!NoBundle /\ bundle' \in [Requests -> Bundles]
    BY <1>2, <2>3 DEF AskInv, AskTypes
  <2>5. AskTypes'
    BY <1>1, <1>2, <2>2, <2>4 DEF AskInv, AskTypes
  <2>6. \A q \in Requests : q # r => AskLocals(q)' = AskLocals(q)
    BY <1>1, <1>2, <2>1 DEF AskLocals, AskInv, AskTypes
  <2>7. AskHolds(r)'
    <3>1. AskHolds(r)
      BY DEF AskInv, AskHolds
    <3>2. ~failed[r] /\ tool[r] = "synthesize"
      BY <1>1, <3>1 DEF AskHolds, Asked, Honest
    <3>3. QED
      BY <1>1, <1>2, <2>2, <2>3, <2>4, <3>1, <3>2 DEF AskHolds, Asked, Recorded, Honest, Scoped, Librarians, Grounding
  <2>8. QED
    BY <2>5, <2>6, <2>7, OneAsks
<1>3. ASSUME UNCHANGED <<scope, answer>>, NEW reasons \in {{}, {"unfinished"}}, L!Inconclusive(r, reasons) PROVE AskInv'
  <2>1. reasons \in SUBSET L!Reasons
    BY DEF L!Reasons
  <2>2. /\ filter' \in [Requests -> {Unscoped} \union FilterRecords] /\ scope' \in [Requests -> SUBSET Collections]
        /\ \A q \in Requests : q # r => filter'[q] = filter[q] /\ scope'[q] = scope[q]
    BY <1>1, <1>3 DEF AskInv, AskTypes
  <2>3. QED
    BY <1>1, <1>3, <2>1, <2>2, GivesUpStep
<1>4. CASE L!Raises(r) /\ UNCHANGED <<scope, bundle, failed>>
  BY <1>1, <1>4, GroundRaises
<1>5. QED
  BY <1>2, <1>3, <1>4 DEF L!GroundValidates

LEMMA GroundQueriesStep == ASSUME AskInv, NEW r \in Requests, L!GroundQueries(r) PROVE AskInv'
<1>1. /\ stage[r] = "groundQuery" /\ stage[r] \in Grounding
      /\ UNCHANGED <<registry, indexed, tool, filter, searches, diag, changes>>
  BY DEF L!GroundQueries, Grounding
<1>2. ASSUME NEW cited \in SUBSET L!DaemonRows(scope[r]),
             bundle' = [bundle EXCEPT ![r] = [L!NoBundle EXCEPT !.excerpts = cited, !.scope = scope[r],
                                                                !.empty = L!DaemonRows(scope[r]) = {}]],
             shown' = [shown EXCEPT ![r] = @ \union L!DaemonRows(scope[r])],
             L!Goto(r, "digest"), UNCHANGED <<scope, failed, answer>>
      PROVE  AskInv'
  <2> DEFINE rows == L!DaemonRows(scope[r])
             b == [L!NoBundle EXCEPT !.excerpts = cited, !.scope = scope[r], !.empty = rows = {}]
  <2>1. rows \subseteq scope[r] /\ scope[r] \subseteq Collections /\ rows \subseteq L!Pages
    BY DEF L!DaemonRows, L!Pages, AskInv, AskTypes
  <2>2. cited \subseteq rows /\ bundle' = [bundle EXCEPT ![r] = b] /\ stage' = [stage EXCEPT ![r] = "digest"]
        /\ shown' = [shown EXCEPT ![r] = @ \union rows]
    BY <1>2 DEF L!Goto
  <2> HIDE DEF rows
  <2>3. b \in Bundles /\ b.excerpts = cited /\ b.scope = scope[r]
    BY <2>1, <2>2 DEF L!NoBundle, Bundles
  <2> HIDE DEF b
  <2>4. /\ bundle'[r] = b /\ stage'[r] = "digest" /\ shown'[r] = shown[r] \union rows
        /\ bundle' \in [Requests -> Bundles] /\ stage' \in [Requests -> Stages]
        /\ shown' \in [Requests -> SUBSET L!Pages]
    BY <2>1, <2>2, <2>3 DEF AskInv, AskTypes, Stages
  <2>5. AskTypes'
    BY <1>1, <1>2, <2>4 DEF AskInv, AskTypes
  <2>6. \A q \in Requests : q # r => AskLocals(q)' = AskLocals(q)
    BY <1>1, <1>2, <2>2 DEF AskLocals, AskInv, AskTypes
  <2>7. AskHolds(r)'
    <3>1. AskHolds(r)
      BY DEF AskInv, AskHolds
    <3>2. ~failed[r] /\ tool[r] = "synthesize" /\ scope[r] # {}
      BY <1>1, <3>1 DEF AskHolds, Asked, Honest, Scoped
    <3>3. Asked(r)' /\ Recorded(r)' /\ Honest(r)'
      BY <1>1, <1>2, <2>2, <2>3, <2>4, <3>1, <3>2 DEF AskHolds, Asked, Recorded, Honest, Librarians, Grounding
    <3>4. filter[r] # Unscoped => cited \subseteq filter[r].include \ filter[r].exclude
      BY <1>1, <2>1, <2>2, <3>1, <3>2 DEF AskHolds, Scoped, Grounding
    <3>5. Scoped(r)'
      BY <1>1, <1>2, <2>3, <2>4, <3>2, <3>4 DEF Scoped, Grounding
    <3>6. QED
      BY <3>3, <3>5 DEF AskHolds
  <2>8. QED
    BY <2>5, <2>6, <2>7, OneAsks
<1>3. ASSUME UNCHANGED <<scope, answer, shown>>, NEW reasons \in {{}, {"unfinished"}}, L!Inconclusive(r, reasons)
      PROVE  AskInv'
  <2>1. reasons \in SUBSET L!Reasons
    BY DEF L!Reasons
  <2>2. /\ filter' \in [Requests -> {Unscoped} \union FilterRecords] /\ scope' \in [Requests -> SUBSET Collections]
        /\ \A q \in Requests : q # r => filter'[q] = filter[q] /\ scope'[q] = scope[q]
    BY <1>1, <1>3 DEF AskInv, AskTypes
  <2>3. QED
    BY <1>1, <1>3, <2>1, <2>2, GivesUpStep
<1>4. CASE L!Raises(r) /\ UNCHANGED <<scope, bundle, failed, shown>>
  BY <1>1, <1>4, GroundRaises
<1>5. QED
  BY <1>2, <1>3, <1>4 DEF L!GroundQueries

LEMMA AsksStep == ASSUME AskInv, NEW r \in Requests, L!Asks(r) PROVE AskInv'
<1>1. PICK t \in {"ask", "query", "synthesize"} :
        /\ stage[r] = "idle" /\ tool' = [tool EXCEPT ![r] = t]
        /\ stage' = [stage EXCEPT ![r] = IF t = "synthesize" THEN "ground" ELSE "librarian"]
        /\ UNCHANGED <<registry, indexed, filter, scope, searches, diag, shown, failed, bundle, answer, changes>>
  BY DEF L!Asks, L!Goto
<1>2. tool'[r] = t /\ stage'[r] = (IF t = "synthesize" THEN "ground" ELSE "librarian")
  BY <1>1 DEF AskInv, AskTypes
<1>3. AskTypes'
  BY <1>1 DEF AskInv, AskTypes, Stages, Grounding, Librarians
<1>4. \A q \in Requests : q # r => AskLocals(q)' = AskLocals(q)
  BY <1>1 DEF AskLocals, AskInv, AskTypes
<1>5. AskHolds(r)'
  <2>1. AskHolds(r)
    BY DEF AskInv, AskHolds
  <2>2. bundle[r] = L!NoBundle /\ ~failed[r] /\ L!NoBundle.excerpts = {} /\ ~L!NoBundle.empty
    BY <1>1, <2>1 DEF AskHolds, Asked, Honest, Librarians, Grounding, L!NoBundle
  <2>3. QED
    BY <1>1, <1>2, <2>1, <2>2 DEF AskHolds, Asked, Recorded, Honest, Scoped, Librarians, Grounding
<1>6. QED
  BY <1>3, <1>4, <1>5, OneAsks

LEMMA AskKeeps == ASSUME AskInv, [L!AskNext]_asking PROVE AskInv'
<1>1. CASE L!CollectionsChange
  <2>1. /\ UNCHANGED <<tool, stage, filter, scope, searches, diag, shown, failed, bundle, answer>>
        /\ registry' \subseteq Collections /\ indexed' \subseteq Collections
        /\ changes < MaxChanges /\ changes' = changes + 1
    BY <1>1 DEF L!CollectionsChange, L!requestVars, AskInv, AskTypes
  <2>2. changes' \in 0 .. MaxChanges
    BY <2>1, RequestsAssumption DEF AskInv, AskTypes
  <2>3. AskTypes'
    BY <2>1, <2>2 DEF AskInv, AskTypes
  <2>4. ASSUME NEW r \in Requests PROVE AskHolds(r)'
    BY <2>1 DEF AskInv, AskHolds, Asked, Recorded, Honest, Scoped
  <2>5. QED
    BY <2>3, <2>4 DEF AskInv, AskHolds
<1>2. ASSUME NEW r \in Requests, L!Asks(r) \/ L!RequestStep(r) PROVE AskInv'
  BY <1>2, ScopesStep, ValidatesStep, ReadsStep, ReturnsStep, FailsStep, AnswersStep, GroundScopesStep,
     GroundValidatesStep, GroundQueriesStep, AsksStep
  DEF L!RequestStep
<1>3. CASE UNCHANGED asking
  BY <1>3 DEF asking, AskInv, AskTypes, Asked, Recorded, Honest, Scoped
<1>4. QED
  BY <1>1, <1>2, <1>3 DEF L!AskNext

\* What the librarian's and the grounded answers promise.
FoundedOnSearches ==
    /\ L!AskTypeOK
    /\ L!NoMissFromFailure /\ L!EvidenceWasReturned /\ L!ClaimsWereReturned
    /\ L!EmptyMeansSearched /\ L!GroundedInScope

LEMMA AnswersAre == AskInv => FoundedOnSearches
<1> SUFFICES ASSUME AskInv PROVE FoundedOnSearches
  OBVIOUS
<1>1. L!AskTypeOK
  <2>1. ASSUME NEW r \in Requests
        PROVE  /\ tool[r] \in {"none", "ask", "query", "synthesize"}
               /\ stage[r] \in {"idle", "librarian", "validate", "query", "bundle", "ground",
                                "groundValidate", "groundQuery", "digest", "done"}
               /\ filter[r] \in L!Filters
               /\ scope[r] \subseteq Collections
               /\ searches[r] \in 0..MaxSearches
               /\ diag[r] \in [transient : BOOLEAN, reasons : SUBSET L!Reasons, attested : SUBSET L!Pages]
               /\ shown[r] \subseteq L!Pages /\ failed[r] \in BOOLEAN
               /\ bundle[r].excerpts \subseteq L!Pages /\ bundle[r].reasons \subseteq L!Reasons
               /\ answer[r].kind \in L!AnswerKinds
               /\ answer[r].reasons \subseteq L!Reasons
    <3>1. bundle[r] \in Bundles /\ answer[r] \in Answers /\ diag[r] \in Diags
      BY DEF AskInv, AskTypes
    <3>2. tool[r] \in {"none", "ask", "query", "synthesize"} /\ stage[r] \in Stages /\ filter[r] \in {Unscoped} \union FilterRecords
      BY DEF AskInv, AskTypes
    <3>3. scope[r] \subseteq Collections /\ searches[r] \in 0..MaxSearches /\ shown[r] \subseteq L!Pages /\ failed[r] \in BOOLEAN
      BY DEF AskInv, AskTypes
    <3>4. QED
      BY <3>1, <3>2, <3>3 DEF Bundles, Answers, Diags, Stages, Librarians, Grounding, L!Filters, FilterRecords, Excluded
  <2>2. QED
    BY <2>1 DEF L!AskTypeOK, AskInv, AskTypes
<1>2. ASSUME NEW r \in Requests PROVE AskHolds(r)
  BY DEF AskInv, AskHolds
<1>3. L!NoMissFromFailure /\ L!EvidenceWasReturned /\ L!ClaimsWereReturned
  BY <1>2 DEF L!NoMissFromFailure, L!EvidenceWasReturned, L!ClaimsWereReturned, AskHolds, Recorded, Honest
<1>4. L!EmptyMeansSearched /\ L!GroundedInScope
  BY <1>2 DEF L!EmptyMeansSearched, L!GroundedInScope, AskHolds, Scoped
<1>5. QED
  BY <1>1, <1>3, <1>4 DEF FoundedOnSearches

-------------------------------------------------------------------------------
(* Places of a sequence.  Whatever is filtered, deduplicated or scanned keeps    *)
(* its order: how far a place is from the first is an injection into numbers.    *)

\* Each place is met once, in order.
LEMMA InOrderEnumerates ==
    ASSUME NEW A \in SUBSET Nat, IsFiniteSet(A)
    PROVE  /\ Cardinality(A) \in Nat
           /\ InOrder(A) \in [1 .. Cardinality(A) -> A]
           /\ \A i \in A : \E k \in 1 .. Cardinality(A) : InOrder(A)[k] = i
           /\ \A j, k \in 1 .. Cardinality(A) : j < k => InOrder(A)[j] < InOrder(A)[k]
<1> DEFINE n == Cardinality(A)
           below(i) == {j \in A : j < i}
           rank == [i \in A |-> Cardinality(below(i))]
<1>1. n \in Nat
  BY FS_CardinalityType
<1>2. ASSUME NEW i \in A PROVE IsFiniteSet(below(i)) /\ rank[i] \in 0 .. (n - 1)
  <2>1. below(i) \in SUBSET A /\ below(i) # A
    OBVIOUS
  <2>2. IsFiniteSet(below(i)) /\ Cardinality(below(i)) <= n /\ Cardinality(below(i)) # n
    BY <2>1, FS_Subset
  <2>3. Cardinality(below(i)) \in Nat
    BY <2>2, FS_CardinalityType
  <2>4. Cardinality(below(i)) \in 0 .. (n - 1)
    <3> HIDE DEF below
    <3>1. QED
      BY <1>1, <2>2, <2>3
  <2>5. QED
    BY <2>2, <2>4
<1>3. ASSUME NEW i \in A, NEW j \in A, i < j PROVE rank[i] < rank[j]
  <2>1. below(i) \in SUBSET below(j) /\ below(i) # below(j)
    <3>1. i \in Nat /\ j \in Nat /\ \A m \in A : m \in Nat
      OBVIOUS
    <3>2. \A m \in A : m < i => m < j
      BY <1>3, <3>1
    <3>3. i \in below(j) /\ i \notin below(i)
      BY <1>3, <3>1
    <3>4. QED
      BY <3>2, <3>3
  <2>2. Cardinality(below(i)) <= Cardinality(below(j)) /\ Cardinality(below(i)) # Cardinality(below(j))
    BY <1>2, <2>1, FS_Subset
  <2>3. rank[i] \in Nat /\ rank[j] \in Nat
    BY <1>2
  <2>4. QED
    BY <2>2, <2>3
<1>4. \A k \in 1 .. n : \E i \in A : rank[i] = k - 1
  <2>1. rank \in Injection(A, 0 .. (n - 1))
    <3>1. rank \in [A -> 0 .. (n - 1)]
      BY <1>2
    <3>2. \A i, j \in A : rank[i] = rank[j] => i = j
      <4> SUFFICES ASSUME NEW i \in A, NEW j \in A, rank[i] = rank[j] PROVE i = j
        OBVIOUS
      <4>1. i < j \/ j < i \/ i = j
        OBVIOUS
      <4>2. rank[i] \in Nat
        BY <1>2
      <4>3. i < j => rank[i] < rank[j]
        BY <1>3
      <4>4. j < i => rank[j] < rank[i]
        BY <1>3
      <4> HIDE DEF rank
      <4>5. QED
        BY <4>1, <4>2, <4>3, <4>4
    <3>3. QED
      BY <3>1, <3>2 DEF Injection, IsInjective
  <2>2. IsFiniteSet(0 .. (n - 1)) /\ Cardinality(0 .. (n - 1)) = n
    <3>1. 0 \in Int /\ n - 1 \in Int /\ (IF 0 > n - 1 THEN 0 ELSE (n - 1) - 0 + 1) = n
      BY <1>1
    <3>2. QED
      BY <3>1, FS_Interval
  <2>3. rank \in Surjection(A, 0 .. (n - 1))
    BY <2>1, <2>2, FS_Injection
  <2>4. \A m \in 0 .. (n - 1) : \E i \in A : rank[i] = m
    BY <2>3 DEF Surjection
  <2>5. \A k \in 1 .. n : k - 1 \in 0 .. (n - 1)
    BY <1>1
  <2>6. QED
    BY <2>4, <2>5
<1>5. \A k \in 1 .. n : InOrder(A)[k] \in A /\ rank[InOrder(A)[k]] = k - 1
  <2> SUFFICES ASSUME NEW k \in 1 .. n PROVE InOrder(A)[k] \in A /\ rank[InOrder(A)[k]] = k - 1
    OBVIOUS
  <2>1. InOrder(A)[k] = CHOOSE i \in A : Cardinality(below(i)) = k - 1
    BY DEF InOrder
  <2>2. \E i \in A : Cardinality(below(i)) = k - 1
    BY <1>4
  <2>3. QED
    BY <2>1, <2>2
<1>6. InOrder(A) \in [1 .. n -> A]
  BY <1>5 DEF InOrder
<1>7. ASSUME NEW i \in A PROVE \E k \in 1 .. n : InOrder(A)[k] = i
  <2>1. rank[i] + 1 \in 1 .. n /\ rank[i] \in 0 .. (n - 1)
    BY <1>1, <1>2
  <2>2. rank[InOrder(A)[rank[i] + 1]] = rank[i] /\ InOrder(A)[rank[i] + 1] \in A
    <3>1. (rank[i] + 1) - 1 = rank[i]
      BY <2>1
    <3> HIDE DEF rank
    <3>2. QED
      BY <1>5, <2>1, <3>1
  <2>3. InOrder(A)[rank[i] + 1] = i
    <3> DEFINE j == InOrder(A)[rank[i] + 1]
    <3>1. j \in A /\ rank[j] = rank[i] /\ rank[i] \in Nat
      BY <2>1, <2>2
    <3> HIDE DEF j
    <3>2. i < j \/ j < i \/ i = j
      BY <3>1
    <3>3. i < j => rank[i] < rank[j]
      BY <1>3, <3>1
    <3>4. j < i => rank[j] < rank[i]
      BY <1>3, <3>1
    <3>5. i = j
      <4> HIDE DEF rank
      <4>1. QED
        BY <3>1, <3>2, <3>3, <3>4
    <3>6. QED
      BY <3>5 DEF j
  <2>4. QED
    BY <2>1, <2>3
<1>8. ASSUME NEW j \in 1 .. n, NEW k \in 1 .. n, j < k PROVE InOrder(A)[j] < InOrder(A)[k]
  <2>1. InOrder(A)[j] \in Nat /\ InOrder(A)[k] \in Nat
    BY <1>6
  <2>2. rank[InOrder(A)[j]] = j - 1 /\ rank[InOrder(A)[k]] = k - 1
    BY <1>5
  <2>3. InOrder(A)[j] \in A /\ InOrder(A)[k] \in A
    BY <1>5
  <2>4. j - 1 < k - 1 /\ j - 1 \in Int /\ k - 1 \in Int
    BY <1>1, <1>8
  <2> HIDE DEF rank
  <2>5. QED
    BY <1>3, <2>1, <2>2, <2>3, <2>4
<1>9. QED
  BY <1>1, <1>6, <1>7, <1>8

\* The elements kept are those at the places, each as often as it is there.
LEMMA ValuesAtKeeps ==
    ASSUME NEW T, NEW s \in Seq(T), NEW places \in SUBSET DOMAIN s
    PROVE  /\ ValuesAt(s, places) \in Seq(T)
           /\ \A k \in DOMAIN ValuesAt(s, places) : \E i \in places : ValuesAt(s, places)[k] = s[i]
           /\ \A i \in places : \E k \in DOMAIN ValuesAt(s, places) : ValuesAt(s, places)[k] = s[i]
           /\ (\A i, j \in places : s[i] = s[j] => i = j)
              => \A j, k \in DOMAIN ValuesAt(s, places) :
                    ValuesAt(s, places)[j] = ValuesAt(s, places)[k] => j = k
<1> DEFINE n == Cardinality(places)
           order == InOrder(places)
<1>1. places \in SUBSET Nat /\ IsFiniteSet(places)
  <2>1. DOMAIN s = 1 .. Len(s) /\ Len(s) \in Nat
    OBVIOUS
  <2>2. IsFiniteSet(1 .. Len(s))
    BY <2>1, FS_Interval
  <2>3. QED
    BY <2>1, <2>2, FS_Subset
<1>2. /\ n \in Nat /\ order \in [1 .. n -> places]
      /\ \A i \in places : \E k \in 1 .. n : order[k] = i
      /\ \A j, k \in 1 .. n : j < k => order[j] < order[k]
  BY <1>1, InOrderEnumerates
<1>3. ValuesAt(s, places) = [k \in 1 .. n |-> s[order[k]]]
  BY DEF ValuesAt
<1>4. DOMAIN ValuesAt(s, places) = 1 .. n
  BY <1>3
<1> HIDE DEF n, order
<1>5. ValuesAt(s, places) \in Seq(T)
  <2>1. \A k \in 1 .. n : s[order[k]] \in T
    BY <1>2
  <2>2. ValuesAt(s, places) \in [1 .. n -> T]
    BY <1>3, <2>1
  <2>3. QED
    BY <1>2, <2>2
<1>6. ASSUME \A i, j \in places : s[i] = s[j] => i = j,
             NEW j \in 1 .. n, NEW k \in 1 .. n, ValuesAt(s, places)[j] = ValuesAt(s, places)[k]
      PROVE  j = k
  <2>1. order[j] = order[k]
    BY <1>2, <1>3, <1>6
  <2>2. ~(j < k) /\ ~(k < j)
    <3>1. order[j] \in Nat
      BY <1>1, <1>2
    <3>2. QED
      BY <1>2, <2>1, <3>1
  <2>3. QED
    BY <1>2, <2>2
<1>7. \A k \in 1 .. n : order[k] \in places /\ ValuesAt(s, places)[k] = s[order[k]]
  BY <1>2, <1>3
<1>8. \A i \in places : \E k \in 1 .. n : ValuesAt(s, places)[k] = s[i]
  BY <1>2, <1>3
<1>9. QED
  BY <1>4, <1>5, <1>6, <1>7, <1>8

\* Places have a first and a last.
LEMMA FirstAndLast ==
    ASSUME NEW A \in SUBSET Nat, IsFiniteSet(A), A # {}
    PROVE  /\ \E m \in A : \A n \in A : m <= n
           /\ \E m \in A : \A n \in A : n <= m
<1> DEFINE c == Cardinality(A)
           order == InOrder(A)
<1>1. /\ c \in Nat /\ order \in [1 .. c -> A]
      /\ \A i \in A : \E k \in 1 .. c : order[k] = i
      /\ \A j, k \in 1 .. c : j < k => order[j] < order[k]
  BY InOrderEnumerates
<1> HIDE DEF c, order
<1>2. 1 \in 1 .. c /\ c \in 1 .. c
  <2>1. PICK i \in A : TRUE
    OBVIOUS
  <2>2. PICK k \in 1 .. c : order[k] = i
    BY <1>1, <2>1
  <2>3. QED
    BY <1>1, <2>2
<1>3. ASSUME NEW k \in 1 .. c PROVE order[1] <= order[k] /\ order[k] <= order[c]
  <2>1. order[1] \in Nat /\ order[k] \in Nat /\ order[c] \in Nat
    BY <1>1, <1>2
  <2>2. (1 < k \/ 1 = k) /\ (k < c \/ k = c)
    BY <1>1
  <2>3. QED
    BY <1>1, <1>2, <2>1, <2>2
<1>4. \A n \in A : order[1] <= n /\ n <= order[c]
  BY <1>1, <1>3
<1>5. QED
  BY <1>1, <1>2, <1>4

-------------------------------------------------------------------------------
(* The extractive answer *)

RetrievalTypes ==
    /\ RetrievalTypeOK
    /\ found \in [Passes -> Seq(PageReads)] /\ failure \in [Passes -> Failures]

\* The hits about to be read passed the filter of their pass, and so did each
\* page of the library: the wiki's pass reads none.
InScope(doc) == wanted = Everything \/ doc \in wanted
HitsPass == step.at = "read" => \A i \in DOMAIN hits : Passing(step.pass, hits[i])
FoundInScope ==
    \A p \in Passes : \A i \in DOMAIN found[p] :
        found[p][i].source = "library" => p = "library" /\ InScope(found[p][i].doc)

\* A pass that is over has pages or says why not, unless it raised.
Over(p) == IF p = "library" THEN step.pass # "library" ELSE step.pass = "both"
PassesTell ==
    note # "raised" => \A p \in Passes :
        IF Over(p) THEN found[p] = <<>> <=> failure[p] # "none"
        ELSE found[p] = <<>> /\ failure[p] = "none"

\* What is returned, and said, is what both passes read, unless the caller got an
\* error for an answer.
Read == found["library"] \o found["wiki"]
Told ==
    /\ step.at \in {"search", "read", "merge"} => pages = <<>> /\ reason = "none" /\ note = "open"
    /\ note = "raised" => step.at = "done" /\ pages = <<>> /\ reason = "none"
    /\ step.at \in {"assemble", "done"} /\ note # "raised" => pages = Deduped(Read) /\ reason = Reason(Read)
    /\ step.at = "done" /\ note # "raised" =>
          note = IF pages = <<>> THEN "no pages" ELSE IF reason = "wikiOnly" THEN "not grounded" ELSE ""

RetrievalInv == RetrievalTypes /\ HitsPass /\ FoundInScope /\ PassesTell /\ Told

\* The first top_n: nothing else, at the places it had.
LEMMA TakeKeeps ==
    ASSUME NEW T, NEW s \in Seq(T)
    PROVE  /\ Take(s) \in Seq(T) /\ Len(Take(s)) <= TopN
           /\ \A i \in DOMAIN Take(s) : i \in DOMAIN s /\ Take(s)[i] = s[i]
<1> DEFINE n == IF Len(s) < TopN THEN Len(s) ELSE TopN
<1>1. n \in 0 .. Len(s) /\ n <= TopN
  BY RetrievalAssumption
<1>2. Take(s) = SubSeq(s, 1, n)
  BY DEF Take
<1> HIDE DEF n
<1>3. SubSeq(s, 1, n) \in Seq(T) /\ Len(SubSeq(s, 1, n)) = n
      /\ \A i \in 1 .. n : SubSeq(s, 1, n)[i] = s[i]
  BY <1>1
<1>4. QED
  BY <1>1, <1>2, <1>3

\* What qmd_query returns of the rows has passed its filter.
LEMMA KeptPasses ==
    ASSUME NEW p, NEW rows \in Seq(Hits)
    PROVE  /\ Kept(p, rows) \in Seq(Hits) /\ Len(Kept(p, rows)) <= TopN
           /\ \A i \in DOMAIN Kept(p, rows) : Passing(p, Kept(p, rows)[i])
<1> DEFINE places == {i \in DOMAIN rows : Passing(p, rows[i])}
           chosen == ValuesAt(rows, places)
<1>1. Kept(p, rows) = Take(chosen)
  BY DEF Kept
<1>2. chosen \in Seq(Hits) /\ \A k \in DOMAIN chosen : \E i \in places : chosen[k] = rows[i]
  BY ValuesAtKeeps
<1>3. \A k \in DOMAIN chosen : Passing(p, chosen[k])
  BY <1>2
<1> HIDE DEF chosen
<1>4. QED
  BY <1>1, <1>2, <1>3, TakeKeeps

\* A page read from the library is the document of a hit of the library.
LEMMA ResolvedFound ==
    ASSUME NEW rows \in Seq(Hits)
    PROVE  /\ Resolved(rows) \in Seq(PageReads)
           /\ \A i \in DOMAIN Resolved(rows) :
                 Resolved(rows)[i].source = "library" =>
                    \E m \in DOMAIN rows : rows[m].root = "library" /\ rows[m].doc = Resolved(rows)[i].doc
<1> DEFINE looked == Looked(rows)
           places == {k \in 1 .. 2 * Len(rows) : Readable(rows, k)}
           chosen == ValuesAt(looked, places)
<1>1. Resolved(rows) = Take(chosen)
  BY DEF Resolved
<1>2. Len(rows) \in Nat /\ \A k \in 1 .. 2 * Len(rows) : (k + 1) \div 2 \in 1 .. Len(rows)
  OBVIOUS
<1>3. \A k \in 1 .. 2 * Len(rows) : rows[(k + 1) \div 2] \in Hits
  BY <1>2
<1>4. \A h \in Hits : h.doc \in Documents
  BY DEF Hits, Passes
<1>5. looked = [k \in 1 .. 2 * Len(rows) |->
                  Page(IF k % 2 = 1 THEN "library" ELSE "wiki", rows[(k + 1) \div 2].doc)]
  BY DEF Looked
<1>6. \A k \in 1 .. 2 * Len(rows) : looked[k] \in PageReads
  BY <1>3, <1>4, <1>5 DEF Page, PageReads, Passes
<1>7. looked \in Seq(PageReads) /\ DOMAIN looked = 1 .. 2 * Len(rows)
  <2>1. looked \in [1 .. 2 * Len(rows) -> PageReads]
    BY <1>5, <1>6
  <2>2. 2 * Len(rows) \in Nat
    BY <1>2
  <2> HIDE DEF looked
  <2>3. QED
    BY <2>1, <2>2
<1>8. ASSUME NEW k \in places, looked[k].source = "library"
      PROVE  \E m \in DOMAIN rows : rows[m].root = "library" /\ rows[m].doc = looked[k].doc
  <2> DEFINE m == (k + 1) \div 2
  <2>1. m \in DOMAIN rows
    BY <1>2
  <2>2. looked[k] = Page(IF k % 2 = 1 THEN "library" ELSE "wiki", rows[m].doc)
    BY <1>5
  <2>3. k % 2 = 1 /\ looked[k].doc = rows[m].doc
    BY <1>8, <2>2 DEF Page
  <2>4. rows[m].root = "library"
    BY <2>3 DEF Readable, InLibrary
  <2>5. QED
    BY <2>1, <2>3, <2>4
<1> HIDE DEF looked
<1>9. chosen \in Seq(PageReads) /\ \A j \in DOMAIN chosen : \E k \in places : chosen[j] = looked[k]
  <2>1. places \in SUBSET DOMAIN looked
    BY <1>7
  <2> HIDE DEF places
  <2>2. QED
    BY <1>7, <2>1, ValuesAtKeeps
<1>10. \A j \in DOMAIN chosen : chosen[j].source = "library" =>
          \E m \in DOMAIN rows : rows[m].root = "library" /\ rows[m].doc = chosen[j].doc
  BY <1>8, <1>9
<1> HIDE DEF chosen
<1>11. QED
  BY <1>1, <1>9, <1>10, TakeKeeps

\* Each page once, and no page lost: its first place is kept.
LEMMA DedupedSame ==
    ASSUME NEW T, NEW s \in Seq(T)
    PROVE  /\ Deduped(s) \in Seq(T)
           /\ \A k \in DOMAIN Deduped(s) : \E i \in DOMAIN s : Deduped(s)[k] = s[i]
           /\ \A i \in DOMAIN s : \E k \in DOMAIN Deduped(s) : Deduped(s)[k] = s[i]
           /\ \A j, k \in DOMAIN Deduped(s) : Deduped(s)[j] = Deduped(s)[k] => j = k
<1> DEFINE places == {i \in DOMAIN s : \A j \in 1 .. (i - 1) : s[j] # s[i]}
<1>1. Deduped(s) = ValuesAt(s, places)
  BY DEF Deduped
<1>2. DOMAIN s = 1 .. Len(s) /\ Len(s) \in Nat /\ places \in SUBSET DOMAIN s
  OBVIOUS
<1>3. \A i, j \in places : s[i] = s[j] => i = j
  <2> SUFFICES ASSUME NEW i \in places, NEW j \in places, s[i] = s[j], i < j PROVE FALSE
    BY <1>2
  <2>1. i \in 1 .. (j - 1)
    BY <1>2
  <2>2. QED
    BY <2>1
<1>4. ASSUME NEW i \in DOMAIN s PROVE \E j \in places : s[j] = s[i]
  <2> DEFINE same == {j \in DOMAIN s : s[j] = s[i]}
  <2>1. same \in SUBSET Nat /\ same \in SUBSET (1 .. Len(s)) /\ i \in same
    BY <1>2
  <2>2. PICK j \in same : \A k \in same : j <= k
    <3>1. IsFiniteSet(same)
      <4>1. IsFiniteSet(1 .. Len(s))
        BY <1>2, FS_Interval
      <4> HIDE DEF same
      <4>2. QED
        BY <2>1, <4>1, FS_Subset
    <3>2. QED
      BY <2>1, <3>1, FirstAndLast
  <2>3. \A k \in 1 .. (j - 1) : k \in DOMAIN s /\ ~(j <= k)
    BY <1>2
  <2>4. j \in places
    BY <2>2, <2>3
  <2>5. QED
    BY <2>4
<1> HIDE DEF places
<1>5. /\ ValuesAt(s, places) \in Seq(T)
      /\ \A k \in DOMAIN ValuesAt(s, places) : \E i \in places : ValuesAt(s, places)[k] = s[i]
      /\ \A i \in places : \E k \in DOMAIN ValuesAt(s, places) : ValuesAt(s, places)[k] = s[i]
      /\ \A j, k \in DOMAIN ValuesAt(s, places) :
            ValuesAt(s, places)[j] = ValuesAt(s, places)[k] => j = k
  BY <1>2, <1>3, ValuesAtKeeps
<1>6. \A i \in DOMAIN s : \E k \in DOMAIN ValuesAt(s, places) : ValuesAt(s, places)[k] = s[i]
  BY <1>4, <1>5
<1>7. QED
  BY <1>1, <1>2, <1>5, <1>6

\* A question starts with no hits, no pages and nothing said.
LEMMA RetrievalStarts == RetrievalInit => RetrievalInv
<1> SUFFICES ASSUME RetrievalInit PROVE RetrievalInv
  OBVIOUS
<1>1. step = [pass |-> "library", at |-> "search"]
  BY DEF RetrievalInit, At, Place
<1>2. RetrievalTypes
  <2>1. /\ hits = <<>> /\ pages = <<>> /\ reason = "none" /\ note = "open" /\ fileChanges = 0
        /\ found = [p \in Passes |-> <<>>] /\ failure = [p \in Passes |-> "none"]
        /\ wanted \in (SUBSET Documents) \cup {Everything}
        /\ library \subseteq Documents /\ wikiFiles \subseteq Documents
    BY DEF RetrievalInit
  <2>2. RetrievalTypeOK
    BY <1>1, <2>1, RetrievalAssumption DEF RetrievalTypeOK, Passes, Failures
  <2>3. QED
    BY <2>1, <2>2 DEF RetrievalTypes, Passes, Failures
<1>3. HitsPass /\ FoundInScope /\ PassesTell /\ Told
  BY <1>1 DEF RetrievalInit, HitsPass, FoundInScope, PassesTell, Over, Told, Passes
<1>4. QED
  BY <1>2, <1>3 DEF RetrievalInv

\* A pass that fails leaves its pages empty.
LEMMA PassFailsKeeps ==
    ASSUME RetrievalInv, NEW p \in Passes, step.pass = p, NEW why \in Failures \ {"none"}, PassFails(p, why)
    PROVE  RetrievalInv'
<1>1. /\ failure' = [failure EXCEPT ![p] = why] /\ step' = After(p)
      /\ UNCHANGED <<wanted, library, wikiFiles, hits, found, pages, reason, note, fileChanges>>
  BY DEF PassFails
<1>2. step' = IF p = "library" THEN [pass |-> "wiki", at |-> "search"] ELSE [pass |-> "both", at |-> "merge"]
  BY <1>1 DEF After, Place
<1>3. RetrievalTypes'
  <2>1. failure' \in [Passes -> Failures]
    BY <1>1 DEF RetrievalInv, RetrievalTypes
  <2>2. step' \in [pass : Passes, at : {"search", "read"}] \cup [pass : {"both"}, at : {"merge", "assemble", "done"}]
    BY <1>2 DEF Passes
  <2>3. QED
    BY <1>1, <2>1, <2>2 DEF RetrievalInv, RetrievalTypes, RetrievalTypeOK
<1>4. found[p] = <<>>
  <2>1. step.at \in {"search", "read"}
    BY DEF RetrievalInv, RetrievalTypes, RetrievalTypeOK, Passes
  <2>2. note # "raised"
    BY <2>1 DEF RetrievalInv, Told
  <2>3. QED
    BY <2>1, <2>2 DEF RetrievalInv, RetrievalTypes, RetrievalTypeOK, PassesTell, Over, Passes
<1>5. HitsPass' /\ Told'
  <2>1. step.at \in {"search", "read"} /\ step'.at \in {"search", "merge"}
    BY <1>2 DEF RetrievalInv, RetrievalTypes, RetrievalTypeOK, Passes
  <2>2. pages = <<>> /\ reason = "none" /\ note = "open"
    BY <2>1 DEF RetrievalInv, Told
  <2>3. QED
    BY <1>1, <2>1, <2>2 DEF HitsPass, Told
<1>6. FoundInScope'
  BY <1>1 DEF RetrievalInv, FoundInScope, InScope
<1>7. PassesTell'
  <2>1. failure'[p] = why /\ \A q \in Passes \ {p} : failure'[q] = failure[q]
    BY <1>1 DEF RetrievalInv, RetrievalTypes
  <2>2. QED
    BY <1>1, <1>2, <1>4, <2>1 DEF RetrievalInv, PassesTell, Over, Passes
<1>8. QED
  BY <1>3, <1>5, <1>6, <1>7 DEF RetrievalInv

\* Both passes run the same two steps.
LEMMA PassKeeps ==
    ASSUME RetrievalInv, NEW p \in Passes, QmdFails(p) \/ QmdAnswers(p) \/ Reads(p)
    PROVE  RetrievalInv'
<1>1. CASE QmdFails(p)
  BY <1>1, PassFailsKeeps DEF QmdFails, At, Place, Failures
<1>2. CASE QmdAnswers(p)
  <2>1. step = [pass |-> p, at |-> "search"]
    BY <1>2 DEF QmdAnswers, At, Place
  <2>2. PICK rows \in Rows :
           IF Kept(p, rows) = <<>> THEN PassFails(p, "noResults")
           ELSE /\ hits' = Kept(p, rows)
                /\ step' = [step EXCEPT !.at = "read"]
                /\ UNCHANGED <<wanted, library, wikiFiles, found, failure, pages, reason, note, fileChanges>>
    BY <1>2 DEF QmdAnswers
  <2>3. rows \in Seq(Hits)
    BY DEF Rows
  <2>4. CASE Kept(p, rows) = <<>>
    BY <2>1, <2>2, <2>4, PassFailsKeeps DEF Failures
  <2>5. CASE Kept(p, rows) # <<>>
    <3>1. /\ hits' \in Seq(Hits) /\ Len(hits') <= TopN
          /\ \A i \in DOMAIN hits' : Passing(p, hits'[i])
      BY <2>2, <2>3, <2>5, KeptPasses
    <3>2. /\ step' = [pass |-> p, at |-> "read"]
          /\ UNCHANGED <<wanted, library, wikiFiles, found, failure, pages, reason, note, fileChanges>>
      BY <2>1, <2>2, <2>5
    <3>3. RetrievalTypes'
      BY <3>1, <3>2 DEF RetrievalInv, RetrievalTypes, RetrievalTypeOK, Passes
    <3>4. HitsPass'
      BY <3>1, <3>2 DEF HitsPass, Passing, NoUri
    <3>5. (FoundInScope /\ PassesTell /\ Told)'
      BY <2>1, <3>2 DEF RetrievalInv, FoundInScope, InScope, PassesTell, Over, Told, Passes
    <3>6. QED
      BY <3>3, <3>4, <3>5 DEF RetrievalInv
  <2>6. QED
    BY <2>4, <2>5
<1>3. CASE Reads(p)
  <2>1. step = [pass |-> p, at |-> "read"] /\ hits \in Seq(Hits)
    BY <1>3 DEF Reads, At, Place, RetrievalInv, RetrievalTypes, RetrievalTypeOK
  <2>2. CASE Resolved(hits) = <<>>
    BY <1>3, <2>1, <2>2, PassFailsKeeps DEF Reads, Failures
  <2>3. CASE Resolved(hits) # <<>>
    <3>1. /\ found' = [found EXCEPT ![p] = Resolved(hits)] /\ step' = After(p)
          /\ UNCHANGED <<wanted, library, wikiFiles, hits, failure, pages, reason, note, fileChanges>>
      BY <1>3, <2>3 DEF Reads
    <3>2. step' = IF p = "library" THEN [pass |-> "wiki", at |-> "search"] ELSE [pass |-> "both", at |-> "merge"]
      BY <3>1 DEF After, Place
    <3>3. /\ Resolved(hits) \in Seq(PageReads)
          /\ \A i \in DOMAIN Resolved(hits) :
                Resolved(hits)[i].source = "library" =>
                    \E m \in DOMAIN hits : hits[m].root = "library" /\ hits[m].doc = Resolved(hits)[i].doc
      BY <2>1, ResolvedFound
    <3>4. \A m \in DOMAIN hits : hits[m].root = "library" => p = "library" /\ InScope(hits[m].doc)
      <4>1. \A m \in DOMAIN hits : Passing(p, hits[m])
        BY <2>1 DEF RetrievalInv, HitsPass
      <4>2. QED
        BY <4>1 DEF Passing, InScope, Passes
    <3>5. /\ found'[p] = Resolved(hits) /\ found'[p] # <<>>
          /\ \A q \in Passes \ {p} : found'[q] = found[q]
          /\ found' \in [Passes -> Seq(PageReads)]
      BY <2>3, <3>1, <3>3 DEF RetrievalInv, RetrievalTypes
    <3>6. RetrievalTypes'
      <4>1. step' \in [pass : Passes, at : {"search", "read"}] \cup [pass : {"both"}, at : {"merge", "assemble", "done"}]
        BY <3>2 DEF Passes
      <4>2. QED
        BY <3>1, <3>5, <4>1 DEF RetrievalInv, RetrievalTypes, RetrievalTypeOK
    <3>7. FoundInScope'
      BY <3>1, <3>3, <3>4, <3>5 DEF RetrievalInv, FoundInScope, InScope
    <3>8. HitsPass' /\ Told'
      BY <2>1, <3>1, <3>2 DEF RetrievalInv, HitsPass, Told, Passes
    <3>9. PassesTell'
      BY <2>1, <3>1, <3>2, <3>5 DEF RetrievalInv, PassesTell, Over, Passes
    <3>10. QED
      BY <3>6, <3>7, <3>8, <3>9 DEF RetrievalInv
  <2>4. QED
    BY <2>2, <2>3
<1>4. QED
  BY <1>1, <1>2, <1>3

\* Every step keeps it, the files that come and go meanwhile included.
LEMMA RetrievalKeeps == ASSUME RetrievalInv, [RetrievalNext]_retrievalVars PROVE RetrievalInv'
<1>1. ASSUME NEW p \in Passes, QmdFails(p) \/ QmdAnswers(p) \/ Reads(p) PROVE RetrievalInv'
  BY <1>1, PassKeeps
<1>2. CASE Merges
  <2>1. /\ step = [pass |-> "both", at |-> "merge"] /\ step' = [pass |-> "both", at |-> "assemble"]
        /\ pages' = Deduped(Read) /\ reason' = Reason(Read)
        /\ UNCHANGED <<wanted, library, wikiFiles, hits, found, failure, note, fileChanges>>
    BY <1>2 DEF Merges, At, Place, Read
  <2>2. Read \in Seq(PageReads)
    BY DEF RetrievalInv, RetrievalTypes, Read, Passes
  <2>3. pages' \in Seq(PageReads)
    BY <2>1, <2>2, DedupedSame
  <2>4. reason' \in Failures \cup {"wikiOnly"}
    BY <2>1 DEF Reason, Failures
  <2>5. RetrievalTypes'
    BY <2>1, <2>3, <2>4 DEF RetrievalInv, RetrievalTypes, RetrievalTypeOK
  <2>6. Read' = Read /\ Reason(Read)' = Reason(Read) /\ Deduped(Read)' = Deduped(Read)
    BY <2>1 DEF Read, Reason, Deduped
  <2>7. (HitsPass /\ FoundInScope /\ PassesTell)'
    BY <2>1 DEF RetrievalInv, HitsPass, FoundInScope, InScope, PassesTell, Over
  <2>8. Told'
    BY <2>1, <2>6 DEF RetrievalInv, Told
  <2>9. QED
    BY <2>5, <2>7, <2>8 DEF RetrievalInv
<1>3. CASE Assembles
  <2>1. /\ step = [pass |-> "both", at |-> "assemble"] /\ step' = [pass |-> "both", at |-> "done"]
        /\ note' = IF pages = <<>> THEN "no pages" ELSE IF reason = "wikiOnly" THEN "not grounded" ELSE ""
        /\ UNCHANGED <<wanted, library, wikiFiles, hits, found, failure, pages, reason, fileChanges>>
    BY <1>3 DEF Assembles, At, Place
  <2>2. RetrievalTypes'
    BY <2>1 DEF RetrievalInv, RetrievalTypes, RetrievalTypeOK
  <2>3. Read' = Read /\ Reason(Read)' = Reason(Read) /\ Deduped(Read)' = Deduped(Read)
    BY <2>1 DEF Read, Reason, Deduped
  <2>7. note # "raised" /\ note' # "raised"
    BY <2>1 DEF RetrievalInv, Told
  <2>4. (HitsPass /\ FoundInScope /\ PassesTell)'
    BY <2>1, <2>7 DEF RetrievalInv, HitsPass, FoundInScope, InScope, PassesTell, Over
  <2>5. Told'
    BY <2>1, <2>3, <2>7 DEF RetrievalInv, Told
  <2>6. QED
    BY <2>2, <2>4, <2>5 DEF RetrievalInv
<1>4. CASE FileChanges
  <2>1. /\ UNCHANGED <<wanted, step, hits, found, failure, pages, reason, note>>
        /\ library' \subseteq Documents /\ wikiFiles' \subseteq Documents
    BY <1>4 DEF FileChanges, RetrievalInv, RetrievalTypes, RetrievalTypeOK
  <2>2. fileChanges' \in 0 .. MaxFiles
    <3>1. fileChanges \in 0 .. MaxFiles /\ fileChanges < MaxFiles /\ fileChanges' = fileChanges + 1
      BY <1>4 DEF FileChanges, RetrievalInv, RetrievalTypes, RetrievalTypeOK
    <3>2. QED
      BY <3>1, RetrievalAssumption
  <2>3. RetrievalTypes'
    BY <2>1, <2>2 DEF RetrievalInv, RetrievalTypes, RetrievalTypeOK
  <2>4. (HitsPass /\ FoundInScope /\ PassesTell)'
    BY <2>1 DEF RetrievalInv, HitsPass, Passing, FoundInScope, InScope, PassesTell, Over
  <2>5. Read' = Read /\ Reason(Read)' = Reason(Read) /\ Deduped(Read)' = Deduped(Read)
    BY <2>1 DEF Read, Reason, Deduped
  <2>6. Told'
    BY <2>1, <2>5 DEF RetrievalInv, Told
  <2>7. QED
    BY <2>3, <2>4, <2>6 DEF RetrievalInv
<1>5. CASE UNCHANGED retrievalVars
  <2>1. UNCHANGED <<wanted, library, wikiFiles, step, hits, found, failure, pages, reason, note, fileChanges>>
    BY <1>5 DEF retrievalVars
  <2>2. RetrievalTypes'
    BY <2>1 DEF RetrievalInv, RetrievalTypes, RetrievalTypeOK
  <2>3. (HitsPass /\ FoundInScope /\ PassesTell)'
    BY <2>1 DEF RetrievalInv, HitsPass, Passing, FoundInScope, InScope, PassesTell, Over
  <2>4. Read' = Read /\ Reason(Read)' = Reason(Read) /\ Deduped(Read)' = Deduped(Read)
    BY <2>1 DEF Read, Reason, Deduped
  <2>5. Told'
    BY <2>1, <2>4 DEF RetrievalInv, Told
  <2>6. QED
    BY <2>2, <2>3, <2>5 DEF RetrievalInv
<1>6. ASSUME NEW p \in Passes, Raises(p) PROVE RetrievalInv'
  <2>1. /\ step = [pass |-> p, at |-> "search"] /\ step' = [pass |-> "both", at |-> "done"] /\ note' = "raised"
        /\ UNCHANGED <<wanted, library, wikiFiles, hits, found, failure, pages, reason, fileChanges>>
    BY <1>6 DEF Raises, At, Place
  <2>2. RetrievalTypes'
    BY <2>1 DEF RetrievalInv, RetrievalTypes, RetrievalTypeOK
  <2>3. (HitsPass /\ FoundInScope /\ PassesTell)'
    BY <2>1 DEF RetrievalInv, HitsPass, FoundInScope, InScope, PassesTell
  <2>4. Told'
    BY <2>1 DEF RetrievalInv, Told
  <2>5. QED
    BY <2>2, <2>3, <2>4 DEF RetrievalInv
<1>7. QED
  BY <1>1, <1>2, <1>3, <1>4, <1>5, <1>6 DEF RetrievalNext

\* An answer is told at the last step only.
LEMMA DoneIsDone == At("both", "done") => step.at = "done"
<1>1. Place("both", "done").at = "done"
  BY DEF Place
<1>2. QED
  BY <1>1 DEF At

\* A failure is no miss, the library's pages are in scope, the sources are told.
LEMMA RetrievalTells == RetrievalInv => RetrievalTypeOK /\ MissWasSearched /\ ScopeIsKept /\ SourcesAreTold
<1> SUFFICES ASSUME RetrievalInv PROVE RetrievalTypeOK /\ MissWasSearched /\ ScopeIsKept /\ SourcesAreTold
  OBVIOUS
<1>1. RetrievalTypeOK
  BY DEF RetrievalInv, RetrievalTypes
<1>2. /\ found["library"] \in Seq(PageReads) /\ found["wiki"] \in Seq(PageReads)
      /\ Read \in Seq(PageReads) /\ step.at \in {"search", "read", "merge", "assemble", "done"}
      /\ step.at \in {"merge", "assemble", "done"} => step.pass = "both"
      /\ Passes = {"library", "wiki"}
  <2>1. Passes = {"library", "wiki"}
    BY DEF Passes
  <2>2. found["library"] \in Seq(PageReads) /\ found["wiki"] \in Seq(PageReads)
    BY <2>1 DEF RetrievalInv, RetrievalTypes
  <2>3. step \in [pass : Passes, at : {"search", "read"}] \cup [pass : {"both"}, at : {"merge", "assemble", "done"}]
    BY DEF RetrievalInv, RetrievalTypes, RetrievalTypeOK
  <2>4. QED
    BY <2>1, <2>2, <2>3 DEF Read
<1>3. /\ \A i \in DOMAIN Read : \E p \in Passes : \E j \in DOMAIN found[p] : Read[i] = found[p][j]
      /\ \A p \in Passes : \A j \in DOMAIN found[p] : \E i \in DOMAIN Read : Read[i] = found[p][j]
      /\ Read = <<>> <=> found["library"] = <<>> /\ found["wiki"] = <<>>
  <2> DEFINE a == found["library"]
             b == found["wiki"]
  <2>1. /\ Len(a) \in Nat /\ Len(b) \in Nat /\ DOMAIN a = 1 .. Len(a) /\ DOMAIN b = 1 .. Len(b)
        /\ Len(Read) = Len(a) + Len(b) /\ DOMAIN Read = 1 .. (Len(a) + Len(b))
        /\ \A i \in 1 .. (Len(a) + Len(b)) : Read[i] = IF i <= Len(a) THEN a[i] ELSE b[i - Len(a)]
    <3>1. a \in Seq(PageReads) /\ b \in Seq(PageReads) /\ Read = a \o b
      BY <1>2 DEF Read
    <3> HIDE DEF a, b
    <3>2. QED
      BY <3>1, ConcatProperties
  <2>2. Read = <<>> <=> a = <<>> /\ b = <<>>
    <3>1. /\ a \in Seq(PageReads) /\ b \in Seq(PageReads) /\ Read \in Seq(PageReads)
          /\ \A w \in Seq(PageReads) : w = <<>> <=> Len(w) = 0
      BY <1>2
    <3> HIDE DEF a, b
    <3>2. QED
      BY <2>1, <3>1
  <2> HIDE DEF a, b
  <2>3. \A i \in DOMAIN Read : (\E j \in DOMAIN a : Read[i] = a[j]) \/ (\E j \in DOMAIN b : Read[i] = b[j])
    <3> SUFFICES ASSUME NEW i \in DOMAIN Read
                 PROVE  (\E j \in DOMAIN a : Read[i] = a[j]) \/ (\E j \in DOMAIN b : Read[i] = b[j])
      OBVIOUS
    <3>1. IF i <= Len(a) THEN i \in 1 .. Len(a) ELSE i - Len(a) \in 1 .. Len(b)
      BY <2>1
    <3>2. QED
      BY <2>1, <3>1
  <2>4. \A j \in DOMAIN a : j \in DOMAIN Read /\ Read[j] = a[j]
    BY <2>1
  <2>5. \A j \in DOMAIN b : j + Len(a) \in DOMAIN Read /\ Read[j + Len(a)] = b[j]
    <3> SUFFICES ASSUME NEW j \in DOMAIN b PROVE j + Len(a) \in DOMAIN Read /\ Read[j + Len(a)] = b[j]
      OBVIOUS
    <3>1. j + Len(a) \in 1 .. (Len(a) + Len(b)) /\ ~(j + Len(a) <= Len(a)) /\ (j + Len(a)) - Len(a) = j
      BY <2>1
    <3>2. QED
      BY <2>1, <3>1
  <2>6. QED
    BY <1>2, <2>2, <2>3, <2>4, <2>5 DEF a, b
<1>4. MissWasSearched
  <2> SUFFICES ASSUME reason = "noResults" PROVE \A p \in Passes : failure[p] = "noResults"
    BY DEF MissWasSearched
  <2>1. step.at \in {"assemble", "done"} /\ note # "raised" /\ reason = Reason(Read)
    BY <1>2 DEF RetrievalInv, Told
  <2>2. Read = <<>> /\ {failure[p] : p \in Passes} \cap {"unavailable", "failed"} = {}
    BY <2>1 DEF Reason
  <2>3. \A p \in Passes : failure[p] # "none" /\ failure[p] \in Failures
    BY <1>2, <1>3, <2>1, <2>2 DEF RetrievalInv, RetrievalTypes, PassesTell, Over
  <2>4. QED
    BY <2>2, <2>3 DEF Failures
<1>5. CASE step.at \in {"search", "read", "merge"}
  <2>1. pages = <<>> /\ reason = "none" /\ ~At("both", "done")
    BY <1>5, DoneIsDone DEF RetrievalInv, Told
  <2>2. DOMAIN pages = {}
    BY <2>1
  <2>3. ScopeIsKept
    BY <2>2 DEF ScopeIsKept
  <2>4. SourcesAreTold
    BY <2>1 DEF SourcesAreTold
  <2>5. QED
    BY <1>1, <1>4, <2>3, <2>4
<1>8. CASE note = "raised"
  <2>1. pages = <<>> /\ DOMAIN pages = {}
    BY <1>8 DEF RetrievalInv, Told
  <2>2. QED
    BY <1>1, <1>4, <1>8, <2>1 DEF ScopeIsKept, SourcesAreTold
<1>6. CASE step.at \in {"assemble", "done"} /\ note # "raised"
  <2>1. pages = Deduped(Read) /\ reason = Reason(Read)
    BY <1>6 DEF RetrievalInv, Told
  <2>2. /\ \A k \in DOMAIN pages : \E i \in DOMAIN Read : pages[k] = Read[i]
        /\ \A i \in DOMAIN Read : \E k \in DOMAIN pages : pages[k] = Read[i]
        /\ \A j, k \in DOMAIN pages : pages[j] = pages[k] => j = k
    BY <1>2, <2>1, DedupedSame
  <2>3. /\ \A k \in DOMAIN pages : \E p \in Passes : \E j \in DOMAIN found[p] : pages[k] = found[p][j]
        /\ \A p \in Passes : \A j \in DOMAIN found[p] : \E k \in DOMAIN pages : pages[k] = found[p][j]
    BY <1>3, <2>2
  <2>4. ScopeIsKept
    BY <2>3 DEF ScopeIsKept, RetrievalInv, FoundInScope, InScope
  <2>5. SourcesAreTold
    <3> SUFFICES ASSUME step.at = "done" PROVE
            /\ note = "not grounded" => \A i \in DOMAIN pages : pages[i].source = "wiki"
            /\ note = "no pages" <=> pages = <<>>
            /\ \A i, j \in DOMAIN pages : pages[i] = pages[j] => i = j
            /\ Range(found["wiki"]) \cup Range(found["library"]) = Range(pages)
      BY DoneIsDone DEF SourcesAreTold
    <3>1. note = IF pages = <<>> THEN "no pages" ELSE IF reason = "wikiOnly" THEN "not grounded" ELSE ""
      BY <1>6 DEF RetrievalInv, Told
    <3>2. ASSUME note = "not grounded", NEW i \in DOMAIN pages PROVE pages[i].source = "wiki"
      <4>1. found["library"] = <<>>
        BY <2>1, <3>1, <3>2 DEF Reason
      <4>2. PICK j \in DOMAIN found["wiki"] : pages[i] = found["wiki"][j]
        BY <1>2, <2>3, <4>1
      <4>3. found["wiki"][j] \in PageReads /\ found["wiki"][j].source # "library"
        BY <1>2, <4>2 DEF RetrievalInv, FoundInScope
      <4>4. QED
        BY <4>2, <4>3 DEF PageReads, Passes
    <3>3. Range(found["wiki"]) \cup Range(found["library"]) = Range(pages)
      BY <1>2, <2>3 DEF Range
    <3>4. QED
      BY <2>2, <3>1, <3>2, <3>3
  <2>6. QED
    BY <1>1, <1>4, <2>4, <2>5
<1>7. QED
  BY <1>2, <1>5, <1>6, <1>8

-------------------------------------------------------------------------------
(* The tails of prompts: each promise holds of every tail of typed tokens, so the *)
(* type of the tail is all the invariant they need.                              *)

\* Min and Max of places are places.
LEMMA MinAndMax ==
    ASSUME NEW A \in SUBSET Nat, IsFiniteSet(A), A # {}
    PROVE  /\ Min(A) \in A /\ \A n \in A : Min(A) <= n
           /\ Max(A) \in A /\ \A n \in A : n <= Max(A)
<1>1. \E m \in A : \A n \in A : m <= n
  BY FirstAndLast
<1>2. PICK m \in A : \A n \in A : n <= m
  BY FirstAndLast
<1>3. \A n \in A : m >= n
  BY <1>2
<1>4. Max(A) \in A /\ \A n \in A : Max(A) >= n
  <2>1. Max(A) = CHOOSE k \in A : \A n \in A : k >= n
    BY DEF Max
  <2>2. QED
    BY <1>3, <2>1
<1>5. \A n \in A : n <= Max(A)
  BY <1>4
<1>6. QED
  BY <1>1, <1>4, <1>5 DEF Min

\* Places of a tail are scanned up to the first terminator.
LEMMA ScannedPlaces ==
    ASSUME NEW U, NEW toks \in Seq(U)
    PROVE  /\ Scanned(toks) \in SUBSET (1 .. Len(toks))
           /\ \A i \in 1 .. Len(toks) : i \in Scanned(toks) <=> \A j \in 1 .. i : toks[j] # Stop
<1> DEFINE stops == {i \in 1 .. Len(toks) : toks[i] = Stop}
<1>1. Len(toks) \in Nat /\ stops \in SUBSET Nat /\ stops \in SUBSET (1 .. Len(toks))
  OBVIOUS
<1>2. IsFiniteSet(stops)
  <2>1. IsFiniteSet(1 .. Len(toks))
    BY <1>1, FS_Interval
  <2> HIDE DEF stops
  <2>2. QED
    BY <1>1, <2>1, FS_Subset
<1>3. CASE stops = {}
  BY <1>1, <1>3 DEF Scanned
<1>4. CASE stops # {}
  <2>1. Min(stops) \in stops /\ \A n \in stops : Min(stops) <= n
    BY <1>1, <1>2, <1>4, MinAndMax
  <2>2. Scanned(toks) = 1 .. (Min(stops) - 1)
    BY <1>4 DEF Scanned
  <2> DEFINE m == Min(stops)
  <2>3. m \in 1 .. Len(toks) /\ toks[m] = Stop /\ \A n \in 1 .. Len(toks) : toks[n] = Stop => m <= n
    BY <2>1
  <2> HIDE DEF m, stops
  <2>4. Scanned(toks) = 1 .. (m - 1)
    BY <2>2 DEF m
  <2>5. ASSUME NEW i \in 1 .. Len(toks) PROVE i \in 1 .. (m - 1) <=> \A j \in 1 .. i : toks[j] # Stop
    <3>1. ASSUME i \in 1 .. (m - 1), NEW j \in 1 .. i PROVE toks[j] # Stop
      BY <1>1, <2>3, <3>1
    <3>2. i \notin 1 .. (m - 1) => m \in 1 .. i
      BY <1>1, <2>3
    <3>3. QED
      BY <2>3, <3>1, <3>2
  <2>6. QED
    BY <1>1, <2>3, <2>4, <2>5
<1>5. QED
  BY <1>3, <1>4

\* The places of the positionals.
IsPositional(toks, g, i) ==
    \/ /\ i \in Scanned(toks) \ Values(toks, g)
       /\ toks[i].form = "word" \/ (toks[i].form = "filter" /\ toks[i].key = "+")
    \/ i \notin Scanned(toks) /\ \E j \in 1 .. (i - 1) : toks[j] = Stop

\* Positionals name those places, each once, in order.
LEMMA PositionalsAre ==
    ASSUME NEW U, NEW toks \in Seq(U), NEW g
    PROVE  /\ Positionals(toks, g) \in Seq(1 .. Len(toks))
           /\ \A k \in 1 .. Len(Positionals(toks, g)) : IsPositional(toks, g, Positionals(toks, g)[k])
           /\ \A i \in 1 .. Len(toks) : IsPositional(toks, g, i) => i \in Range(Positionals(toks, g))
           /\ 1 \in 1 .. Len(toks) /\ IsPositional(toks, g, 1)
                 => Positionals(toks, g) # <<>> /\ Positionals(toks, g)[1] = 1
<1> DEFINE places == {i \in 1 .. Len(toks) : IsPositional(toks, g, i)}
           c == Cardinality(places)
           order == InOrder(places)
<1>1. Positionals(toks, g) = order
  BY DEF Positionals, IsPositional
<1>2. places \in SUBSET Nat /\ places \in SUBSET (1 .. Len(toks)) /\ Len(toks) \in Nat
  OBVIOUS
<1>3. IsFiniteSet(places)
  <2>1. IsFiniteSet(1 .. Len(toks))
    BY <1>2, FS_Interval
  <2> HIDE DEF places
  <2>2. QED
    BY <1>2, <2>1, FS_Subset
<1>4. /\ c \in Nat /\ order \in [1 .. c -> places]
      /\ \A i \in places : \E k \in 1 .. c : order[k] = i
      /\ \A j, k \in 1 .. c : j < k => order[j] < order[k]
  BY <1>2, <1>3, InOrderEnumerates
<1>5. \A i \in places : i \in 1 .. Len(toks) /\ IsPositional(toks, g, i)
  OBVIOUS
<1>6. \A i \in 1 .. Len(toks) : IsPositional(toks, g, i) => i \in places
  OBVIOUS
<1> HIDE DEF places, c, order
<1>7. order \in Seq(1 .. Len(toks)) /\ Len(order) = c /\ DOMAIN order = 1 .. c
  <2>1. order \in [1 .. c -> 1 .. Len(toks)]
    BY <1>2, <1>4
  <2>2. QED
    BY <1>4, <2>1
<1>8. \A k \in 1 .. c : IsPositional(toks, g, order[k])
  BY <1>4, <1>5
<1>9. \A i \in 1 .. Len(toks) : IsPositional(toks, g, i) => i \in Range(order)
  BY <1>4, <1>6, <1>7 DEF Range
<1>10. ASSUME 1 \in 1 .. Len(toks), IsPositional(toks, g, 1) PROVE order # <<>> /\ order[1] = 1
  <2>1. PICK k \in 1 .. c : order[k] = 1
    BY <1>4, <1>6, <1>10
  <2>2. 1 \in 1 .. c
    BY <1>4, <2>1
  <2>3. order[1] \in 1 .. Len(toks)
    BY <1>4, <1>5, <2>2
  <2>4. ~(1 < k)
    BY <1>4, <2>1, <2>2, <2>3
  <2>5. k = 1
    BY <1>4, <2>1, <2>4
  <2>6. order # <<>>
    BY <1>7, <2>2
  <2>7. QED
    BY <2>1, <2>5, <2>6
<1>11. QED
  BY <1>1, <1>7, <1>8, <1>9, <1>10

\* Who takes a value, and which.
LEMMA TakenPlaces ==
    ASSUME NEW toks, NEW g
    PROVE  /\ \A i : i \in DOMAIN Taken(toks, g) <=>
                        i \in Scanned(toks) /\ toks[i].form = "long" /\ TakesValue(g, toks[i])
           /\ \A i \in DOMAIN Taken(toks, g) : \A k :
                 k \in Taken(toks, g)[i] <=>
                    /\ k \in (i + 1) .. Len(toks)
                    /\ toks[i].key \in g.multi \/ k = i + 1
                    /\ \A j \in (i + 1) .. k : ~Dashes(toks[j])
           /\ \A k : k \in Values(toks, g) <=> \E i \in DOMAIN Taken(toks, g) : k \in Taken(toks, g)[i]
<1>1. /\ \A i : i \in DOMAIN Taken(toks, g) <=>
                   i \in Scanned(toks) /\ toks[i].form = "long" /\ TakesValue(g, toks[i])
      /\ \A i \in DOMAIN Taken(toks, g) : \A k :
            k \in Taken(toks, g)[i] <=>
               /\ k \in (i + 1) .. Len(toks)
               /\ toks[i].key \in g.multi \/ k = i + 1
               /\ \A j \in (i + 1) .. k : ~Dashes(toks[j])
  BY DEF Taken
<1>2. \A k : k \in Values(toks, g) <=> \E i \in DOMAIN Taken(toks, g) : k \in Taken(toks, g)[i]
  BY DEF Values
<1>3. QED
  BY <1>1, <1>2

\* What is typed at a place of the tail.
LEMMA Typed ==
    ASSUME TailTypeOK
    PROVE  /\ prompt \in Prompts /\ tail \in Seq(Tokens[prompt]) /\ Len(tail) \in Nat
           /\ \A i \in 1 .. Len(tail) :
                /\ tail[i].form \in {"word", "long", "longeq", "short", "filter", "stop"}
                /\ tail[i].form = "long" => tail[i] = Long(tail[i].key)
                /\ tail[i].form = "filter" => tail[i].key \in {"+", "-"}
                /\ tail[i].form = "stop" => tail[i] = Stop
<1>1. prompt \in Prompts /\ tail \in Seq(Tokens[prompt]) /\ Len(tail) \in Nat
  BY DEF TailTypeOK
<1>2. \A i \in 1 .. Len(tail) : tail[i] \in Tokens[prompt]
  BY <1>1
<1>3. QED
  BY <1>1, <1>2, TailAssumption

\* A flag that is asked for is rendered with its value or is missing one, but for
\* one said again; a flag the grammar does not know is unknown.
LEMMA FlagRendered ==
    ASSUME TailTypeOK, NEW g, NEW keys, NEW i \in Scanned(tail)
    PROVE  /\ \A j \in DOMAIN Taken(tail, g) :
                 i \in Taken(tail, g)[j] /\ tail[j].key \in keys \intersect g.value => i \in Rendered(tail, g, keys)
           /\ tail[i].form \in {"long", "longeq"} /\ TakesValue(g, tail[i]) =>
                 \/ i \in Missing(tail, g)
                 \/ i \in Repeats(tail, g, tail[i].key)
                    /\ (tail[i].key \in keys \intersect g.value => i \in Rendered(tail, g, keys))
           /\ /\ i \notin Values(tail, g)
              /\ IsShort(tail[i]) \/ (tail[i].form \in {"long", "longeq"} /\ ~TakesValue(g, tail[i]))
              => \/ i \in Rendered(tail, g, keys) \cup Unknown(tail, g)
                 \/ SaidAgain(tail, g, i)
                 \/ KeyOf(tail[i]) \in g.known \ keys
<1> DEFINE taken == Taken(tail, g)
           valued == UNION {Repeats(tail, g, key) : key \in keys \intersect g.value}
<1>1. Rendered(tail, g, keys) =
         valued \union (UNION {taken[j] : j \in valued \intersect DOMAIN taken})
            \union {j \in Booleans(tail, g) : KeyOf(tail[j]) \in keys /\ Repeats(tail, g, KeyOf(tail[j])) = {}}
  BY DEF Rendered
<1>2. ASSUME NEW j \in Scanned(tail), TakesValue(g, tail[j]),
             tail[j].form = "longeq" \/ (j \in DOMAIN taken /\ taken[j] # {})
      PROVE  /\ j \in Repeats(tail, g, tail[j].key)
             /\ tail[j].key \in keys \intersect g.value => j \in valued
  <2>1. j \in Repeats(tail, g, tail[j].key)
    BY <1>2 DEF Repeats
  <2>2. QED
    BY <2>1
<1>3. ASSUME NEW j \in DOMAIN taken, i \in taken[j], tail[j].key \in keys \intersect g.value
      PROVE  i \in Rendered(tail, g, keys)
  <2>1. j \in Scanned(tail) /\ TakesValue(g, tail[j]) /\ taken[j] # {}
    BY <1>3, TakenPlaces
  <2>2. j \in valued
    BY <1>2, <1>3, <2>1
  <2> HIDE DEF taken, valued
  <2>3. QED
    BY <1>1, <1>3, <2>2
<1>4. ASSUME tail[i].form \in {"long", "longeq"}, TakesValue(g, tail[i]), i \notin Missing(tail, g)
      PROVE  /\ i \in Repeats(tail, g, tail[i].key)
             /\ tail[i].key \in keys \intersect g.value => i \in Rendered(tail, g, keys)
  <2>1. tail[i].form = "longeq" \/ (i \in DOMAIN taken /\ taken[i] # {})
    <3>1. tail[i].form = "long" => i \in DOMAIN taken
      BY <1>4, TakenPlaces
    <3>2. i \in DOMAIN taken => taken[i] # {}
      BY <1>4 DEF Missing
    <3>3. QED
      BY <1>4, <3>1, <3>2
  <2>2. QED
    BY <1>1, <1>2, <1>4, <2>1
<1>5. ASSUME i \notin Values(tail, g),
             IsShort(tail[i]) \/ (tail[i].form \in {"long", "longeq"} /\ ~TakesValue(g, tail[i]))
      PROVE  \/ i \in Rendered(tail, g, keys) \cup Unknown(tail, g)
             \/ SaidAgain(tail, g, i)
             \/ KeyOf(tail[i]) \in g.known \ keys
  <2>1. i \in Booleans(tail, g)
    BY <1>5 DEF Booleans
  <2>2. CASE KeyOf(tail[i]) \notin g.known
    BY <1>5, <2>2 DEF Unknown
  <2>3. CASE KeyOf(tail[i]) \in keys /\ Repeats(tail, g, KeyOf(tail[i])) = {}
    BY <1>1, <2>1, <2>3
  <2>4. ASSUME Repeats(tail, g, KeyOf(tail[i])) # {} PROVE IsShort(tail[i])
    <3> SUFFICES ASSUME tail[i].form \in {"long", "longeq"}, ~TakesValue(g, tail[i]) PROVE FALSE
      BY <1>5
    <3>1. KeyOf(tail[i]) = tail[i].key
      BY DEF KeyOf
    <3>2. PICK j : j \in Repeats(tail, g, tail[i].key)
      BY <2>4, <3>1
    <3>3. QED
      BY <3>2 DEF Repeats, TakesValue
  <2>5. QED
    BY <2>2, <2>3, <2>4 DEF SaidAgain
<1>6. QED
  BY <1>3, <1>4, <1>5

\* Where a command renders every flag it knows.
LEMMA FlagsRendered ==
    ASSUME TailTypeOK, NEW g, g.multi = {}, g.value \subseteq g.known, NEW i \in Scanned(tail)
    PROVE  /\ i \in Values(tail, g) => i \in Rendered(tail, g, g.known)
           /\ tail[i].form \in {"long", "longeq"} /\ TakesValue(g, tail[i]) =>
                 i \in Rendered(tail, g, g.known) \cup Missing(tail, g)
           /\ /\ i \notin Values(tail, g)
              /\ IsShort(tail[i]) \/ (tail[i].form \in {"long", "longeq"} /\ ~TakesValue(g, tail[i]))
              => i \in Rendered(tail, g, g.known) \cup Unknown(tail, g) \/ SaidAgain(tail, g, i)
<1>1. \A t : TakesValue(g, t) <=> t.key \in g.known \intersect g.value
  BY DEF TakesValue
<1>2. \A j \in DOMAIN Taken(tail, g) : TakesValue(g, tail[j])
  BY TakenPlaces
<1>3. i \in Values(tail, g) => \E j \in DOMAIN Taken(tail, g) : i \in Taken(tail, g)[j]
  BY TakenPlaces
<1>4. QED
  BY <1>1, <1>2, <1>3, FlagRendered

\* A place after the first terminator is a positional, but for terminators before.
LEMMA AfterStop ==
    ASSUME TailTypeOK, NEW g, NEW i \in 1 .. Len(tail), i \notin Scanned(tail), tail[i] # Stop
    PROVE  IsPositional(tail, g, i)
<1>1. Len(tail) \in Nat /\ tail \in Seq(Tokens[prompt])
  BY Typed
<1>2. PICK j \in 1 .. i : tail[j] = Stop
  BY <1>1, ScannedPlaces
<1>3. j \in 1 .. (i - 1)
  BY <1>1, <1>2
<1>4. QED
  BY <1>2, <1>3 DEF IsPositional

\* The positionals as the tail of a verb has them: the subcommand is its first word.
LEMMA SubcommandIs ==
    ASSUME TailTypeOK, SubcommandFirst
    PROVE  Subcommand(tail) = tail[1].key /\ Subcommand(tail) \in Verbs /\ 1 \in Scanned(tail)
<1>1. Len(tail) \in Nat /\ tail \in Seq(Tokens[prompt]) /\ 1 \in 1 .. Len(tail)
      /\ tail[1].form = "word" /\ tail[1].key \in Verbs
  BY Typed DEF SubcommandFirst
<1>2. 1 \in Scanned(tail)
  <2>1. Stop.form = "stop"
    BY DEF Stop, Token
  <2>2. \A j \in 1 .. 1 : tail[j] # Stop
    BY <1>1, <2>1
  <2>3. QED
    BY <1>1, <2>2, ScannedPlaces
<1>3. \A g : IsPositional(tail, g, 1)
  <2> SUFFICES ASSUME NEW g PROVE 1 \notin Values(tail, g)
    BY <1>1, <1>2 DEF IsPositional
  <2>1. \A i \in DOMAIN Taken(tail, g) : i \in 1 .. Len(tail) /\ 1 \notin (i + 1) .. Len(tail)
    BY <1>1, ScannedPlaces, TakenPlaces
  <2>2. QED
    BY <2>1, TakenPlaces
<1>4. \A g : Positionals(tail, g) # <<>> /\ Positionals(tail, g)[1] = 1
  BY <1>1, <1>3, PositionalsAre
<1>5. QED
  BY <1>1, <1>2, <1>4 DEF Subcommand

\* A library command shows, leaves over or notes every token that was typed.
LEMMA LosesNothing == TailTypeOK => NothingLost
<1> SUFFICES ASSUME TailTypeOK, prompt = "collections", SubcommandFirst, ~CollectionsBody(tail).refused,
                    NEW i \in 1 .. Len(tail), tail[i] # Stop
             PROVE  i \in CollectionsBody(tail).shown \/ SaidAgain(tail, VerbGrammar(tail[1].key), i)
  BY DEF NothingLost
<1> DEFINE g == VerbGrammar(Subcommand(tail))
           args == Tail(Positionals(tail, g))
<1>1. Subcommand(tail) \in Verbs
  BY SubcommandIs
<1>9. g = VerbGrammar(tail[1].key)
  BY SubcommandIs
<1>2. g.multi = {} /\ g.value \subseteq g.known
  BY DEF VerbGrammar, Grammar
<1>3. CollectionsBody(tail).shown = Range(Positionals(tail, g)) \union Rendered(tail, g, g.known) \union Noted(tail, g)
  <2>1. \A a, b : Command(a, b).shown = b
    BY DEF Command
  <2>2. \/ CollectionsBody(tail) = Refusal
        \/ CollectionsBody(tail) = Command(args, Range(Positionals(tail, g)) \union Rendered(tail, g, g.known)
                                                   \union Noted(tail, g))
    BY DEF CollectionsBody
  <2>3. Refusal.refused
    BY DEF Refusal
  <2>4. QED
    BY <2>1, <2>2, <2>3
<1> HIDE DEF g
<1>4. tail \in Seq(Tokens[prompt])
  BY Typed
<1>5. IsPositional(tail, g, i) => i \in Range(Positionals(tail, g))
  BY <1>4, PositionalsAre
<1>6. CASE i \notin Scanned(tail)
  BY <1>3, <1>5, <1>6, AfterStop
<1>7. CASE i \in Scanned(tail)
  <2>1. CASE i \in Values(tail, g)
    BY <1>2, <1>3, <1>7, <2>1, FlagsRendered
  <2>2. CASE i \notin Values(tail, g)
    <3>1. \/ tail[i].form = "word" \/ (tail[i].form = "filter" /\ tail[i].key = "+")
          \/ IsShort(tail[i]) \/ tail[i].form \in {"long", "longeq"}
      BY Typed DEF IsShort
    <3>2. CASE tail[i].form = "word" \/ (tail[i].form = "filter" /\ tail[i].key = "+")
      BY <1>3, <1>5, <1>7, <2>2, <3>2 DEF IsPositional
    <3>3. CASE tail[i].form \in {"long", "longeq"} /\ TakesValue(g, tail[i])
      BY <1>2, <1>3, <1>7, <3>3, FlagsRendered DEF Noted
    <3>4. CASE IsShort(tail[i]) \/ (tail[i].form \in {"long", "longeq"} /\ ~TakesValue(g, tail[i]))
      BY <1>2, <1>3, <1>7, <1>9, <2>2, <3>4, FlagsRendered DEF Noted
    <3>5. QED
      BY <3>1, <3>2, <3>3, <3>4
  <2>3. QED
    BY <2>1, <2>2
<1>8. QED
  BY <1>6, <1>7

\* A word right after a flag that the grammar does not know is no argument of a
\* command that is not refused.
LEMMA UnknownsWord ==
    ASSUME TailTypeOK, NEW g, g.value \cup g.multi \subseteq g.known,
           NEW args, \A k \in 1 .. Len(args) : IsPositional(tail, g, args[k]),
           NEW strict, ~Refuses(tail, g, args, strict),
           NEW i \in 1 .. (Len(tail) - 1), i \in Scanned(tail), tail[i].form = "long", tail[i].key \notin g.known,
           NEW k \in 1 .. Len(args)
    PROVE  args[k] # i + 1
<1> SUFFICES ASSUME args[k] = i + 1 PROVE FALSE
  OBVIOUS
<1>1. tail \in Seq(Tokens[prompt]) /\ Len(tail) \in Nat /\ i \in Nat /\ i < Len(tail) /\ i + 1 \in 1 .. Len(tail)
  BY Typed
<1>2. IsPositional(tail, g, i + 1)
  OBVIOUS
<1>3. ~Dashes(tail[i + 1])
  <2>1. CASE i + 1 \in Scanned(tail)
    BY <1>2, <2>1 DEF IsPositional, Dashes
  <2>2. CASE i + 1 \notin Scanned(tail)
    <3>1. PICK j \in 1 .. ((i + 1) - 1) : tail[j] = Stop
      BY <1>2, <2>2 DEF IsPositional
    <3>2. j \in 1 .. i
      BY <1>1
    <3>3. FALSE
      BY <1>1, <3>1, <3>2, ScannedPlaces
    <3>4. QED
      BY <3>3
  <2>3. QED
    BY <2>1, <2>2
<1>4. i + 1 \in Repurposed(tail, g)
  BY <1>1, <1>3 DEF Repurposed, TakesValue
<1>5. QED
  BY <1>4 DEF Refuses

\* A word after a flag the verb does not have is no argument of it.
LEMMA UndeclaredAsks == TailTypeOK => UndeclaredFlagAsks
<1> SUFFICES ASSUME TailTypeOK, prompt = "collections", SubcommandFirst, ~CollectionsBody(tail).refused,
                    NEW i \in 1 .. (Len(tail) - 1), i \in Scanned(tail), tail[i].form = "long",
                    tail[i].key \notin VerbGrammar(tail[1].key).known
             PROVE  i + 1 \notin Range(CollectionsBody(tail).args)
  BY DEF UndeclaredFlagAsks
<1> DEFINE g == VerbGrammar(tail[1].key)
           all == Positionals(tail, g)
           args == Tail(all)
<1>1. Subcommand(tail) = tail[1].key /\ tail[1].key \in Verbs
  BY SubcommandIs
<1>2. g.value \cup g.multi \subseteq g.known
  BY DEF VerbGrammar, Grammar
<1>3. all # <<>> /\ ~Refuses(tail, g, args, FALSE) /\ CollectionsBody(tail).args = args
  <2>1. \A a, b : Command(a, b).args = a
    BY DEF Command
  <2>2. Refusal.refused
    BY DEF Refusal
  <2>3. CollectionsBody(tail) = Refusal
        \/ /\ all # <<>> /\ ~Refuses(tail, g, args, FALSE)
           /\ \E b : CollectionsBody(tail) = Command(args, b)
    BY <1>1 DEF CollectionsBody
  <2>4. QED
    BY <2>1, <2>2, <2>3
<1>4. /\ all \in Seq(1 .. Len(tail))
      /\ \A k \in 1 .. Len(all) : IsPositional(tail, g, all[k])
  <2>1. tail \in Seq(Tokens[prompt])
    BY Typed
  <2> HIDE DEF g
  <2>2. QED
    BY <2>1, PositionalsAre
<1> HIDE DEF g, all
<1>5. Len(args) = Len(all) - 1 /\ args \in Seq(1 .. Len(tail)) /\ \A k \in 1 .. Len(args) : args[k] = all[k + 1]
  BY <1>3, <1>4
<1>6. \A k \in 1 .. Len(args) : IsPositional(tail, g, args[k])
  BY <1>4, <1>5
<1>7. tail[i].key \notin g.known
  BY DEF g
<1> HIDE DEF args
<1>8. \A k \in 1 .. Len(args) : args[k] # i + 1
  BY <1>2, <1>3, <1>6, <1>7, UnknownsWord
<1>9. DOMAIN args = 1 .. Len(args)
  BY <1>5
<1>10. i + 1 \notin Range(args)
  BY <1>8, <1>9 DEF Range
<1>11. QED
  BY <1>3, <1>10

\* An ingest of one source shows the rest.
LEMMA IngestShows == TailTypeOK => IngestShowsRest
<1> DEFINE g == IngestGrammar
           all == Positionals(tail, g)
           taken == Taken(tail, g)
           keys == {"collection", "title", "force"}
           sources == Repeats(tail, g, "source")
           last == LastGiven(tail, g, "source")
           visible == IngestBody(tail).shown
<1> SUFFICES ASSUME TailTypeOK, prompt = "ingest", ~IngestBody(tail).refused, Repeats(tail, g, "batch") = {},
                    NEW i \in 1 .. Len(tail), tail[i] # Stop
             PROVE  \/ i \in visible \/ SaidAgain(tail, g, i)
                    \/ IsShort(tail[i]) /\ KeyOf(tail[i]) \in {"source", "batch"}
                    \/ i \in sources \ last \/ \E j \in (sources \ last) \intersect DOMAIN taken : i \in taken[j]
  BY DEF IngestShowsRest
<1>1. last \cup Rendered(tail, g, keys) \cup Noted(tail, g) \cup Range(all) \subseteq visible
  <2> DEFINE mine == LastGiven(tail, g, "batch") \union last \union Rendered(tail, g, keys)
                     \union Noted(tail, g) \union Range(all)
  <2>1. IngestBody(tail) = Refusal \/ \E a : IngestBody(tail) = Command(a, mine)
    BY DEF IngestBody
  <2>2. \A a, b : Command(a, b).shown = b
    BY DEF Command
  <2>3. Refusal.refused
    BY DEF Refusal
  <2> HIDE DEF mine, visible
  <2>4. IngestBody(tail).shown = mine
    BY <2>1, <2>2, <2>3
  <2>5. QED
    BY <2>4 DEF mine, visible
<1>2. /\ \A t : TakesValue(g, t) <=> t.key \in {"source", "batch", "collection", "title"}
      /\ g.value = {"source", "batch", "collection", "title"} /\ g.known = g.value \cup {"force"}
  BY DEF IngestGrammar, Grammar, TakesValue
<1>3. tail \in Seq(Tokens[prompt])
  BY Typed
<1> HIDE DEF g, visible
<1>4. IsPositional(tail, g, i) => i \in visible
  <2>1. IsPositional(tail, g, i) => i \in Range(all)
    BY <1>3, PositionalsAre
  <2>2. QED
    BY <1>1, <2>1
<1>5. CASE i \notin Scanned(tail)
  BY <1>4, <1>5, AfterStop
<1>6. ASSUME NEW j \in sources, j \in last
      PROVE  j \in DOMAIN taken => taken[j] \subseteq last
  <2> DEFINE m == Max(sources)
  <2>1. last = {m} \union (IF m \in DOMAIN taken THEN taken[m] ELSE {})
    BY <1>6 DEF LastGiven
  <2>2. tail[j].form \in {"long", "longeq"}
    BY TakenPlaces DEF Repeats
  <2>3. m \in DOMAIN taken => j \notin taken[m]
    BY <2>2, TakenPlaces DEF Dashes
  <2> HIDE DEF m, last, taken
  <2>4. j = m
    BY <1>6, <2>1, <2>3
  <2>5. QED
    BY <2>1, <2>4
<1>7. CASE i \in Scanned(tail) /\ i \in Values(tail, g)
  <2>1. PICK j \in DOMAIN taken : i \in taken[j]
    BY <1>7, TakenPlaces
  <2>2. j \in Scanned(tail) /\ TakesValue(g, tail[j]) /\ j \in Repeats(tail, g, tail[j].key)
    BY <2>1, TakenPlaces DEF Repeats
  <2>3. tail[j].key \in {"source", "collection", "title"}
    BY <1>2, <2>2
  <2>4. CASE tail[j].key = "source"
    <3>1. j \in sources
      BY <2>2, <2>4
    <3> HIDE DEF sources, last, taken
    <3>2. CASE j \in last
      BY <1>1, <1>6, <2>1, <3>1, <3>2
    <3>3. CASE j \notin last
      BY <2>1, <3>1, <3>3
    <3>4. QED
      BY <3>2, <3>3
  <2>5. CASE tail[j].key \in {"collection", "title"}
    <3>1. tail[j].key \in keys \intersect g.value
      BY <1>2, <2>5
    <3>2. i \in Rendered(tail, g, keys)
      BY <1>7, <2>1, <3>1, FlagRendered
    <3>3. QED
      BY <1>1, <3>2
  <2>6. QED
    BY <2>3, <2>4, <2>5
<1>8. CASE i \in Scanned(tail) /\ i \notin Values(tail, g)
  <2>1. \/ tail[i].form = "word" \/ (tail[i].form = "filter" /\ tail[i].key = "+")
        \/ IsShort(tail[i]) \/ tail[i].form \in {"long", "longeq"}
    BY Typed DEF IsShort
  <2>2. CASE tail[i].form = "word" \/ (tail[i].form = "filter" /\ tail[i].key = "+")
    BY <1>4, <1>8, <2>2 DEF IsPositional
  <2>3. CASE tail[i].form \in {"long", "longeq"} /\ TakesValue(g, tail[i])
    <3>1. CASE i \in Missing(tail, g)
      BY <1>1, <3>1 DEF Noted
    <3>2. CASE i \in Repeats(tail, g, tail[i].key)
               /\ (tail[i].key \in keys \intersect g.value => i \in Rendered(tail, g, keys))
      <4>1. tail[i].key \in {"source", "collection", "title"}
        BY <1>2, <2>3, <3>2
      <4>2. CASE tail[i].key = "source"
        BY <1>1, <3>2, <4>2
      <4>3. CASE tail[i].key \in {"collection", "title"}
        BY <1>1, <1>2, <3>2, <4>3
      <4>4. QED
        BY <4>1, <4>2, <4>3
    <3>3. QED
      BY <1>8, <2>3, <3>1, <3>2, FlagRendered
  <2>4. CASE IsShort(tail[i]) \/ (tail[i].form \in {"long", "longeq"} /\ ~TakesValue(g, tail[i]))
    <3>1. \/ i \in Rendered(tail, g, keys) \cup Unknown(tail, g)
          \/ SaidAgain(tail, g, i)
          \/ KeyOf(tail[i]) \in g.known \ keys
      BY <1>8, <2>4, FlagRendered
    <3>2. CASE KeyOf(tail[i]) \in g.known \ keys
      <4>1. KeyOf(tail[i]) \in {"source", "batch"}
        BY <1>2, <3>2
      <4>2. ~IsShort(tail[i]) => KeyOf(tail[i]) = tail[i].key
        BY <2>4 DEF KeyOf
      <4>3. QED
        BY <1>2, <2>4, <4>1, <4>2
    <3>3. QED
      BY <1>1, <3>1, <3>2 DEF Noted
  <2>5. QED
    BY <2>1, <2>2, <2>3, <2>4
<1>9. QED
  BY <1>5, <1>7, <1>8

\* The source an ingest reads is the value of its flag or a word of its own.
LEMMA NamesItsSource == TailTypeOK => IngestsNamedSource
<1> SUFFICES ASSUME TailTypeOK, prompt = "ingest", ~IngestBody(tail).refused
             PROVE  LET i == IngestBody(tail).args[1] IN
                    \/ tail[i].key \in {"source", "batch"} /\ tail[i].form \in {"long", "longeq"}
                       /\ (tail[i].form = "long" => i < Len(tail) /\ ~Dashes(tail[i + 1]))
                    \/ tail[i].form \in {"word", "filter"}
                       /\ (i > 1 => tail[i-1].form # "long" \/ i \notin Scanned(tail)
                                     \/ tail[i-1].key = "force")
                    \/ i \notin Scanned(tail)
  BY DEF IngestsNamedSource
<1> DEFINE g == IngestGrammar
           all == Positionals(tail, g)
           given(key) == Repeats(tail, g, key)
           first == IF given("batch") # {} THEN Max(given("batch"))
                    ELSE IF given("source") # {} THEN Max(given("source")) ELSE all[1]
<1>1. /\ ~Refuses(tail, g, all, FALSE)
      /\ given("batch") # {} \/ given("source") # {} \/ all # <<>>
      /\ IngestBody(tail).args[1] = first
  <2> DEFINE asked == LastGiven(tail, g, "batch") \union LastGiven(tail, g, "source")
                      \union Rendered(tail, g, IF given("batch") # {} THEN {"force"}
                                               ELSE {"collection", "title", "force"})
                      \union Noted(tail, g) \union Range(all)
             one == IF given("batch") # {} THEN <<Max(given("batch"))>>
                    ELSE IF given("source") # {} THEN <<Max(given("source"))>> ELSE <<all[1]>>
             refuses == \/ Refuses(tail, g, all, FALSE)
                        \/ all # <<>> /\ given("source") # {}
                        \/ given("batch") # {} /\ (all # <<>> \/ given("source") # {})
                        \/ given("batch") = {} /\ given("collection") = {}
                        \/ given("batch") = {} /\ given("source") = {} /\ all = <<>>
  <2>1. IngestBody(tail) = IF refuses THEN Refusal ELSE Command(one, asked)
    BY DEF IngestBody
  <2>2. \A a, b : Command(a, b).args = a
    BY DEF Command
  <2>3. Refusal.refused
    BY DEF Refusal
  <2>4. one = <<first>>
    OBVIOUS
  <2>5. \/ refuses
        \/ /\ ~Refuses(tail, g, all, FALSE)
           /\ given("batch") # {} \/ given("source") # {} \/ all # <<>>
    OBVIOUS
  <2> HIDE DEF refuses, one, asked
  <2>6. ~refuses
    BY <2>1, <2>3
  <2>7. IngestBody(tail).args = one
    BY <2>1, <2>2, <2>6
  <2>8. IngestBody(tail).args = <<first>>
    BY <2>4, <2>7
  <2>9. ~Refuses(tail, g, all, FALSE) /\ (given("batch") # {} \/ given("source") # {} \/ all # <<>>)
    BY <2>5, <2>6
  <2> HIDE DEF first, given, all, g
  <2>10. IngestBody(tail).args[1] = first
    BY <2>8
  <2>11. QED
    BY <2>9, <2>10
<1>2. /\ g.value \cup g.multi = {"source", "batch", "collection", "title"}
      /\ g.known = {"source", "batch", "collection", "title", "force"}
  BY DEF IngestGrammar, Grammar
<1>3. tail \in Seq(Tokens[prompt]) /\ Len(tail) \in Nat /\ Scanned(tail) \in SUBSET (1 .. Len(tail))
  BY Typed, ScannedPlaces
<1> HIDE DEF g
<1>4. ASSUME NEW key \in {"source", "batch"}, given(key) # {}
      PROVE  /\ tail[Max(given(key))].key \in {"source", "batch"}
             /\ tail[Max(given(key))].form \in {"long", "longeq"}
             /\ tail[Max(given(key))].form = "long" =>
                   Max(given(key)) < Len(tail) /\ ~Dashes(tail[Max(given(key)) + 1])
  <2>1. given(key) \in SUBSET (1 .. Len(tail))
    BY <1>3 DEF Repeats
  <2>2. IsFiniteSet(given(key)) /\ given(key) \in SUBSET Nat
    <3>1. IsFiniteSet(1 .. Len(tail)) /\ 1 .. Len(tail) \in SUBSET Nat
      BY <1>3, FS_Interval
    <3> HIDE DEF given
    <3>2. QED
      BY <2>1, <3>1, FS_Subset
  <2>3. Max(given(key)) \in given(key)
    BY <1>4, <2>2, MinAndMax
  <2> DEFINE i == Max(given(key))
  <2>4. /\ i \in Scanned(tail) /\ tail[i].key = key /\ TakesValue(g, tail[i])
        /\ tail[i].form = "longeq" \/ (i \in DOMAIN Taken(tail, g) /\ Taken(tail, g)[i] # {})
    BY <2>3 DEF Repeats
  <2> HIDE DEF i
  <2>5. ASSUME tail[i].form = "long" PROVE i < Len(tail) /\ ~Dashes(tail[i + 1])
    <3>1. i \in DOMAIN Taken(tail, g)
      BY <2>4, <2>5
    <3>2. PICK k : k \in Taken(tail, g)[i]
      BY <2>4, <2>5
    <3>3. k \in (i + 1) .. Len(tail) /\ \A j \in (i + 1) .. k : ~Dashes(tail[j])
      BY <3>1, <3>2, TakenPlaces
    <3>4. i + 1 \in (i + 1) .. k /\ i < Len(tail)
      BY <1>3, <2>4, <3>3
    <3>5. QED
      BY <3>3, <3>4
  <2>6. tail[i].form \in {"long", "longeq"}
    BY <2>4, TakenPlaces
  <2>7. QED
    BY <2>4, <2>5, <2>6 DEF i
<1>5. ASSUME all # <<>>, all[1] \in Scanned(tail)
      PROVE  /\ tail[all[1]].form \in {"word", "filter"}
             /\ all[1] > 1 => tail[all[1] - 1].form # "long" \/ tail[all[1] - 1].key = "force"
  <2> DEFINE i == all[1]
  <2>1. /\ all \in Seq(1 .. Len(tail)) /\ 1 \in 1 .. Len(all) /\ i \in 1 .. Len(tail)
        /\ \A k \in 1 .. Len(all) : IsPositional(tail, g, all[k])
    <3>1. all \in Seq(1 .. Len(tail)) /\ \A k \in 1 .. Len(all) : IsPositional(tail, g, all[k])
      BY <1>3, PositionalsAre
    <3> HIDE DEF all
    <3>2. QED
      BY <1>5, <3>1
  <2>2. i \notin Values(tail, g) /\ tail[i].form \in {"word", "filter"} /\ ~Dashes(tail[i])
    <3>1. IsPositional(tail, g, i)
      BY <2>1
    <3> HIDE DEF i
    <3>2. QED
      BY <1>5, <3>1 DEF IsPositional, Dashes, i
  <2>3. ASSUME i > 1, tail[i - 1].form = "long" PROVE tail[i - 1].key = "force"
    <3> DEFINE j == i - 1
    <3>1. j \in 1 .. (Len(tail) - 1) /\ j + 1 = i /\ j \in Nat
      BY <1>3, <2>1, <2>3
    <3>2. j \in Scanned(tail)
      <4>1. \A m \in 1 .. i : tail[m] # Stop
        BY <1>3, <1>5, <2>1, ScannedPlaces
      <4>2. \A m \in 1 .. j : m \in 1 .. i
        BY <3>1
      <4>3. QED
        BY <1>3, <3>1, <4>1, <4>2, ScannedPlaces
    <3> HIDE DEF j, i
    <3>3. ~TakesValue(g, tail[j])
      <4> SUFFICES ASSUME TakesValue(g, tail[j]) PROVE FALSE
        OBVIOUS
      <4>1. j \in DOMAIN Taken(tail, g)
        BY <2>3, <3>2, TakenPlaces DEF j
      <4>2. i \in (j + 1) .. Len(tail) /\ i = j + 1 /\ \A m \in (j + 1) .. i : m = i
        BY <2>1, <3>1
      <4>3. i \in Taken(tail, g)[j]
        BY <2>2, <4>1, <4>2, TakenPlaces
      <4>4. QED
        BY <2>2, <4>1, <4>3, TakenPlaces
    <3>4. tail[j].key \notin g.known => FALSE
      <4> SUFFICES ASSUME tail[j].key \notin g.known PROVE FALSE
        OBVIOUS
      <4>1. all[1] # j + 1
        BY <1>1, <1>2, <2>1, <2>3, <3>1, <3>2, UnknownsWord DEF j
      <4>2. QED
        BY <3>1, <4>1 DEF i
    <3>5. QED
      BY <1>2, <3>3, <3>4 DEF TakesValue, j
  <2>4. QED
    BY <2>2, <2>3
<1> HIDE DEF all, given
<1>6. CASE given("batch") # {}
  BY <1>1, <1>4, <1>6
<1>7. CASE given("batch") = {} /\ given("source") # {}
  BY <1>1, <1>4, <1>7
<1>8. CASE given("batch") = {} /\ given("source") = {}
  <2>1. all # <<>> /\ first = all[1]
    BY <1>1, <1>8
  <2>2. QED
    BY <1>1, <1>5, <2>1
<1>9. QED
  BY <1>6, <1>7, <1>8

\* A sync renders each flag: had it an unknown one, it would be refused.
LEMMA CarriesFlags == TailTypeOK => SyncCarriesFlags
<1> DEFINE g == SyncGrammar
           args == Positionals(tail, g)
<1> SUFFICES ASSUME TailTypeOK, prompt = "sync", ~SyncBody(tail).refused, NEW i \in Scanned(tail),
                    tail[i].form \in {"long", "longeq", "short"} \/ (tail[i].form = "filter" /\ tail[i].key = "-")
             PROVE  i \in SyncBody(tail).shown \/ SaidAgain(tail, g, i)
  BY DEF SyncCarriesFlags
<1>1. g.multi = {} /\ g.value \subseteq g.known
  BY DEF SyncGrammar, Grammar
<1>2. ~Refuses(tail, g, args, TRUE) /\ SyncBody(tail).shown = Rendered(tail, g, g.known)
  <2>1. \A a, b : Command(a, b).shown = b
    BY DEF Command
  <2>2. Refusal.refused
    BY DEF Refusal
  <2>3. QED
    BY <2>1, <2>2 DEF SyncBody
<1> HIDE DEF g
<1>3. Missing(tail, g) = {} /\ Unknown(tail, g) = {}
  BY <1>2 DEF Refuses
<1>4. CASE i \in Values(tail, g)
  BY <1>1, <1>2, <1>4, FlagsRendered
<1>5. CASE tail[i].form \in {"long", "longeq"} /\ TakesValue(g, tail[i])
  BY <1>1, <1>2, <1>3, <1>5, FlagsRendered
<1>6. CASE /\ i \notin Values(tail, g)
           /\ IsShort(tail[i]) \/ (tail[i].form \in {"long", "longeq"} /\ ~TakesValue(g, tail[i]))
  BY <1>1, <1>2, <1>3, <1>6, FlagsRendered
<1>7. QED
  BY <1>4, <1>5, <1>6 DEF IsShort

\* What marks a reindex destructive is a flag that is seen, or a word that is kept.
LEMMA Confirms == TailTypeOK => DestructiveIsConfirmed
<1> DEFINE g == ReindexGrammar
<1> SUFFICES ASSUME TailTypeOK, NEW i \in 1 .. Len(tail),
                    \/ tail[i] = Bare("all") /\ (i > 1 => tail[i - 1] # Long("name"))
                    \/ tail[i] \in {Long("all"), Long("cleanup")} /\ i \in Scanned(tail)
             PROVE  ReindexConfirmed(tail)
  BY DEF DestructiveIsConfirmed
<1>1. g.value = {"name"} /\ g.multi = {}
  BY DEF ReindexGrammar, Grammar
<1>2. tail \in Seq(Tokens[prompt]) /\ Len(tail) \in Nat
  BY Typed
<1>3. /\ Bare("all").form = "word" /\ Long("all").form = "long" /\ Long("cleanup").form = "long"
      /\ Long("all").key = "all" /\ Long("cleanup").key = "cleanup" /\ Stop.form = "stop"
  BY DEF Bare, Long, Stop, Token
<1> HIDE DEF g
<1>4. CASE tail[i] = Bare("all") /\ (i > 1 => tail[i - 1] # Long("name"))
  <2>1. IsPositional(tail, g, i)
    <3>1. CASE i \notin Scanned(tail)
      BY <1>3, <1>4, <3>1, AfterStop
    <3>2. CASE i \in Scanned(tail)
      <4> SUFFICES ASSUME i \in Values(tail, g) PROVE FALSE
        BY <1>3, <1>4, <3>2 DEF IsPositional
      <4>1. PICK j \in DOMAIN Taken(tail, g) : i \in Taken(tail, g)[j]
        BY TakenPlaces
      <4>2. j \in 1 .. Len(tail) /\ i = j + 1 /\ tail[j].form = "long" /\ tail[j].key = "name"
        BY <1>1, <1>2, <4>1, TakenPlaces, ScannedPlaces DEF TakesValue
      <4>3. i > 1 /\ i - 1 = j
        BY <4>2
      <4>4. tail[j] = Long("name")
        BY <4>2, Typed
      <4>5. QED
        BY <1>4, <4>3, <4>4
    <3>3. QED
      BY <3>1, <3>2
  <2>2. i \in Range(Positionals(tail, g))
    BY <1>2, <2>1, PositionalsAre
  <2>3. QED
    BY <1>4, <2>2 DEF ReindexConfirmed, g
<1>5. CASE tail[i] \in {Long("all"), Long("cleanup")} /\ i \in Scanned(tail)
  <2>1. i \notin Values(tail, g)
    <3> SUFFICES ASSUME NEW j \in DOMAIN Taken(tail, g), i \in Taken(tail, g)[j] PROVE FALSE
      BY TakenPlaces
    <3>1. i \in (j + 1) .. Len(tail) /\ \A m \in (j + 1) .. i : ~Dashes(tail[m])
      BY TakenPlaces
    <3>2. j \in 1 .. Len(tail)
      BY <1>2, TakenPlaces, ScannedPlaces
    <3>3. i \in (j + 1) .. i
      BY <3>1, <3>2
    <3>4. QED
      BY <1>3, <1>5, <3>1, <3>3 DEF Dashes
  <2>2. tail[i].form = "long" /\ tail[i].key \in {"all", "cleanup"} /\ ~TakesValue(g, tail[i])
    BY <1>1, <1>3, <1>5 DEF TakesValue
  <2>3. i \in Booleans(tail, g)
    BY <1>5, <2>1, <2>2 DEF Booleans
  <2>4. KeyOf(tail[i]) \in {"cleanup", "all"}
    BY <2>2 DEF KeyOf
  <2>5. QED
    BY <2>3, <2>4 DEF ReindexConfirmed, g
<1>6. QED
  BY <1>4, <1>5

\* What is cut off a question ends before its first word.
LEMMA KeepsWords == TailTypeOK => QuestionKeepsWords
<1> DEFINE text == IF prompt = "ask" THEN AskText(tail) ELSE GroundText(tail)
           prose == {i \in 1 .. Len(tail) :
                       /\ tail[i].form = "word"
                       /\ prompt = "ground" => i = 1 \/ tail[i - 1] # Long("top_k")}
<1> SUFFICES ASSUME TailTypeOK, prompt \in {"ask", "ground"}, prose # {},
                    NEW i \in 1 .. Len(tail), i >= Min(prose)
             PROVE  i \in text
  BY DEF QuestionKeepsWords
<1> DEFINE m == Min(prose)
<1>1. Len(tail) \in Nat /\ tail \in Seq(Tokens[prompt])
  BY Typed
<1>2. IsFiniteSet(1 .. Len(tail)) /\ 1 .. Len(tail) \in SUBSET Nat
  BY <1>1, FS_Interval
<1>3. m \in prose
  <2>1. prose \in SUBSET (1 .. Len(tail))
    OBVIOUS
  <2> HIDE DEF prose
  <2>2. QED
    BY <1>2, <2>1, FS_Subset, MinAndMax
<1>4. /\ m \in 1 .. Len(tail) /\ m <= i /\ tail[m].form = "word"
      /\ prompt = "ground" => m = 1 \/ tail[m - 1] # Long("top_k")
  BY <1>1, <1>3
<1> HIDE DEF m, prose
<1>5. \A places : m \in places => i \notin LeadingFilters(tail, places)
  BY <1>4 DEF LeadingFilters
<1>6. CASE prompt = "ask"
  BY <1>4, <1>5, <1>6 DEF AskText
<1>7. CASE prompt = "ground"
  <2> DEFINE run == LeadingRun(tail)
             after == IF run = {} THEN 0 ELSE Max(run)
             start == IF after < Len(tail) /\ tail[after + 1] = Stop THEN after + 1 ELSE after
             rest == {j \in 1 .. Len(tail) : j > start /\ j \notin run}
  <2>1. GroundText(tail) = rest \ LeadingFilters(tail, rest)
    BY DEF GroundText
  <2>2. run \in SUBSET (1 .. Len(tail)) /\ \A j \in run : j < m
    <3>1. run \in SUBSET (1 .. Len(tail))
      BY <1>1, ScannedPlaces DEF LeadingRun
    <3>2. ASSUME NEW j \in run, ~(j < m) PROVE FALSE
      <4>1. j \in 1 .. Len(tail) /\ m \in 1 .. j
        BY <1>1, <1>4, <3>1, <3>2
      <4>2. \/ tail[m].form \in {"long", "longeq", "filter"}
            \/ m > 1 /\ tail[m - 1] = Long("top_k") /\ ~Dashes(tail[m])
        BY <4>1 DEF LeadingRun
      <4>3. QED
        BY <1>4, <1>7, <4>1, <4>2
    <3>3. QED
      BY <3>1, <3>2
  <2> HIDE DEF run
  <2>3. after \in 0 .. (m - 1)
    <3>1. IsFiniteSet(run) /\ run \in SUBSET Nat
      BY <1>2, <2>2, FS_Subset
    <3>2. run # {} => Max(run) \in run
      BY <3>1, MinAndMax
    <3>3. run # {} => Max(run) \in 1 .. Len(tail) /\ Max(run) < m
      BY <2>2, <3>2
    <3>4. m \in Nat /\ 1 <= m
      BY <1>1, <1>4
    <3> DEFINE last == Max(run)
    <3>5. run # {} => last \in Nat /\ last < m
      BY <1>1, <3>3
    <3> HIDE DEF last
    <3>6. QED
      BY <3>4, <3>5 DEF last
  <2>4. start < m /\ start \in Nat
    <3>1. Stop.form = "stop"
      BY DEF Stop, Token
    <3>2. after + 1 = m => tail[after + 1] # Stop
      BY <1>4, <3>1
    <3> HIDE DEF after
    <3>3. QED
      BY <1>1, <1>4, <2>3, <3>2
  <2> HIDE DEF start
  <2>5. m \in rest /\ i \in rest
    <3>1. m > start /\ i > start /\ m \notin run /\ i \notin run
      BY <1>1, <1>4, <2>2, <2>4
    <3>2. QED
      BY <1>4, <3>1
  <2> HIDE DEF rest
  <2>6. QED
    BY <1>5, <1>7, <2>1, <2>5
<1>8. QED
  BY <1>6, <1>7

\* A tail is typed token by token.
LEMMA TailKeeps == ASSUME TailTypeOK, [TailNext]_tailVars PROVE TailTypeOK'
<1>1. CASE TailNext
  <2>1. prompt' = prompt /\ Len(tail) < MaxTokens
    BY <1>1 DEF TailNext, TypesToken
  <2>2. PICK t \in Tokens[prompt] : tail' = Append(tail, t)
    BY <1>1 DEF TailNext, TypesToken
  <2>3. tail' \in Seq(Tokens[prompt]) /\ Len(tail') = Len(tail) + 1
    BY <2>2 DEF TailTypeOK
  <2>4. Len(tail') <= MaxTokens
    BY <2>1, <2>3, TailAssumption DEF TailTypeOK
  <2>5. QED
    BY <2>1, <2>3, <2>4 DEF TailTypeOK
<1>2. CASE UNCHANGED tailVars
  BY <1>2 DEF tailVars, TailTypeOK
<1>3. QED
  BY <1>1, <1>2

\* Together, for every tail there is.
LEMMA TailsKeep == TailTypeOK => TailsAreKept
BY LosesNothing, IngestShows, UndeclaredAsks, NamesItsSource, CarriesFlags, Confirms, KeepsWords DEF TailsAreKept

-------------------------------------------------------------------------------
(* The theorems *)

\* Whichever part a behaviour runs, each of the five takes its own steps only.
LEMMA EachItsOwn ==
    ASSUME [RequestsNext]_requestVars
    PROVE  /\ [McpNext]_daemonVars /\ [S!SyncNext]_syncing /\ [L!AskNext]_asking
           /\ [TailNext]_tailVars /\ [RetrievalNext]_retrievalVars
BY DEF RequestsNext, requestVars

\* For any number of commands and daemons, while no command at work has lost its
\* lock's file: a daemon of this wiki that lives is recorded or waited for, unless
\* the code lost sight of it where NoneUntracked says (an `up` that died, was
\* interrupted, could not write, or did not get rid of its child), and a record
\* names a daemon that has listened (mcp/daemon.py spawn_daemon, _kill_now,
\* stop_daemon).
THEOREM DaemonIsTracked == RequestsSpec => []DaemonTracked
<1>1. RequestsInit => DaemonInv
  BY DaemonStarts DEF RequestsInit
<1>2. DaemonInv /\ [RequestsNext]_requestVars => DaemonInv'
  BY EachItsOwn, PortKeeps, TrackingKeeps DEF DaemonInv
<1>3. DaemonInv => DaemonTracked
  BY DEF DaemonInv, PortInv, DaemonTracked
<1>4. QED
  BY <1>1, <1>2, <1>3, PTL DEF RequestsSpec

\* Until the lock file of a command at work has been unlinked by a contender, the
\* record of a daemon that lives is neither overwritten nor removed, whatever dies,
\* fails or is interrupted, and after any takeover of a dead command's file
\* (mcp/daemon.py is_stale, stop_daemon; utils/exclusive.py acquire_create_lock).
THEOREM RecordKeptWhileAlive == RequestsSpec => TrackedUntilGone
<1>1. RequestsInit => RecordInv
  BY RecordStarts DEF RequestsInit
<1>2. RecordInv /\ [RequestsNext]_requestVars => RecordInv'
  BY EachItsOwn, RecordKeeps
<1>3. RecordInv /\ [RequestsNext]_requestVars => [DaemonKept]_daemonVars
  BY EachItsOwn, RecordIsKept
<1>4. QED
  <2>1. RequestsSpec => [][DaemonKept]_daemonVars
    BY <1>1, <1>2, <1>3, PTL DEF RequestsSpec
  <2>2. QED
    BY <2>1, PTL DEF TrackedUntilGone, DaemonKept

\* One sync at a time is inside, until one of them has been at it for the hour
\* the others take for a death, or until a contender for an orphan's file has
\* unlinked the file of another who took it over before it; a heartbeat means a
\* lock behind it (etl/sync_helper.py acquire_heartbeat, utils/exclusive.py
\* acquire_create_lock).
THEOREM SyncIsOne == RequestsSpec => []SyncExclusive
<1>1. RequestsInit => SyncInv
  BY SyncStarts DEF RequestsInit
<1>2. SyncInv /\ [RequestsNext]_requestVars => SyncInv'
  BY EachItsOwn, SyncKeeps
<1>3. QED
  BY <1>1, <1>2, SyncIsExclusive, PTL DEF RequestsSpec

\* Whatever the librarian and the synthesizer make up, and however collections
\* and files come and go meanwhile: the excerpts a synthesizer is given and the
\* claims the orchestrator keeps were returned to their own request (the citations
\* of lib_ask are its model's own), a failed search is never told as a miss, a
\* digest that says the library has nothing has searched some of it, a grounded
\* digest and the library's pages of an extractive answer stay in their scope, and
\* an extractive answer cites each page once and calls itself ungrounded only when
\* no page is the library's (agents/librarian.py, orchestrator.py,
\* mcp/grounding.py, query/synthesizer.py).
THEOREM AnswersHold == RequestsSpec => []AnswersAreFounded
<1>1. RequestsInit => AskInv /\ RetrievalInv
  BY AskStarts, RetrievalStarts DEF RequestsInit
<1>2. AskInv /\ RetrievalInv /\ [RequestsNext]_requestVars => (AskInv /\ RetrievalInv)'
  BY EachItsOwn, AskKeeps, RetrievalKeeps
<1>3. AskInv /\ RetrievalInv => AnswersAreFounded
  BY AnswersAre, RetrievalTells DEF FoundedOnSearches, AnswersAreFounded
<1>4. QED
  BY <1>1, <1>2, <1>3, PTL DEF RequestsSpec

\* Of every tail of every length, over any words and flags: nothing the user typed
\* after a library verb or for an ingest of one source vanishes, but for an earlier
\* --source and single-dash spellings of value flags; an unknown flag never eats an
\* argument, an ingest reads what was named, a sync keeps its flags, what deletes is
\* confirmed, and a question keeps its words (mcp/prompts_impl.py).
THEOREM TailsHold == RequestsSpec => []TailsAreKept
<1>1. RequestsInit => TailTypeOK
  <2>1. TailInit => prompt \in Prompts /\ tail = <<>> /\ Len(<<>>) = 0 /\ 0 <= MaxTokens
    BY TailAssumption DEF TailInit
  <2>2. QED
    BY <2>1 DEF RequestsInit, TailTypeOK
<1>2. TailTypeOK /\ [RequestsNext]_requestVars => TailTypeOK'
  BY EachItsOwn, TailKeeps
<1>3. QED
  BY <1>1, <1>2, TailsKeep, PTL DEF RequestsSpec
===============================================================================
