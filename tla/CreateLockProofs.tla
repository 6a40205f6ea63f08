--------------------------- MODULE CreateLockProofs ---------------------------
(***************************************************************************)
(* Theorems about CreateLock for any number of threads and processes.      *)
(***************************************************************************)
EXTENDS CreateLock, TLAPS

\* Processes that stay alive while anyone may still look at their pid, nobody
\* forcing the lock, and - where same-pid self-recovery is on - one contender
\* per process.
Cooperative ==
    /\ Exiting = {} /\ Crashing = {} /\ Forcers = {} /\ Operators = {}
    /\ SelfAcquireIsStale => \A t, u \in Threads : ProcOf[t] = ProcOf[u] => t = u

-----------------------------------------------------------------------------
(* What holds of every instance, crashes and force-repairs included *)

\* The files and the threads keep their types, whoever crashes or repairs.
THEOREM TypeCorrect == Spec => []TypeOK
<1>1. Init => TypeOK
  BY ConstantsAssumption DEF Init, TypeOK, States
<1>2. TypeOK /\ [Next]_vars => TypeOK'
  <2> SUFFICES ASSUME TypeOK, [Next]_vars PROVE TypeOK'
    OBVIOUS
  <2> USE ConstantsAssumption DEF TypeOK, States, OwningStates, ReapingStates, Outcomes, Goto, files
  <2>1. ASSUME NEW t \in Threads, Acquire(t) PROVE TypeOK'
    BY <2>1 DEF Acquire, CreateWins, CreateFails, ReadPid, Judge, AfterWin, Verdict
  <2>2. ASSUME NEW t \in Threads, Reap(t) PROVE TypeOK'
    BY <2>2 DEF Reap, ReapState, ReapPid, ReapLock, Retry, AfterWin
  <2>3. ASSUME NEW t \in Threads, Register(t) PROVE TypeOK'
    BY <2>3 DEF Register, WritePid, WriteHeartbeat, RegisterFails
  <2>4. ASSUME NEW t \in Threads, Release(t) PROVE TypeOK'
    BY <2>4 DEF Release, Leave, ReleaseState, ReleasePid, ReleaseLock
  <2>5. ASSUME NEW t \in Threads, Operate(t) \/ Return(t) PROVE TypeOK'
    BY <2>5 DEF Operate, OperatorStart, OperatorRetry, Return
  <2>6. ASSUME NEW p \in Procs, Exit(p) \/ Crash(p) PROVE TypeOK'
    BY <2>6 DEF Exit, Crash, Stop
  <2>7. ASSUME Age \/ UNCHANGED vars PROVE TypeOK'
    BY <2>7 DEF Age, vars
  <2>8. QED
    BY <2>1, <2>2, <2>3, <2>4, <2>5, <2>6, <2>7 DEF Next, Step
<1>3. QED
  BY <1>1, <1>2, PTL DEF Spec

\* A thread that judges, or reaps on its verdict, did read a pid.
ReadsPid ==
    \A t \in Threads \ (Forcers \cup Operators) :
        pc[t] \in {"judge"} \cup ReapingStates => seen[t] \in Procs

LEMMA JudgesRead == Spec => []ReadsPid
<1>1. Init => ReadsPid
  BY DEF Init, ReadsPid, ReapingStates
<1>2. TypeOK /\ ReadsPid /\ [Next]_vars => ReadsPid'
  <2> SUFFICES ASSUME TypeOK, ReadsPid, [Next]_vars PROVE ReadsPid'
    OBVIOUS
  <2> USE ConstantsAssumption DEF TypeOK, ReadsPid, States, OwningStates, ReapingStates, Outcomes, Goto, files
  <2>1. ASSUME NEW t \in Threads, Acquire(t) PROVE ReadsPid'
    BY <2>1 DEF Acquire, CreateWins, CreateFails, ReadPid, Judge, AfterWin, Verdict
  <2>2. ASSUME NEW t \in Threads, Reap(t) PROVE ReadsPid'
    BY <2>2 DEF Reap, ReapState, ReapPid, ReapLock, Retry, AfterWin
  <2>3. ASSUME NEW t \in Threads, Register(t) PROVE ReadsPid'
    BY <2>3 DEF Register, WritePid, WriteHeartbeat, RegisterFails
  <2>4. ASSUME NEW t \in Threads, Release(t) PROVE ReadsPid'
    BY <2>4 DEF Release, Leave, ReleaseState, ReleasePid, ReleaseLock
  <2>5. ASSUME NEW t \in Threads, Operate(t) \/ Return(t) PROVE ReadsPid'
    BY <2>5 DEF Operate, OperatorStart, OperatorRetry, Return
  <2>6. ASSUME NEW p \in Procs, Exit(p) \/ Crash(p) PROVE ReadsPid'
    BY <2>6 DEF Exit, Crash, Stop
  <2>7. ASSUME Age \/ UNCHANGED vars PROVE ReadsPid'
    BY <2>7 DEF Age, vars
  <2>8. QED
    BY <2>1, <2>2, <2>3, <2>4, <2>5, <2>6, <2>7 DEF Next, Step
<1>3. QED
  BY <1>1, <1>2, TypeCorrect, PTL DEF Spec

\* A thread deletes the envelope on its own verdict only when the pid it read
\* is dead, or is its own under self-recovery: a live holder is never judged
\* stale, whatever its heartbeat says.
THEOREM NeverReapsLive == Spec => []ReapsOnlyStale
<1>1. Init => ReapsOnlyStale
  BY DEF Init, ReapsOnlyStale, ReapingStates
<1>2. TypeOK /\ ReadsPid /\ ReapsOnlyStale /\ [Next]_vars => ReapsOnlyStale'
  <2> SUFFICES ASSUME TypeOK, ReadsPid, ReapsOnlyStale, [Next]_vars PROVE ReapsOnlyStale'
    OBVIOUS
  <2> USE ConstantsAssumption DEF TypeOK, ReadsPid, ReapsOnlyStale, States, OwningStates,
                                  ReapingStates, Outcomes, Goto, files
  <2>1. ASSUME NEW t \in Threads, Acquire(t) PROVE ReapsOnlyStale'
    BY <2>1 DEF Acquire, CreateWins, CreateFails, ReadPid, Judge, AfterWin, Verdict, Liveness
  <2>2. ASSUME NEW t \in Threads, Reap(t) PROVE ReapsOnlyStale'
    BY <2>2 DEF Reap, ReapState, ReapPid, ReapLock, Retry, AfterWin
  <2>3. ASSUME NEW t \in Threads, Register(t) PROVE ReapsOnlyStale'
    BY <2>3 DEF Register, WritePid, WriteHeartbeat, RegisterFails
  <2>4. ASSUME NEW t \in Threads, Release(t) PROVE ReapsOnlyStale'
    BY <2>4 DEF Release, Leave, ReleaseState, ReleasePid, ReleaseLock
  <2>5. ASSUME NEW t \in Threads, Operate(t) \/ Return(t) PROVE ReapsOnlyStale'
    BY <2>5 DEF Operate, OperatorStart, OperatorRetry, Return
  <2>6. ASSUME NEW p \in Procs, Exit(p) \/ Crash(p) PROVE ReapsOnlyStale'
    BY <2>6 DEF Exit, Crash, Stop
  <2>7. ASSUME Age \/ UNCHANGED vars PROVE ReapsOnlyStale'
    BY <2>7 DEF Age, vars
  <2>8. QED
    BY <2>1, <2>2, <2>3, <2>4, <2>5, <2>6, <2>7 DEF Next, Step
<1>3. QED
  BY <1>1, <1>2, TypeCorrect, JudgesRead, PTL DEF Spec

\* qmd's call site releases what it won whatever fails in between, and only a
\* process that ended leaves its sentinel behind.
KeptOnlyInside == \A t \in Threads : sentinel = t => pc[t] \in OwningStates \cup {"gone"}

LEMMA KeptInside == ASSUME Caller = "qmd", Operators = {} PROVE Spec => []KeptOnlyInside
<1>1. Init => KeptOnlyInside
  BY ConstantsAssumption DEF Init, KeptOnlyInside
<1>2. TypeOK /\ KeptOnlyInside /\ [Next]_vars => KeptOnlyInside'
  <2> SUFFICES ASSUME TypeOK, KeptOnlyInside, [Next]_vars PROVE KeptOnlyInside'
    OBVIOUS
  <2> USE ConstantsAssumption DEF TypeOK, KeptOnlyInside, OwningStates, ReapingStates, Outcomes, Goto, files
  <2>1. ASSUME NEW t \in Threads, Acquire(t) PROVE KeptOnlyInside'
    BY <2>1 DEF Acquire, CreateWins, CreateFails, ReadPid, Judge, AfterWin, Verdict
  <2>2. ASSUME NEW t \in Threads, Reap(t) PROVE KeptOnlyInside'
    BY <2>2 DEF Reap, ReapState, ReapPid, ReapLock, Retry, AfterWin
  <2>3. ASSUME NEW t \in Threads, Register(t) PROVE KeptOnlyInside'
    BY <2>3 DEF Register, WritePid, WriteHeartbeat, RegisterFails
  <2>4. ASSUME NEW t \in Threads, Release(t) PROVE KeptOnlyInside'
    BY <2>4 DEF Release, Leave, ReleaseState, ReleasePid, ReleaseLock
  <2>5. ASSUME NEW t \in Threads, Operate(t) \/ Return(t) PROVE KeptOnlyInside'
    BY <2>5 DEF Operate, OperatorStart, OperatorRetry, Return
  <2>6. ASSUME NEW p \in Procs, Exit(p) \/ Crash(p) PROVE KeptOnlyInside'
    BY <2>6 DEF Exit, Crash, Stop
  <2>7. ASSUME Age \/ UNCHANGED vars PROVE KeptOnlyInside'
    BY <2>7 DEF Age, vars
  <2>8. QED
    BY <2>1, <2>2, <2>3, <2>4, <2>5, <2>6, <2>7 DEF Next, Step
<1>3. QED
  BY <1>1, <1>2, TypeCorrect, PTL DEF Spec

\* A force-repair of qmd's lock that has returned has not kept the lock, with
\* processes that exit and crash and contenders that force it at once.
THEOREM RepairReleases == ASSUME Caller = "qmd", Operators = {} PROVE Spec => []RepairLeavesLockFree
<1>1. KeptOnlyInside => RepairLeavesLockFree
  BY ConstantsAssumption DEF KeptOnlyInside, RepairLeavesLockFree, OwningStates
<1>2. QED
  BY <1>1, KeptInside, PTL

-----------------------------------------------------------------------------
(* The lock among cooperating processes *)

LEMMA CooperativeInit == Init => CooperativeInv
BY ConstantsAssumption
   DEF Init, CooperativeInv, TypeOK, States, AllAlive, OwnerKeepsSentinel, Owns, OwningStates,
       PidHasSentinel, JudgesOwnLeak, ReapsOwnLeak, PidGoneBeforeSentinel

LEMMA CooperativeStep ==
    ASSUME Cooperative, CooperativeInv, [Next]_vars
    PROVE  CooperativeInv'
<1> USE ConstantsAssumption
    DEF Cooperative, CooperativeInv, TypeOK, States, OwningStates, ReapingStates, Outcomes,
        Goto, files, AllAlive, OwnerKeepsSentinel, Owns, PidHasSentinel, JudgesOwnLeak,
        ReapsOwnLeak, PidGoneBeforeSentinel
<1>1. ASSUME NEW t \in Threads, CreateWins(t) PROVE CooperativeInv'
  BY <1>1 DEF CreateWins, AfterWin
<1>2. ASSUME NEW t \in Threads, CreateFails(t) PROVE CooperativeInv'
  BY <1>2 DEF CreateFails
<1>3. ASSUME NEW t \in Threads, ReadPid(t) PROVE CooperativeInv'
  BY <1>3 DEF ReadPid
<1>4. ASSUME NEW t \in Threads, Judge(t) PROVE CooperativeInv'
  BY <1>4 DEF Judge, Verdict, Liveness
<1>5. ASSUME NEW t \in Threads, ReapState(t) PROVE CooperativeInv'
  BY <1>5 DEF ReapState
<1>6. ASSUME NEW t \in Threads, ReapPid(t) PROVE CooperativeInv'
  BY <1>6 DEF ReapPid
<1>7. ASSUME NEW t \in Threads, ReapLock(t) PROVE CooperativeInv'
  BY <1>7 DEF ReapLock
<1>8. ASSUME NEW t \in Threads, Retry(t) PROVE CooperativeInv'
  BY <1>8 DEF Retry, AfterWin
<1>9. ASSUME NEW t \in Threads, Register(t) PROVE CooperativeInv'
  BY <1>9 DEF Register, WritePid, WriteHeartbeat, RegisterFails
<1>10. ASSUME NEW t \in Threads, Release(t) PROVE CooperativeInv'
  BY <1>10 DEF Release, Leave, ReleaseState, ReleasePid, ReleaseLock
<1>11. ASSUME NEW t \in Threads, Operate(t) \/ Return(t) PROVE CooperativeInv'
  BY <1>11 DEF Operate, OperatorStart, OperatorRetry, Return
<1>12. ASSUME NEW p \in Procs, Exit(p) \/ Crash(p) PROVE CooperativeInv'
  BY <1>12 DEF Exit, Crash
<1>13. ASSUME Age \/ UNCHANGED vars PROVE CooperativeInv'
  BY <1>13 DEF Age, vars
<1>14. QED
  BY <1>1, <1>2, <1>3, <1>4, <1>5, <1>6, <1>7, <1>8, <1>9, <1>10, <1>11, <1>12, <1>13
     DEF Next, Step, Acquire, Reap

THEOREM CooperativeInvariant == ASSUME Cooperative PROVE Spec => []CooperativeInv
<1>1. CooperativeInv /\ [Next]_vars => CooperativeInv'
  BY CooperativeStep
<1>2. QED
  BY <1>1, CooperativeInit, PTL DEF Spec

\* Two threads never both believe they hold the lock, as long as no process
\* ends while its pid may still be judged and the lock is not forced.
THEOREM Exclusive == ASSUME Cooperative PROVE Spec => []MutualExclusion
<1>1. CooperativeInv => MutualExclusion
  BY DEF CooperativeInv, OwnerKeepsSentinel, MutualExclusion
<1>2. QED
  BY <1>1, CooperativeInvariant, PTL

-----------------------------------------------------------------------------
(* The three files implement the abstract lock *)

LEMMA InitMaps == Init => Abstract!Init
BY DEF Init, Abstract!Init

LEMMA StepMaps ==
    ASSUME Cooperative, CooperativeInv, [Next]_vars
    PROVE  [Abstract!Next]_<<sentinel, {t \in Threads : pc[t] = "held"}>>
<1> DEFINE Inside == {t \in Threads : pc[t] = "held"}
           Maps == [Abstract!Next]_<<sentinel, Inside>>
<1> USE ConstantsAssumption
    DEF Cooperative, CooperativeInv, TypeOK, OwnerKeepsSentinel, Owns, OwningStates, Outcomes,
        ReapsOwnLeak, Goto, files
<1>1. ASSUME NEW t \in Threads, CreateWins(t) PROVE Maps
  <2>1. sentinel = NoThread /\ sentinel' = t /\ Inside' = Inside
    BY <1>1 DEF CreateWins, AfterWin
  <2>2. QED
    BY <2>1 DEF Abstract!Next, Abstract!Take
<1>2. ASSUME NEW t \in Threads, Retry(t) PROVE Maps
  <2>1. Inside' = Inside /\ (sentinel' = sentinel \/ (sentinel = NoThread /\ sentinel' = t))
    BY <1>2 DEF Retry, AfterWin
  <2>2. QED
    BY <2>1 DEF Abstract!Next, Abstract!Take
<1>3. ASSUME NEW t \in Threads, WriteHeartbeat(t) \/ RegisterFails(t) PROVE Maps
  <2>1. sentinel = t /\ sentinel' = sentinel /\ (Inside' = Inside \/ Inside' = Inside \cup {t})
    BY <1>3 DEF WriteHeartbeat, RegisterFails
  <2>2. QED
    BY <2>1 DEF Abstract!Next, Abstract!Enter
<1>4. ASSUME NEW t \in Threads, Leave(t) PROVE Maps
  <2>1. sentinel = t /\ sentinel' = sentinel /\ Inside' = Inside \ {t}
    BY <1>4 DEF Leave
  <2>2. QED
    BY <2>1 DEF Abstract!Next, Abstract!Exit
<1>5. ASSUME NEW t \in Threads, ReapLock(t) \/ ReleaseLock(t) PROVE Maps
  <2>1. sentinel = t /\ sentinel' = NoThread /\ t \notin Inside /\ Inside' = Inside
    BY <1>5 DEF ReapLock, ReleaseLock
  <2>2. QED
    BY <2>1 DEF Abstract!Next, Abstract!Give
<1>6. ASSUME NEW t \in Threads,
             \/ CreateFails(t) \/ ReadPid(t) \/ Judge(t) \/ ReapState(t) \/ ReapPid(t)
             \/ WritePid(t) \/ ReleaseState(t) \/ ReleasePid(t) \/ Return(t)
      PROVE Maps
  <2>1. sentinel' = sentinel /\ Inside' = Inside
    BY <1>6 DEF CreateFails, ReadPid, Judge, Verdict, ReapState, ReapPid, WritePid,
                ReleaseState, ReleasePid, Return
  <2>2. QED
    BY <2>1
<1>7. ASSUME \/ \E t \in Threads : Operate(t)
             \/ \E p \in Procs : Exit(p) \/ Crash(p)
             \/ Age \/ UNCHANGED vars
      PROVE Maps
  <2>1. sentinel' = sentinel /\ Inside' = Inside
    BY <1>7 DEF Operate, OperatorStart, OperatorRetry, Exit, Crash, Age, vars
  <2>2. QED
    BY <2>1
<1>8. Maps
  BY <1>1, <1>2, <1>3, <1>4, <1>5, <1>6, <1>7
     DEF Next, Step, Acquire, Reap, Register, Release
<1>9. QED
  BY <1>8

\* Callers of the create-lock can think of it as the abstract lock: taken when
\* free, entered and left by its holder, given back by its holder only.
THEOREM ImplementsLock == ASSUME Cooperative PROVE Spec => Implements
<1>1. CooperativeInv /\ [Next]_vars => [Abstract!Next]_<<sentinel, {t \in Threads : pc[t] = "held"}>>
  BY StepMaps
<1>2. QED
  BY <1>1, InitMaps, CooperativeInvariant, PTL DEF Spec, Implements, Abstract!Spec
-----------------------------------------------------------------------------
(* The lock among processes that exit and crash *)

\* Nobody forces the lock, and self-recovery has one contender per process.
Unforced ==
    /\ Forcers = {} /\ Operators = {}
    /\ SelfAcquireIsStale => \A t, u \in Threads : ProcOf[t] = ProcOf[u] => t = u

\* A thread that has read a pid and has not yet dropped the lock it judges by it.
Looking == {"judge", "reapState", "reapPid", "reapLock"}
NoneWinsMeanwhile ==
    \A t, u \in Threads : t # u /\ pc[u] \in Looking /\ sentinel' = t => sentinel = t

\* The dead take no step; the pid being judged is that of the sentinel's maker; and
\* who reaps, reaps the lock of the dead or its own leak.
DeadAreGone == \A t \in Threads : ~alive[ProcOf[t]] => pc[t] = "gone"
JudgesItsMaker ==
    \A u \in Threads : pc[u] = "judge" =>
        seen[u] \in Procs /\ (sentinel = NoThread \/ ProcOf[sentinel] = seen[u])
ReapsTheDead ==
    \A u \in Threads : pc[u] \in {"reapState", "reapPid", "reapLock"} =>
        \/ sentinel = NoThread
        \/ ~alive[ProcOf[sentinel]]
        \/ SelfAcquireIsStale /\ sentinel = u
MortalInv ==
    /\ TypeOK /\ OwnerKeepsSentinel /\ PidHasSentinel /\ PidGoneBeforeSentinel
    /\ DeadAreGone /\ JudgesItsMaker /\ ReapsTheDead

LEMMA MortalInit == Init => MortalInv
BY ConstantsAssumption
   DEF Init, MortalInv, TypeOK, States, OwnerKeepsSentinel, Owns, OwningStates, PidHasSentinel,
       PidGoneBeforeSentinel, DeadAreGone, JudgesItsMaker, ReapsTheDead

LEMMA MortalStep ==
    ASSUME Unforced, MortalInv, [Next]_vars, [NoneWinsMeanwhile]_vars
    PROVE  MortalInv'
<1> USE ConstantsAssumption
    DEF Unforced, MortalInv, TypeOK, States, OwningStates, ReapingStates, Outcomes, Goto, files,
        OwnerKeepsSentinel, Owns, PidHasSentinel, PidGoneBeforeSentinel, DeadAreGone, JudgesItsMaker,
        ReapsTheDead
\* The two steps that take the lock: nobody else is looking.
<1>w. ASSUME NEW t \in Threads, sentinel = NoThread, sentinel' = t
      PROVE  \A u \in Threads \ {t} : pc[u] \notin Looking
  BY <1>w DEF NoneWinsMeanwhile, vars
<1>1. ASSUME NEW t \in Threads, CreateWins(t) PROVE MortalInv'
  <2>1. \A u \in Threads \ {t} : pc[u] \notin Looking
    BY <1>1, <1>w DEF CreateWins
  <2>2. QED
    BY <1>1, <2>1 DEF CreateWins, AfterWin, Looking
<1>2. ASSUME NEW t \in Threads, Retry(t) PROVE MortalInv'
  <2>1. CASE sentinel = NoThread
    <3>1. \A u \in Threads \ {t} : pc[u] \notin Looking
      BY <1>2, <1>w, <2>1 DEF Retry
    <3>2. QED
      BY <1>2, <2>1, <3>1 DEF Retry, AfterWin, Looking
  <2>2. CASE sentinel # NoThread
    BY <1>2, <2>2 DEF Retry
  <2>3. QED
    BY <2>1, <2>2
<1>3. ASSUME NEW t \in Threads, CreateFails(t) PROVE MortalInv'
  BY <1>3 DEF CreateFails
<1>4. ASSUME NEW t \in Threads, ReadPid(t) PROVE MortalInv'
  BY <1>4 DEF ReadPid
<1>5. ASSUME NEW t \in Threads, Judge(t) PROVE MortalInv'
  BY <1>5 DEF Judge, Verdict, Liveness
<1>6. ASSUME NEW t \in Threads, ReapState(t) PROVE MortalInv'
  BY <1>6 DEF ReapState
<1>7. ASSUME NEW t \in Threads, ReapPid(t) PROVE MortalInv'
  BY <1>7 DEF ReapPid
<1>8. ASSUME NEW t \in Threads, ReapLock(t) PROVE MortalInv'
  BY <1>8 DEF ReapLock
<1>9. ASSUME NEW t \in Threads, Register(t) PROVE MortalInv'
  BY <1>9 DEF Register, WritePid, WriteHeartbeat, RegisterFails
<1>10. ASSUME NEW t \in Threads, Release(t) PROVE MortalInv'
  BY <1>10 DEF Release, Leave, ReleaseState, ReleasePid, ReleaseLock
<1>11. ASSUME NEW t \in Threads, Operate(t) \/ Return(t) PROVE MortalInv'
  BY <1>11 DEF Operate, OperatorStart, OperatorRetry, Return
\* The threads of the process are gone, the others and the files as they were.
<1>12. ASSUME NEW p \in Procs, Exit(p) \/ Crash(p) PROVE MortalInv'
  <2>1. /\ alive' = [alive EXCEPT ![p] = FALSE]
        /\ pc' = [t \in Threads |-> IF ProcOf[t] = p THEN "gone" ELSE pc[t]]
        /\ sentinel' = sentinel /\ pidFile' = pidFile /\ heartbeat' = heartbeat /\ seen' = seen
    BY <1>12 DEF Exit, Crash, Stop
  <2>2. \A t \in Threads : pc'[t] = "gone" \/ (pc'[t] = pc[t] /\ ProcOf[t] # p)
    BY <2>1
  <2>3. \A q \in Procs : ~alive[q] => ~alive'[q]
    BY <2>1
  <2>4. TypeOK'
    BY <2>1
  <2>5. OwnerKeepsSentinel' /\ PidHasSentinel' /\ PidGoneBeforeSentinel'
    BY <2>1, <2>2
  <2>6. DeadAreGone'
    BY <2>1
  <2>7. JudgesItsMaker'
    BY <2>1, <2>2
  <2>8. ReapsTheDead'
    BY <2>1, <2>2, <2>3
  <2>9. QED
    BY <2>4, <2>5, <2>6, <2>7, <2>8
<1>13. ASSUME Age \/ UNCHANGED vars PROVE MortalInv'
  BY <1>13 DEF Age, vars
<1>14. QED
  BY <1>1, <1>2, <1>3, <1>4, <1>5, <1>6, <1>7, <1>8, <1>9, <1>10, <1>11, <1>12, <1>13
     DEF Next, Step, Acquire, Reap

LEMMA MortalStepMaps ==
    ASSUME Unforced, MortalInv, [Next]_vars
    PROVE  [Abstract!Next]_<<sentinel, {t \in Threads : pc[t] = "held"}>>
<1> DEFINE Inside == {t \in Threads : pc[t] = "held"}
           Maps == [Abstract!Next]_<<sentinel, Inside>>
<1> USE ConstantsAssumption
    DEF Unforced, MortalInv, TypeOK, OwnerKeepsSentinel, Owns, OwningStates, Outcomes, Goto, files
<1>1. ASSUME NEW t \in Threads, CreateWins(t) \/ Retry(t) PROVE Maps
  <2>1. Inside' = Inside /\ (sentinel' = sentinel \/ (sentinel = NoThread /\ sentinel' = t))
    BY <1>1 DEF CreateWins, Retry, AfterWin
  <2>2. QED
    BY <2>1 DEF Abstract!Next, Abstract!Take
<1>2. ASSUME NEW t \in Threads, WriteHeartbeat(t) \/ RegisterFails(t) PROVE Maps
  <2>1. sentinel = t /\ sentinel' = sentinel /\ (Inside' = Inside \/ Inside' = Inside \cup {t})
    BY <1>2 DEF WriteHeartbeat, RegisterFails
  <2>2. QED
    BY <2>1 DEF Abstract!Next, Abstract!Enter
<1>3. ASSUME NEW t \in Threads, Leave(t) PROVE Maps
  <2>1. sentinel = t /\ sentinel' = sentinel /\ Inside' = Inside \ {t}
    BY <1>3 DEF Leave
  <2>2. QED
    BY <2>1 DEF Abstract!Next, Abstract!Exit
<1>4. ASSUME NEW t \in Threads, ReleaseLock(t) PROVE Maps
  <2>1. sentinel = t /\ sentinel' = NoThread /\ t \notin Inside /\ Inside' = Inside
    BY <1>4 DEF ReleaseLock
  <2>2. QED
    BY <2>1 DEF Abstract!Next, Abstract!Give
\* A reap gives back the lock for the dead who held it.
<1>5. ASSUME NEW t \in Threads, ReapLock(t) PROVE Maps
  <2>1. sentinel' = NoThread /\ Inside' = Inside /\ pc[t] = "reapLock"
    BY <1>5 DEF ReapLock
  <2>2. sentinel # NoThread => sentinel \in Threads /\ sentinel \notin Inside
    BY <2>1 DEF ReapsTheDead, DeadAreGone
  <2>3. QED
    BY <2>1, <2>2 DEF Abstract!Next, Abstract!Give
\* Who dies inside has left.
<1>6. ASSUME NEW p \in Procs, Exit(p) \/ Crash(p) PROVE Maps
  <2>1. sentinel' = sentinel /\ Inside' = {t \in Inside : ProcOf[t] # p}
    BY <1>6 DEF Exit, Crash, Stop
  <2>2. \A t \in Inside : t = sentinel
    OBVIOUS
  <2>3. Inside' = Inside \/ (sentinel \in Threads /\ Inside' = Inside \ {sentinel})
    BY <2>1, <2>2
  <2>4. QED
    BY <2>1, <2>3 DEF Abstract!Next, Abstract!Exit
<1>7. ASSUME NEW t \in Threads,
             \/ CreateFails(t) \/ ReadPid(t) \/ Judge(t) \/ ReapState(t) \/ ReapPid(t)
             \/ WritePid(t) \/ ReleaseState(t) \/ ReleasePid(t) \/ Return(t)
      PROVE Maps
  <2>1. sentinel' = sentinel /\ Inside' = Inside
    BY <1>7 DEF CreateFails, ReadPid, Judge, Verdict, ReapState, ReapPid, WritePid,
                ReleaseState, ReleasePid, Return
  <2>2. QED
    BY <2>1
<1>8. ASSUME (\E t \in Threads : Operate(t)) \/ Age \/ UNCHANGED vars PROVE Maps
  <2>1. sentinel' = sentinel /\ Inside' = Inside
    BY <1>8 DEF Operate, OperatorStart, OperatorRetry, Age, vars
  <2>2. QED
    BY <2>1
<1>9. Maps
  BY <1>1, <1>2, <1>3, <1>4, <1>5, <1>6, <1>7, <1>8
     DEF Next, Step, Acquire, Reap, Register, Release
<1>10. QED
  BY <1>9

\* Whoever exits, crashes and is reaped: two threads believe they hold the lock only
\* after somebody has won it while another stood between reading a pid and
\* unlinking the lock it judged by it (utils/exclusive.py _reap_if_stale).
THEOREM ExclusiveOutsideReap ==
    ASSUME Unforced PROVE Spec /\ [][NoneWinsMeanwhile]_vars => []MutualExclusion
<1>1. MortalInv /\ [Next]_vars /\ [NoneWinsMeanwhile]_vars => MortalInv'
  BY MortalStep
<1>2. MortalInv => MutualExclusion
  BY DEF MortalInv, OwnerKeepsSentinel, MutualExclusion
<1>3. QED
  BY <1>1, <1>2, MortalInit, PTL DEF Spec

\* But for that window the three files are the abstract lock with deaths too: who
\* dies inside has left, and the reap gives the lock back in its name.
THEOREM ImplementsOutsideReap ==
    ASSUME Unforced PROVE Spec /\ [][NoneWinsMeanwhile]_vars => Implements
<1>1. MortalInv /\ [Next]_vars /\ [NoneWinsMeanwhile]_vars => MortalInv'
  BY MortalStep
<1>2. MortalInv /\ [Next]_vars => [Abstract!Next]_<<sentinel, {t \in Threads : pc[t] = "held"}>>
  BY MortalStepMaps
<1>3. QED
  BY <1>1, <1>2, MortalInit, InitMaps, PTL DEF Spec, Implements, Abstract!Spec
=============================================================================
