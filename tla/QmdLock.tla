------------------------------- MODULE QmdLock -------------------------------
(***************************************************************************)
(* The wrapper qmd/lock.py puts around the create lock (CreateLock): one   *)
(* attempt per poll until a budget ends, re-entry by a depth that belongs  *)
(* to the context, and the triad of paths carried from the acquire to the  *)
(* release.  with_qmd_lock and qmd_lock_async differ in how they sleep.    *)
(***************************************************************************)
EXTENDS Naturals

CONSTANTS
    Clients,     \* contexts: threads and tasks of every process on the host
    NoClient,
    LockPaths,   \* what LIES_QMD_LOCK_PATH may name
    Budget,      \* polls that fit into the retry budget
    MaxDepth     \* bound on nested calls

ASSUME QmdLockAssumption ==
    /\ NoClient \notin Clients
    /\ Budget \in Nat /\ MaxDepth \in Nat \ {0}

VARIABLES
    env,        \* the path the environment names now
    flock,      \* [LockPaths -> the context whose attempt won, or NoClient]
    depth,      \* _held_depth of each context
    polling,    \* contexts inside a poll loop
    ticket,     \* the triad each context resolved for its acquisition
    waited,     \* polls made in that loop
    caller      \* the context that waits for this one's call to return

lockVars == <<env, flock, depth, polling, ticket, waited, caller>>

LockTypeOK ==
    /\ env \in LockPaths
    /\ flock \in [LockPaths -> Clients \cup {NoClient}]
    /\ depth \in [Clients -> 0 .. MaxDepth]
    /\ polling \subseteq Clients
    /\ ticket \in [Clients -> LockPaths]
    /\ waited \in [Clients -> 0 .. Budget]
    /\ caller \in [Clients -> Clients \cup {NoClient}]

LockInit ==
    /\ env \in LockPaths
    /\ flock = [p \in LockPaths |-> NoClient]
    /\ depth = [c \in Clients |-> 0]
    /\ polling = {}
    /\ ticket = [c \in Clients |-> env]
    /\ waited = [c \in Clients |-> 0]
    /\ caller = [c \in Clients |-> NoClient]

-----------------------------------------------------------------------------
(* One acquisition *)

Outside(c) == depth[c] = 0 /\ c \notin polling

\* The paths are resolved once per acquisition.
StartsPolling(c, by) ==
    /\ Outside(c)
    /\ polling' = polling \cup {c}
    /\ ticket' = [ticket EXCEPT ![c] = env]
    /\ waited' = [waited EXCEPT ![c] = 0]
    /\ caller' = [caller EXCEPT ![c] = by]
    /\ UNCHANGED <<env, flock, depth>>

\* A locked call made in a fresh context, which knows nothing of the depth of
\* the context that waits for it.
Delegates(c, d) == c # d /\ depth[c] > 0 /\ StartsPolling(d, c)

Contended(c) == flock[ticket[c]] # NoClient

\* _Attempt "won": the depth of this context alone becomes 1.
Wins(c) ==
    /\ c \in polling /\ ~Contended(c)
    /\ flock' = [flock EXCEPT ![ticket[c]] = c]
    /\ depth' = [depth EXCEPT ![c] = 1]
    /\ polling' = polling \ {c}
    /\ UNCHANGED <<env, ticket, waited, caller>>

Polls(c) ==
    /\ c \in polling /\ Contended(c) /\ waited[c] < Budget
    /\ waited' = [waited EXCEPT ![c] = @ + 1]
    /\ UNCHANGED <<env, flock, depth, polling, ticket, caller>>

Raises(c) ==
    /\ polling' = polling \ {c}
    /\ caller' = [caller EXCEPT ![c] = NoClient]
    /\ UNCHANGED <<env, flock, depth, ticket, waited>>

\* QmdLockBusy.
TimesOut(c) == c \in polling /\ Contended(c) /\ waited[c] >= Budget /\ Raises(c)

\* WikiFlockIndeterminate: nobody can tell whether the holder lives.
Indeterminate(c) == c \in polling /\ Contended(c) /\ Raises(c)

\* A call nested in the same context runs without acquiring.
Nests(c) ==
    /\ depth[c] \in 1 .. MaxDepth - 1
    /\ depth' = [depth EXCEPT ![c] = @ + 1]
    /\ UNCHANGED <<env, flock, polling, ticket, waited, caller>>

ReleasedPath(c) == ticket[c]

\* Return and exception unwind alike: the token restores the depth before, and
\* the outermost frame releases what its own acquisition resolved.
Leaves(c) ==
    /\ depth[c] > 0
    /\ \A d \in Clients : caller[d] # c
    /\ depth' = [depth EXCEPT ![c] = @ - 1]
    /\ IF depth[c] = 1
       THEN /\ flock' = [flock EXCEPT ![ReleasedPath(c)] = NoClient]
            /\ caller' = [caller EXCEPT ![c] = NoClient]
       ELSE UNCHANGED <<flock, caller>>
    /\ UNCHANGED <<env, polling, ticket, waited>>

EnvMoves ==
    /\ env' \in LockPaths \ {env}
    /\ UNCHANGED <<flock, depth, polling, ticket, waited, caller>>

LockStep(c) == Wins(c) \/ Polls(c) \/ TimesOut(c)

LockNext ==
    \/ \E c \in Clients :
          \/ StartsPolling(c, NoClient) \/ Indeterminate(c) \/ Nests(c) \/ Leaves(c)
          \/ LockStep(c)
          \/ \E d \in Clients : Delegates(c, d)
    \/ EnvMoves

-----------------------------------------------------------------------------
(* Properties *)

\* A lock is held exactly by a context inside a locked call that acquired it:
\* no lock is stranded by a moved environment, an exception or a nested
\* return, and two contexts on one path exclude each other (with_qmd_lock,
\* _release).
OwnedByDepth ==
    /\ \A p \in LockPaths, c \in Clients : flock[p] = c => depth[c] > 0 /\ ticket[c] = p
    /\ \A c \in Clients : depth[c] > 0 => flock[ticket[c]] = c

\* Whoever polls gets in or is told QmdLockBusy, also a context that waits for
\* the very context that waits for it (_acquire_with_poll).
EveryWaitEnds == \A c \in Clients : (c \in polling) ~> (c \notin polling)
=============================================================================
