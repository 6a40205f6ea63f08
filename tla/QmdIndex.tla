------------------------------- MODULE QmdIndex -------------------------------
(***************************************************************************)
(* The qmd index as LIES writes it (qmd/cli.py) and inspects it            *)
(* (qmd/integrity.py).  Every operation runs under the site-wide lock      *)
(* (QmdLock), so operations do not overlap; each is a sequence of qmd      *)
(* commands that may fail or be killed (QmdSubprocess), and qmd's own      *)
(* configuration may empty the registry in between.                        *)
(***************************************************************************)
EXTENDS Naturals

CONSTANTS
    Names,      \* collections
    Dirs,       \* directories they may be registered at
    Absent,     \* no row
    MaxOps      \* bound on operations

VARIABLES
    registry,   \* store_collections: [Names -> its path, or Absent]
    docs,       \* the collections `documents` rows name
    vectors,    \* those whose content has vectors
    onDisk,     \* directories that exist
    sandbox,    \* [data, cache -> the XDG root is redirected]
    op,         \* the operation that runs
    ipc,        \* its next qmd command
    result,     \* ReindexResult, or how another operation ended
    ops

index == <<registry, docs, vectors>>
indexVars == <<registry, docs, vectors, onDisk, sandbox, op, ipc, result, ops>>

Flags == [embed : BOOLEAN, cleanup : BOOLEAN, all : BOOLEAN]
NoFlags == [embed |-> FALSE, cleanup |-> FALSE, all |-> FALSE]
Kinds == {"add", "addIfMissing", "addOrUpdate", "remove", "update", "embed", "reindex"}
Ops == [kind : Kinds, name : Names, dir : Dirs, flags : Flags]
NoResult == [end |-> "none", cleaned |-> FALSE, indexed |-> FALSE, embedded |-> FALSE, errors |-> {}]

IndexTypeOK ==
    /\ registry \in [Names -> Dirs \cup {Absent}]
    /\ docs \subseteq Names /\ vectors \subseteq Names /\ onDisk \subseteq Dirs
    /\ sandbox \in [data : BOOLEAN, cache : BOOLEAN]
    /\ op \in Ops
    /\ ipc \in {"idle", "show", "remove", "add", "cleanup", "update", "embed"}
    /\ result \in [end : {"none", "ok", "raised", "refused"}, cleaned : BOOLEAN, indexed : BOOLEAN,
                   embedded : BOOLEAN, errors : SUBSET {"cleanup", "update", "embed"}]
    /\ ops \in 0 .. MaxOps

IndexInit ==
    /\ registry \in [Names -> Dirs \cup {Absent}]
    /\ docs = {} /\ vectors = {} /\ onDisk = Dirs
    /\ sandbox \in [data : BOOLEAN, cache : BOOLEAN]
    /\ op = CHOOSE o \in Ops : o.flags = NoFlags
    /\ ipc = "idle" /\ result = NoResult /\ ops = 0

-----------------------------------------------------------------------------
(* What the commands of qmd do, as LIES relies on it *)

Registered == {n \in Names : registry[n] # Absent}

QmdAdd(n, d) ==
    /\ registry[n] = Absent
    /\ registry' = [registry EXCEPT ![n] = d] /\ UNCHANGED <<docs, vectors>>
QmdRemove(n) ==
    /\ registry[n] # Absent
    /\ registry' = [registry EXCEPT ![n] = Absent]
    /\ docs' = docs \ {n} /\ UNCHANGED vectors
QmdUpdate == docs' = docs \cup {n \in Registered : registry[n] \in onDisk} /\ UNCHANGED <<registry, vectors>>
QmdEmbed(names) == vectors' = vectors \cup (docs \cap names) /\ UNCHANGED <<registry, docs>>
QmdCleanup == vectors' = vectors \cap docs /\ UNCHANGED <<registry, docs>>

\* syncConfigToDb with a configuration that declares no collection.
QmdSyncEmpty ==
    /\ Registered # {}
    /\ registry' = [n \in Names |-> Absent]
    /\ UNCHANGED <<docs, vectors, onDisk, sandbox, op, ipc, result, ops>>

DirVanishes ==
    /\ \E d \in onDisk : onDisk' = onDisk \ {d}
    /\ UNCHANGED <<index, sandbox, op, ipc, result, ops>>

-----------------------------------------------------------------------------
(* The operations *)

outside == <<onDisk, sandbox, op, ops>>

\* _assert_qmd_index_isolated: a sandboxed library must not write the live index.
Refused == sandbox.data /\ ~sandbox.cache

First(o) ==
    CASE o.kind \in {"add", "addIfMissing"} -> "add"
      [] o.kind = "addOrUpdate" -> "show"
      [] o.kind = "reindex" -> IF o.flags.cleanup \/ o.flags.all THEN "cleanup" ELSE "update"
      [] OTHER -> o.kind

StartOp ==
    /\ ipc = "idle" /\ ops < MaxOps
    /\ \E o \in Ops :
         /\ o.kind # "reindex" => o.flags = NoFlags
         /\ op' = o
         /\ ipc' = IF Refused THEN "idle" ELSE First(o)
         /\ result' = [NoResult EXCEPT !.end = IF Refused THEN "refused" ELSE "none"]
    /\ ops' = ops + 1
    /\ UNCHANGED <<index, onDisk, sandbox>>

Ends(how) == ipc' = "idle" /\ result' = [result EXCEPT !.end = how]
Then(label) == ipc' = label /\ UNCHANGED result

\* qmd_collection_add_or_update reads the row first; equal paths end it, and a
\* `show` that fails or cannot be parsed counts as no row.
Show ==
    /\ ipc = "show"
    /\ \/ CASE registry[op.name] = Absent -> Then("add")
            [] registry[op.name] = op.dir -> Ends("ok")
            [] OTHER -> Then("remove")
       \/ Then("add")
       \/ Ends("raised")
    /\ UNCHANGED <<index, outside>>

\* A failed `remove` is a warning of add_or_update, and the error of remove; a
\* wedged one raises.
RemoveFails == IF op.kind = "remove" THEN Ends("raised") ELSE Then("add")

Remove ==
    /\ ipc = "remove"
    /\ \/ QmdRemove(op.name) /\ (IF op.kind = "remove" THEN Ends("ok") ELSE Then("add"))
       \/ RemoveFails /\ UNCHANGED index
       \/ Ends("raised") /\ UNCHANGED index
    /\ UNCHANGED outside

\* Mutant: "already exists" is a success of every caller.
AddFailsAs(o) == IF registry[o.name] # Absent THEN "ok" ELSE "raised"

\* "already exists" is a success of qmd_collection_add_if_missing alone.
AddFails(o) == IF o.kind = "addIfMissing" /\ registry[o.name] # Absent THEN "ok" ELSE "raised"

Add ==
    /\ ipc = "add"
    /\ \/ QmdAdd(op.name, op.dir) /\ Ends("ok")
       \/ Ends(AddFails(op)) /\ UNCHANGED index
       \/ Ends("raised") /\ UNCHANGED index
    /\ UNCHANGED outside

Stage(label, flag) ==
    result' = [result EXCEPT ![flag] = TRUE,
                             !.end = IF label = "idle" THEN "ok" ELSE @]

StageFails(stage) ==
    /\ ipc' = "idle"
    /\ result' = [result EXCEPT !.errors = @ \cup {stage}, !.end = "ok"]

Cleanup ==
    /\ ipc = "cleanup"
    /\ \/ QmdCleanup /\ ipc' = "update" /\ Stage("update", "cleaned")
       \/ StageFails("cleanup") /\ UNCHANGED index
       \/ Ends("raised") /\ UNCHANGED index
    /\ UNCHANGED outside

UpdateFails == StageFails("update")

\* A wedge is not collected: it leaves qmd_reindex as QmdWedgeError, and so does
\* the OSError of `force`, which first removes a cache no row is in.
Update ==
    /\ ipc = "update"
    /\ LET more == op.kind = "reindex" /\ (op.flags.embed \/ op.flags.all)
           next == IF more THEN "embed" ELSE "idle" IN
       \/ QmdUpdate /\ ipc' = next /\ Stage(next, "indexed")
       \/ op.kind = "reindex" /\ UpdateFails /\ UNCHANGED index
       \/ Ends("raised") /\ UNCHANGED index
    /\ UNCHANGED outside

Embed ==
    /\ ipc = "embed"
    /\ \/ /\ QmdEmbed(IF op.kind = "embed" THEN {op.name} ELSE Names)
          /\ ipc' = "idle" /\ Stage("idle", "embedded")
       \/ op.kind = "reindex" /\ StageFails("embed") /\ UNCHANGED index
       \/ Ends("raised") /\ UNCHANGED index
    /\ UNCHANGED outside

IndexNext ==
    \/ StartOp \/ Show \/ Remove \/ Add \/ Cleanup \/ Update \/ Embed
    \/ QmdSyncEmpty \/ DirVanishes

-----------------------------------------------------------------------------
(* qmd/integrity.py *)

OrphanVectors == vectors \ docs
CollectionDrift == {n \in Registered : registry[n] \notin onDisk}

\* Mutant: only collections the registry knows are looked at.
DocumentDriftRegistered == {n \in docs \cap Registered : registry[n] \notin onDisk}

DocumentDrift == docs \ Registered
RegistryDivergence == Registered = {} /\ docs # {}

Reachable(n) == n \in Registered /\ registry[n] \in onDisk

-----------------------------------------------------------------------------
(* Properties *)

\* A summary without drift means that every document is under a collection qmd
\* knows and finds on disk; an emptied registry is always also told collection by
\* collection, so that no consumer takes it for health (integrity_summary).
NoDriftUnseen ==
    /\ CollectionDrift = {} /\ DocumentDrift = {} => \A n \in docs : Reachable(n)
    /\ RegistryDivergence => DocumentDrift = docs

\* A reindex result names one failed stage at most, and no stage after it
\* ran: what it calls embedded was indexed by the same run (qmd_reindex).
ReindexTellsTruth ==
    result.end = "ok" /\ op.kind = "reindex" =>
        /\ \A s, t \in result.errors : s = t
        /\ result.embedded => result.indexed
        /\ result.errors # {} => ~result.embedded
        /\ result.errors = {} => result.indexed

\* An add_or_update that returns has the collection at the new path, whatever
\* became of its remove (qmd_collection_add_or_update).
RefreshedIsRegistered ==
    [][\A n \in Names : ipc # "idle" /\ result'.end = "ok" /\ op.kind = "addOrUpdate" /\ op.name = n
          => registry'[n] = op.dir]_indexVars

\* No operation of a sandboxed library changes the live index (_guards_qmd_index).
LiveIndexUntouched ==
    [][sandbox.data /\ ~sandbox.cache => UNCHANGED index \/ QmdSyncEmpty]_indexVars
=============================================================================
