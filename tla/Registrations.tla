----------------------------- MODULE Registrations -----------------------------
(* The wiki's registry of collections: each WikiMemoryService keeps a copy    *)
(* from its construction, and a registration loads the file, merges the copy  *)
(* in, drops entries without a config and replaces the file through a         *)
(* temporary file whose name all writers share, with no lock: writing that    *)
(* file and replacing by it are two steps.                                     *)
(* wiki/registry.py; memory/service.py register_collection.                   *)
EXTENDS FiniteSets, Naturals

CONSTANTS
    Services,     \* WikiMemoryService instances, each in a process of its own
    Colls,        \* collections
    MaxServices,  \* services constructed in all
    MaxLapses     \* configs removed or written again in all

VARIABLES
    inRegistry,   \* what registry.json lists
    configured,   \* collections with a config, in the library or in the wiki
    rpc,          \* of each service: "none" until constructed
    copy,         \* its own registrations
    view,         \* what it is about to write: [coll, new, late], where late are
                  \* registrations saved since it read the file
    staged,       \* the temporary file, if there is one: [coll, late]
    kept,         \* collections some save registered, whose config has been there
                  \* since, but for the late ones another save has replaced
    services, lapses

registryVars == <<inRegistry, configured, rpc, copy, view, staged, kept, services, lapses>>

NoView == [coll |-> {}, new |-> {}, late |-> {}]

RegistryInit ==
    /\ inRegistry = {} /\ configured = Colls /\ kept = {} /\ staged = {}
    /\ rpc = [s \in Services |-> "none"]
    /\ copy = [s \in Services |-> {}] /\ view = [s \in Services |-> NoView]
    /\ services = 0 /\ lapses = 0

Goes(s, pc) == rpc' = [rpc EXCEPT ![s] = pc]

\* WikiMemoryService.__init__: the file, without entries that have no config.
Constructs(s) ==
    /\ rpc[s] = "none" /\ services < MaxServices /\ services' = services + 1
    /\ copy' = [copy EXCEPT ![s] = inRegistry \cap configured]
    /\ Goes(s, "idle")
    /\ UNCHANGED <<inRegistry, configured, view, staged, kept, lapses>>

\* register_collection puts the entry into its copy first: is_registered holds
\* from then on, whatever becomes of the file.
RegistersIn(s, c) ==
    /\ rpc[s] = "idle" /\ c \notin copy[s]
    /\ copy' = [copy EXCEPT ![s] = @ \cup {c}]
    /\ view' = [view EXCEPT ![s] = [NoView EXCEPT !.new = {c}]]
    /\ Goes(s, "load")
    /\ UNCHANGED <<inRegistry, configured, staged, kept, services, lapses>>

\* Mutant: the file is not read again before it is written.
MergesNothing(s) ==
    /\ rpc[s] = "load" /\ Goes(s, "save")
    /\ view' = [view EXCEPT ![s].coll = copy[s] \cap configured]
    /\ UNCHANGED <<inRegistry, configured, copy, staged, kept, services, lapses>>

\* load, merge (the own entries win) and filter_stale.
LoadsAndMerges(s) ==
    /\ rpc[s] = "load" /\ Goes(s, "save")
    /\ view' = [view EXCEPT ![s].coll = (inRegistry \cup copy[s]) \cap configured]
    /\ UNCHANGED <<inRegistry, configured, copy, staged, kept, services, lapses>>

\* The temporary file, over whatever another writer has left there.
WritesTemporary(s) ==
    /\ rpc[s] = "save" /\ Goes(s, "replace")
    /\ staged' = {[coll |-> view[s].coll, late |-> view[s].late]}
    /\ UNCHANGED <<inRegistry, configured, copy, view, kept, services, lapses>>

\* The replacement, by the file that is there by then.
Installs(s) ==
    \E file \in staged :
       LET new == view[s].new \cap file.coll \cap configured
       IN /\ inRegistry' = file.coll /\ staged' = {}
          /\ kept' = (kept \ file.late) \cup new
          /\ view' = [t \in Services |-> IF rpc[t] = "save"
                                         THEN [view[t] EXCEPT !.late = @ \cup (new \ view[t].coll)]
                                         ELSE view[t]]

\* An OSError - the file may be gone - leaves the registry as it was and the copy
\* ahead, and takes the temporary file away, whoever's it is.
Saves(s) ==
    /\ rpc[s] = "replace" /\ Goes(s, "idle")
    /\ \/ Installs(s)
       \/ staged' \in {staged, {}} /\ UNCHANGED <<inRegistry, kept, view>>
    /\ UNCHANGED <<configured, copy, services, lapses>>

ServiceEnds(s) ==
    /\ rpc[s] # "none" /\ Goes(s, "none")
    /\ copy' = [copy EXCEPT ![s] = {}] /\ view' = [view EXCEPT ![s] = NoView]
    /\ UNCHANGED <<inRegistry, configured, staged, kept, services, lapses>>

\* A collection's config is deleted, or written again.
ConfigLapses(c) ==
    /\ lapses < MaxLapses /\ lapses' = lapses + 1
    /\ configured' = IF c \in configured THEN configured \ {c} ELSE configured \cup {c}
    /\ kept' = kept \ {c}
    /\ UNCHANGED <<inRegistry, rpc, copy, view, staged, services>>

RegistryNext ==
    \/ \E s \in Services : \/ Constructs(s) \/ LoadsAndMerges(s) \/ WritesTemporary(s) \/ Saves(s)
                           \/ ServiceEnds(s)
                           \/ \E c \in Colls : RegistersIn(s, c)
    \/ \E c \in Colls : ConfigLapses(c)

RegistryTypeOK ==
    /\ inRegistry \subseteq Colls /\ configured \subseteq Colls /\ kept \subseteq Colls
    /\ copy \in [Services -> SUBSET Colls]

\* A collection whose registration was saved stays in the file as long as its
\* config does, although every later registration comes from a service that may
\* never have heard of it, saves go through one temporary file, and services fail
\* to save or die half way.  Only one way it is lost: another registration had
\* read the file before it was saved, and was saved after it (`late`).
RegistrationsKept == kept \subseteq inRegistry
=============================================================================
