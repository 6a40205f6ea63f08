------------------------------- MODULE WikiLayout -------------------------------
(* A wiki's own qmd collection: `lies init`, and every write and every query, *)
(* register wiki_<name> unless a sentinel file says it has been done; the     *)
(* sentinel goes through a temporary file that all callers share.             *)
(* wiki/layout.py.                                                            *)
EXTENDS Naturals, FiniteSets

CONSTANTS
    Registrars,    \* processes that write, query or init
    MaxRegistrars  \* calls in all

VARIABLES
    sentinel, temporary,   \* the files
    inQmd,         \* qmd's index has the collection
    lost,          \* qmd's index was emptied or replaced since
    wpc, inInit, answer, registrars

layoutVars == <<sentinel, temporary, inQmd, lost, wpc, inInit, answer, registrars>>

LayoutInit ==
    /\ sentinel = FALSE /\ temporary = FALSE /\ inQmd = FALSE /\ lost = FALSE
    /\ wpc = [r \in Registrars |-> "idle"] /\ inInit = [r \in Registrars |-> FALSE]
    /\ answer = [r \in Registrars |-> "none"] /\ registrars = 0

On(r, pc) == wpc' = [wpc EXCEPT ![r] = pc]
Answers(r, what) == On(r, "idle") /\ answer' = [answer EXCEPT ![r] = what]

\* init registers without a look at the sentinel; ensure_wiki_qmd_registered
\* stops at one.
Asks(r) ==
    /\ wpc[r] = "idle" /\ registrars < MaxRegistrars /\ registrars' = registrars + 1
    /\ \E i \in BOOLEAN :
          /\ inInit' = [inInit EXCEPT ![r] = i]
          /\ IF sentinel /\ ~i THEN Answers(r, "yes")
             ELSE On(r, "register") /\ answer' = [answer EXCEPT ![r] = "none"]
    /\ UNCHANGED <<sentinel, temporary, inQmd, lost>>

\* Mutant: a failed registration goes on to the sentinel.
RegistersAnyway(r) ==
    /\ wpc[r] = "register" /\ On(r, "open")
    /\ inQmd' \in {TRUE, inQmd}
    /\ UNCHANGED <<sentinel, temporary, lost, inInit, answer, registrars>>

\* A failing registration is a warning, and leaves no sentinel.
RegistersWiki(r) ==
    /\ wpc[r] = "register"
    /\ \/ inQmd' = TRUE /\ On(r, "open") /\ UNCHANGED answer
       \/ Answers(r, "no") /\ UNCHANGED inQmd
    /\ UNCHANGED <<sentinel, temporary, lost, inInit, registrars>>

\* An OSError of the sentinel's write is a warning, but escapes from init.
Gives(r) == Answers(r, IF inInit[r] THEN "raised" ELSE "no")

\* The shared temporary file is opened, and renamed: which fails when another call
\* has renamed or tidied it already, or for any other reason.
OpensTemporary(r) ==
    /\ wpc[r] = "open"
    /\ \/ temporary' = TRUE /\ On(r, "rename") /\ UNCHANGED answer
       \/ Gives(r) /\ UNCHANGED temporary
    /\ UNCHANGED <<sentinel, inQmd, lost, inInit, registrars>>
Renames(r) ==
    /\ wpc[r] = "rename"
    /\ \/ temporary /\ sentinel' = TRUE /\ temporary' = FALSE /\ Answers(r, "yes")
       \/ On(r, "tidy") /\ UNCHANGED <<sentinel, temporary, answer>>
    /\ UNCHANGED <<inQmd, lost, inInit, registrars>>

\* A failed rename removes the temporary file that is there by then, another
\* call's too.
Tidies(r) ==
    /\ wpc[r] = "tidy" /\ temporary' = FALSE /\ Gives(r)
    /\ UNCHANGED <<sentinel, inQmd, lost, inInit, registrars>>

RegistrarDies(r) ==
    /\ wpc[r] # "idle" /\ On(r, "idle")
    /\ UNCHANGED <<sentinel, temporary, inQmd, lost, inInit, answer, registrars>>

\* qmd's index is recreated or the collection removed: nothing takes the
\* sentinel away.
QmdLoses ==
    /\ inQmd /\ inQmd' = FALSE /\ lost' = TRUE
    /\ UNCHANGED <<sentinel, temporary, wpc, inInit, answer, registrars>>

LayoutStep(r) == RegistersWiki(r) \/ OpensTemporary(r) \/ Renames(r) \/ Tidies(r)
LayoutNext ==
    \/ \E r \in Registrars : Asks(r) \/ LayoutStep(r) \/ RegistrarDies(r)
    \/ QmdLoses

LayoutTypeOK ==
    /\ {sentinel, temporary, inQmd, lost} \subseteq BOOLEAN
    /\ answer \in [Registrars -> {"none", "yes", "no", "raised"}]

\* A sentinel, and a "yes" to whoever asked, mean that the collection was
\* registered, however calls overlap, fail or die; only a loss in qmd makes
\* them stale.
SentinelMeansRegistered ==
    ~lost /\ (sentinel \/ \E r \in Registrars : answer[r] = "yes") => inQmd
=============================================================================
