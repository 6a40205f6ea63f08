------------------------------ MODULE MCRequests ------------------------------
(* What a user or an agent asks LIES for, from outside: a prompt's tail, a tag  *)
(* filter, a question to the library and its extractive answer, `mcp up` and    *)
(* `down`, `sync`.  `part` picks the one a behaviour runs.                       *)
EXTENDS UserRequests, TLC

CONSTANTS
    Words, Names, TagsOf, MaxWords

VARIABLE argv

T == INSTANCE TagExpr

allVars == <<requestVars, argv>>

-------------------------------------------------------------------------------
\* The words of a command line: +a, +t:x|b, +c:a, +c:x, -c:a, -a, -a&t:x, -, &, |,
\* b, &b, c: and x|.
MCWords ==
    LET a == T!Atom("none", "a")  b == T!Atom("none", "b") IN
    {T!Word("+", <<a>>), T!Word("+", <<T!Atom("t", "x"), T!OrOp, b>>),
     T!Word("+", <<T!Atom("c", "a")>>), T!Word("+", <<T!Atom("c", "x")>>),
     T!Word("-", <<T!Atom("c", "a")>>), T!Word("-", <<a>>), T!Word("-", <<>>),
     T!Word("-", <<a, T!AndOp, T!Atom("t", "x")>>),
     T!Word("", <<T!AndOp>>), T!Word("", <<T!OrOp>>), T!Word("", <<b>>),
     T!Word("", <<T!AndOp, b>>), T!Word("", <<T!Atom("c", "")>>),
     T!Word("", <<T!Atom("none", "x"), T!OrOp>>)}
\* Collection b has the tag "a", which is also a collection.
MCTagsOf == "a" :> {"x"} @@ "b" :> {"x", "a"} @@ "c" :> {}

\* Of each prompt: words, flags it knows and does not know, the terminator.
MCTokens ==
    LET common == {Stop, Long("force"), LongEq("force", "x"), Long("tag")} IN
    [p \in Prompts |->
       CASE p = "collections" -> common \cup {Bare("delete"), Bare("new"), Bare("modify"),
                                              Bare("lib"), Long("source"), LongEq("tag", "x"),
                                              Short("tag"),
                                              Filter("+", "t")}
         [] p = "ingest" -> common \cup {Bare("lib"), Long("source"), LongEq("source", "x"),
                                         Short("source"),
                                         Long("batch"), Long("collection"), LongEq("collection", "c"),
                                         Long("title")}
         [] p = "sync" -> common \cup {Bare("lib"), Long("source"), LongEq("name", "w"),
                                       Short("v"), Short("name"), Filter("-", "t")}
         [] p = "reindex" -> common \cup {Bare("all"), Bare("lib"), Long("name"), Long("all"),
                                          Long("cleanup")}
         [] OTHER -> {Stop, Bare("lib"), Filter("+", "t"), Filter("-", "t"),
                      Long("top_k"), LongEq("top_k", "1"), Long("tag")}]

-------------------------------------------------------------------------------
Parts == {"daemon", "sync", "ask", "tags", "tail", "retrieve"}

\* The parts that do not run stand still in one initial state.
MCInit ==
    /\ part \in Parts
    /\ RequestsInit /\ T!TagInit
    /\ part # "tail" => prompt = "ask"
    /\ part # "retrieve" => wanted = Everything /\ library = {} /\ wikiFiles = {}

MCNext ==
    \/ RequestsNext /\ UNCHANGED argv
    \/ part = "tags" /\ T!TagNext /\ UNCHANGED requestVars

MCSpec ==
    /\ MCInit /\ [][MCNext]_allVars
    /\ \A c \in Callers : WF_daemonVars(part = "daemon" /\ CommandStep(c))
    /\ \A s \in Syncs : WF_syncing(part = "sync" /\ spc[s] # "sync" /\ S!SyncStep(s))
    /\ WF_syncing(part = "sync" /\ S!HourPasses)

\* A tag filter selects by its grammar: & before |, names as they are written,
\* include and exclude chains of the same extent (query/tag_expr.py).
FiltersMeanWhatTheySay ==
    T!TagTypeOK /\ T!AndBindsTighter /\ T!NamesAreStrict /\ T!ChainsAgree

\* Every `mcp up`, `mcp down` and every wait for a sync ends.
CommandsEnd ==
    /\ part = "daemon" => CommandEnds
    /\ part = "sync" => S!WaitingEnds
===============================================================================
