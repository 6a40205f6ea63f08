----------------------------- MODULE PromptTail -----------------------------
(***************************************************************************)
(* The tails of the MCP prompts (mcp/prompts_impl.py): one string, typed   *)
(* after a slash command, that the server splits into positionals, flags   *)
(* and their values and turns into the command or the question the calling *)
(* agent is told to run.                                                   *)
(*                                                                         *)
(* A token is a word, a long flag (with or without =value), a short flag,  *)
(* a filter atom (+tag, -tag) or the terminator --.                        *)
(***************************************************************************)
EXTENDS Integers, FiniteSetsExt, Functions, Subsequences

CONSTANTS
  Tokens,     \* Tokens[p]: the tokens that are typed after prompt p
  MaxTokens   \* tokens of one tail

VARIABLES
  prompt,  \* the prompt the tail belongs to
  tail     \* the tokens typed so far

tailVars == <<prompt, tail>>

Token(form, key, val) == [form |-> form, key |-> key, val |-> val]
Bare(text) == Token("word", text, "")
Long(key) == Token("long", key, "")
LongEq(key, val) == Token("longeq", key, val)
Short(key) == Token("short", key, "")
Filter(sigil, tag) == Token("filter", sigil, tag)
Stop == Token("stop", "", "")

Dashes(t) == t.form \in {"long", "longeq", "stop"}
IsShort(t) == t.form = "short" \/ (t.form = "filter" /\ t.key = "-")

-----------------------------------------------------------------------------
(* The grammar: what becomes of the token at each place.                   *)

Grammar(value, multi, known) == [value |-> value, multi |-> multi, known |-> known]

\* The tokens before the terminator are scanned, those after it are words.
Scanned(toks) ==
  LET stops == {i \in 1..Len(toks) : toks[i] = Stop}
  IN IF stops = {} THEN 1..Len(toks) ELSE 1..(Min(stops) - 1)

TakesValue(g, t) == t.key \in g.value \union g.multi

\* The places a flag's value is taken from: the next token, or for free text
\* every token up to the next that begins with --.
Taken(toks, g) ==
  [i \in {j \in Scanned(toks) : toks[j].form = "long" /\ TakesValue(g, toks[j])} |->
     {k \in (i + 1)..Len(toks) :
        /\ toks[i].key \in g.multi \/ k = i + 1
        /\ \A j \in (i + 1)..k : ~Dashes(toks[j])}]

Values(toks, g) == LET taken == Taken(toks, g) IN UNION {taken[i] : i \in DOMAIN taken}

\* repeats_of: the places where the flag got a value.
Repeats(toks, g, key) ==
  LET taken == Taken(toks, g) IN
  {i \in Scanned(toks) :
     /\ toks[i].key = key /\ TakesValue(g, toks[i])
     /\ \/ toks[i].form = "longeq"
        \/ i \in DOMAIN taken /\ taken[i] # {}}

\* A value flag at the end, or before another flag.
Missing(toks, g) == LET taken == Taken(toks, g) IN {i \in DOMAIN taken : taken[i] = {}}

\* Booleans: long flags that take no value (a value given with = is ignored),
\* value flags without one, and everything behind a single dash.
Booleans(toks, g) ==
  {i \in Scanned(toks) \ Values(toks, g) :
     \/ IsShort(toks[i])
     \/ toks[i].form \in {"long", "longeq"} /\ ~TakesValue(g, toks[i])}
  \union Missing(toks, g)

KeyOf(t) == IF t.form = "filter" THEN t.val ELSE t.key
Unknown(toks, g) ==
  {i \in Scanned(toks) \ Values(toks, g) :
     /\ IsShort(toks[i]) \/ toks[i].form \in {"long", "longeq"}
     /\ KeyOf(toks[i]) \notin g.known}
Ignored(toks, g) ==
  {i \in Scanned(toks) : toks[i].form = "longeq" /\ ~TakesValue(g, toks[i])}

\* The words that follow a flag the prompt does not know.
Repurposed(toks, g) ==
  {i + 1 : i \in {j \in Scanned(toks) :
     /\ toks[j].form = "long" /\ ~TakesValue(g, toks[j]) /\ toks[j].key \notin g.known
     /\ j < Len(toks) /\ ~Dashes(toks[j + 1])}}

\* Every other word, and whatever follows the terminator, in order.
Positionals(toks, g) ==
  LET kept == {i \in 1..Len(toks) :
        \/ /\ i \in Scanned(toks) \ Values(toks, g)
           /\ toks[i].form = "word" \/ (toks[i].form = "filter" /\ toks[i].key = "+")
        \/ i \notin Scanned(toks) /\ \E j \in 1..(i - 1) : toks[j] = Stop}
  IN InOrder(kept)

\* _refuse_unless_clean: a flag without its value, a word after an unknown flag
\* that would be read as an argument, or for sync any unknown flag.
Refuses(toks, g, args, strict) ==
  \/ Missing(toks, g) # {}
  \/ \E i \in Repurposed(toks, g), k \in 1..Len(args) : toks[args[k]] = toks[i]
  \/ strict /\ Unknown(toks, g) # {}

\* The places a rendered command and the note beside it show (_render_flags): each
\* occurrence of a flag of the verb with its value, the flag alone when it has
\* none, and the flags that are named as ignored.
Rendered(toks, g, keys) ==
  LET taken == Taken(toks, g)
      valued == UNION {Repeats(toks, g, key) : key \in keys \intersect g.value}
  IN valued \union (UNION {taken[i] : i \in valued \intersect DOMAIN taken})
     \union {i \in Booleans(toks, g) :
               KeyOf(toks[i]) \in keys /\ Repeats(toks, g, KeyOf(toks[i])) = {}}
Noted(toks, g) == Unknown(toks, g) \union Ignored(toks, g) \union Missing(toks, g)

-----------------------------------------------------------------------------
(* The bodies.  A body is refused, or shows the places of the tail in its  *)
(* command, its leftover and its note.                                     *)

Refusal == [refused |-> TRUE, args |-> <<>>, shown |-> {}]
Command(args, shown) == [refused |-> FALSE, args |-> args, shown |-> shown]

\* Library verbs: flags with a value, flags without, whether a name is needed.
Verbs == {"list", "delete", "modify", "new"}
VerbValue == [v \in Verbs |-> CASE v = "modify" -> {"tag"} [] v = "new" -> {"source", "tag"}
                                [] OTHER -> {}]
VerbBool == [v \in Verbs |-> CASE v = "list" -> {"json"} [] v = "delete" -> {"force"}
                               [] OTHER -> {}]
NeedsName(v) == v # "list"
AnyValue == UNION {VerbValue[v] : v \in Verbs}
AnyKnown == AnyValue \union UNION {VerbBool[v] : v \in Verbs}
VerbGrammar(v) == Grammar(VerbValue[v], {}, VerbValue[v] \union VerbBool[v])

\* The subcommand is the first positional under every verb's flags.
Subcommand(toks) ==
  LET args == Positionals(toks, Grammar(AnyValue, {}, AnyKnown))
  IN IF args = <<>> THEN "" ELSE toks[args[1]].key

\* collections_prompt: the second parse, under the verb's own flags, renders.
\* What the verb has no slot for is named as left over; new takes its source
\* from a flag or from its second word.
CollectionsBody(toks) ==
  LET sub == Subcommand(toks)
      g == VerbGrammar(sub)
      args == Tail(Positionals(toks, g))
      sourced == sub = "new" => Repeats(toks, g, "source") # {} \/ Len(args) > 1
  IN IF sub \notin Verbs THEN Refusal
     ELSE IF Positionals(toks, g) = <<>> THEN Refusal
     ELSE IF \/ Refuses(toks, g, args, FALSE)
             \/ NeedsName(sub) /\ args = <<>>
             \/ ~sourced
     THEN Refusal
     ELSE Command(args, Range(Positionals(toks, g)) \union Rendered(toks, g, g.known)
                        \union Noted(toks, g))

IngestGrammar == Grammar({"source", "batch", "collection", "title"}, {"title"},
                         {"source", "batch", "collection", "title", "force"})

\* Of a flag given several times, its last value and that value's place.
LastGiven(toks, g, key) ==
  LET given == Repeats(toks, g, key)  taken == Taken(toks, g)
  IN IF given = {} THEN {}
     ELSE {Max(given)} \union (IF Max(given) \in DOMAIN taken THEN taken[Max(given)] ELSE {})

\* ingest_prompt: one source, from the flag or the first word, or a batch
\* directory; a single source needs its collection.  The last --source and
\* --batch count, and a batch shows neither collection nor title.
IngestBody(toks) ==
  LET g == IngestGrammar
      args == Positionals(toks, g)
      has(key) == Repeats(toks, g, key) # {}
      sources == Repeats(toks, g, "source")
  IN IF \/ Refuses(toks, g, args, FALSE)
        \/ args # <<>> /\ has("source")
        \/ has("batch") /\ (args # <<>> \/ has("source"))
        \/ ~has("batch") /\ ~has("collection")
        \/ ~has("batch") /\ ~has("source") /\ args = <<>>
     THEN Refusal
     ELSE Command(IF has("batch") THEN <<Max(Repeats(toks, g, "batch"))>>
                  ELSE IF has("source") THEN <<Max(sources)>> ELSE <<args[1]>>,
                  LastGiven(toks, g, "batch") \union LastGiven(toks, g, "source")
                  \union Rendered(toks, g, IF has("batch") THEN {"force"}
                                          ELSE {"collection", "title", "force"})
                  \union Noted(toks, g) \union Range(args))

\* sync_prompt: any unknown flag is refused.  The words go to the agent, the
\* flags into the command.
SyncGrammar == Grammar({"source", "name"}, {}, {"source", "name", "force"})
SyncBody(toks) ==
  LET g == SyncGrammar IN
  IF Refuses(toks, g, Positionals(toks, g), TRUE) THEN Refusal
  ELSE Command(Positionals(toks, g), Rendered(toks, g, g.known))

\* Mutant: the name may have several words.
NameOfWords == Grammar({"name"}, {"name"}, {"name", "force", "cleanup", "all"})

\* A wiki's name is a single token.
ReindexGrammar == Grammar({"name"}, {}, {"name", "force", "cleanup", "all"})

\* reindex_prompt: a bare "all" is the old spelling of --all, and both of them
\* and --cleanup ask for a confirmation.
ReindexRefused(toks) == Refuses(toks, ReindexGrammar, Positionals(toks, ReindexGrammar), FALSE)
ReindexConfirmed(toks) ==
  \/ \E i \in Booleans(toks, ReindexGrammar) : KeyOf(toks[i]) \in {"cleanup", "all"}
  \/ \E i \in Range(Positionals(toks, ReindexGrammar)) : toks[i] = Bare("all")

-----------------------------------------------------------------------------
(* Questions.                                                              *)

\* _split_leading_flags: the run of flags with their values and of filter atoms
\* before the first word of the question, or up to the terminator.
LeadingRun(toks) ==
  LET belongs(i) == \/ toks[i].form \in {"long", "longeq", "filter"}
                    \/ i > 1 /\ toks[i - 1] = Long("top_k") /\ ~Dashes(toks[i])
  IN {i \in Scanned(toks) : \A j \in 1..i : belongs(j)}

\* _parse_question_filters: the filter atoms that lead the given places.
LeadingFilters(toks, places) ==
  {i \in places : \A j \in places : j <= i => toks[j].form = "filter"}

\* ground_prompt: the run and a terminator right after it are not question text.
\* Filter atoms that now lead the text are filters.
GroundText(toks) ==
  LET run == LeadingRun(toks)
      after == IF run = {} THEN 0 ELSE Max(run)
      start == IF after < Len(toks) /\ toks[after + 1] = Stop THEN after + 1 ELSE after
      rest == {i \in 1..Len(toks) : i > start /\ i \notin run}
  IN rest \ LeadingFilters(toks, rest)

\* ask_prompt: the filters that lead the tail, then the question, verbatim.
AskText(toks) == (1..Len(toks)) \ LeadingFilters(toks, 1..Len(toks))

-----------------------------------------------------------------------------
(* A tail is typed token by token.                                         *)

Prompts == {"collections", "ingest", "sync", "reindex", "ask", "ground"}

\* A token is one of the forms above, with what belongs to it.
ASSUME TailAssumption ==
  /\ MaxTokens \in Nat
  /\ \A p \in Prompts : \A t \in Tokens[p] :
       /\ t.form \in {"word", "long", "longeq", "short", "filter", "stop"}
       /\ t.form = "long" => t = Long(t.key)
       /\ t.form = "filter" => t.key \in {"+", "-"}
       /\ t.form = "stop" => t = Stop

TypesToken ==
  /\ Len(tail) < MaxTokens
  /\ \E t \in Tokens[prompt] : tail' = Append(tail, t)
  /\ UNCHANGED prompt

TailInit == prompt \in Prompts /\ tail = <<>>
TailNext == TypesToken

TailTypeOK == prompt \in Prompts /\ tail \in Seq(Tokens[prompt]) /\ Len(tail) <= MaxTokens

-----------------------------------------------------------------------------
(* Properties.                                                             *)

\* A value flag spelled with a single dash has no value: nothing shows it when
\* the flag has one elsewhere.
SaidAgain(toks, g, i) == IsShort(toks[i]) /\ Repeats(toks, g, KeyOf(toks[i])) # {}

\* The subcommand comes first, as the prompt's usage has it.
SubcommandFirst == tail # <<>> /\ tail[1].form = "word" /\ tail[1].key \in Verbs

\* Nothing the user typed after a library subcommand vanishes without a word:
\* it is in the command, left over, or named in the note, however often a flag
\* is repeated and whatever follows the terminator; but for a flag that is said
\* again without its value.
NothingLost ==
  prompt = "collections" /\ SubcommandFirst =>
    LET body == CollectionsBody(tail) IN
    ~body.refused =>
      \A i \in 1..Len(tail) :
        tail[i] = Stop \/ i \in body.shown \/ SaidAgain(tail, VerbGrammar(tail[1].key), i)

\* A word typed after a flag the verb does not have is never taken for an
\* argument of the command: not as its name, and not beside it.
UndeclaredFlagAsks ==
  prompt = "collections" /\ SubcommandFirst =>
    LET body == CollectionsBody(tail) IN
    ~body.refused =>
      \A i \in 1..(Len(tail) - 1) :
        /\ i \in Scanned(tail)
        /\ tail[i].form = "long"
        /\ tail[i].key \notin VerbGrammar(tail[1].key).known
        => i + 1 \notin Range(body.args)

\* An ingest of one source shows what the user typed, but for the places of an
\* earlier --source, which the last one replaces, and single-dash spellings of
\* value flags.  A batch drops more.
IngestShowsRest ==
  prompt = "ingest" =>
    LET body == IngestBody(tail)
        g == IngestGrammar
        taken == Taken(tail, g)
        earlier == Repeats(tail, g, "source") \ LastGiven(tail, g, "source")
    IN ~body.refused /\ Repeats(tail, g, "batch") = {} =>
         \A i \in 1..Len(tail) :
           \/ tail[i] = Stop \/ i \in body.shown \/ SaidAgain(tail, g, i)
           \/ IsShort(tail[i]) /\ KeyOf(tail[i]) \in {"source", "batch"}
           \/ i \in earlier \/ \E j \in earlier \intersect DOMAIN taken : i \in taken[j]

\* An ingest that runs reads one source the user named as one: a word of its
\* own, or the value of --source or --batch, and never a flag or the value of
\* another flag.
IngestsNamedSource ==
  prompt = "ingest" =>
    LET body == IngestBody(tail) IN
    ~body.refused =>
      LET i == body.args[1] IN
      \/ tail[i].key \in {"source", "batch"} /\ tail[i].form \in {"long", "longeq"}
         /\ (tail[i].form = "long" => i < Len(tail) /\ ~Dashes(tail[i + 1]))
      \/ tail[i].form \in {"word", "filter"}
         /\ (i > 1 => tail[i-1].form # "long" \/ i \notin Scanned(tail)
                       \/ tail[i-1].key = "force")
      \/ i \notin Scanned(tail)

\* "A typo could turn a one-collection request into a whole-library scrape": a
\* sync that runs carries every flag the user typed, known, repeated or not, but
\* for one said again without its value.
SyncCarriesFlags ==
  prompt = "sync" =>
    LET body == SyncBody(tail) IN
    ~body.refused =>
      \A i \in Scanned(tail) :
        tail[i].form \in {"long", "longeq", "short"} \/ (tail[i].form = "filter" /\ tail[i].key = "-")
          => i \in body.shown \/ SaidAgain(tail, SyncGrammar, i)

\* A reindex the user marked destructive, by a flag or by the word, never runs
\* without its confirmation: no flag before the marker takes it as its value,
\* but for a --name right before it.
DestructiveIsConfirmed ==
  prompt = "reindex" /\ ~ReindexRefused(tail) /\
    (\E i \in 1..Len(tail) :
       \/ tail[i] = Bare("all") /\ (i > 1 => tail[i - 1] # Long("name"))
       \/ tail[i] \in {Long("all"), Long("cleanup")} /\ i \in Scanned(tail))
    => ReindexConfirmed(tail)

\* A question is searched with all of its words: a flag-shaped word after the
\* first word of the question stays in it, and so does what follows --.
QuestionKeepsWords ==
  prompt \in {"ask", "ground"} =>
    LET text == IF prompt = "ask" THEN AskText(tail) ELSE GroundText(tail)
        prose == {i \in 1..Len(tail) :
                    /\ tail[i].form = "word"
                    /\ prompt = "ground" => i = 1 \/ tail[i - 1] # Long("top_k")}
    IN prose # {} => \A i \in 1..Len(tail) : i >= Min(prose) => i \in text
=============================================================================
