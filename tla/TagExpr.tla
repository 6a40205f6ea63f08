------------------------------ MODULE TagExpr ------------------------------
(***************************************************************************)
(* Tag filters on a command line (query/tag_expr.py): the words typed      *)
(* before a question, peeled into an include chain, an exclude chain and   *)
(* the question, parsed into expressions, validated, and evaluated on the  *)
(* library's collections (_collections_matching, query/synthesizer.py).    *)
(*                                                                         *)
(* The shell has split the line into words.  A word is a sigil and the     *)
(* parts the operator split finds in it: atoms with their qualifier, and   *)
(* the operators & and |.                                                  *)
(***************************************************************************)
EXTENDS Integers, Sequences, FiniteSets, SequencesExt

CONSTANTS
  Words,     \* the words that are typed
  Names,     \* collection names
  TagsOf,    \* TagsOf[n]: the tags of collection n
  MaxWords   \* words on one line

VARIABLE argv   \* the words typed so far

tagVars == <<argv>>

Atom(qualifier, tag) == [qualifier |-> qualifier, tag |-> tag]
AndOp == [qualifier |-> "op", tag |-> "&"]
OrOp == [qualifier |-> "op", tag |-> "|"]
Operators == {AndOp, OrOp}
Word(sigil, parts) == [sigil |-> sigil, parts |-> parts]

IsOperator(word) == word.sigil = "" /\ Len(word.parts) = 1 /\ word.parts[1] \in Operators
StartsWithOperator(word) == word.sigil = "" /\ word.parts # <<>> /\ word.parts[1] \in Operators
EndsInOperator(word) == word.parts # <<>> /\ Last(word.parts) \in Operators

-----------------------------------------------------------------------------
(* Atoms and expressions.                                                  *)

\* check_qualifier and the checks of parse_atom: t: and c: need a body, any
\* other qualifier is refused.
GoodAtom(a) ==
  /\ a.qualifier \in {"none", "t", "c"}
  /\ a.tag # ""

\* parse_tokens takes atoms with an operator between any two, and nothing else.
Parses(parts) ==
  /\ Len(parts) % 2 = 1
  /\ \A i \in 1..Len(parts) :
       IF i % 2 = 1 THEN parts[i] \notin Operators /\ GoodAtom(parts[i])
       ELSE parts[i] \in Operators

Include(a) == [op |-> "atom", atom |-> a]
Node(op, left, right) == [op |-> op, left |-> left, right |-> right]

\* Mutant: no precedence, operators are applied from left to right.
RECURSIVE LeftToRight(_, _, _)
LeftToRight(node, parts, i) ==
  IF i > Len(parts) THEN <<node, i>>
  ELSE LeftToRight(Node(parts[i].tag, node, Include(parts[i + 1])), parts, i + 2)

\* parse_and: the loop that extends node while the next operator is &.
RECURSIVE ParseAnd(_, _, _)
ParseAnd(node, parts, i) ==
  IF i <= Len(parts) /\ parts[i] = AndOp
  THEN ParseAnd(Node("&", node, Include(parts[i + 1])), parts, i + 2)
  ELSE <<node, i>>

\* parse_or: the loop over the conjunctions between |.
RECURSIVE ParseOr(_, _, _)
ParseOr(node, parts, i) ==
  IF i <= Len(parts) /\ parts[i] = OrOp
  THEN LET right == ParseAnd(Include(parts[i + 1]), parts, i + 2)
       IN ParseOr(Node("|", node, right[1]), parts, right[2])
  ELSE node

ParseTokens(parts) ==
  LET first == ParseAnd(Include(parts[1]), parts, 2) IN ParseOr(first[1], parts, first[2])

\* resolve: every tag of the expression is one the library has.
RECURSIVE Resolves(_, _)
Resolves(node, available) ==
  IF node.op = "atom" THEN node.atom.tag \in available
  ELSE Resolves(node.left, available) /\ Resolves(node.right, available)

\* Collection names and tags are addressable (_collect_available_tags_mcp).
AvailableTags == Names \union UNION {TagsOf[n] : n \in Names}

\* atom_matches: c: is the name alone, anything else the name or a tag.
AtomMatches(name, a) ==
  IF a.qualifier = "c" THEN a.tag = name ELSE a.tag \in TagsOf[name] \union {name}

\* exclude_matches, and _eval_include the same.
RECURSIVE Matches(_, _)
Matches(name, node) ==
  CASE node.op = "atom" -> AtomMatches(name, node.atom)
    [] node.op = "&"    -> Matches(name, node.left) /\ Matches(name, node.right)
    [] node.op = "|"    -> Matches(name, node.left) \/ Matches(name, node.right)

-----------------------------------------------------------------------------
(* parse_query_argv.                                                       *)

\* A sigil inside a chain is part of the atom: +a & -b asks for the tag "-b".
Spelled(w) ==
  IF w.sigil = "" THEN w.parts
  ELSE IF w.parts = <<>> THEN <<Atom("none", w.sigil)>>
  ELSE <<Atom(IF w.parts[1].qualifier = "none" THEN "none" ELSE "unknown",
              w.sigil \o w.parts[1].tag)>> \o Tail(w.parts)

\* The parts of a chain, which begins with a word whose sigil is stripped.
Flat(words) == FoldLeft(LAMBDA parts, w : parts \o Spelled(w), words[1].parts, Tail(words))

\* The include chain extends over an operator on its own, and over whatever
\* follows a word that ends in one.
IncludeEnd(words) ==
  IF words = <<>> \/ words[1].sigil # "+" THEN 0
  ELSE LET extends(k) == IsOperator(words[k])
                         \/ (words[k-1].parts # <<>> /\ EndsInOperator(words[k-1]))
       IN CHOOSE k \in 1..Len(words) :
            /\ \A j \in 2..k : extends(j)
            /\ k < Len(words) => ~extends(k + 1)

\* A + without an atom, a first word or a chain that ends in an operator, or a
\* chain that does not parse, is an error.
IncludeFails(words, last) ==
  /\ last > 0
  /\ \/ words[1].parts = <<>>
     \/ EndsInOperator(words[1])
     \/ EndsInOperator(words[last])
     \/ ~Parses(Flat(SubSeq(words, 1, last)))

\* The exclude chain takes an operator on its own together with the word after
\* it, and a word that begins with an operator.
RECURSIVE ExcludeRest(_, _)
ExcludeRest(words, i) ==
  IF i > Len(words) \/ ~StartsWithOperator(words[i]) THEN i - 1
  ELSE IF IsOperator(words[i]) /\ i < Len(words) THEN ExcludeRest(words, i + 2)
  ELSE ExcludeRest(words, i + 1)

ExcludeEnd(words, after) ==
  IF after = Len(words) \/ words[after + 1].sigil # "-" THEN after
  ELSE ExcludeRest(words, after + 2)

\* check_qualifier on a whole word of the exclude chain: what stands before its
\* first colon is its qualifier, so a later atom has one only if the first has.
QualifiedFirst(w) ==
  LET parts == IF StartsWithOperator(w) THEN Tail(w.parts) ELSE w.parts IN
  (\E i \in 1..Len(parts) : parts[i].qualifier \notin {"none", "op"}) => parts[1].qualifier \in {"t", "c"}

\* A - without an atom or inside the chain, an operator at its end, a word whose
\* qualifier is none, or a chain that does not parse.
ExcludeFails(words, after, last) ==
  /\ last > after
  /\ LET chain == SubSeq(words, after + 1, last) IN
     \/ chain[1].parts = <<>>
     \/ \E k \in 2..Len(chain) : chain[k].sigil = "-"
     \/ EndsInOperator(Last(chain))
     \/ \E k \in 1..Len(chain) : ~QualifiedFirst(chain[k])
     \/ ~Parses(Flat(chain))

\* Where the chains end, and whether the line is refused.  A filter needs a
\* question.
Line(words) ==
  LET inc == IncludeEnd(words)
      exc == ExcludeEnd(words, inc)
  IN [ok |-> /\ words # <<>>
             /\ ~IncludeFails(words, inc)
             /\ ~ExcludeFails(words, inc, exc)
             /\ exc > 0 => exc < Len(words),
      inc |-> inc, exc |-> exc]

IncludeExpr(words) == ParseTokens(Flat(SubSeq(words, 1, Line(words).inc)))
ExcludeExpr(words) == ParseTokens(Flat(SubSeq(words, Line(words).inc + 1, Line(words).exc)))

\* The line parses and the library has every tag it names.
Accepted(words) ==
  LET line == Line(words) IN
  /\ line.ok
  /\ line.inc > 0 => Resolves(IncludeExpr(words), AvailableTags)
  /\ line.exc > line.inc => Resolves(ExcludeExpr(words), AvailableTags)

Question(words) == SubSeq(words, Line(words).exc + 1, Len(words))

\* The collections the line selects: the include keeps, the exclude drops.
CollectionsSelected(words) ==
  LET line == Line(words) IN
  {n \in Names : /\ line.inc > 0 => Matches(n, IncludeExpr(words))
                 /\ line.exc > line.inc => ~Matches(n, ExcludeExpr(words))}

-----------------------------------------------------------------------------
(* A line is typed word by word.                                           *)

TypesWord ==
  /\ Len(argv) < MaxWords
  /\ \E w \in Words : argv' = Append(argv, w)

TagInit == argv = <<>>
TagNext == TypesWord

TagTypeOK == argv \in Seq(Words) /\ Len(argv) <= MaxWords

-----------------------------------------------------------------------------
(* Properties.                                                             *)

\* The reference: the alternatives between |, each the atoms between &.
Alternatives(parts) ==
  LET group(i) == Cardinality({j \in 1..i : parts[j] = OrOp})
      atoms == {i \in 1..Len(parts) : parts[i] \notin Operators}
  IN {{parts[i] : i \in {j \in atoms : group(j) = group(k)}} : k \in atoms}

\* "& binds tighter than |": a collection passes an expression exactly when it
\* passes every atom of one of its alternatives.
AndBindsTighter ==
  LET line == Line(argv) IN
  line.ok /\ line.inc > 0 =>
    LET parts == Flat(SubSeq(argv, 1, line.inc)) IN
    \A n \in Names :
      Matches(n, ParseTokens(parts))
        <=> \E alternative \in Alternatives(parts) :
              \A a \in alternative : AtomMatches(n, a)

\* A collection the line names with -c: is not selected, and one it names with
\* +c: is, whatever tags other collections share with that name.
NamesAreStrict ==
  LET line == Line(argv) IN
  Accepted(argv) /\ Len(argv) = 2 /\ Len(argv[1].parts) = 1 /\ argv[1].parts[1].qualifier = "c" =>
    LET named == {argv[1].parts[1].tag} \intersect Names IN
    CollectionsSelected(argv) = IF line.inc > 0 THEN named
                                ELSE IF line.exc > 0 THEN Names \ named ELSE Names

\* Both chains read the same words the same way, so long as operators stand on
\* their own: -a & b drops what +a & b keeps.  The exclude chain alone refuses a
\* word that qualifies a later atom and not its first: -a&t:x, but not +a&t:x.
ChainsAgree ==
  LET plus == [argv EXCEPT ![1].sigil = "+"]
      minus == [argv EXCEPT ![1].sigil = "-"]
  IN /\ argv # <<>>
     /\ argv[1].sigil \in {"+", "-"}
     /\ \A k \in 1..Len(argv) :
          /\ k > 1 => argv[k].sigil = ""
          /\ IsOperator(argv[k]) \/ ~(StartsWithOperator(argv[k]) \/ EndsInOperator(argv[k]))
     => /\ Accepted(minus) <=>
             Accepted(plus) /\ \A k \in 1..Line(plus).inc : QualifiedFirst(argv[k])
        /\ Accepted(minus) => /\ Question(minus) = Question(plus)
                              /\ CollectionsSelected(minus) = Names \ CollectionsSelected(plus)
=============================================================================
