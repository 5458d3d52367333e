------------------------------- MODULE Matching ------------------------------
(***************************************************************************)
(* From the text of a script to the clauses an event runs: the lines of a  *)
(* file become clauses (parser.rs), whose guards guard.rs evaluates, and   *)
(* the registry of Registry answers from the clauses.                      *)
(*                                                                         *)
(* A script as written is a sequence of blocks: the lines of each, with    *)
(* patterns where their texts will be, and the lines of its body.          *)
(***************************************************************************)
EXTENDS Frontmatter, Registry

CONSTANTS
  Sources,       \* scripts as written
  GuardCases,    \* guard lines and bindings, for evaluate_guard on its own
  PatternCases,  \* patterns, for parse_pattern_value on its own
  TokenCases     \* the tokens of guards, for tokenize on its own

VARIABLE written  \* the scripts registered, as written

vars == <<written, registry_vars>>

-----------------------------------------------------------------------------
(* A script as written and its lines.                                      *)

Declares(key, pattern) == [line |-> "field", key |-> key, pattern |-> pattern]
IsFieldLine(l) == l.line = "field"
IsGuard(l) == l.line = "guard"

LineText(l) == IF IsFieldLine(l) THEN FieldLine(l.key, PatternAsText(l.pattern)) ELSE l
BlockText(block) ==
  <<Delimiter>> \o [n \in DOMAIN block.front |-> LineText(block.front[n])] \o <<Delimiter>> \o block.body
Text(source) == FlattenSeq([j \in DOMAIN source |-> BlockText(source[j])])

\* A guard that cannot be evaluated does not hold.
LineHolds(line, bindings) == EvaluateGuard(line, bindings) = "true"

\* What becomes of each source when it is loaded.
Read == [source \in Sources |-> ParseLuaml(Text(source))]

-----------------------------------------------------------------------------
Init == RegistryInit /\ written = <<>>

\* load_file, load_directory: a file is parsed and its script is put last.
Register(source) ==
  /\ \E script \in Read[source] : Load(script)
  /\ written' = Append(written, source)

\* A file that cannot be parsed leaves the registry as it was.
RegisterFails(source) ==
  /\ Unasked
  /\ Read[source] = {}
  /\ asked' = [about |-> "load", input |-> source]
  /\ answer' = {"error"}
  /\ UNCHANGED <<written, scripts>>

\* evaluate_guard, which needs no registry.  Bound: asked while nothing is registered.
Evaluate(case) ==
  /\ Unasked
  /\ scripts = <<>>
  /\ asked' = [about |-> "guard", input |-> case]
  /\ answer' = {EvaluateGuard(case.line, case.bindings)}
  /\ UNCHANGED <<written, scripts>>

\* parse_pattern_value, of the text of a pattern.  The same bound.
ReadPattern(p) ==
  /\ Unasked
  /\ scripts = <<>>
  /\ asked' = [about |-> "pattern", input |-> p]
  /\ answer' = ParsePatternValue(PatternAsText(p))
  /\ UNCHANGED <<written, scripts>>

\* tokenize, of tokens written with or without blanks between them.  The same bound.
ReadTokens(tokens, between) ==
  /\ Unasked
  /\ scripts = <<>>
  /\ asked' = [about |-> "tokens", input |-> tokens, between |-> between]
  /\ answer' = Tokenize(WrittenWith(tokens, between))
  /\ UNCHANGED <<written, scripts>>

Next ==
  \/ \E source \in Sources : Register(source) \/ RegisterFails(source)
  \/ \E e \in Events : MatchEvent(e) /\ UNCHANGED written
  \/ \E query \in Queries : QuerySubset(query) /\ UNCHANGED written
  \/ \E case \in GuardCases : Evaluate(case)
  \/ \E p \in PatternCases : ReadPattern(p)
  \/ \E tokens \in TokenCases, between \in {<<>>, <<" ">>} : ReadTokens(tokens, between)

Spec == Init /\ [][Next]_vars

-----------------------------------------------------------------------------
(* What a script as written means, without a parser and without an order   *)
(* of evaluation: which assignments of values to its variables satisfy it. *)

RECURSIVE Fits(_, _, _), VariablesOf(_), Parts(_)

\* With its variables as in b, the pattern is the value.
Fits(p, v, b) ==
  CASE p.sort = "any" -> TRUE
    [] p.sort = "literal" -> v = p.value \/ (p = GlobalEnum /\ Is(v, "enum"))
    [] p.sort = "variable" -> p.name \in DOMAIN b /\ b[p.name] = v
    [] p.sort = "pin" -> FALSE
    [] p.sort = "elements" ->
         Is(v, "list") /\ Len(v.list) = Len(p.items)
         /\ \A i \in DOMAIN p.items : Fits(p.items[i], v.list[i], b)
    [] p.sort = "head_tail" ->
         Is(v, "list")
         /\ \E x \in Parts(v), rest \in Parts(v) :
              Is(rest, "list") /\ v.list = <<x>> \o rest.list
              /\ Fits(p.head, x, b) /\ Fits(p.tail, rest, b)
    [] p.sort = "map" ->
         Is(v, "map")
         /\ \A i \in DOMAIN p.fields :
              p.fields[i].key \in DOMAIN v.map /\ Fits(p.fields[i].pattern, v.map[p.fields[i].key], b)

VariablesOf(p) ==
  CASE p.sort \in {"variable", "pin"} -> <<p.name>>
    [] p.sort = "elements" -> FlattenSeq([i \in DOMAIN p.items |-> VariablesOf(p.items[i])])
    [] p.sort = "head_tail" -> VariablesOf(p.head) \o VariablesOf(p.tail)
    [] p.sort = "map" -> FlattenSeq([i \in DOMAIN p.fields |-> VariablesOf(p.fields[i].pattern)])
    [] OTHER -> <<>>

\* A value and what it is made of, the ends of lists included.
Parts(v) ==
  {v} \cup (IF Is(v, "list") /\ v.list # <<>> THEN Parts(Head(v.list)) \cup Parts(List(Tail(v.list)))
            ELSE IF Is(v, "map") THEN UNION {Parts(v.map[k]) : k \in DOMAIN v.map}
            ELSE {})

FieldsOf(block) ==
  LET lines == SelectSeq(block.front, IsFieldLine)
  IN [n \in DOMAIN lines |-> Field(lines[n].key, lines[n].pattern)]

GuardsOf(block) ==
  LET lines == SelectSeq(block.front, IsGuard) IN [n \in DOMAIN lines |-> lines[n].tokens]

\* The pattern a block has for a key: its own, or else that of the first block.
PatternFor(source, j, key) ==
  LET own == FieldsOf(source[j])
      from == IF key \in Keys(own) THEN own ELSE FieldsOf(source[1])
  IN from[FirstWithKey(from, key)].pattern

BlockKeys(source, j) == Keys(FieldsOf(source[j])) \cup Keys(FieldsOf(source[1]))

BlockVariables(source, j) ==
  UNION {ToSet(VariablesOf(PatternFor(source, j, k))) : k \in BlockKeys(source, j)}

Satisfies(source, j, e, b) ==
  /\ \A k \in BlockKeys(source, j) :
       LET p == PatternFor(source, j, k)
       IN IF k \in DOMAIN e THEN Fits(p, e[k], b) ELSE p = GlobalEnum
  /\ \A g \in ToSet(GuardsOf(source[j])) : EvaluateGuard(g, b) = "true"

Meaning(source, j, e) ==
  {b \in [BlockVariables(source, j) -> UNION {Parts(e[k]) : k \in DOMAIN e}] :
     Satisfies(source, j, e, b)}

\* A line belongs to the lines from a place up to the next field or guard.
LastBefore(front, place) ==
  Max({0} \cup {n \in 1 .. place - 1 : IsFieldLine(front[n]) \/ IsGuard(front[n])})
AnnotationsAbove(front, place) ==
  LET above == SelectSeq(SubSeq(front, LastBefore(front, place) + 1, place - 1), NotABlank)
      lines == SelectSeq(above, LAMBDA l : l.line = "annotation")
  IN [n \in DOMAIN lines |-> <<lines[n].key, lines[n].value>>]

\* The annotations of the clause itself: in the first block those above its first field; in
\* a block without fields those at its end.
OwnAnnotations(source, j) ==
  LET front == source[j].front
      first == SelectInSeq(front, IsFieldLine)
  IN IF first = 0 THEN AnnotationsAbove(front, Len(front) + 1)
     ELSE IF j = 1 THEN AnnotationsAbove(front, first)
     ELSE <<>>

\* The annotations a field has in a block.
AnnotationsIn(source, j, key) ==
  LET front == source[j].front
      place == SelectInSeq(front, LAMBDA l : IsFieldLine(l) /\ l.key = key)
  IN IF place = 0 \/ (j = 1 /\ place = SelectInSeq(front, IsFieldLine)) THEN <<>>
     ELSE AnnotationsAbove(front, place)

\* A field without annotations of its own has those of that field in the first block.
FieldAnnotations(source, j, key) ==
  LET own == AnnotationsIn(source, j, key)
  IN IF own = <<>> THEN AnnotationsIn(source, 1, key) ELSE own

\* The scripts whose layout is beyond doubt: each block shows at its first line that it is
\* one, no delimiter in a body is followed by a line that could be in a block, and only
\* the first block has an extension, at its top.
OpensBlock(lines) ==
  LET shown == SelectSeq(lines, NotABlank)
  IN shown # <<>> /\ Head(shown).line \in {"field", "guard", "annotation"}

WellLaid(source) ==
  \A j \in DOMAIN source :
    LET front == source[j].front
        body == source[j].body
    IN /\ \A n \in DOMAIN front :
            /\ front[n].line \in {"blank", "extension", "annotation", "guard", "field"}
            /\ IsGuard(front[n]) => front[n].tokens # <<>>
            /\ IsFieldLine(front[n]) => Writable(front[n].pattern)
            /\ front[n].line = "extension" => j = 1 /\ n = 1 /\ front[n].name # ""
       /\ j > 1 => OpensBlock(front)
       /\ \A n \in DOMAIN body : body[n] = Delimiter => ~OpensBlock(SubSeq(body, n + 1, Len(body)))

\* And the scripts whose meaning is: no key twice in a block, no variable twice in a clause,
\* no pin, and an "or" only where it is in the only guard line of its block.
PlainBlock(source, j) ==
  /\ Cardinality(Keys(FieldsOf(source[j]))) = Len(FieldsOf(source[j]))
  /\ \A k \in BlockKeys(source, j) :
       LET names == VariablesOf(PatternFor(source, j, k))
       IN /\ Cardinality(ToSet(names)) = Len(names)
          /\ \A l \in BlockKeys(source, j) \ {k} :
               ToSet(names) \cap ToSet(VariablesOf(PatternFor(source, j, l))) = {}
          /\ PatternFor(source, j, k).sort # "pin"
  /\ \/ Len(GuardsOf(source[j])) <= 1
     \/ \A g \in ToSet(GuardsOf(source[j])) : Word("or") \notin ToSet(g)

WellLaidSources == {source \in Sources : WellLaid(source)}
PlainSources == {source \in WellLaidSources : \A j \in DOMAIN source : PlainBlock(source, j)}

-----------------------------------------------------------------------------
(* Properties.                                                             *)

\* The last question asked, and the answer to it, are about the scripts registered.
TypeOK ==
  /\ written \in Seq(Sources)
  /\ Len(written) <= MaxScripts
  /\ DOMAIN scripts = DOMAIN written
  /\ \A i \in DOMAIN scripts :
       written[i] \in WellLaidSources =>
         /\ DOMAIN ClausesOf(i) = DOMAIN written[i]
         /\ \A j \in DOMAIN written[i] :
              Keys(ClausesOf(i)[j].fields) = BlockKeys(written[i], j)
  /\ asked.about \in {"nothing", "load", "event", "query", "guard", "pattern", "tokens"}
  /\ asked.about \in {"event", "query"} =>
       \A a \in answer : a.script \in DOMAIN scripts /\ a.clause \in DOMAIN ClausesOf(a.script)
  /\ asked.about = "event" =>
       asked.input \in Events /\ \A a, b \in answer : a.script = b.script => a = b
  /\ asked.about = "query" => asked.input \in Queries
  /\ asked.about = "guard" => answer \in {{"true"}, {"false"}, {"error"}}

\* A script is read as it is written: when its layout is beyond doubt it loads, and each of
\* its blocks is a clause with the body, the annotations and the annotations of fields that
\* stand in it, whatever delimiters the bodies hold.  The code finds the blocks by looking
\* for pairs of delimiters, and decides which annotations are whose while it reads on.  A
\* pattern without the marks of lists in its strings is read back from its text, and the
\* tokens of a guard from theirs, if there are blanks where they are needed.
ReadAsWritten ==
  /\ asked.about = "load" => asked.input \notin WellLaidSources
  /\ asked.about = "pattern" /\ Writable(asked.input) => answer = {asked.input}
  /\ asked.about = "tokens" =>
       (answer = {asked.input}
         <=> \/ asked.between # <<>>
             \/ \A i \in 1 .. Len(asked.input) - 1 : ~Glue(asked.input[i], asked.input[i + 1]))
  /\ \A i \in {k \in DOMAIN written : written[k] \in PlainSources} :
       /\ scripts[i].extension =
            {l.name : l \in {m \in ToSet(written[i][1].front) : m.line = "extension"}}
       /\ \A j \in DOMAIN written[i] :
            LET clause == ClausesOf(i)[j]
                annotated == {k \in BlockKeys(written[i], j) : FieldAnnotations(written[i], j, k) # <<>>}
            IN /\ clause.body = written[i][j].body
               /\ clause.annotations = OwnAnnotations(written[i], j)
               /\ clause.field_annotations =
                    [k \in annotated |-> FieldAnnotations(written[i], j, k)]

\* A script runs for an event exactly when one of its blocks, with the fields it takes from
\* the first block, describes the event and each of its guard lines holds; it is the first
\* such block that runs, and its variables are what the description makes them.  In the code
\* this passes through the merge of fields, the joining of guard lines, the matcher and the
\* evaluator, none of which sees the block as it was written.
MatchesAsWritten ==
  asked.about = "event" =>
    \A i \in {k \in DOMAIN written : written[k] \in PlainSources} :
      LET means == {j \in DOMAIN written[i] : Meaning(written[i], j, asked.input) # {}}
          got == {a \in answer : a.script = i}
      IN IF means = {} THEN got = {}
         ELSE LET first == CHOOSE j \in means : \A k \in means : j <= k
              IN got = {[script |-> i, clause |-> first, bindings |-> b] :
                          b \in Meaning(written[i], first, asked.input)}

\* A guard is a disjunction of conjunctions of terms and comparisons, each negated by the
\* "not"s before it: for lines without parentheses, what the parser and the evaluator say
\* is what follows from where the "or"s and the "and"s are.
Runs(line, w, from, to) ==
  {<<a, b>> \in (from..to) \X (from..to) :
     /\ a <= b
     /\ a = from \/ line[a - 1] = Word(w)
     /\ b = to \/ line[b + 1] = Word(w)
     /\ \A n \in a..b : line[n] # Word(w)}

AtomHolds(line, a, b, bindings) ==
  LET nots == Cardinality({n \in a..b : line[n] = Word("not")})
      atom == SubSeq(line, a + nots, b)
      holds == IF Len(atom) = 1 THEN Holds(atom[1], bindings)
               ELSE Compares(atom[2].op, GuardValue(atom[1], bindings), GuardValue(atom[3], bindings))
  IN IF nots % 2 = 0 THEN holds ELSE ~holds

GuardPrecedence ==
  asked.about = "guard" /\ Word("(") \notin ToSet(asked.input.line) =>
    LET line == asked.input.line
        holds == \E o \in Runs(line, "or", 1, Len(line)) :
                   \A t \in Runs(line, "and", o[1], o[2]) :
                     AtomHolds(line, t[1], t[2], asked.input.bindings)
    IN answer = {Verdict(holds)}

\* Every guard line of a clause that runs holds on its own: README.md and parser.rs say that
\* the lines are ANDed, and the code joins their text with " and ".
GuardLinesAnded ==
  asked.about = "event" =>
    \A m \in answer :
      \A g \in ToSet(GuardsOf(written[m.script][m.clause])) :
        EvaluateGuard(g, m.bindings) = "true"
=============================================================================
