------------------------------ MODULE MCMatching -----------------------------
(***************************************************************************)
(* An instance of Matching for TLC: scripts with one block and with more,  *)
(* fields that a block takes from the first one or puts in the place of    *)
(* its own, every kind of pattern, guards over numbers, strings and enums, *)
(* annotations above fields and guards, bodies with delimiters of their    *)
(* own; every event with or without each of the fields; every part of an   *)
(* event with at most two fields as a query; patterns two levels deep; up  *)
(* to three tokens of every kind.                                          *)
(***************************************************************************)
EXTENDS Matching

\* The recursion of the matcher, closed.
RECURSIVE MCMatchPart(_, _)
MCMatchPart(p, v) ==
  IF p.sort \in Composite
  THEN UNION {MatchAll([i \in DOMAIN parts |-> MCMatchPart(parts[i].pattern, parts[i].value)]) :
                parts \in PartsOf(p, v)}
  ELSE MatchAlone(p, v)

MCNumeral == ("1" :> 1) @@ ("2" :> 2)
MCRank == ("2" :> 0) @@ ("idle" :> 1) @@ ("web" :> 2)
MCSpelling ==
  ("a|b" :> <<"a", "|", "b">>) @@ ("a,b" :> <<"a", ",", "b">>)
    @@ ("a]b" :> <<"a", "]", "b">>) @@ ("a:b" :> <<"a", ":", "b">>)

x == Var("x")
Number(n) == Term(Num(n))
Note(n) == Annotation("note", n)
Block(front, body) == [front |-> front, body |-> body]

\* ---  surface: :web:  n: $x  ? x > 0  ---  surface: :global:  ---
Overrides ==
  <<Block(<<Extension("ext"), Blank, Note(1), Declares("surface", Literal(Enum("web"))),
            Note(2), Note(3), Declares("n", Variable("x")), GuardLine(<<x, Cmp(">"), Number(1)>>)>>,
          <<Code("a"), Delimiter, Code("b")>>),
    Block(<<Note(4), Declares("surface", GlobalEnum)>>, <<Blank, Code("c")>>)>>

\* Three blocks: the third has the surface of the first, not of the second, which has no
\* body; the annotations of n are those above it in each block, or else in the first.
Inherits ==
  <<Block(<<Note(1), Blank, Declares("surface", Literal(Enum("web"))), Note(2), Declares("meta", GlobalEnum)>>,
          <<Code("a"), Delimiter, Code("b"), Delimiter>>),
    Block(<<Declares("surface", Literal(Str("web"))), Note(3), Blank, Declares("n", Literal(Num(1)))>>,
          <<>>),
    Block(<<Note(4), Declares("meta", GlobalEnum), Note(5), Declares("n", Literal(Num(2))), Note(6)>>,
          <<Code("c"), Delimiter>>)>>

\* Lists, and two guard lines, one with a comparison of a string and a number.
Lists ==
  <<Block(<<Declares("items", HeadTail(Variable("h"), Variable("t"))), Note(1),
            GuardLine(<<x, Cmp(">="), Number(2)>>), Declares("n", Variable("x")), Note(2),
            GuardLine(<<Word("not"), Var("h"), Cmp("=="), Term(Str("idle"))>>)>>,
          <<Code("a")>>),
    Block(<<Declares("items", Elements(<<Wildcard, Literal(Enum("web"))>>)), Declares("n", Wildcard)>>,
          <<Code("b")>>)>>

\* Maps, and a guard line with an "or".
Maps ==
  <<Block(<<Declares("meta", MapPattern(<<Field("u", Variable("x")), Field("on", Literal(Bool(TRUE)))>>)),
            GuardLine(<<x, Cmp("=="), Number(2), Word("or"), x, Cmp("~="), Term(Str("idle"))>>)>>,
          <<Code("a")>>),
    Block(<<GuardLine(<<Var("m"), Word("and"), Var("m"), Cmp("=="), Term(Null)>>),
            Declares("meta", Variable("m"))>>,
          <<Code("b")>>)>>

\* An "or" in one of two guard lines; and what is not plain in a pattern: a pin, a key
\* twice, a variable twice.
Ors ==
  <<Block(<<Declares("n", Variable("x")),
            GuardLine(<<x, Cmp("=="), Number(1), Word("or"), x, Cmp("=="), Number(2)>>),
            GuardLine(<<x, Cmp(">"), Number(1)>>)>>,
          <<Code("a")>>),
    Block(<<Declares("n", Pin("x"))>>, <<Code("b")>>)>>
Doubled ==
  <<Block(<<Declares("n", Variable("x")), Declares("surface", Variable("x")),
            Declares("n", Literal(Num(2))), GuardLine(<<x, Cmp("=="), Term(Str("web"))>>)>>,
          <<Code("a")>>),
    Block(<<Declares("n", Literal(Num(1)))>>, <<Code("b")>>)>>

\* What is not read: a bar in a string of a list, a colon in Lua between two delimiters, a
\* second extension, a block that is left open.
Unread ==
  {<<Block(<<Declares("items", Elements(<<Literal(Str("a|b"))>>))>>, <<>>)>>,
   <<Block(<<Declares("n", Wildcard)>>,
           <<Delimiter, FieldLine("s", <<"len">>), Delimiter>>)>>,
   <<Block(<<Extension("ext"), Extension("other")>>, <<>>)>>,
   <<Block(<<Declares("n", Wildcard), Extension("ext")>>, <<>>)>>}

MCSources == {Overrides, Inherits, Lists, Maps, Ors, Doubled} \cup Unread
MCLoadable == UNION {ParseLuaml(Text(source)) : source \in MCSources}

FieldValues ==
  [surface |-> {Enum("web"), Enum("idle"), Str("web")},
   n |-> {Num(1), Num(2), Str("2")},
   items |-> {List(<< >>), List(<<Str("idle")>>), List(<<Num(1), Enum("web")>>),
             List(<<Str("idle"), Enum("web"), Null>>)},
   meta |-> {Map([u |-> Num(2), on |-> Bool(TRUE)]), Map([u |-> Str("idle"), on |-> Bool(TRUE)]), Null}]

FieldMaps ==
  UNION {{f \in [keys -> UNION {FieldValues[k] : k \in keys}] : \A k \in keys : f[k] \in FieldValues[k]} :
           keys \in SUBSET DOMAIN FieldValues}

MCEvents == {e \in FieldMaps : "items" \in DOMAIN e => "meta" \notin DOMAIN e}
MCQueries == {e \in FieldMaps : Cardinality(DOMAIN e) <= 2}

\* The patterns of the clauses with the values that events have for them.
RECURSIVE PairsWith(_), NestedIn(_)
PairsWith(pair) ==
  {pair} \cup (IF pair.pattern.sort \in Composite
               THEN UNION {UNION {PairsWith(parts[i]) : i \in DOMAIN parts} :
                             parts \in PartsOf(pair.pattern, pair.value)}
               ELSE {})
PatternsFor(key) ==
  UNION {UNION {{f.pattern : f \in {g \in ToSet(script.clauses[j].fields) : g.key = key}} :
                  j \in DOMAIN script.clauses} : script \in MCLoadable}
MCPairs ==
  UNION {UNION {PairsWith(Part(p, v)) : p \in PatternsFor(key), v \in FieldValues[key]} :
           key \in DOMAIN FieldValues}
NestedIn(p) ==
  CASE p.sort = "elements" -> UNION {{q} \cup NestedIn(q) : q \in ToSet(p.items)}
    [] p.sort = "head_tail" -> UNION {{q} \cup NestedIn(q) : q \in {p.head, p.tail}}
    [] p.sort = "map" -> UNION {{f.pattern} \cup NestedIn(f.pattern) : f \in ToSet(p.fields)}
    [] OTHER -> {}

\* The plain ones of them, each with a value it accepts.
RECURSIVE MCSamplePart(_)
MCSamplePart(p) ==
  CASE p.sort = "elements" -> List([i \in DOMAIN p.items |-> MCSamplePart(p.items[i])])
    [] p.sort = "head_tail" -> List(<<MCSamplePart(p.head)>> \o MCSamplePart(p.tail).list)
    [] p.sort = "map" ->
         Map([k \in Keys(p.fields) |-> MCSamplePart(p.fields[FirstWithKey(p.fields, k)].pattern)])
    [] OTHER -> SampleAlone(p)
PlainlyMade(p) ==
  /\ p.sort # "pin"
  /\ p.sort = "head_tail" => p.tail.sort \in {"any", "variable", "elements", "head_tail"}
  /\ p.sort = "map" => EachKeyOnce(p.fields)
MCPlainPatterns ==
  {p \in UNION {{q} \cup NestedIn(q) : q \in UNION {PatternsFor(key) : key \in DOMAIN FieldValues}} :
     \A q \in {p} \cup NestedIn(p) : PlainlyMade(q)}

MCNesting(p) == Cardinality(NestedIn(p))
MCAssignments ==
  [{"x", "h", "t", "m"} -> {Num(1), Num(2), Str("idle"), List(<<Enum("web")>>), List(<<>>), Null}]

MCApiPatterns ==
  {<<>>,
   <<Field("surface", GlobalEnum)>>,
   <<Field("surface", Literal(Enum("web")))>>,
   <<Field("surface", Wildcard), Field("n", Literal(Num(2)))>>,
   <<Field("n", Variable("x"))>>}

\* Lines of three operands, of which some are negated, and lines with parentheses.
Operands == {<<Term(Bool(TRUE))>>, <<Term(Bool(FALSE))>>, <<Word("not"), x, Cmp("<"), Number(2)>>}
Infix(a, v, b, w, c) == a \o <<Word(v)>> \o b \o <<Word(w)>> \o c
Lines ==
  {Infix(a, v, b, w, c) : a, b, c \in Operands, v, w \in {"and", "or"}}
  \cup {<<Word("(")>> \o a \o <<Word("or")>> \o b \o <<Word(")"), Word("and")>> \o b : a, b \in Operands}
  \cup {<<Word("not"), Word("not")>> \o a : a \in Operands}
MCGuardCases == {[line |-> line, bindings |-> "x" :> Num(n)] : line \in Lines, n \in 1..2}

Atoms ==
  {Wildcard, Variable("x"), Pin("x")}
    \cup {Literal(v) : v \in {Enum("web"), Num(2), Bool(FALSE)}}
    \cup {Literal(Str(text)) : text \in {"idle"} \cup DOMAIN MCSpelling}
Around(inner) ==
  {Elements(<<>>), MapPattern(<<>>)}
    \cup UNION {{Elements(<<p>>), MapPattern(<<Field("k", p)>>)} : p \in inner}
    \cup UNION {{Elements(<<p, q>>), HeadTail(p, q), MapPattern(<<Field("k", p), Field("on", q)>>)} :
                   p, q \in inner}
MCPatternCases ==
  Atoms \cup Around(Atoms)
    \cup Around(Around({Variable("x"), Literal(Str("a|b")), Literal(Str("a,b"))}))

\* Up to three tokens of every kind.
UpToThree(set) == UNION {[1..n -> set] : n \in 0..3}
MCTokenCases ==
  UpToThree({GuardToken("operator", text) : text \in {<<"(">>, <<"<">>, <<"<", "=">>, <<"=", "=">>, <<"~", "=">>}}
              \cup {GuardToken("word", text) : text \in {<<"x">>, <<"o", "r">>, <<"x", "1">>}}
              \cup {GuardToken("number", text) : text \in {<<"1">>, <<"-", "2">>, <<"1", ".", "2">>}}
              \cup {GuardToken("string", text) : text \in {<<>>, <<"\"">>, <<"'", " ">>}})
=============================================================================
