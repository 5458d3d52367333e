-------------------------------- MODULE Guards -------------------------------
(***************************************************************************)
(* Guard expressions of luaml clauses: how guard.rs reads tokens from      *)
(* their text, and its recursive-descent parser and evaluator, from tokens *)
(* on.                                                                     *)
(*                                                                         *)
(* A text is a sequence of characters, of which there are few here.  A     *)
(* token of a text is its kind and its text: an operator, a word (and, or, *)
(* not, nil, true and false are words that are not variables), a number or *)
(* a string.                                                               *)
(***************************************************************************)
EXTENDS Patterns, Integers

CONSTANT
  Rank  \* the order of the strings

\* Tokens.  A term is a literal or a variable.
Term(v) == [t |-> "literal", value |-> v]
Var(name) == [t |-> "variable", name |-> name]
Cmp(op) == [t |-> "compare", op |-> op]
Word(w) == [t |-> w]

-----------------------------------------------------------------------------
(* The parser: what it has read as an expression, and the tokens left.     *)

Parsed(expr, rest) == [ok |-> TRUE, expr |-> expr, rest |-> rest]
Failed == [ok |-> FALSE]

StartsWith(ts, t) == ts # <<>> /\ Head(ts).t = t

RECURSIVE ParseChain(_, _), Chain(_, _), ParseNot(_)

ParsePrimary(ts) ==
  IF StartsWith(ts, "literal") \/ StartsWith(ts, "variable")
  THEN Parsed([e |-> "term", term |-> Head(ts)], Tail(ts))
  ELSE IF StartsWith(ts, "(")
  THEN LET inner == ParseChain("or", Tail(ts))
       IN IF inner.ok /\ StartsWith(inner.rest, ")") THEN Parsed(inner.expr, Tail(inner.rest)) ELSE Failed
  ELSE Failed

ParseCompare(ts) ==
  LET left == ParsePrimary(ts)
  IN IF ~left.ok \/ ~StartsWith(left.rest, "compare") THEN left
     ELSE LET right == ParsePrimary(Tail(left.rest))
          IN IF ~right.ok THEN Failed
             ELSE Parsed([e |-> "compare", op |-> Head(left.rest).op, left |-> left.expr,
                          right |-> right.expr], right.rest)

ParseNot(ts) ==
  IF ~StartsWith(ts, "not") THEN ParseCompare(ts)
  ELSE LET inner == ParseNot(Tail(ts))
       IN IF inner.ok THEN Parsed([e |-> "not", arg |-> inner.expr], inner.rest) ELSE Failed

\* An operand of "or" is read as one of "and": what follows an "and" is not reached.
SlipOperand(op, ts) == ParseNot(ts)

\* parse_or reads operands with parse_and, and parse_and with parse_not.
Operand(op, ts) == IF op = "or" THEN ParseChain("and", ts) ELSE ParseNot(ts)

Chain(op, left) ==
  IF ~left.ok \/ ~StartsWith(left.rest, op) THEN left
  ELSE LET right == Operand(op, Tail(left.rest))
       IN IF ~right.ok THEN Failed
          ELSE Chain(op, Parsed([e |-> op, left |-> left.expr, right |-> right.expr], right.rest))

ParseChain(op, ts) == Chain(op, Operand(op, ts))

-----------------------------------------------------------------------------
(* The evaluator.                                                          *)

\* What a comparison sees of a field value: an enum is its name, and lists, maps and
\* variables that are not bound are nil.
GuardValue(term, b) ==
  IF term.t = "literal" THEN term.value
  ELSE IF term.name \notin DOMAIN b THEN Null
  ELSE LET v == b[term.name]
       IN IF Is(v, "enum") THEN Str(v.enum) ELSE IF Is(v, "list") \/ Is(v, "map") THEN Null ELSE v

\* A term on its own: enums, lists and maps hold.
Holds(term, b) ==
  LET v == IF term.t = "literal" THEN term.value
           ELSE IF term.name \in DOMAIN b THEN b[term.name] ELSE Null
  IN v # Null /\ v \notin {Bool(FALSE), Num(0), Str("")}

\* A string that reads as a number compares as that number.
AsNumber(g) ==
  IF Is(g, "num") THEN {g.num}
  ELSE IF Is(g, "str") /\ g.str \in DOMAIN Numeral THEN {Numeral[g.str]}
  ELSE {}

GuardEq(l, r) == l = r \/ (DOMAIN l # DOMAIN r /\ AsNumber(l) \cap AsNumber(r) # {})

\* The differences guard_cmp may find: none between values it cannot order.
GuardCmp(l, r) ==
  IF AsNumber(l) # {} /\ AsNumber(r) # {} THEN {m - n : m \in AsNumber(l), n \in AsNumber(r)}
  ELSE IF Is(l, "str") /\ Is(r, "str") THEN {Rank[l.str] - Rank[r.str]}
  ELSE {}

Compares(op, l, r) ==
  CASE op = "==" -> GuardEq(l, r)
    [] op = "~=" -> ~GuardEq(l, r)
    [] op = "<" -> \E d \in GuardCmp(l, r) : d < 0
    [] op = ">" -> \E d \in GuardCmp(l, r) : d > 0
    [] op = "<=" -> \E d \in GuardCmp(l, r) : d <= 0
    [] op = ">=" -> \E d \in GuardCmp(l, r) : d >= 0

Verdict(holds) == IF holds THEN "true" ELSE "false"

RECURSIVE Eval(_, _)
Eval(x, b) ==
  CASE x.e = "term" -> Verdict(Holds(x.term, b))
    [] x.e = "compare" ->
         IF x.left.e = "term" /\ x.right.e = "term"
         THEN Verdict(Compares(x.op, GuardValue(x.left.term, b), GuardValue(x.right.term, b)))
         ELSE "error"
    [] x.e = "not" ->
         LET arg == Eval(x.arg, b) IN IF arg = "error" THEN arg ELSE Verdict(arg = "false")
    [] x.e = "and" -> LET left == Eval(x.left, b) IN IF left = "true" THEN Eval(x.right, b) ELSE left
    [] x.e = "or" -> LET left == Eval(x.left, b) IN IF left = "false" THEN Eval(x.right, b) ELSE left

EvaluateGuard(ts, b) ==
  LET whole == ParseChain("or", ts)
  IN IF whole.ok /\ whole.rest = <<>> THEN Eval(whole.expr, b) ELSE "error"

-----------------------------------------------------------------------------
(* The text.                                                               *)

GuardToken(kind, text) == [kind |-> kind, text |-> text]

Space == {" ", "\t", "\r", "\n"}
QuoteMark == {"\"", "'"}
Digit == {"1", "2"}
Letter == {"a", "n", "d", "o", "r", "x", "_"}
TwoCharacters == {<<"=", "=">>, <<"~", "=">>, <<"!", "=">>, <<"<", "=">>, <<">", "=">>}
OneCharacter == {"(", ")", "<", ">"}

\* The characters from i on that are in a set, and the place after them.
PlaceAfter(s, i, set) == Min({k \in i..Len(s) + 1 : k > Len(s) \/ s[k] \notin set})
RunFrom(s, i, set) == SubSeq(s, i, PlaceAfter(s, i, set) - 1)

Minus(s, i) == s[i] = "-" /\ i < Len(s) /\ s[i + 1] \in Digit

\* The token at i and the place after it: none if there can be none.
OperatorAt(s, i) ==
  IF i < Len(s) /\ <<s[i], s[i + 1]>> \in TwoCharacters
  THEN {[token |-> GuardToken("operator", IF s[i] = "!" THEN <<"~", "=">> ELSE SubSeq(s, i, i + 1)),
         next |-> i + 2]}
  ELSE IF s[i] \in OneCharacter THEN {[token |-> GuardToken("operator", <<s[i]>>), next |-> i + 1]}
  ELSE {}

\* To the next quote of its kind; nothing is escaped.
StringAt(s, i) ==
  {[token |-> GuardToken("string", SubSeq(s, i + 1, k - 1)), next |-> k + 1] :
     k \in {k \in i + 1..Len(s) : s[i] \in QuoteMark /\ s[k] = s[i]
                                    /\ \A m \in i + 1..k - 1 : s[m] # s[i]}}

\* As many digits and points as there are, which may be no number then.
NumberAt(s, i) ==
  LET digits == RunFrom(s, IF s[i] = "-" THEN i + 1 ELSE i, Digit \cup {"."})
      text == (IF s[i] = "-" THEN <<"-">> ELSE <<>>) \o digits
  IN  IF (s[i] \in Digit \/ Minus(s, i)) /\ Len(SelectSeq(digits, LAMBDA c : c = ".")) <= 1
      THEN {[token |-> GuardToken("number", text), next |-> i + Len(text)]} ELSE {}

WordAt(s, i) ==
  IF s[i] \in Letter
  THEN {[token |-> GuardToken("word", RunFrom(s, i, Letter \cup Digit)),
         next |-> PlaceAfter(s, i, Letter \cup Digit)]}
  ELSE {}

\* The tokens of a text; any other character is an error.
Tokenize(s) ==
  LET from[i \in 1..Len(s) + 1] ==
        IF i > Len(s) THEN {<<>>}
        ELSE IF s[i] \in Space THEN from[i + 1]
        ELSE UNION {{<<x.token>> \o rest : rest \in from[x.next]} :
                      x \in OperatorAt(s, i) \cup StringAt(s, i) \cup NumberAt(s, i) \cup WordAt(s, i)}
  IN  from[1]

-----------------------------------------------------------------------------
(* The reference: how tokens are written.                                  *)

Written(token) ==
  IF token.kind # "string" THEN token.text
  ELSE IF "\"" \in ToSet(token.text) THEN <<"'">> \o token.text \o <<"'">>
  ELSE <<"\"">> \o token.text \o <<"\"">>
WrittenWith(tokens, between) ==
  FlattenSeq([i \in DOMAIN tokens |-> Written(tokens[i]) \o between])

\* Two tokens that without a blank between them are others: a word or a number goes on
\* with what follows, and < and > become an operator with ==.
Glue(token, next) ==
  \/ token.kind = "word" /\ (next.kind = "word" \/ (next.kind = "number" /\ Head(next.text) # "-"))
  \/ token.kind = "number" /\ next.kind = "number" /\ Head(next.text) # "-"
  \/ token.kind = "operator" /\ token.text \in {<<"<">>, <<">">>} /\ next.text = <<"=", "=">>
       /\ next.kind = "operator"
=============================================================================
