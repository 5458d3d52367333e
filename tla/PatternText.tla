----------------------------- MODULE PatternText -----------------------------
(***************************************************************************)
(* The text of a pattern and how it is read (pattern.rs).  A text is a     *)
(* sequence of marks and words; spaces, which the parser trims, are left   *)
(* out, and so are the other kind of quotes and numbers below zero.  What  *)
(* is read is a set: empty for a text that is no pattern, and of the one   *)
(* pattern for a text that is one.                                         *)
(***************************************************************************)
EXTENDS Patterns, Integers, FiniteSets

CONSTANT
  Spelling  \* the strings with marks in them, and their texts

Open == {"[", "{"}
Close == {"]", "}"}
Quote == "\""
Marks == Open \cup Close \cup {",", "|", ":", Quote, "$", "^", "*"}

\* The identifier a text is, if it is one.
Identifiers(text) == IF Len(text) = 1 THEN ToSet(text) \ (Marks \cup DOMAIN Numeral) ELSE {}

Enclosed(text, left, right) == Len(text) > 1 /\ Head(text) = left /\ Last(text) = right
Inner(text) == SubSeq(text, 2, Len(text) - 1)

\* How deep in brackets one is after some places of a text.
Depth(text, places) ==
  Cardinality({k \in places : text[k] \in Open}) - Cardinality({k \in places : text[k] \in Close})

\* Quotes count for split_top_level and not for find_pipe.
Quoted(text, i) == Cardinality({k \in 1 .. i - 1 : text[k] = Quote}) % 2 = 1

Cuts(text, delim) ==
  {i \in DOMAIN text :
     text[i] = delim /\ ~Quoted(text, i) /\ Depth(text, {k \in 1 .. i - 1 : ~Quoted(text, k)}) = 0}

Pipes(text) == {i \in DOMAIN text : text[i] = "|" /\ Depth(text, 1 .. i - 1) = 0}

\* The parts between the cuts; an empty one at the end is dropped.
Between(text, ends, n) == SubSeq(text, IF n = 1 THEN 1 ELSE ends[n - 1] + 1, ends[n] - 1)
WithoutEmptyEnd(parts) == IF Last(parts) = <<>> THEN Front(parts) ELSE parts
PartsAt(text, ends) == WithoutEmptyEnd([n \in DOMAIN ends |-> Between(text, ends, n)])
SplitTopLevel(text, delim) == PartsAt(text, SetToSortSeq(Cuts(text, delim) \cup {Len(text) + 1}, <))

\* A word, or a text in marks without brackets.  A quote on its own, at which the code
\* panics, is taken for an error.
ParseSimple(text) ==
  IF text = <<"*">> \/ text = <<"_">> THEN {Wildcard}
  ELSE IF Enclosed(text, ":", ":") /\ Len(text) > 2
  THEN {Literal(Enum(word)) : word \in Identifiers(Inner(text))}
  ELSE IF Enclosed(text, Quote, Quote) THEN {Literal(Str(FoldLeft(\o, "", Inner(text))))}
  ELSE IF text \in {<<"true">>, <<"false">>} THEN {Literal(Bool(text = <<"true">>))}
  ELSE IF Len(text) = 1 /\ text[1] \in DOMAIN Numeral THEN {Literal(Num(Numeral[text[1]]))}
  ELSE IF Head(text) = "$" THEN {Variable(word) : word \in Identifiers(Tail(text))}
  ELSE IF Head(text) = "^" THEN {Pin(word) : word \in Identifiers(Tail(text))}
  ELSE {}

RECURSIVE ParsePatternValue(_)

ParseElements(texts) ==
  FoldLeft(LAMBDA read, text : {Append(items, p) : items \in read, p \in ParsePatternValue(text)},
           {<<>>}, texts)

\* A pair begins with a key and a colon.
ParsePair(pair) ==
  IF Len(pair) > 1 /\ pair[2] = ":"
  THEN {Field(key, p) : key \in Identifiers(SubSeq(pair, 1, 1)),
                        p \in ParsePatternValue(SubSeq(pair, 3, Len(pair)))}
  ELSE {}

ParseHeadTail(inner, pipe) ==
  {HeadTail(head, tail) : head \in ParsePatternValue(SubSeq(inner, 1, pipe - 1)),
                          tail \in ParsePatternValue(SubSeq(inner, pipe + 1, Len(inner)))}

ParseListPattern(inner) ==
  IF Pipes(inner) # {} THEN ParseHeadTail(inner, Min(Pipes(inner)))
  ELSE {Elements(items) : items \in ParseElements(SplitTopLevel(inner, ","))}

ParseMapPattern(inner) ==
  {MapPattern(fields) : fields \in
     FoldLeft(LAMBDA read, pair : {Append(fields, f) : fields \in read, f \in ParsePair(pair)},
              {<<>>}, SplitTopLevel(inner, ","))}

ParsePatternValue(text) ==
  IF text = <<>> THEN {}
  ELSE IF Enclosed(text, "[", "]") THEN ParseListPattern(Inner(text))
  ELSE IF Enclosed(text, "{", "}") THEN ParseMapPattern(Inner(text))
  ELSE ParseSimple(text)

-----------------------------------------------------------------------------
(* How a pattern is written, for the properties.                           *)

Numerals(n) == CHOOSE word \in DOMAIN Numeral : Numeral[word] = n
Spelled(text) == IF text \in DOMAIN Spelling THEN Spelling[text] ELSE <<text>>

LiteralText(v) ==
  CASE Is(v, "enum") -> <<":", v.enum, ":">>
    [] Is(v, "str") -> <<Quote>> \o Spelled(v.str) \o <<Quote>>
    [] Is(v, "num") -> <<Numerals(v.num)>>
    [] Is(v, "bool") -> <<IF v.bool THEN "true" ELSE "false">>

Separated(texts) ==
  FoldLeft(LAMBDA all, text : IF all = <<>> THEN text ELSE all \o <<",">> \o text, <<>>, texts)

RECURSIVE PatternAsText(_), Strings(_)

PatternAsText(p) ==
  CASE p.sort = "any" -> <<"*">>
    [] p.sort = "literal" -> LiteralText(p.value)
    [] p.sort = "variable" -> <<"$", p.name>>
    [] p.sort = "pin" -> <<"^", p.name>>
    [] p.sort = "elements" ->
         <<"[">> \o Separated([i \in DOMAIN p.items |-> PatternAsText(p.items[i])]) \o <<"]">>
    [] p.sort = "head_tail" ->
         <<"[">> \o PatternAsText(p.head) \o <<"|">> \o PatternAsText(p.tail) \o <<"]">>
    [] p.sort = "map" ->
         <<"{">>
           \o Separated([i \in DOMAIN p.fields |->
                           <<p.fields[i].key, ":">> \o PatternAsText(p.fields[i].pattern)])
           \o <<"}">>

\* The strings in the lists of a pattern.
Strings(p) ==
  CASE p.sort = "literal" -> IF Is(p.value, "str") THEN {p.value.str} ELSE {}
    [] p.sort = "elements" -> UNION {Strings(p.items[i]) : i \in DOMAIN p.items}
    [] p.sort = "head_tail" -> Strings(p.head) \cup Strings(p.tail)
    [] p.sort = "map" -> UNION {Strings(p.fields[i].pattern) : i \in DOMAIN p.fields}
    [] OTHER -> {}

\* find_pipe does not see quotes: a string with a bar or brackets is not safe in a list.
SafeInList(p) == \A s \in Strings(p) : ToSet(Spelled(s)) \cap (Open \cup Close \cup {"|"}) = {}

RECURSIVE Writable(_)
Writable(p) ==
  CASE p.sort = "elements" -> SafeInList(p)
    [] p.sort = "head_tail" -> SafeInList(p)
    [] p.sort = "map" -> \A i \in DOMAIN p.fields : Writable(p.fields[i].pattern)
    [] OTHER -> TRUE
=============================================================================
