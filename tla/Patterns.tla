------------------------------- MODULE Patterns ------------------------------
(***************************************************************************)
(* Values and patterns of luaml and how one is matched against the other   *)
(* (types.rs, pattern.rs, pattern_match.rs).  A match is a set: empty when *)
(* the value does not fit, and of one element, the variables bound, when   *)
(* it does.                                                                *)
(*                                                                         *)
(* match_field_value calls itself for the parts of lists and of maps.  The *)
(* recursion is closed outside, by the operator an instance gives for      *)
(* MatchPart: the rest can be reasoned about without a recursive operator. *)
(***************************************************************************)
EXTENDS Naturals, Sequences, SequencesExt

CONSTANTS
  Numeral,         \* the strings that read as numbers, and their values
  MatchPart(_, _)  \* the matcher of the parts of lists and maps: MatchFieldValue

\* Field values: of two kinds they are never equal, whatever their text.  Floats,
\* which no pattern but a variable or a wildcard accepts, are left out.
Enum(name) == [enum |-> name]
Str(text) == [str |-> text]
Num(n) == [num |-> n]
Bool(b) == [bool |-> b]
List(items) == [list |-> items]
Map(fields) == [map |-> fields]
Null == [null |-> "null"]

Is(v, kind) == kind \in DOMAIN v

Wildcard == [sort |-> "any"]
Literal(v) == [sort |-> "literal", value |-> v]
Variable(name) == [sort |-> "variable", name |-> name]
Pin(name) == [sort |-> "pin", name |-> name]
Elements(items) == [sort |-> "elements", items |-> items]
HeadTail(head, tail) == [sort |-> "head_tail", head |-> head, tail |-> tail]
MapPattern(fields) == [sort |-> "map", fields |-> fields]
Field(key, pattern) == [key |-> key, pattern |-> pattern]

GlobalEnum == Literal(Enum("global"))

NoBindings == <<>>

\* FieldBindings::extend in a loop that ends at the first part that does not fit: of each
\* variable the last binding is kept.
TheBindings(match) == CHOOSE b \in match : TRUE
LastToBind(matches, name) == Max({i \in DOMAIN matches : name \in DOMAIN TheBindings(matches[i])})
MatchAll(matches) ==
  IF \E i \in DOMAIN matches : matches[i] = {} THEN {}
  ELSE {[name \in UNION {DOMAIN TheBindings(matches[i]) : i \in DOMAIN matches} |->
           TheBindings(matches[LastToBind(matches, name)])[name]]}

Keys(fields) == {fields[i].key : i \in DOMAIN fields}

\* The parts of a value that the patterns inside a pattern are about, in order; none if the
\* value has not these parts.
Part(p, v) == [pattern |-> p, value |-> v]

ListParts(items, v) ==
  IF Is(v, "list") /\ Len(v.list) = Len(items)
  THEN {[i \in DOMAIN items |-> Part(items[i], v.list[i])]}
  ELSE {}

HeadTailParts(p, v) ==
  IF Is(v, "list") /\ v.list # <<>>
  THEN {<<Part(p.head, Head(v.list)), Part(p.tail, List(Tail(v.list)))>>}
  ELSE {}

MapParts(fields, v) ==
  IF Is(v, "map") /\ Keys(fields) \subseteq DOMAIN v.map
  THEN {[i \in DOMAIN fields |-> Part(fields[i].pattern, v.map[fields[i].key])]}
  ELSE {}

PartsOf(p, v) ==
  CASE p.sort = "elements" -> ListParts(p.items, v)
    [] p.sort = "head_tail" -> HeadTailParts(p, v)
    [] p.sort = "map" -> MapParts(p.fields, v)

Composite == {"elements", "head_tail", "map"}

MatchAlone(p, v) ==
  CASE p.sort = "any" -> {NoBindings}
    [] p.sort = "literal" ->
         IF v = p.value \/ (p = GlobalEnum /\ Is(v, "enum")) THEN {NoBindings} ELSE {}
    [] p.sort = "variable" -> {[name \in {p.name} |-> v]}
    [] p.sort = "pin" -> {}

MatchParts(parts) ==
  MatchAll([i \in DOMAIN parts |-> MatchPart(parts[i].pattern, parts[i].value)])

MatchFieldValue(p, v) ==
  IF p.sort \in Composite THEN UNION {MatchParts(parts) : parts \in PartsOf(p, v)}
  ELSE MatchAlone(p, v)

MatchMember(field, input) ==
  IF field.key \in DOMAIN input THEN MatchFieldValue(field.pattern, input[field.key]) ELSE {}

\* The fields of a clause against an event, or those of an API binding against what
\* a clause fixes.  :global: is the one pattern that does without its field.
MatchFields(fields, input) ==
  MatchAll([i \in DOMAIN fields |->
              IF fields[i].key \notin DOMAIN input /\ fields[i].pattern = GlobalEnum
              THEN {NoBindings}
              ELSE MatchMember(fields[i], input)])

\* The place of the first field with a key, or 0.
FirstWithKey(fields, key) ==
  LET places == {i \in DOMAIN fields : fields[i].key = key}
  IN IF places = {} THEN 0 ELSE Min(places)
=============================================================================
