------------------------------- MODULE LuaData --------------------------------
(***************************************************************************)
(* The values that scripts, the engine and JSON have: a record of a kind,  *)
(* with a field for what it holds; a number or a string is a               *)
(* representative.  And how executor.rs converts those of the engine, the  *)
(* FieldValues of types.rs, to Lua and back.                               *)
(*                                                                         *)
(* A conversion whose result Lua leaves open yields the set of its         *)
(* results.  The converters call themselves for the members of lists, maps *)
(* and tables: the recursion is closed outside, by the operators an        *)
(* instance gives for MemberToLua and its like.                            *)
(*                                                                         *)
(* A definition whose name starts with Slip is not part of the model: it   *)
(* is what the one after it would be with a plausible bug in that code,    *)
(* kept to show which property notices.                                    *)
(***************************************************************************)
EXTENDS Integers, Sequences, FiniteSets

CONSTANTS
  MemberToLua(_),     \* FieldToLua, of the members of a list or a map
  MemberToFields(_),  \* LuaToField, of the entries of a table
  MemberSignature(_), \* FieldSignature, of the members of a list or a map
  MemberInside(_)     \* Inside, of the members of any value

Nil == [k |-> "nil"]
Bool(b) == [k |-> "bool", b |-> b]
Num(n) == [k |-> "int", n |-> n]
Float(f) == [k |-> "float", f |-> f]      \* f is the name of a float: "1.5", "NaN", "2^63"
Str(s) == [k |-> "str", s |-> s]
Enum(s) == [k |-> "enum", s |-> s]        \* in Lua, a userdata
Big(f) == [k |-> "big", f |-> f]          \* JSON only: an integer of no i64, f the float next to it
List(q) == [k |-> "list", q |-> q]        \* of FieldValues, or a JSON array
Map(m) == [k |-> "map", m |-> m]          \* from strings to FieldValues, or a JSON object
Table(e) == [k |-> "table", e |-> e]      \* Lua only: from keys to values other than nil
Opaque == [k |-> "function"]              \* Lua only: a function, a thread, another userdata

Binary == "\\xff"                         \* a Lua string that is not UTF-8

IntKey(n) == [i |-> n]
StrKey(s) == [s |-> s]
FloatKey(f) == [f |-> f]                  \* of a float that is no integer
BoolKey(b) == [b |-> b]

Digits(n) == CASE n = -1 -> "-1" [] n = 0 -> "0" [] n = 1 -> "1" [] n = 2 -> "2" [] n = 3 -> "3"

\* What mlua makes of a key where a String is asked for.
KeyTexts(x) ==
  CASE DOMAIN x = {"s"} -> {x.s} \ {Binary}
    [] DOMAIN x = {"i"} -> {Digits(x.i)}
    [] DOMAIN x = {"f"} -> {x.f}
    [] OTHER -> {}

\* What a value holds at each place.
Members(v) ==
  CASE v.k = "list" -> v.q
    [] v.k = "map" -> v.m
    [] v.k = "table" -> v.e
    [] OTHER -> <<>>

\* Everything that is in a value, the value itself among it.
Inside(v) == {v} \cup UNION {MemberInside(Members(v)[x]) : x \in DOMAIN Members(v)}

\* One of the values of each place: none if a place has none.
OneOfEach(f) ==
  {g \in [DOMAIN f -> UNION {f[x] : x \in DOMAIN f}] : \A x \in DOMAIN f : g[x] \in f[x]}

-----------------------------------------------------------------------------
(* FieldValues to Lua.                                                     *)

\* A table has no entries that are nil.
WithoutNil(f) == [x \in {x \in DOMAIN f : f[x] # Nil} |-> f[x]]
ArrayTable(q) == Table(WithoutNil([x \in {IntKey(i) : i \in DOMAIN q} |-> q[x.i]]))
ObjectTable(m) == Table(WithoutNil([x \in {StrKey(s) : s \in DOMAIN m} |-> m[x.s]]))

\* A value whose members were converted already.
ToLua(v, members) ==
  CASE v.k = "enum" -> Str(v.s)
    [] v.k = "list" -> ArrayTable(members)
    [] v.k = "map" -> ObjectTable(members)
    [] OTHER -> v

FieldToLua(v) == ToLua(v, [x \in DOMAIN Members(v) |-> MemberToLua(Members(v)[x])])

-----------------------------------------------------------------------------
(* Lua to FieldValues.                                                     *)

\* The lengths raw_len may find: the last index of a run of entries, and 0 only if the
\* table has no entry 1.
Lengths(e) ==
  {n \in 0..Cardinality(DOMAIN e) + 3 :
     (n = 0 \/ IntKey(n) \in DOMAIN e) /\ IntKey(n + 1) \notin DOMAIN e}

\* The entries of an array are counted from 0.
SlipTableToField(e) ==
  UNION {
    IF n > 0
    THEN {List(q) : q \in OneOfEach([i \in 1..n |->
            IF IntKey(i - 1) \in DOMAIN e THEN e[IntKey(i - 1)] ELSE {Nil}])}
    ELSE IF \E x \in DOMAIN e : KeyTexts(x) = {}
    THEN {Map(<<>>)}
    ELSE {Map(m) : m \in OneOfEach([s \in UNION {KeyTexts(x) : x \in DOMAIN e} |->
            UNION {e[x] : x \in {x \in DOMAIN e : s \in KeyTexts(x)}}])}
    : n \in Lengths(e)}

\* A table with a length is an array, whatever other keys it has; one without is a map,
\* empty if any of its keys is neither text nor a number.  Each entry is what it may have
\* been converted to.
TableToField(e) ==
  UNION {
    IF n > 0
    THEN {List(q) : q \in OneOfEach([i \in 1..n |->
            IF IntKey(i) \in DOMAIN e THEN e[IntKey(i)] ELSE {Nil}])}
    ELSE IF \E x \in DOMAIN e : KeyTexts(x) = {}
    THEN {Map(<<>>)}
    ELSE {Map(m) : m \in OneOfEach([s \in UNION {KeyTexts(x) : x \in DOMAIN e} |->
            UNION {e[x] : x \in {x \in DOMAIN e : s \in KeyTexts(x)}}])}
    : n \in Lengths(e)}

ToFields(v, entries) ==
  CASE v.k = "table" -> TableToField(entries)
    [] v.k = "function" -> {Nil}
    [] v = Str(Binary) -> {Str("")}
    [] OTHER -> {v}

LuaToField(v) == ToFields(v, [x \in DOMAIN Members(v) |-> MemberToFields(Members(v)[x])])

-----------------------------------------------------------------------------

\* The canonical form by which the engine tells whether it is in an event already: the
\* kinds are told apart, floats go by their bits, and maps by their entries in order.
ToSignature(v, members) ==
  CASE v.k = "list" -> List(members)
    [] v.k = "map" -> [k |-> "map", pairs |-> {<<s, members[s]>> : s \in DOMAIN members}]
    [] OTHER -> v

FieldSignature(v) == ToSignature(v, [x \in DOMAIN Members(v) |-> MemberSignature(Members(v)[x])])
EventSignature(event) == {<<s, FieldSignature(event[s])>> : s \in DOMAIN event}
=============================================================================
