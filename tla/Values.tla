-------------------------------- MODULE Values --------------------------------
(***************************************************************************)
(* Values on their way between Lua, the engine and JSON.                   *)
(*                                                                         *)
(* The engine and the results of promises know FieldValues (types.rs),     *)
(* which executor.rs converts to Lua and back.  Three modules convert Lua  *)
(* to JSON with code of their own: stdlib/json.rs, stdlib/rpc.rs and       *)
(* stdlib/http.rs; and what a call of rpc or http returns is converted     *)
(* straight to Lua if it blocked, and to a FieldValue, then to Lua, if it  *)
(* made a promise.                                                         *)
(*                                                                         *)
(* A conversion that may raise, or whose result Lua leaves open, yields    *)
(* the set of its results: none if it raises.  Maps have no order here, so *)
(* that encode_canonical is encode.                                        *)
(***************************************************************************)
EXTENDS LuaData

-----------------------------------------------------------------------------

StrKeys(e) == {x \in DOMAIN e : DOMAIN x = {"s"}}
IntKeys(e) == {x \in DOMAIN e : DOMAIN x = {"i"}}

-----------------------------------------------------------------------------
(* Lua to JSON, three times.                                               *)

ScalarJson(v) == IF v.k \in {"function", "enum"} \/ v \in {Float("NaN"), Str(Binary)} THEN {} ELSE {v}

IsArray(e) == DOMAIN e = {IntKey(n) : n \in 1..Cardinality(DOMAIN e)}
IsObject(e) == DOMAIN e = StrKeys(e) /\ StrKey(Binary) \notin DOMAIN e

RECURSIVE JsonOf(_), RpcJsonOf(_), HttpJsonOf(_)

\* The values are encoded after the kind of the table was found.
JsonOf(v) ==
  IF v.k # "table" THEN ScalarJson(v)
  ELSE IF IsArray(v.e)
  THEN {List(q) : q \in OneOfEach([i \in 1..Cardinality(DOMAIN v.e) |-> JsonOf(v.e[IntKey(i)])])}
  ELSE IF IsObject(v.e)
  THEN {Map(m) : m \in OneOfEach([s \in {x.s : x \in DOMAIN v.e} |-> JsonOf(v.e[StrKey(s)])])}
  ELSE {}

RpcJsonOf(v) ==
  IF v.k # "table" THEN ScalarJson(v)
  ELSE IF IsArray(v.e)
  THEN {List(q) : q \in OneOfEach([i \in 1..Cardinality(DOMAIN v.e) |-> RpcJsonOf(v.e[IntKey(i)])])}
  ELSE IF IsObject(v.e)
  THEN {Map(m) : m \in OneOfEach([s \in {x.s : x \in DOMAIN v.e} |-> RpcJsonOf(v.e[StrKey(s)])])}
  ELSE {}

\* A body without entries is an object, and one of positive integers with gaps has their
\* digits for names.
HttpJsonOf(v) ==
  IF v.k # "table" THEN ScalarJson(v)
  ELSE IF IsArray(v.e) /\ DOMAIN v.e # {}
  THEN {List(q) : q \in OneOfEach([i \in 1..Cardinality(DOMAIN v.e) |-> HttpJsonOf(v.e[IntKey(i)])])}
  ELSE IF IsObject(v.e)
  THEN {Map(m) : m \in OneOfEach([s \in {x.s : x \in DOMAIN v.e} |-> HttpJsonOf(v.e[StrKey(s)])])}
  ELSE IF DOMAIN v.e = {x \in IntKeys(v.e) : x.i >= 1}
  THEN {Map(m) : m \in OneOfEach([s \in {Digits(x.i) : x \in DOMAIN v.e} |->
          UNION {HttpJsonOf(v.e[x]) : x \in {x \in DOMAIN v.e : Digits(x.i) = s}}])}
  ELSE {}

-----------------------------------------------------------------------------
(* JSON to Lua, and to FieldValues.                                        *)

RECURSIVE JsonToLua(_)
JsonToLua(j) ==
  CASE j.k = "big" -> Float(j.f)
    [] j.k = "list" -> ArrayTable([i \in DOMAIN j.q |-> JsonToLua(j.q[i])])
    [] j.k = "map" -> ObjectTable([s \in DOMAIN j.m |-> JsonToLua(j.m[s])])
    [] OTHER -> j

RECURSIVE RpcToLua(_)
RpcToLua(j) ==
  CASE j.k = "big" -> Float(j.f)
    [] j.k = "list" -> ArrayTable([i \in DOMAIN j.q |-> RpcToLua(j.q[i])])
    [] j.k = "map" -> ObjectTable([s \in DOMAIN j.m |-> RpcToLua(j.m[s])])
    [] OTHER -> j

\* as_f64 yields a float for every number, so that the string after it is never made.
RECURSIVE RpcToField(_)
RpcToField(j) ==
  CASE j.k = "big" -> Float(j.f)
    [] j.k = "list" -> List([i \in DOMAIN j.q |-> RpcToField(j.q[i])])
    [] j.k = "map" -> Map([s \in DOMAIN j.m |-> RpcToField(j.m[s])])
    [] OTHER -> j

\* The results of a batch, each [ok, json], for a call that blocks and for one that does
\* not; an error has a code and a message, and json is its data.
BatchToLua(entries) ==
  ArrayTable([i \in DOMAIN entries |-> ObjectTable(
    IF entries[i].ok THEN [ok |-> Bool(TRUE), value |-> RpcToLua(entries[i].json)]
    ELSE [ok |-> Bool(FALSE),
          error |-> ObjectTable([code |-> Num(1), message |-> Str("m"),
                                 data |-> RpcToLua(entries[i].json)])])])
BatchToField(entries) ==
  List([i \in DOMAIN entries |-> Map(
    IF entries[i].ok THEN [ok |-> Bool(TRUE), value |-> RpcToField(entries[i].json)]
    ELSE [ok |-> Bool(FALSE),
          error |-> Map([code |-> Num(1), message |-> Str("m"),
                         data |-> RpcToField(entries[i].json)])])])

\* Of headers that a server repeats, the last is kept.
LastOf(headers) ==
  [h \in {headers[i][1] : i \in DOMAIN headers} |->
     LET last == CHOOSE i \in DOMAIN headers :
                   headers[i][1] = h /\ \A n \in DOMAIN headers : headers[n][1] = h => n <= i
     IN  Str(headers[last][2])]

ResponseToLua(response) ==
  ObjectTable([status |-> Num(response.status), headers |-> ObjectTable(LastOf(response.headers)),
               body |-> Str(response.body), ok |-> Bool(response.status = 2)])

\* A body that is not text has its bytes replaced.
ResponseToField(response) ==
  Map([status |-> Num(response.status), headers |-> Map(LastOf(response.headers)),
       body |-> Str(IF response.body = Binary THEN "replaced" ELSE response.body),
       ok |-> Bool(response.status = 2)])
=============================================================================
