------------------------------- MODULE Requests -------------------------------
(***************************************************************************)
(* HTTP requests of the luaml standard library (stdlib/http.rs): what a    *)
(* script asks for, by http.get and its like or by http.request, what is   *)
(* sent, and what becomes of the answer.                                   *)
(*                                                                         *)
(* Arguments are Lua values; a function that may raise yields the         *)
(* set of its results, none if it raises.  That the server does not answer *)
(* in time, or at all, makes the call raise and changes nothing.           *)
(*                                                                         *)
(* A definition whose name starts with Slip is not part of the model: it   *)
(* is what the one after it would be with a plausible bug in that code,    *)
(* kept to show which property notices.                                    *)
(***************************************************************************)
EXTENDS LuaData, SequencesExt

CONSTANT HttpJson(_)  \* the JSON of a body: what Values says http.rs makes of a table

Method == {"GET", "HEAD", "POST", "PUT", "PATCH", "DELETE"}
WithBody == Method \ {"GET", "HEAD"}   \* those whose function takes a body

\* What mlua makes of a value where a String is asked for.
TextsOf(v) ==
  CASE v.k = "str" -> {v.s} \ {Binary}
    [] v.k = "int" -> {Digits(v.n)}
    [] v.k = "float" -> {v.f}
    [] OTHER -> {}

TheOne(set) == CHOOSE x \in set : TRUE

\* The pairs of a table of texts, each with its key: the number 1 and the string 1 are two
\* keys with one text.
StringPairs(v) ==
  CASE v = Nil -> {{}}
    [] v.k = "table" ->
         IF \A x \in DOMAIN v.e : KeyTexts(x) # {} /\ TextsOf(v.e[x]) # {}
         THEN {{<<x, TheOne(KeyTexts(x)), TheOne(TextsOf(v.e[x]))>> : x \in DOMAIN v.e}} ELSE {}
    [] OTHER -> {}

\* url.encode_query: the pairs of a form, in any order.
EncodeQuery(v) ==
  IF v = Nil THEN {}
  ELSE UNION {SetToSeqs({<<p[2], p[3], p[1]>> : p \in pairs}) : pairs \in StringPairs(v)}

\* No timeout, or one; what is not finite waits as long as what is negative: not at all.
Timeouts(v) ==
  CASE v = Nil -> {"none"}
    [] v.k = "int" -> {IF v.n <= 0 THEN "zero" ELSE Digits(v.n)}
    [] v.k = "float" ->
         {IF v.f \in {"NaN", "inf", "-1.5"} THEN "zero" ELSE IF v.f = "huge" THEN "max" ELSE v.f}
    [] OTHER -> {}

\* A table is encoded; a number is refused, as is most likely a mistake.
BodyOf(v) ==
  CASE v.k = "str" -> {[k |-> "raw", s |-> v.s]}
    [] v.k = "table" -> {[k |-> "json", j |-> j] : j \in HttpJson(v)}
    [] OTHER -> {}

NoBody == [k |-> "none"]

Request(method, url, headers, query, timeout, body) ==
  [method |-> method, url |-> url, headers |-> headers, query |-> query, timeout |-> timeout,
   body |-> body]

NoOptions == [headers |-> Nil, query |-> Nil, timeout |-> Nil]

\* An explicit nil is a body like any other value.
SlipBuildRequest(method, url, body, opts) ==
  {Request(method, url, h, q, t, b) :
     h \in StringPairs(opts.headers), q \in StringPairs(opts.query), t \in Timeouts(opts.timeout),
     b \in IF method \notin WithBody THEN {NoBody} ELSE BodyOf(body)}

BuildRequest(method, url, body, opts) ==
  {Request(method, url, h, q, t, b) :
     h \in StringPairs(opts.headers), q \in StringPairs(opts.query), t \in Timeouts(opts.timeout),
     b \in IF method \notin WithBody \/ body = Nil THEN {NoBody} ELSE BodyOf(body)}

\* The general form, a table; its method is GET if it names none.
RequestFromTable(spec) ==
  {Request(m, u, h, q, t, b) :
     m \in IF spec.method = Nil THEN {"GET"} ELSE TextsOf(spec.method) \cap Method,
     u \in TextsOf(spec.url),
     h \in StringPairs(spec.headers), q \in StringPairs(spec.query), t \in Timeouts(spec.timeout),
     b \in IF spec.body = Nil THEN {NoBody} ELSE BodyOf(spec.body)}

\* Header names are the same in either case.
LowerCase(h) == IF h = "Content-Type" THEN "content-type" ELSE h

\* What execute_request sends: RequestBuilder::header appends, so that the user's
\* content-type comes after that of an encoded body and does not replace it.  Headers are
\* collected by their name as written, one value for each.
SentHeaders(r) ==
  {<<LowerCase(p[2]), p[1], p[3]>> : p \in r.headers}
    \cup (IF r.body.k = "json" THEN {<<"content-type", StrKey("own"), "application/json">>} ELSE {})

\* Of a header value that is not visible ASCII nothing is left.
Received(answer) ==
  [status |-> answer.status, body |-> answer.body,
   headers |-> [i \in DOMAIN answer.headers |->
     <<answer.headers[i][1], IF answer.headers[i][2] = Binary THEN "" ELSE answer.headers[i][2]>>]]
=============================================================================
