-------------------------------- MODULE Library -------------------------------
(***************************************************************************)
(* The parts of luaml that compute without keeping anything: conversions   *)
(* of values, and numbers, and what Encodings is about.                    *)
(* Each is checked against what it should do on one question after         *)
(* another, an input with the kind that says what it is asked of.          *)
(***************************************************************************)
EXTENDS Values, Numbers, Encodings

CONSTANTS
  LuaValues,     \* Lua values
  JsonValues,    \* JSON texts, parsed
  ServerAnswers,       \* what servers answer
  NumberLists,   \* lists of numbers
  Small,         \* numbers
  Vectors        \* tables

Questions ==
  [about : {"value"}, value : LuaValues]
    \cup [about : {"json"}, json : JsonValues] \cup [about : {"answer"}, answer : ServerAnswers]
    \cup [about : {"list"}, list : NumberLists]
    \cup [about : {"three"}, three : Small \X Small \X Small]
    \cup [about : {"vectors"}, vectors : Vectors \X Vectors] \cup EncodingQuestions

LibraryInit == question \in Questions

-----------------------------------------------------------------------------

\* The three encoders of Lua values to JSON refuse the same values and make the same of
\* the others; but a body of http has {} for a table without entries, and takes an array
\* with gaps for an object, which the others refuse (see EncodedAsDocumented).
Gaps(e) == e # <<>> /\ \A x \in DOMAIN e : DOMAIN x = {"i"}
EncodersAgree(v) ==
  /\ JsonOf(v) = RpcJsonOf(v)
  /\ \/ JsonOf(v) = HttpJsonOf(v)
     \/ \E w \in Inside(v) : w.k = "table" /\ (w.e = <<>> \/ (Gaps(w.e) /\ ~IsArray(w.e)))

\* A promise of rpc or http yields the Lua value that the call would have returned had it
\* blocked; but of a body that is not text, a promise has the bytes replaced.
ResultsAgree(j) ==
  LET batch == <<[ok |-> TRUE, json |-> j], [ok |-> FALSE, json |-> j]>>
  IN  /\ FieldToLua(RpcToField(j)) = RpcToLua(j)
      /\ FieldToLua(BatchToField(batch)) = BatchToLua(batch)
AnswersAgree(answer) ==
  LET response == Received(answer)
  IN  FieldToLua(ResponseToField(response)) = ResponseToLua(response) <=> response.body # Binary

\* The median is the middle percentile and the ends are the least and the greatest; the
\* mean and the percentiles, which grow, are between them; the variance is the mean of the
\* squares less the square of the mean.
StatisticsAgree(list) ==
  LET n == Len(list)
      at(p) == CHOOSE x \in Percentile(list, p, 4) : TRUE
  IN  IF list = <<>>
      THEN Mean(list) \cup Median(list) \cup Variance(list) \cup Percentile(list, 2, 4) = {}
      ELSE /\ {2 * x : x \in Median(list)} = {at(2)}
           /\ \A i \in 1..n : at(0) <= 4 * list[i] /\ 4 * list[i] <= at(4)
           /\ \A p \in 0..3 : at(p) <= at(p + 1)
           /\ \A x \in Mean(list) : n * at(0) <= 4 * x /\ 4 * x <= n * at(4)
           /\ Variance(list) = {n * (n * Total([i \in 1..n |-> list[i]^2]) - Total(list)^2)}
           /\ Percentile(list, 5, 4) = {}

\* A binomial is made of factorials, or is the sum of two above it; smoothstep is the
\* same with its edges swapped, upside down; a number between the ends is their linear mix.
ThreeAgree(a, b, c) ==
  /\ a >= 0 /\ b \in 0..a =>
       /\ \E k \in Binom(a, b), f \in Factorial(a), g \in Factorial(b), h \in Factorial(a - b) :
            k * g * h = f
       /\ b > 0 => Binom(a + 1, b) = {k + l : k \in Binom(a, b), l \in Binom(a, b - 1)}
  /\ b > a /\ a >= 0 => Binom(a, b) = {0}
  /\ (a # b) = (Smoothstep(a, b, c) # {})
  /\ \A x \in Smoothstep(a, b, c), y \in Smoothstep(b, a, c) :
       x + y = (IF a < b THEN b - a ELSE a - b)^3
  /\ \A x \in ClampTo(c, a, b) : a <= x /\ x <= b /\ (c \in a..b => x = c)
  /\ a < b => LinearBetween(a, b, c - a, b - a) = (b - a) * c

\* Distance is the norm of the difference, which added gives back the vector; the cross
\* product is perpendicular and as long as the angle says; a cosine is at most 1.
VectorsAgree(a, b) ==
  /\ VecDistance(a, b) = UNION {VecNorm(d) : d \in VecSub(a, b)}
  /\ VecSub(a, b) # {} => UNION {VecAdd(d, b) : d \in VecSub(a, b)} = VecNew(a)
  /\ VecSub(a, b) = UNION {VecAdd(a, c) : c \in VecScale(b, -1)}
  /\ \A c \in VecCross(a, b) :
       /\ VecDot(a, c) = {0}
       /\ VecNorm(c) = {x * y - d^2 : x \in VecNorm(a), y \in VecNorm(b), d \in VecDot(a, b)}
  /\ \A c \in VecCosine(a, b) :
       c.dot^2 <= c.norms /\ VecNormalize(a) # {} /\ VecNormalize(b) # {}

\* A JSON text without nulls inside it, empty objects and integers of more than 64 bits
\* comes back from Lua.
JsonLasts(j) ==
  \A w \in Inside(j) : w.k # "big" /\ (w = Nil => j = Nil) /\ w # Map(<<>>)

\* A table whose keys are integers, but not those of an array, becomes an object that has
\* their digits for names, as json.rs says at its lines 30-33.
EncodedAsDocumented ==
  question.about = "value" =>
    LET v == question.value
    IN  /\ v.k = "table" /\ Gaps(v.e) /\ ~IsArray(v.e)
        /\ \A x \in DOMAIN v.e : JsonOf(v.e[x]) # {}
        => \E j \in JsonOf(v) : j.k = "map" /\ DOMAIN j.m = {Digits(x.i) : x \in DOMAIN v.e}

\* Two ways to the same lead to the same: three encoders of JSON, and their decoder; calls
\* that block and calls that promise, functions of numbers defined by one another, and the
\* durations of sleeps and of timeouts.
TwinsAgree ==
  /\ question.about = "value" =>
       /\ EncodersAgree(question.value)
       /\ \A j \in JsonOf(question.value) : JsonToLua(j) = question.value
  /\ question.about = "json" =>
       /\ ResultsAgree(question.json)
       /\ JsonOf(JsonToLua(question.json)) = {question.json} <=> JsonLasts(question.json)
  /\ question.about = "answer" => AnswersAgree(question.answer)
  /\ question.about = "list" => StatisticsAgree(question.list)
  /\ question.about = "three" => ThreeAgree(question.three[1], question.three[2], question.three[3])
  /\ question.about = "vectors" => VectorsAgree(question.vectors[1], question.vectors[2])
  /\ question.about = "request" =>
       LET asked == question.request.timeout
       IN  asked.k \in {"int", "float"} =>
             /\ Timeouts(asked) = {SleepFor(asked)}
             /\ ThreadSleepFor(asked) = SleepFor(asked) \/ asked = Float("1.5")
=============================================================================
