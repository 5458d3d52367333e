------------------------------- MODULE Registry -------------------------------
(***************************************************************************)
(* What the registry of luaml answers (registry.rs): it holds the scripts  *)
(* in the order of their registration, and says which clauses an event     *)
(* matches and which ones a query discovers.  A clause that runs is        *)
(* covered by the API bindings its fixed fields match (executor.rs).       *)
(*                                                                         *)
(* How a text becomes a script, and what guards mean, is left to the       *)
(* modules that extend this one.                                           *)
(*                                                                         *)
(* A definition whose name starts with Slip is not part of the model: it   *)
(* is what the one after it would be with a plausible bug in that code,    *)
(* kept to show which property notices.                                    *)
(***************************************************************************)
EXTENDS Patterns

CONSTANTS
  Loadable,          \* scripts as the parser hands them over
  GuardHolds(_, _),  \* whether evaluate_guard says that a guard is true of bindings
  Events,            \* field maps that are dispatched
  Queries,           \* field maps that are asked for
  ApiPatterns,       \* the patterns of API bindings: sequences of fields
  MaxScripts,        \* bound: how many scripts are registered
  Pairs,             \* the patterns of scripts with the values of events, and their parts
  Nesting(_),        \* how deep a pattern nests
  Assignments,       \* values for the variables of patterns
  DescribesPart(_, _, _),  \* Describes, of the parts of lists and maps
  PlainPatterns,     \* the patterns of scripts, and their parts, that there are values for
  SamplePart(_)      \* Sample, of the parts of lists and maps

\* What the types of the code say of fields and of values.
Sorts == {"any", "literal", "variable", "pin", "elements", "head_tail", "map"}
IsField(f) ==
  /\ f = Field(f.key, f.pattern)
  /\ f.pattern.sort \in Sorts
  /\ f.pattern.sort = "literal" => f.pattern = Literal(f.pattern.value)
AreFields(fields) ==
  /\ Len(fields) \in Nat
  /\ DOMAIN fields = 1 .. Len(fields)
  /\ \A i \in DOMAIN fields : IsField(fields[i])
IsEnumOrNot(v) == Is(v, "enum") => v = Enum(v.enum)

ASSUME RegistryAssumption ==
  /\ \A script \in Loadable :
       /\ Len(script.clauses) \in Nat
       /\ DOMAIN script.clauses = 1 .. Len(script.clauses)
       /\ \A j \in DOMAIN script.clauses : AreFields(script.clauses[j].fields)
  /\ \A e \in Events : \A key \in DOMAIN e : IsEnumOrNot(e[key])
  /\ \A pattern \in ApiPatterns : AreFields(pattern)
  /\ MaxScripts \in Nat

\* What a pattern says, apart from how it is matched: with its variables as in b, it is
\* the value.  A pin has no context in which it could be (match_field_value).
Describes(p, v, b) ==
  CASE p.sort = "any" -> TRUE
    [] p.sort = "literal" -> v = p.value \/ (p = GlobalEnum /\ Is(v, "enum"))
    [] p.sort = "variable" -> p.name \in DOMAIN b /\ b[p.name] = v
    [] p.sort = "pin" -> FALSE
    [] p.sort = "elements" ->
         Is(v, "list") /\ Len(v.list) = Len(p.items)
         /\ \A i \in DOMAIN p.items : DescribesPart(p.items[i], v.list[i], b)
    [] p.sort = "head_tail" ->
         Is(v, "list") /\ v.list # <<>>
         /\ DescribesPart(p.head, Head(v.list), b) /\ DescribesPart(p.tail, List(Tail(v.list)), b)
    [] p.sort = "map" ->
         Is(v, "map")
         /\ \A i \in DOMAIN p.fields :
              /\ p.fields[i].key \in DOMAIN v.map
              /\ DescribesPart(p.fields[i].pattern, v.map[p.fields[i].key], b)

\* The patterns of loaded scripts nest, down to patterns without parts, and the matcher of
\* the parts is the matcher itself.
ASSUME PairsAssumption ==
  /\ \A script \in Loadable, e \in Events : \A j \in DOMAIN script.clauses :
       \A i \in DOMAIN script.clauses[j].fields :
         LET f == script.clauses[j].fields[i]
         IN f.key \in DOMAIN e => Part(f.pattern, e[f.key]) \in Pairs
  /\ \A pair \in Pairs :
       /\ pair = Part(pair.pattern, pair.value)
       /\ pair.pattern.sort \in Sorts /\ Nesting(pair.pattern) \in Nat
       /\ MatchPart(pair.pattern, pair.value) = MatchFieldValue(pair.pattern, pair.value)
       /\ \A b \in Assignments :
            DescribesPart(pair.pattern, pair.value, b) <=> Describes(pair.pattern, pair.value, b)
       /\ pair.pattern.sort \in Composite =>
            \A parts \in PartsOf(pair.pattern, pair.value) :
              /\ Len(parts) \in Nat /\ DOMAIN parts = 1 .. Len(parts)
              /\ \A i \in DOMAIN parts :
                   parts[i] \in Pairs /\ Nesting(parts[i].pattern) < Nesting(pair.pattern)

\* A value the pattern accepts, if it is one of the plain ones.
SampleAlone(p) == IF p.sort = "literal" THEN p.value ELSE List(<<>>)
Sample(p) ==
  CASE p.sort = "elements" -> List([i \in DOMAIN p.items |-> SamplePart(p.items[i])])
    [] p.sort = "head_tail" -> List(<<SamplePart(p.head)>> \o SamplePart(p.tail).list)
    [] p.sort = "map" ->
         Map([k \in Keys(p.fields) |-> SamplePart(p.fields[FirstWithKey(p.fields, k)].pattern)])
    [] OTHER -> SampleAlone(p)

\* Of a key there is one line.
EachKeyOnce(fields) == \A i, j \in DOMAIN fields : fields[i].key = fields[j].key => i = j

\* What a pattern is made of.
Within(p) ==
  CASE p.sort = "elements" -> {p.items[i] : i \in DOMAIN p.items}
    [] p.sort = "head_tail" -> {p.head, p.tail}
    [] p.sort = "map" -> {p.fields[i].pattern : i \in DOMAIN p.fields}
    [] OTHER -> {}

\* There is a value for a pattern if it is no pin and asks for no tail but a list, nor for
\* two values under a key, and neither do its parts.
ASSUME PlainAssumption ==
  \A p \in PlainPatterns :
    /\ p.sort \in Sorts \ {"pin"}
    /\ p.sort = "elements" => Len(p.items) \in Nat /\ DOMAIN p.items = 1 .. Len(p.items)
    /\ p.sort = "head_tail" => p.tail.sort \in {"any", "variable", "elements", "head_tail"}
    /\ p.sort = "map" => AreFields(p.fields) /\ EachKeyOnce(p.fields)
    /\ Nesting(p) \in Nat
    /\ \A q \in Within(p) : q \in PlainPatterns /\ Nesting(q) < Nesting(p)
    /\ SamplePart(p) = Sample(p)
    /\ MatchPart(p, Sample(p)) = MatchFieldValue(p, Sample(p))

VARIABLES
  scripts,  \* the scripts registered
  asked,    \* the last question
  answer    \* and what was answered

registry_vars == <<scripts, asked, answer>>

ClausesOf(i) == scripts[i].clauses

-----------------------------------------------------------------------------
(* The registry's answers.                                                 *)

\* The bindings with which a clause fires: a guard that is in error does not hold.
Fires(clause, e) ==
  {b \in MatchFields(clause.fields, e) : clause.guard = <<>> \/ GuardHolds(clause.guard, b)}

MatchFirstClause(script, e) ==
  LET firing == {j \in DOMAIN script : Fires(script[j], e) # {}}
  IN IF firing = {} THEN {}
     ELSE {[clause |-> Min(firing), bindings |-> b] : b \in Fires(script[Min(firing)], e)}

\* One match a script, in the order of the scripts.
MatchClauses(e) ==
  UNION {{[script |-> i, clause |-> m.clause, bindings |-> m.bindings] :
            m \in MatchFirstClause(ClausesOf(i), e)} : i \in DOMAIN scripts}

\* A literal must be the value itself.
SlipSubsetMatches(query, fields) ==
  \A key \in DOMAIN query :
    LET i == FirstWithKey(fields, key)
    IN i # 0 /\ (fields[i].pattern.sort = "literal" => fields[i].pattern.value = query[key])

SubsetMatches(query, fields) ==
  \A key \in DOMAIN query :
    LET i == FirstWithKey(fields, key)
    IN i # 0 /\ MatchFieldValue(fields[i].pattern, query[key]) # {}

Found(query) ==
  UNION {{[script |-> i, clause |-> j] :
            j \in {k \in DOMAIN ClausesOf(i) : SubsetMatches(query, ClausesOf(i)[k].fields)}} :
           i \in DOMAIN scripts}

-----------------------------------------------------------------------------
(* The scope of API bindings.                                              *)

\* The fields a clause fixes: of two lines for a key, the later one's value.
LiteralsOf(fields, key) ==
  {i \in DOMAIN fields : fields[i].key = key /\ fields[i].pattern.sort = "literal"}
PolicyToFieldMap(fields) ==
  [key \in {k \in Keys(fields) : LiteralsOf(fields, k) # {}} |->
     fields[Max(LiteralsOf(fields, key))].pattern.value]

\* The binding and the clause change places.
SlipCovers(pattern, clause) == MatchFields(clause.fields, PolicyToFieldMap(pattern)) # {}

Covers(pattern, clause) ==
  pattern = <<>> \/ MatchFields(pattern, PolicyToFieldMap(clause.fields)) # {}

-----------------------------------------------------------------------------
NoQuestion == [about |-> "nothing"]

\* Bound: one question to each registry, since answers change nothing.
Unasked == asked = NoQuestion

RegistryInit ==
  /\ scripts = <<>>
  /\ asked = NoQuestion
  /\ answer = {}

\* A script is put last.
Load(script) ==
  /\ Len(scripts) < MaxScripts
  /\ scripts' = Append(scripts, script)
  /\ asked' = NoQuestion
  /\ answer' = {}

\* match_clauses
MatchEvent(e) ==
  /\ Unasked
  /\ asked' = [about |-> "event", input |-> e]
  /\ answer' = MatchClauses(e)
  /\ UNCHANGED scripts

\* query_subset
QuerySubset(query) ==
  /\ Unasked
  /\ asked' = [about |-> "query", input |-> query]
  /\ answer' = Found(query)
  /\ UNCHANGED scripts

RegistryNext ==
  \/ \E script \in Loadable : Load(script)
  \/ \E e \in Events : MatchEvent(e)
  \/ \E query \in Queries : QuerySubset(query)

RegistrySpec == RegistryInit /\ [][RegistryNext]_registry_vars

-----------------------------------------------------------------------------
(* Properties.                                                             *)

\* An answer is about clauses that are registered, and names one of a script for an event.
RegistryTypeOK ==
  /\ scripts \in Seq(Loadable)
  /\ Len(scripts) <= MaxScripts
  /\ \/ asked = NoQuestion /\ answer = {}
     \/ \E e \in Events :
          /\ asked = [about |-> "event", input |-> e]
          /\ \A m \in answer : m.script \in DOMAIN scripts /\ m.clause \in DOMAIN ClausesOf(m.script)
          /\ \A m, n \in answer : m.script = n.script => m.clause = n.clause
     \/ \E query \in Queries :
          /\ asked = [about |-> "query", input |-> query]
          /\ \A f \in answer : f.script \in DOMAIN scripts /\ f.clause \in DOMAIN ClausesOf(f.script)

\* What an event runs can be discovered: whatever fields of the event that the clause names
\* are taken as a query, query_subset finds the clause.  And what is discovered could run:
\* for every clause query_subset finds there is an event with the fields of the query that
\* the patterns of the clause accept (whatever its guard says), if they are plain and the
\* clause has no two for a field.
RunsAreFound ==
  asked.about = "event" =>
    \A m \in answer :
      \A keys \in SUBSET (Keys(ClausesOf(m.script)[m.clause].fields) \cap DOMAIN asked.input) :
        [script |-> m.script, clause |-> m.clause] \in Found([key \in keys |-> asked.input[key]])
IsPlain(fields) ==
  EachKeyOnce(fields) /\ \A i \in DOMAIN fields : fields[i].pattern \in PlainPatterns
Completed(query, fields) ==
  [key \in DOMAIN query \cup Keys(fields) |->
     IF key \in DOMAIN query THEN query[key] ELSE Sample(fields[FirstWithKey(fields, key)].pattern)]
FoundCouldRun ==
  asked.about = "query" =>
    \A f \in answer :
      LET fields == ClausesOf(f.script)[f.clause].fields
      IN IsPlain(fields) => MatchFields(fields, Completed(asked.input, fields)) # {}
FoundIsWhatCanRun == RunsAreFound /\ FoundCouldRun

\* An API is only seen by clauses in its scope: when a clause that runs for an event has an
\* API binding in scope, the fields of the binding match that event too.  A field that the
\* clause has as :global: and the event leaves out counts as that enum; one that the
\* binding has as :global: asks for nothing (events with a string there run its clauses).
AsRun(clause, e) ==
  LET anywhere == {key \in Keys(clause.fields) :
                     \E i \in DOMAIN clause.fields : clause.fields[i] = Field(key, GlobalEnum)}
  IN [key \in DOMAIN e \cup anywhere |-> IF key \in DOMAIN e THEN e[key] ELSE Enum("global")]
ApiInScope ==
  asked.about = "event" =>
    \A m \in answer, pattern \in ApiPatterns :
      LET clause == ClausesOf(m.script)[m.clause]
      IN Covers(pattern, clause) =>
           \A i \in DOMAIN pattern :
             pattern[i].pattern # GlobalEnum => MatchMember(pattern[i], AsRun(clause, asked.input)) # {}

\* What is matched binds no variable in two places, however deep it nests.
BindOnce(matches) ==
  \A i, j \in DOMAIN matches :
    i # j => \A c \in matches[i], d \in matches[j] : DOMAIN c \cap DOMAIN d = {}
Unambiguous(pair) ==
  \E plain \in SUBSET Pairs :
    /\ pair \in plain
    /\ \A q \in plain : q.pattern.sort \in Composite =>
         \A parts \in PartsOf(q.pattern, q.value) :
           /\ BindOnce([i \in DOMAIN parts |-> MatchPart(parts[i].pattern, parts[i].value)])
           /\ \A i \in DOMAIN parts : parts[i] \in plain
UnambiguousFields(fields, e) ==
  /\ BindOnce([i \in DOMAIN fields |-> MatchMember(fields[i], e)])
  /\ \A i \in DOMAIN fields :
       fields[i].key \in DOMAIN e => Unambiguous(Part(fields[i].pattern, e[fields[i].key]))

\* A script runs the first of its clauses that describes the event and whose guard holds.
\* With the values that the clause is given for its variables its patterns are the fields
\* of the event, unless it uses a variable twice; and no clause before it, and none of a
\* script that does not run, has such values at all.
DescribesEvent(fields, e, b) ==
  \A i \in DOMAIN fields :
    IF fields[i].key \in DOMAIN e THEN DescribesPart(fields[i].pattern, e[fields[i].key], b)
    ELSE fields[i].pattern = GlobalEnum
Agree(b, c) == \A name \in DOMAIN c : name \in DOMAIN b /\ b[name] = c[name]
Allows(clause, c) == clause.guard = <<>> \/ GuardHolds(clause.guard, c)
FirstDescribedRuns ==
  asked.about = "event" =>
    LET e == asked.input
    IN /\ \A m \in answer :
            LET clause == ClausesOf(m.script)[m.clause]
            IN /\ Allows(clause, m.bindings)
               /\ UnambiguousFields(clause.fields, e) =>
                    \A b \in Assignments : Agree(b, m.bindings) => DescribesEvent(clause.fields, e, b)
       /\ \A i \in DOMAIN scripts : \A j \in DOMAIN ClausesOf(i), b \in Assignments :
            LET clause == ClausesOf(i)[j]
            IN DescribesEvent(clause.fields, e, b) =>
                 \E c \in MatchFields(clause.fields, e) :
                   /\ Agree(b, c)
                   /\ Allows(clause, c) => \E m \in answer : m.script = i /\ m.clause <= j
=============================================================================
