------------------------------ MODULE ClauseEnv ------------------------------
(***************************************************************************)
(* What a clause of a luaml script finds in its environment: the variables *)
(* its pattern bound, the API namespaces whose pattern its execution       *)
(* policy matches (lib.rs, api.rs) and luaml itself, put there by          *)
(* execute_clause (executor.rs) before the body runs.                      *)
(*                                                                         *)
(* The environment is a table of the clause's own whose metatable sends    *)
(* every assignment of a new name to the Lua globals.  The table is never  *)
(* assigned to otherwise, so all names live in the globals, which every    *)
(* clause shares.  They are modelled as a value for each path: a name, or  *)
(* a name inside the table of a name.  Tables are not aliased.             *)
(*                                                                         *)
(* A definition whose name starts with Slip is not part of the model: it   *)
(* is what the one after it would be with a plausible bug in that code,    *)
(* kept to show which property notices.                                    *)
(***************************************************************************)
EXTENDS Naturals, Sequences, SequencesExt

CONSTANTS
  Clause,      \* the clauses of the registered scripts
  NoClause,
  Name,        \* names the clauses bind or assign
  Builtin,     \* those of the Lua and luaml standard libraries
  Bindings,    \* what an event binds for a clause: functions from names to values
  Value,       \* the values bound and assigned
  Namespace,   \* the paths API namespaces are bound at
  Pattern,     \* the patterns of API bindings
  CoveredBy,   \* the clauses whose execution policy a pattern matches
  Handler,     \* the handlers and builders of API bindings
  Specs,       \* what is registered: [ns, pattern, handler]
  Fails,       \* the builders that fail
  MaxBindings  \* bound: API bindings ever registered

Path == {<<n>> : n \in Name \cup {"luaml"}} \cup Namespace

ASSUME ClauseEnvAssumption ==
  /\ NoClause \notin Clause
  /\ Builtin \subseteq Name
  /\ \A c \in Clause : \A b \in Bindings[c] : DOMAIN b \subseteq Name /\ Range(b) \subseteq Value
  /\ \A ns \in Namespace : <<ns[1]>> \in Path /\ (ns = <<ns[1]>> \/ ns = <<ns[1], ns[2]>>)
  /\ CoveredBy \in [Pattern -> SUBSET Clause]
  /\ Fails \subseteq Handler
  /\ Specs \subseteq [ns : Namespace, pattern : Pattern, handler : Handler]
  /\ MaxBindings \in Nat

VARIABLES
  apis,        \* engine.api_bindings
  localApis,   \* engine.local_api_bindings
  nextApiId,   \* engine.next_api_id
  globals,     \* the Lua globals
  running,     \* the clause whose body runs, or NoClause
  bindings,    \* its bindings
  fresh,       \* its body has not done anything yet
  emissions    \* how often it has called luaml.dispatch (at most once here)

bound == <<apis, localApis, nextApiId>>
envVars == <<bound, globals, running, bindings, fresh, emissions>>

Entry == [id : 0 .. MaxBindings - 1, spec : Specs]

Nil == [kind |-> "nil", of |-> "nothing"]
Table == [kind |-> "table", of |-> "nothing"]
Library == [kind |-> "builtin", of |-> "nothing"]
Datum(v) == [kind |-> "data", of |-> v]
Api(h) == [kind |-> "api", of |-> h]
Emitter(whose) == [kind |-> "emitter", of |-> whose]

EnvInit ==
  /\ apis = <<>> /\ localApis = <<>> /\ nextApiId = 0
  /\ globals = [p \in Path |-> IF Len(p) = 1 /\ p[1] \in Builtin THEN Library ELSE Nil]
  /\ running = NoClause /\ bindings = <<>> /\ fresh = FALSE /\ emissions = 0

\* What s has at the places kept, in the order of s.
Retain(s, kept) ==
  LET first[n \in 0 .. Len(s)] ==
        IF n = 0 THEN <<>>
        ELSE IF n \in kept THEN Append(first[n - 1], s[n])
        ELSE first[n - 1]
  IN first[Len(s)]

-----------------------------------------------------------------------------
(* API bindings come and go between dispatches.                            *)

BetweenRuns ==
  /\ running = NoClause
  /\ UNCHANGED <<globals, running, bindings, fresh, emissions>>

RegisterApi(s) ==
  /\ BetweenRuns
  /\ nextApiId < MaxBindings
  /\ apis' = Append(apis, [id |-> nextApiId, spec |-> s])
  /\ nextApiId' = nextApiId + 1
  /\ UNCHANGED localApis

\* Local bindings count for themselves.
SlipRegisterLocalApi(s) ==
  /\ BetweenRuns
  /\ nextApiId < MaxBindings
  /\ localApis' = Append(localApis, [id |-> Len(localApis), spec |-> s])
  /\ nextApiId' = nextApiId + 1
  /\ UNCHANGED apis

RegisterLocalApi(s) ==
  /\ BetweenRuns
  /\ nextApiId < MaxBindings
  /\ localApis' = Append(localApis, [id |-> nextApiId, spec |-> s])
  /\ nextApiId' = nextApiId + 1
  /\ UNCHANGED apis

UnregisterApi(id) ==
  /\ BetweenRuns
  /\ apis' = Retain(apis, {i \in DOMAIN apis : apis[i].id # id})
  /\ UNCHANGED <<localApis, nextApiId>>

UnregisterLocalApi(id) ==
  /\ BetweenRuns
  /\ localApis' = Retain(localApis, {i \in DOMAIN localApis : localApis[i].id # id})
  /\ UNCHANGED <<apis, nextApiId>>

ReplaceApi(id, s) ==
  /\ BetweenRuns
  /\ apis' = [i \in DOMAIN apis |-> IF apis[i].id = id THEN [id |-> id, spec |-> s] ELSE apis[i]]
  /\ UNCHANGED <<localApis, nextApiId>>

-----------------------------------------------------------------------------
(* execute_clause.                                                         *)

\* Assigning a path replaces whatever the table it held had in it.
Assign(g, p, v) ==
  [q \in Path |-> IF q = p THEN v ELSE IF IsStrictPrefix(p, q) THEN Nil ELSE g[q]]

IsTable(v) == v.kind \in {"table", "api", "builtin"}

\* A namespace that is there already is kept.
SlipInject(g, s) == IF g[s.ns].kind = "api" THEN g ELSE Assign(g, s.ns, Api(s.handler))

\* inject_api_namespace and install_namespace_table: a name on the way that is not
\* a table becomes one.
Inject(g, s) ==
  LET parent == <<s.ns[1]>>
      onTheWay == IF Len(s.ns) = 1 \/ IsTable(g[parent]) THEN g
                  ELSE Assign(g, parent, Table)
  IN Assign(onTheWay, s.ns, Api(s.handler))

InjectAll(g, entries) ==
  LET after[n \in 0 .. Len(entries)] ==
        IF n = 0 THEN g ELSE Inject(after[n - 1], entries[n].spec)
  IN after[Len(entries)]

Matching(entries, c) ==
  Retain(entries, {i \in DOMAIN entries : c \in CoveredBy[entries[i].spec.pattern]})

\* The builders called before the first one that fails.
Built(entries) ==
  LET failing == {i \in DOMAIN entries : entries[i].spec.handler \in Fails}
  IN IF failing = {} THEN entries
     ELSE SubSeq(entries, 1, (CHOOSE i \in failing : \A j \in failing : i <= j) - 1)

Bind(g, b) ==
  [p \in Path |->
     IF Len(p) = 1 /\ p[1] \in DOMAIN b THEN Datum(b[p[1]])
     ELSE IF p[1] \in DOMAIN b THEN Nil
     ELSE g[p]]

\* The emitters scripts kept from earlier runs still append to the lists of those.
Outlive(g) == [p \in Path |-> IF g[p].kind = "emitter" THEN Emitter("an earlier run") ELSE g[p]]

InstallLuaml(g) == Assign(g, <<"luaml">>, Emitter("this run"))

Begin(c, b) ==
  /\ running = NoClause
  /\ LET builders == Matching(localApis, c)
         installed == InjectAll(InjectAll(Bind(Outlive(globals), b), Matching(apis, c)),
                                Built(builders))
     IN \/ /\ Built(builders) = builders
           /\ globals' = InstallLuaml(installed)
           /\ running' = c /\ bindings' = b /\ fresh' = TRUE
        \/ /\ Built(builders) # builders
           /\ globals' = installed
           /\ UNCHANGED <<running, bindings, fresh>>
  /\ UNCHANGED <<bound, emissions>>

Body ==
  /\ running # NoClause
  /\ fresh' = FALSE
  /\ UNCHANGED <<bound, running, bindings>>

\* The body assigns a name, or a name in a table, something of its own, nil, or what
\* another path holds.
AssignPath(p, v) ==
  /\ Body
  /\ Len(p) = 1 \/ IsTable(globals[<<p[1]>>])
  /\ globals' = Assign(globals, p, v)
  /\ UNCHANGED emissions

\* A call of luaml.dispatch, under whatever name, appends to the list it belongs to;
\* that of an earlier run has been drained already.
Emit(p) ==
  /\ Body
  /\ globals[p].kind = "emitter"
  /\ emissions = 0
  /\ emissions' = IF globals[p] = Emitter("this run") THEN 1 ELSE 0
  /\ UNCHANGED globals

\* The body returns or fails; nothing is taken back.
End ==
  /\ running # NoClause
  /\ running' = NoClause /\ bindings' = <<>> /\ fresh' = FALSE /\ emissions' = 0
  /\ UNCHANGED <<bound, globals>>

-----------------------------------------------------------------------------

EnvNext ==
  \/ \E s \in Specs : RegisterApi(s) \/ RegisterLocalApi(s)
  \/ \E id \in 0 .. nextApiId :
       \/ UnregisterApi(id)
       \/ UnregisterLocalApi(id)
       \/ \E s \in Specs : ReplaceApi(id, s)
  \/ \E c \in Clause : \E b \in Bindings[c] : Begin(c, b)
  \/ \E p \in Path, v \in {Nil} \cup {Datum(x) : x \in Value} \cup Range(globals) :
       AssignPath(p, v)
  \/ \E p \in Path : Emit(p)
  \/ End

EnvSpec == EnvInit /\ [][EnvNext]_envVars

-----------------------------------------------------------------------------

Object ==
  {Nil, Table, Library, Emitter("this run"), Emitter("an earlier run")}
    \cup {Datum(v) : v \in Value} \cup {Api(h) : h \in Handler}

EnvTypeOK ==
  /\ apis \in Seq(Entry) /\ localApis \in Seq(Entry)
  /\ nextApiId \in 0 .. MaxBindings
  /\ globals \in [Path -> Object]
  /\ running \in Clause \cup {NoClause}
  /\ running # NoClause => bindings \in Bindings[running]
  /\ fresh \in BOOLEAN
  /\ emissions \in {0, 1}

\* Whoever holds the id of a binding removes or replaces that one and no other, of
\* either kind.
IdsUnique ==
  LET all == apis \o localApis
  IN \A i, j \in DOMAIN all : all[i].id = all[j].id => i = j

Starting == running # NoClause /\ fresh

Installed == Matching(apis, running) \o Matching(localApis, running)

Hidden(i) ==
  \/ Installed[i].spec.ns[1] = "luaml"
  \/ \E j \in DOMAIN Installed : j > i /\ IsPrefix(Installed[j].spec.ns, Installed[i].spec.ns)

\* Whatever clauses ran before, and whatever they assigned, a clause starts with the
\* handlers registered now for the namespaces its policy matches, of two bindings of a
\* namespace, or of one inside another, the later; with its own bindings, but for those a
\* namespace has taken the name of; and with a luaml whose emissions are drained when it
\* returns, though an earlier clause has kept its own.
OwnNames ==
  Starting =>
    /\ \A i \in DOMAIN Installed :
         Hidden(i) \/ globals[Installed[i].spec.ns] = Api(Installed[i].spec.handler)
    /\ \A n \in DOMAIN bindings \ {"luaml"} :
         (\A i \in DOMAIN Installed : Installed[i].spec.ns[1] # n)
           => globals[<<n>>] = Datum(bindings[n])
    /\ globals[<<"luaml">>] = Emitter("this run")

\* What api.rs and README.md say of a binding's pattern: it determines which clauses
\* get the namespace.  The code does not keep it: see Begin.
ScopedNamespaces ==
  Starting =>
    \A p \in Namespace : globals[p].kind = "api" =>
      \E i \in DOMAIN Installed :
        Installed[i].spec.ns = p /\ globals[p] = Api(Installed[i].spec.handler)
=============================================================================
