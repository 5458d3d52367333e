--------------------------- MODULE CascadeContract ---------------------------
(***************************************************************************)
(* What a dispatch promises its caller about the list of outcomes, against *)
(* which Cascade is checked: the list is the pre-order record of the       *)
(* cascade tree.  The tree is grown here from left to right, with the path *)
(* from the root in place of the engine's visited set and stack: from the  *)
(* outcomes so far follows which outcomes are due, in order, and the next  *)
(* one must be the first of them.                                          *)
(***************************************************************************)
EXTENDS Cascade, FiniteSets

-----------------------------------------------------------------------------
(* Sums and joins of the values of a function, from its last place down.   *)

Total(f, n) ==
  LET t[i \in 0 .. n] == IF i = 0 THEN 0 ELSE t[i - 1] + f[i]
  IN  t[n]

Joined(f, n) ==
  LET j[i \in 0 .. n] == IF i = 0 THEN <<>> ELSE f[i] \o j[i - 1]
  IN  j[n]

-----------------------------------------------------------------------------
(* What is due.                                                            *)

\* An outcome that is due: a clause that runs below a path, or a refusal.
Due == [clause : Clause \cup {Synthetic}, kind : {"run", "depth", "cycle"}, path : Seq(Event)]

Refused(kind) == [clause |-> Synthetic, kind |-> kind, path |-> <<>>]
Runs(clauses, path) ==
  [n \in DOMAIN clauses |-> [clause |-> clauses[n], kind |-> "run", path |-> path]]

\* What the event e is due below a path: a refusal exactly where the path is too long or
\* has e already, and else every clause it matches once, in order.
DueBelow(limit, path, e) ==
  IF Len(path) >= limit THEN <<Refused("depth")>>
  ELSE IF \E n \in DOMAIN path : path[n] = e THEN <<Refused("cycle")>>
  ELSE Runs(Matches[e], Append(path, e))

\* What the emissions of a clause are due, in order.
DueOf(limit, path, emitted) ==
  LET n == Len(emitted)
  IN  Joined([i \in 1 .. n |-> DueBelow(limit, path, emitted[n + 1 - i])], n)

Reports(o, x) == IF x.kind = "run" THEN o.clause = x.clause ELSE o = SyntheticOutcome(x.kind)

\* Of what was due, with o reported: nothing if o is not what was due first, and else what
\* o caused, before the rest.
Follow(limit, due, o) ==
  {DueOf(limit, d[1].path, o.emitted) \o Tail(d) : d \in {x \in due : x # <<>> /\ Reports(o, x[1])}}

\* What is due after a list of outcomes of a dispatch of e; none if the list is wrong.
After(limit, log, e) ==
  LET a[i \in 0 .. Len(log)] ==
        IF i = 0 THEN {DueBelow(limit, <<>>, e)} ELSE Follow(limit, a[i - 1], log[i])
  IN  a[Len(log)]

-----------------------------------------------------------------------------

\* The outcomes before the first one that reports an exhausted budget.
BeforeExhaustion(log) ==
  LET cut == {i \in DOMAIN log : log[i].kind = "budget"}
  IN IF cut = {} THEN log
     ELSE SubSeq(log, 1, (CHOOSE i \in cut : \A j \in cut : i <= j) - 1)

\* Past that outcome there are those of clauses that had already matched on the way up, and
\* each emission one of them makes is refused at once, not followed.
RefusedWithoutBudget(log) ==
  \A i \in Len(BeforeExhaustion(log)) + 1 .. Len(log) :
    /\ log[i].kind \in {"ok", "body", "budget"}
    /\ (i < Len(log) /\ log[i].emitted # <<>>) => log[i + 1].kind = "budget"

ClauseOutcomes(log) == {i \in DOMAIN log : log[i].clause # Synthetic}
Emissions(log) == Total([i \in DOMAIN log |-> Len(log[i].emitted)], Len(log))
Failed(log) == {ScriptOf[log[i].clause] : i \in {j \in DOMAIN log : log[j].kind = "body"}}

\* dispatch's outcomes are, at every moment, a beginning of the pre-order record
\* of the cascade tree up to the first exhausted budget: every matched clause
\* once, in match order, each followed by what its emissions caused; and a
\* refusal exactly where the path is too deep or repeats an event.  A dispatch
\* that returns without exhausting its budget has the whole record: nothing it
\* matched and nothing emitted is lost.  Past its budget it follows nothing.  And
\* EngineStats counts what the outcomes show: after one dispatch within its budget,
\* one match per clause outcome and one cascade per emission.
ReportMatchesTree ==
  root # NoEvent =>
    /\ After(ctx_config.max_depth, BeforeExhaustion(outcomes), root) # {}
    /\ Idle /\ ~BudgetExhausted => After(ctx_config.max_depth, outcomes, root) = {<<>>}
    /\ RefusedWithoutBudget(outcomes)
    /\ dispatches = 1 /\ Idle /\ ~BudgetExhausted =>
         /\ matched = Cardinality(ClauseOutcomes(outcomes))
         /\ cascades_emitted = Emissions(outcomes)
         /\ last_error = Failed(outcomes)
=============================================================================
