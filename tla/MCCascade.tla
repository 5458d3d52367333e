------------------------------ MODULE MCCascade ------------------------------
(***************************************************************************)
(* An instance of Cascade for TLC: three events and the clauses of three   *)
(* scripts.  Between them the bodies fail, fail after queueing, emit       *)
(* nothing, emit one event twice (a diamond), emit their own event, and    *)
(* close longer cycles; the configurations stop a tree at each limit.      *)
(***************************************************************************)
EXTENDS CascadeContract

Succeeds(events) == [ok |-> TRUE, emitted |-> events]
FailsAfter(events) == [ok |-> FALSE, emitted |-> events]

MCEvent == {"tick", "work", "done"}
MCScript == {"planner", "auditor", "worker"}
MCClause == {"plan", "close", "audit", "build"}

MCScriptOf ==
  [c \in MCClause |-> CASE c \in {"plan", "close"} -> "planner"
                        [] c = "audit" -> "auditor"
                        [] c = "build" -> "worker"]

MCMatches ==
  [e \in MCEvent |-> CASE e = "tick" -> <<"plan", "audit">>
                       [] e = "work" -> <<"build">>
                       [] e = "done" -> <<"close">>]

MCBodies ==
  [c \in MCClause |->
     CASE c = "plan" -> {Succeeds(<<"work", "work">>), Succeeds(<<"done", "work">>),
                         FailsAfter(<<"work">>)}
       [] c = "close" -> {Succeeds(<<>>), Succeeds(<<"work">>)}
       [] c = "audit" -> {Succeeds(<<>>), Succeeds(<<"tick">>), Succeeds(<<"done">>)}
       [] c = "build" -> {Succeeds(<<"done">>), Succeeds(<<"tick">>), FailsAfter(<<>>)}]

Limits(depth, budget) == [max_depth |-> depth, budget |-> budget]

MCConfigs == {Limits(0, 2), Limits(1, 2), Limits(2, 3), Limits(3, 0), Limits(3, 2), Limits(4, 6)}
=============================================================================
