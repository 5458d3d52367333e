----------------------------- MODULE MCClauseEnv -----------------------------
(***************************************************************************)
(* An instance of ClauseEnv for TLC: two clauses, of which one matches all *)
(* API patterns and the other only the universal one; a namespace and one  *)
(* inside it; a variable that has the name of the namespace; a library;    *)
(* two handlers, one of which fails when it is a builder.                  *)
(***************************************************************************)
EXTENDS ClauseEnv

MCName == {"client", "x"}
MCBindings ==
  [c \in Clause |-> IF c = "tui" THEN {[x |-> "1"], [client |-> "1"]} ELSE {<<>>}]
MCNamespace == {<<"client">>, <<"client", "ui">>}
MCCoveredBy == [p \in Pattern |-> IF p = "universal" THEN Clause ELSE {"tui"}]
MCSpecs ==
  {[ns |-> <<"client">>, pattern |-> "universal", handler |-> "save"],
   [ns |-> <<"client">>, pattern |-> "surface", handler |-> "build"],
   [ns |-> <<"client", "ui">>, pattern |-> "surface", handler |-> "save"]}
=============================================================================
