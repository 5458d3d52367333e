------------------------------- MODULE MCScripts ------------------------------
(***************************************************************************)
(* Scripts for TLC: what they are read as and which events they run for    *)
(* (Matching), and what a clause of theirs finds in its environment when   *)
(* it starts (ClauseEnv).  The two share no state, and every property is   *)
(* about one, so that a behaviour here is of one of them, part, while the  *)
(* other rests.                                                            *)
(***************************************************************************)
EXTENDS MCMatching, MCClauseEnv

VARIABLE part

scriptsVars == <<part, vars, envVars>>

ScriptsInit == part \in {"matching", "environment"} /\ Init /\ EnvInit

\* A registry that has answered rests: what is registered after a question leads where it
\* leads without it.
MatchingAlone == part = "matching" /\ Unasked /\ UNCHANGED <<part, envVars>>
EnvAlone == part = "environment" /\ UNCHANGED <<part, vars>>

ScriptsNext ==
  \/ MatchingAlone /\ Next
  \/ EnvAlone /\ EnvNext

ScriptsSpec == ScriptsInit /\ [][ScriptsNext]_scriptsVars
=============================================================================
