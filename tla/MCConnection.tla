---------------------------- MODULE MCConnection -----------------------------
(***************************************************************************)
(* An instance of Connection for TLC: a request for each way handling one  *)
(* may end.                                                                *)
(***************************************************************************)
EXTENDS Connection

MCRequests ==
  {[method |-> "register", params |-> "good"], [method |-> "register_api", params |-> "good"],
   [method |-> "dispatch", params |-> "good"], [method |-> "register", params |-> "broken"]}
=============================================================================
