------------------------------ MODULE MCProcess ------------------------------
(***************************************************************************)
(* An instance of Process for TLC: children like true, cat on two bytes,   *)
(* sort, yes, sleep and one that writes before it reads; their output and  *)
(* their input may be more than a pipe holds.                              *)
(***************************************************************************)
EXTENDS Process

MCProgram ==
  { <<>>,
    <<"read", "write", "read", "write">>,
    <<"drain", "write", "write">>,
    <<"drain", "write", "write", "write">>,
    <<"write", "write", "write">>,
    <<"write", "write", "write", "drain", "write">>,
    <<"write", "hang">>,
    <<"read", "hang">> }
=============================================================================
