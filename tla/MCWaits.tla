-------------------------------- MODULE MCWaits -------------------------------
(***************************************************************************)
(* Three places where somebody waits and is served in the end, for TLC:    *)
(* the promises of a script, its child process, and the listener of the    *)
(* service.  They share no state, and every property is about one, so that *)
(* a behaviour here is of one of them, part, while the others rest.        *)
(*                                                                         *)
(* Three promises, and lists with some of them in both orders, with one of *)
(* them twice, and with none; the children of MCProcess; two services for  *)
(* one socket file, one for a port, and two consumers.                     *)
(***************************************************************************)
EXTENDS Promises, ServiceListener, MCProcess

MCPromise == {"p", "q", "r"}
MCLists == {<<>>, <<"p", "q">>, <<"q", "p">>, <<"p", "p">>, <<"r", "q", "p">>}

-----------------------------------------------------------------------------
VARIABLE part

waitsVars == <<part, vars, processVars, listenerVars>>

\* One child spec stands for all in behaviours that are of another part.
SomeSpec == CHOOSE s \in Specs : s.piped
WaitsInit ==
  /\ part \in {"promises", "process", "listener"}
  /\ Init /\ ProcessInit /\ ListenerInit
  /\ part = "process" \/ spec = SomeSpec

PromisesAlone == part = "promises" /\ UNCHANGED <<part, processVars, listenerVars>>
ProcessAlone == part = "process" /\ UNCHANGED <<part, vars, listenerVars>>
ListenerAlone == part = "listener" /\ UNCHANGED <<part, vars, processVars>>

WaitsNext ==
  \/ PromisesAlone /\ Next
  \/ ProcessAlone /\ ProcessNext
  \/ ListenerAlone /\ ListenerNext

\* The fairness of Promises, that of Process and that of ServiceListener.
WaitsFairness ==
  /\ \A p \in Promise :
       WF_waitsVars(PromisesAlone /\ \E outcome \in End : Finish(p, outcome))
  /\ WF_waitsVars(PromisesAlone /\ Wait)
  /\ WF_waitsVars(ProcessAlone /\ Child)
  /\ WF_waitsVars(ProcessAlone /\ GoOn)
  /\ WF_waitsVars(ProcessAlone /\ Task)
  /\ \A s \in Service : WF_waitsVars(ListenerAlone /\ TakeIn(s))

WaitsSpec == WaitsInit /\ [][WaitsNext]_waitsVars /\ WaitsFairness
=============================================================================
