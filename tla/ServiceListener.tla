---------------------------- MODULE ServiceListener ---------------------------
(***************************************************************************)
(* The listener of luaml-service (server.rs, main.rs): how a service gets  *)
(* its address, and how it takes in the consumers that connect.            *)
(*                                                                         *)
(* A Unix socket is a file, which stays when its service dies: a service   *)
(* that starts looks whether the file exists, removes it, and binds, in    *)
(* three steps, and does not ask whether another service still listens on  *)
(* it.  A TCP address is free again when its service dies.  Each service   *)
(* that cannot bind exits.                                                 *)
(*                                                                         *)
(* A service accepts one consumer after another and gives each a thread of *)
(* its own (what that does is in Connection); an error of accept is        *)
(* logged, and the loop goes on.                                           *)
(*                                                                         *)
(* A definition whose name starts with Slip is not part of the model: it   *)
(* is what the one after it would be with a plausible bug in that code,    *)
(* kept to show which property notices.                                    *)
(***************************************************************************)
EXTENDS Naturals, Sequences

CONSTANTS
  Service,    \* the services that are started, once each
  OnUnix,     \* those told to listen on the Unix socket; the others, on the TCP address
  Consumer    \* the consumers, which connect once each

ASSUME ListenerAssumption == OnUnix \subseteq Service

VARIABLES
  phase,      \* how far each service is
  file,       \* the service that made the socket file: none if there is no file
  port,       \* the service that has the TCP address
  queue,      \* the consumers each service has yet to accept
  served,     \* the consumers that have a thread of each service
  called        \* the consumers that connected, or tried to

listenerVars == <<phase, file, port, queue, served, called>>

ListenerInit ==
  /\ phase = [s \in Service |-> "down"]
  /\ file = {}
  /\ port = {}
  /\ queue = [s \in Service |-> <<>>]
  /\ served = [s \in Service |-> {}]
  /\ called = {}

-----------------------------------------------------------------------------

Goto(s, where) == phase' = [phase EXCEPT ![s] = where]

\* ListenAddr::parse: a prefix tells the two kinds apart, no prefix is TCP.
Start(s) ==
  /\ phase[s] = "down"
  /\ Goto(s, IF s \in OnUnix THEN "looking" ELSE "binding")
  /\ UNCHANGED <<file, port, queue, served, called>>

LookForFile(s) ==
  /\ phase[s] = "looking"
  /\ Goto(s, IF file # {} THEN "removing" ELSE "binding")
  /\ UNCHANGED <<file, port, queue, served, called>>

\* By now the file may be that of another service, or have gone.
RemoveFile(s) ==
  /\ phase[s] = "removing"
  /\ Goto(s, IF file # {} THEN "binding" ELSE "exited")
  /\ file' = {}
  /\ UNCHANGED <<port, queue, served, called>>

BindAddress(s) ==
  /\ phase[s] = "binding"
  /\ IF s \in OnUnix
     THEN /\ Goto(s, IF file = {} THEN "serving" ELSE "exited")
          /\ file' = IF file = {} THEN {s} ELSE file
          /\ UNCHANGED port
     ELSE /\ Goto(s, IF port = {} THEN "serving" ELSE "exited")
          /\ port' = IF port = {} THEN {s} ELSE port
          /\ UNCHANGED file
  /\ UNCHANGED <<queue, served, called>>

\* A consumer connects to an address; it is refused if no service listens there.
Arrives(c, there) ==
  /\ c \notin called
  /\ called' = called \cup {c}
  /\ queue' = [s \in Service |->
       IF s \in there /\ phase[s] = "serving" THEN Append(queue[s], c) ELSE queue[s]]
  /\ UNCHANGED <<phase, file, port, served>>

ConnectUnix(c) == Arrives(c, file)
ConnectTcp(c) == Arrives(c, port)

\* The connection is handled in the accepting thread.
SlipTakeIn(s) ==
  /\ phase[s] = "serving"
  /\ queue[s] # <<>>
  /\ served[s] = {}
  /\ served' = [served EXCEPT ![s] = {Head(queue[s])}]
  /\ queue' = [queue EXCEPT ![s] = Tail(@)]
  /\ UNCHANGED <<phase, file, port, called>>

TakeIn(s) ==
  /\ phase[s] = "serving"
  /\ queue[s] # <<>>
  /\ served' = [served EXCEPT ![s] = @ \cup {Head(queue[s])}]
  /\ queue' = [queue EXCEPT ![s] = Tail(@)]
  /\ UNCHANGED <<phase, file, port, called>>

\* The consumer goes, and its thread ends.
Leave(s, c) ==
  /\ c \in served[s]
  /\ served' = [served EXCEPT ![s] = @ \ {c}]
  /\ UNCHANGED <<phase, file, port, queue, called>>

\* The process is killed, at whatever point it is.
Die(s) ==
  /\ phase[s] \notin {"down", "exited"}
  /\ Goto(s, "exited")
  /\ port' = port \ {s}
  /\ queue' = [queue EXCEPT ![s] = <<>>]
  /\ served' = [served EXCEPT ![s] = {}]
  /\ UNCHANGED <<file, called>>

ListenerNext ==
  \/ \E s \in Service :
       \/ Start(s) \/ LookForFile(s) \/ RemoveFile(s) \/ BindAddress(s) \/ TakeIn(s) \/ Die(s)
       \/ \E c \in Consumer : Leave(s, c)
  \/ \E c \in Consumer : ConnectUnix(c) \/ ConnectTcp(c)

ListenerFairness == \A s \in Service : WF_listenerVars(TakeIn(s))

ListenerSpec == ListenerInit /\ [][ListenerNext]_listenerVars /\ ListenerFairness

-----------------------------------------------------------------------------

ListenerTypeOK ==
  /\ phase \in [Service -> {"down", "looking", "removing", "binding", "serving", "exited"}]
  /\ file \subseteq OnUnix
  /\ port \subseteq Service \ OnUnix
  /\ queue \in [Service -> Seq(Consumer)]
  /\ served \in [Service -> SUBSET Consumer]
  /\ called \subseteq Consumer

\* A consumer that waits is accepted, or its service ends: however many are served that
\* neither send anything nor leave.
EveryoneTakenIn ==
  \A s \in Service, c \in Consumer :
    (\E i \in DOMAIN queue[s] : queue[s][i] = c) ~> (c \in served[s] \/ phase[s] = "exited")
=============================================================================
