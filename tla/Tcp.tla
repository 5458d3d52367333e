---------------------------------- MODULE Tcp ---------------------------------
(***************************************************************************)
(* TCP sockets of the luaml standard library (stdlib/tcp.rs): who holds a  *)
(* listener and a connection.                                              *)
(*                                                                         *)
(* A Listener or Stream of a script is a slot, a RefCell<Option<_>>.  A    *)
(* blocking call borrows what is in it; accept_async takes the listener    *)
(* out for good, into a task whose result is the listener and the stream   *)
(* it accepted.  The operating system keeps a port bound, and a connection *)
(* open, as long as anybody holds its socket.                              *)
(*                                                                         *)
(* One address, which several listeners of the script may try to bind; the *)
(* script is one Lua thread, so a call that blocks is one step, taken when *)
(* it can return.  A call that raises changes nothing.  Neither do queries *)
(* (poll, peer_addr, local_addr), nor reads and writes, which move no      *)
(* socket whether they return or raise: what goes over a connection is not *)
(* modelled, and they have no action.                                      *)
(*                                                                         *)
(* A definition whose name starts with Slip is not part of the model: it   *)
(* is what the one after it would be with a plausible bug in that code,    *)
(* kept to show which property notices.                                    *)
(***************************************************************************)
EXTENDS Naturals, Sequences

CONSTANTS
  Listener,   \* the listeners a script makes
  Client,     \* the connections that others open to its address
  Dial        \* the connections the script opens

ASSUME TcpAssumption == Client \cap Dial = {}

VARIABLES
  slot,       \* the slot of each Listener
  accepting,  \* how far the task of its accept_async, and its promise, are
  yielded,    \* the connection in the result of that task
  dialing,    \* the same of each connect_async
  stream,     \* the slot of the Stream of each connection
  bound,      \* the operating system: the listeners that have the address
  backlog,    \* ... the connections nobody has accepted yet
  open        \* ... the connections whose socket on our side is not closed

scriptSide == <<slot, accepting, yielded, dialing, stream>>
system == <<bound, backlog, open>>
tcpVars == <<scriptSide, system>>

Connection == Client \cup Dial
SlotState == {"unborn", "some", "none"}
TaskState == {"none", "pending", "done", "failed", "awaited", "dropped"}

TcpInit ==
  /\ slot = [l \in Listener |-> "unborn"]
  /\ accepting = [l \in Listener |-> "none"]
  /\ yielded = [l \in Listener |-> {}]
  /\ dialing = [c \in Dial |-> "none"]
  /\ stream = [c \in Connection |-> "unborn"]
  /\ bound = {}
  /\ backlog = <<>>
  /\ open = {}

-----------------------------------------------------------------------------
(* The operating system and the other side.                                *)

Waiting == {backlog[i] : i \in DOMAIN backlog}

\* A listener's socket is closed, and with it the connections that wait in its backlog.
CloseListening(l) ==
  /\ bound' = bound \ {l}
  /\ backlog' = IF l \in bound THEN <<>> ELSE backlog
  /\ open' = IF l \in bound THEN open \ Waiting ELSE open

CloseConnection(c) ==
  /\ open' = open \ {c}
  /\ UNCHANGED <<bound, backlog>>

Arrive(c) ==
  /\ bound # {}
  /\ c \in Client \ open
  /\ stream[c] = "unborn"
  /\ \A l \in Listener : c \notin yielded[l]
  /\ backlog' = Append(backlog, c)
  /\ open' = open \cup {c}
  /\ UNCHANGED <<scriptSide, bound>>

-----------------------------------------------------------------------------
(* Listeners.                                                              *)

\* tcp.listen; while another listener has the address it raises, and nothing changes.
Listen(l) ==
  /\ slot[l] = "unborn"
  /\ bound = {}
  /\ bound' = {l}
  /\ slot' = [slot EXCEPT ![l] = "some"]
  /\ UNCHANGED <<accepting, yielded, dialing, stream, backlog, open>>

\* A Stream is made of the connection.
Wrap(c) == stream' = [stream EXCEPT ![c] = "some"]

Accept(l) ==
  /\ slot[l] = "some"
  /\ backlog # <<>>
  /\ Wrap(Head(backlog))
  /\ backlog' = Tail(backlog)
  /\ UNCHANGED <<slot, accepting, yielded, dialing, bound, open>>

\* The task gets a second handle of the listener, and the slot keeps its own.
SlipAcceptAsync(l) ==
  /\ slot[l] = "some"
  /\ accepting[l] = "none"
  /\ accepting' = [accepting EXCEPT ![l] = "pending"]
  /\ UNCHANGED <<slot, yielded, dialing, stream, system>>

\* Once in the life of a Listener, since nothing puts the listener back.
AcceptAsync(l) ==
  /\ slot[l] = "some"
  /\ slot' = [slot EXCEPT ![l] = "none"]
  /\ accepting' = [accepting EXCEPT ![l] = "pending"]
  /\ UNCHANGED <<yielded, dialing, stream, system>>

\* The task accepts; when its promise was dropped, nobody gets what it returns.
TaskAccepts(l) ==
  /\ backlog # <<>>
  /\ \/ /\ accepting[l] = "pending"
        /\ accepting' = [accepting EXCEPT ![l] = "done"]
        /\ yielded' = [yielded EXCEPT ![l] = {Head(backlog)}]
        /\ backlog' = Tail(backlog)
        /\ UNCHANGED <<bound, open>>
     \/ /\ accepting[l] = "dropped"
        /\ accepting' = [accepting EXCEPT ![l] = "failed"]
        /\ backlog' = <<>>
        /\ bound' = bound \ {l}
        /\ open' = open \ Waiting
        /\ UNCHANGED yielded
  /\ UNCHANGED <<slot, dialing, stream>>

\* accept fails, and the listener goes with the task.
TaskFails(l) ==
  /\ accepting[l] \in {"pending", "dropped"}
  /\ accepting' = [accepting EXCEPT ![l] = "failed"]
  /\ CloseListening(l)
  /\ UNCHANGED <<slot, yielded, dialing, stream>>

\* await returns the stream and drops the listener; of a task that failed, it raises.
AwaitAccept(l) ==
  /\ accepting[l] \in {"done", "failed"}
  /\ accepting' = [accepting EXCEPT ![l] = "awaited"]
  /\ stream' = [c \in Connection |-> IF c \in yielded[l] THEN "some" ELSE stream[c]]
  /\ yielded' = [yielded EXCEPT ![l] = {}]
  /\ CloseListening(l)
  /\ UNCHANGED <<slot, dialing>>

\* The promise is collected: its task goes on, and what it has returned is dropped.
DropAccept(l) ==
  \/ /\ accepting[l] = "pending"
     /\ accepting' = [accepting EXCEPT ![l] = "dropped"]
     /\ UNCHANGED <<slot, yielded, dialing, stream, system>>
  \/ /\ accepting[l] = "done"
     /\ accepting' = [accepting EXCEPT ![l] = "awaited"]
     /\ yielded' = [yielded EXCEPT ![l] = {}]
     /\ bound' = bound \ {l}
     /\ backlog' = <<>>
     /\ open' = open \ (Waiting \cup yielded[l])
     /\ UNCHANGED <<slot, dialing, stream>>

\* close, or the collection of the Listener: of an empty slot, it does nothing.
CloseListener(l) ==
  /\ slot[l] = "some"
  /\ slot' = [slot EXCEPT ![l] = "none"]
  /\ CloseListening(l)
  /\ UNCHANGED <<accepting, yielded, dialing, stream>>

-----------------------------------------------------------------------------
(* Streams.                                                                *)

Connect(c) ==
  /\ dialing[c] = "none"
  /\ dialing' = [dialing EXCEPT ![c] = "awaited"]
  /\ \/ Wrap(c) /\ open' = open \cup {c}
     \/ UNCHANGED <<stream, open>>
  /\ UNCHANGED <<slot, accepting, yielded, bound, backlog>>

ConnectAsync(c) ==
  /\ dialing[c] = "none"
  /\ dialing' = [dialing EXCEPT ![c] = "pending"]
  /\ UNCHANGED <<slot, accepting, yielded, stream, system>>

TaskConnects(c) ==
  /\ \/ /\ dialing[c] = "pending"
        /\ dialing' = [dialing EXCEPT ![c] = "done"]
        /\ open' = open \cup {c}
     \/ /\ dialing[c] \in {"pending", "dropped"}
        /\ dialing' = [dialing EXCEPT ![c] = "failed"]
        /\ UNCHANGED open
  /\ UNCHANGED <<slot, accepting, yielded, stream, bound, backlog>>

\* await, or try_await of a task that has ended.
AwaitConnect(c) ==
  /\ dialing[c] \in {"done", "failed"}
  /\ dialing' = [dialing EXCEPT ![c] = "awaited"]
  /\ stream' = IF dialing[c] = "done" THEN [stream EXCEPT ![c] = "some"] ELSE stream
  /\ UNCHANGED <<slot, accepting, yielded, system>>

DropConnect(c) ==
  /\ \/ /\ dialing[c] = "pending"
        /\ dialing' = [dialing EXCEPT ![c] = "dropped"]
        /\ UNCHANGED open
     \/ /\ dialing[c] = "done"
        /\ dialing' = [dialing EXCEPT ![c] = "awaited"]
        /\ open' = open \ {c}
  /\ UNCHANGED <<slot, accepting, yielded, stream, bound, backlog>>

\* close, or the collection of the Stream.
CloseStream(c) ==
  /\ stream[c] = "some"
  /\ stream' = [stream EXCEPT ![c] = "none"]
  /\ CloseConnection(c)
  /\ UNCHANGED <<slot, accepting, yielded, dialing>>

-----------------------------------------------------------------------------

TcpNext ==
  \/ \E l \in Listener :
       \/ Listen(l) \/ Accept(l) \/ AcceptAsync(l) \/ TaskAccepts(l) \/ TaskFails(l)
       \/ AwaitAccept(l) \/ DropAccept(l) \/ CloseListener(l)
  \/ \E c \in Client : Arrive(c)
  \/ \E c \in Dial :
       Connect(c) \/ ConnectAsync(c) \/ TaskConnects(c) \/ AwaitConnect(c) \/ DropConnect(c)
  \/ \E c \in Connection : CloseStream(c)

TcpSpec == TcpInit /\ [][TcpNext]_tcpVars

-----------------------------------------------------------------------------

TcpTypeOK ==
  /\ slot \in [Listener -> SlotState]
  /\ accepting \in [Listener -> TaskState]
  /\ yielded \in [Listener -> SUBSET Client]
  /\ dialing \in [Dial -> TaskState]
  /\ stream \in [Connection -> SlotState]
  /\ bound \subseteq Listener
  /\ backlog \in Seq(Client)
  /\ open \subseteq Connection

\* Who holds the socket of a listener: its slot, or its task or the result of that.
HeldByTask(l) == accepting[l] \in {"pending", "done", "dropped"}

\* Who holds the socket of a connection.
Holders(c) ==
  {<<"backlog", i>> : i \in {j \in DOMAIN backlog : backlog[j] = c}}
    \cup {<<"result", l>> : l \in {m \in Listener : c \in yielded[m]}}
    \cup (IF c \in Dial /\ dialing[c] = "done" THEN {<<"connected", c>>} ELSE {})
    \cup (IF stream[c] = "some" THEN {<<"stream", c>>} ELSE {})

\* Whatever the script accepts, awaits, closes and forgets, in whatever order the tasks
\* end: a listener that has the address is in one place, its slot or its task, and an
\* open connection in one place, so that closing or dropping that one releases it; and
\* what nobody holds any more is closed.
OneHolder ==
  /\ \A l, m \in bound : l = m
  /\ \A l \in Listener :
       /\ ~(slot[l] = "some" /\ HeldByTask(l))
       /\ l \in bound <=> slot[l] = "some" \/ HeldByTask(l)
  /\ bound = {} => backlog = <<>>
  /\ \A c \in Connection :
       IF c \in open THEN \E h \in Holders(c) : Holders(c) = {h} ELSE Holders(c) = {}
=============================================================================
