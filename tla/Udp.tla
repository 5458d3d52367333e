---------------------------------- MODULE Udp ---------------------------------
(***************************************************************************)
(* UDP sockets of the luaml standard library (stdlib/udp.rs).              *)
(*                                                                         *)
(* A Socket of a script is a RefCell<Option<Arc<UdpSocket>>>: an           *)
(* asynchronous send or receive clones the Arc into its task, so that      *)
(* close empties the slot and leaves the socket open until the tasks that  *)
(* share it end.  Several receives may wait on one socket at once, the     *)
(* blocking one of the script among them, and each datagram wakes one.     *)
(*                                                                         *)
(* The script is one Lua thread: a call that blocks is one step, taken     *)
(* when it can return.  A datagram is abstracted to its name and to        *)
(* whether it is UTF-8 text.  The network may lose a datagram, and drops   *)
(* one for a socket that is closed or whose buffer is full.                *)
(*                                                                         *)
(* A definition whose name starts with Slip is not part of the model: it   *)
(* is what the one after it would be with a plausible bug in that code,    *)
(* kept to show which property notices.                                    *)
(***************************************************************************)
EXTENDS Naturals, Sequences, FiniteSets

CONSTANTS
  Socket,     \* the sockets a script binds, each to an address of its own
  Datagram,   \* the datagrams sent to them
  Text,       \* those that are valid UTF-8
  RecvCall,   \* the calls of recv_from_async
  Buffer      \* bound: how many datagrams wait in a socket

ASSUME UdpAssumption == Text \subseteq Datagram /\ Buffer \in Nat \ {0}

VARIABLES
  socket,     \* the slot of each Socket
  sending,    \* the task of send_to_async that has each datagram: the socket it shares
  receiving,  \* how far each recv_from_async is
  on,         \* the socket it shares, or none
  result,     \* the datagram in its result
  queued,     \* the operating system: the datagrams that wait in each socket
  sent,       \* the datagrams that were sent, or whose task was started (auxiliary)
  came,       \* the datagrams each socket was given, in order (auxiliary)
  went,       \* the datagrams taken from each socket, in order (auxiliary)
  handed      \* what the script got: the datagrams, with whether they were intact (auxiliary)

udpVars == <<socket, sending, receiving, on, result, queued, sent, came, went, handed>>

UdpInit ==
  /\ socket = [s \in Socket |-> "unborn"]
  /\ sending = [d \in Datagram |-> {}]
  /\ receiving = [r \in RecvCall |-> "none"]
  /\ on = [r \in RecvCall |-> {}]
  /\ result = [r \in RecvCall |-> {}]
  /\ queued = [s \in Socket |-> <<>>]
  /\ sent = {}
  /\ came = [s \in Socket |-> <<>>]
  /\ went = [s \in Socket |-> <<>>]
  /\ handed = <<>>

-----------------------------------------------------------------------------

\* The operating system has the socket as long as the slot or a task holds the Arc.
SocketOpen(s) ==
  \/ socket[s] = "some"
  \/ \E r \in RecvCall : s \in on[r]
  \/ \E d \in Datagram : s \in sending[d]

\* What waits in a socket goes with the last that held it.
Leaves(waiting) == queued' = [s \in Socket |-> IF SocketOpen(s)' THEN waiting[s] ELSE <<>>]

Bind(s) ==
  /\ socket[s] = "unborn"
  /\ socket' = [socket EXCEPT ![s] = "some"]
  /\ UNCHANGED <<sending, receiving, on, result, queued, sent, came, went, handed>>

\* The datagram reaches its socket, or is lost on its way.
Reach(d, to) ==
  \/ /\ SocketOpen(to)
     /\ Len(queued[to]) < Buffer
     /\ came' = [came EXCEPT ![to] = Append(@, d)]
     /\ Leaves([queued EXCEPT ![to] = Append(@, d)])
  \/ UNCHANGED came /\ Leaves(queued)

\* send_to of a socket of the script, or a send from elsewhere.
SendTo(d, to) ==
  /\ d \notin sent
  /\ sent' = sent \cup {d}
  /\ UNCHANGED <<socket, sending, receiving, on, result, went, handed>>
  /\ Reach(d, to)

SendToAsync(d, from) ==
  /\ socket[from] = "some"
  /\ d \notin sent
  /\ sent' = sent \cup {d}
  /\ sending' = [sending EXCEPT ![d] = {from}]
  /\ UNCHANGED <<socket, receiving, on, result, queued, came, went, handed>>

\* The task of send_to_async sends, after which it no longer has the socket.
TaskSends(d, to) ==
  /\ sending[d] # {}
  /\ sending' = [sending EXCEPT ![d] = {}]
  /\ UNCHANGED <<socket, receiving, on, result, sent, went, handed>>
  /\ Reach(d, to)

Taken(s) == went' = [went EXCEPT ![s] = Append(@, Head(queued[s]))]

\* The blocking receive looks at the datagram and leaves it in the socket.
SlipRecvFrom(s) ==
  /\ socket[s] = "some"
  /\ queued[s] # <<>>
  /\ Len(handed) < 2 * Cardinality(Datagram)
  /\ handed' = Append(handed, <<Head(queued[s]), TRUE>>)
  /\ UNCHANGED <<socket, sending, receiving, on, result, queued, sent, came, went>>

\* recv_from, which takes the bytes as they are.
RecvFrom(s) ==
  /\ socket[s] = "some"
  /\ queued[s] # <<>>
  /\ queued' = [queued EXCEPT ![s] = Tail(@)]
  /\ Taken(s)
  /\ handed' = Append(handed, <<Head(queued[s]), TRUE>>)
  /\ UNCHANGED <<socket, sending, receiving, on, result, sent, came>>

RecvFromAsync(r, s) ==
  /\ socket[s] = "some"
  /\ receiving[r] = "none"
  /\ receiving' = [receiving EXCEPT ![r] = "pending"]
  /\ on' = [on EXCEPT ![r] = {s}]
  /\ UNCHANGED <<socket, sending, result, queued, sent, came, went, handed>>

\* The task of r receives.  When its promise was dropped the datagram is gone with it.
TaskReceives(r, s) ==
  /\ s \in on[r]
  /\ queued[s] # <<>>
  /\ Taken(s)
  /\ IF receiving[r] = "pending"
     THEN /\ receiving' = [receiving EXCEPT ![r] = "done"]
          /\ result' = [result EXCEPT ![r] = {Head(queued[s])}]
     ELSE UNCHANGED <<receiving, result>>
  /\ on' = [on EXCEPT ![r] = {}]
  /\ UNCHANGED <<socket, sending, sent, came, handed>>
  /\ Leaves([queued EXCEPT ![s] = Tail(@)])

\* recv_from returns an error, with which the task of r ends.
ReceiveFails(r, s) ==
  /\ s \in on[r]
  /\ receiving' = [receiving EXCEPT ![r] = IF @ = "pending" THEN "failed" ELSE @]
  /\ on' = [on EXCEPT ![r] = {}]
  /\ UNCHANGED <<socket, sending, result, sent, came, went, handed>>
  /\ Leaves(queued)

\* await, or try_await of a task that has ended: a datagram that is not text arrives with
\* its bytes replaced; of a task that failed, it raises.
AwaitReceive(r) ==
  /\ receiving[r] \in {"done", "failed"}
  /\ receiving' = [receiving EXCEPT ![r] = "awaited"]
  /\ IF receiving[r] = "done"
     THEN \E d \in result[r] : handed' = Append(handed, <<d, d \in Text>>)
     ELSE UNCHANGED handed
  /\ result' = [result EXCEPT ![r] = {}]
  /\ UNCHANGED <<socket, sending, on, queued, sent, came, went>>

\* The promise is collected; its task goes on.
DropReceive(r) ==
  /\ receiving[r] \in {"pending", "done", "failed"}
  /\ receiving' = [receiving EXCEPT ![r] = "dropped"]
  /\ result' = [result EXCEPT ![r] = {}]
  /\ UNCHANGED <<socket, sending, on, queued, sent, came, went, handed>>

\* close, or the collection of the Socket.
CloseSocket(s) ==
  /\ socket[s] = "some"
  /\ socket' = [socket EXCEPT ![s] = "none"]
  /\ UNCHANGED <<sending, receiving, on, result, sent, came, went, handed>>
  /\ Leaves(queued)

-----------------------------------------------------------------------------

UdpNext ==
  \/ \E s \in Socket : Bind(s) \/ RecvFrom(s) \/ CloseSocket(s)
  \/ \E d \in Datagram, s \in Socket : SendTo(d, s) \/ SendToAsync(d, s) \/ TaskSends(d, s)
  \/ \E r \in RecvCall, s \in Socket : RecvFromAsync(r, s) \/ TaskReceives(r, s) \/ ReceiveFails(r, s)
  \/ \E r \in RecvCall : AwaitReceive(r) \/ DropReceive(r)

UdpSpec == UdpInit /\ [][UdpNext]_udpVars

-----------------------------------------------------------------------------

UdpTypeOK ==
  /\ socket \in [Socket -> {"unborn", "some", "none"}]
  /\ sending \in [Datagram -> SUBSET Socket]
  /\ receiving \in [RecvCall -> {"none", "pending", "done", "failed", "awaited", "dropped"}]
  /\ on \in [RecvCall -> SUBSET Socket]
  /\ result \in [RecvCall -> SUBSET Datagram]
  /\ queued \in [Socket -> Seq(Datagram)]
  /\ sent \subseteq Datagram
  /\ came \in [Socket -> Seq(Datagram)]
  /\ went \in [Socket -> Seq(Datagram)]
  /\ handed \in Seq(Datagram \X BOOLEAN)

\* Where a datagram is: waiting in a socket, in the result of a receive, with the script.
Places(d) ==
  (UNION {{<<"waiting", s, i>> : i \in {j \in DOMAIN queued[s] : queued[s][j] = d}} : s \in Socket})
    \cup {<<"result", r>> : r \in {c \in RecvCall : d \in result[c]}}
    \cup {<<"handed", i>> : i \in {j \in DOMAIN handed : handed[j][1] = d}}

\* However many receives wait on a socket, and whenever it is closed under them: a
\* datagram goes to one of them and to the script at most once, with its bytes intact if
\* they are text; and those of a socket leave it in the order they came, none passed over.
OneTaker ==
  /\ \A d \in Datagram : \A p, q \in Places(d) : p = q
  /\ \A i \in DOMAIN handed : handed[i][1] \in Text => handed[i][2]
  /\ \A s \in Socket :
       IF SocketOpen(s) THEN came[s] = went[s] \o queued[s]
       ELSE queued[s] = <<>> /\ went[s] = SubSeq(came[s], 1, Len(went[s]))
=============================================================================
