----------------------------- MODULE StdlibProofs -----------------------------
(***************************************************************************)
(* Who holds the sockets of the standard library, what appends do to       *)
(* files, what watches tell, and whose the answers of a JSON-RPC server    *)
(* are, for any number of them and whatever the script, its tasks, the     *)
(* network and other processes do.                                         *)
(***************************************************************************)
EXTENDS JsonRpc, Tcp, Udp, Files, FileWatch, Recursion

-----------------------------------------------------------------------------
(* TCP: the inductive invariant.                                           *)

\* A listener that has the address is in its slot or with its task.
Listeners ==
  /\ \A l, m \in bound : l = m
  /\ \A l \in Listener :
       /\ accepting[l] # "none" => slot[l] = "none"
       /\ l \in bound <=> slot[l] = "some" \/ HeldByTask(l)
  /\ bound = {} => backlog = <<>>

\* A connection nobody has accepted is in the backlog once, and nowhere else.
Backlog ==
  /\ \A i, j \in DOMAIN backlog : backlog[i] = backlog[j] => i = j
  /\ \A c \in Waiting :
       /\ c \in Client \cap open
       /\ stream[c] # "some"
       /\ \A l \in Listener : c \notin yielded[l]

\* The connection in the result of a task is in one result, and in no stream.
Results ==
  /\ \A l \in Listener : yielded[l] # {} => accepting[l] = "done"
  /\ \A l, m \in Listener : \A c \in yielded[l] : c \in yielded[m] => l = m
  /\ \A l \in Listener : \A c \in yielded[l] : c \in open /\ stream[c] # "some"

Dialled ==
  \A c \in Dial :
    /\ dialing[c] = "done" => c \in open
    /\ stream[c] = "some" => dialing[c] = "awaited"

Streams == \A c \in Connection : stream[c] = "some" => c \in open

\* An open connection is somewhere.
Somewhere ==
  \A c \in open :
    \/ c \in Waiting
    \/ \E l \in Listener : c \in yielded[l]
    \/ c \in Dial /\ dialing[c] = "done"
    \/ stream[c] = "some"

TcpInv ==
  /\ TcpTypeOK
  /\ Listeners /\ Backlog /\ Results /\ Dialled /\ Streams /\ Somewhere

LEMMA TcpInitially == TcpInit => TcpInv
<1> SUFFICES ASSUME TcpInit PROVE TcpInv
  OBVIOUS
<1>1. <<>> \in Seq(Client) /\ DOMAIN <<>> = {}
  BY EmptySeq, LenProperties
<1>2. TcpTypeOK
  BY <1>1, TcpAssumption DEF TcpInit, TcpTypeOK, SlotState, TaskState
<1>3. Listeners
  BY DEF TcpInit, Listeners, HeldByTask
<1>4. Backlog
  BY <1>1 DEF TcpInit, Backlog, Waiting
<1>5. Results /\ Dialled /\ Streams /\ Somewhere
  BY DEF TcpInit, Results, Dialled, Streams, Somewhere, Connection
<1>6. QED
  BY <1>2, <1>3, <1>4, <1>5 DEF TcpInv

\* What becomes of the backlog when its first connection is accepted, ...
LEMMA AfterHead ==
  ASSUME TcpInv, backlog # <<>>, backlog' = Tail(backlog)
  PROVE  /\ Head(backlog) \in Waiting /\ backlog' \in Seq(Client)
         /\ \A i, j \in DOMAIN backlog' : backlog'[i] = backlog'[j] => i = j
         /\ Waiting' = Waiting \ {Head(backlog)}
<1>1. backlog \in Seq(Client) /\ Len(backlog) \in Nat \ {0} /\ DOMAIN backlog = 1 .. Len(backlog)
  BY EmptySeq, LenProperties DEF TcpInv, TcpTypeOK
<1>2. /\ Head(backlog) = backlog[1] /\ 1 \in DOMAIN backlog
      /\ backlog' \in Seq(Client) /\ DOMAIN backlog' = 1 .. Len(backlog) - 1
      /\ \A i \in DOMAIN backlog' : backlog'[i] = backlog[i + 1]
  BY <1>1, HeadTailProperties, LenProperties
<1>3. \A i \in DOMAIN backlog' : i + 1 \in DOMAIN backlog /\ i + 1 # 1
  BY <1>1, <1>2
<1>4. \A i, j \in DOMAIN backlog' : backlog'[i] = backlog'[j] => i = j
  <2>1. \A i, j \in DOMAIN backlog' : backlog'[i] = backlog'[j] => i + 1 = j + 1
    BY <1>2, <1>3 DEF TcpInv, Backlog
  <2>2. \A i, j \in DOMAIN backlog' : i + 1 = j + 1 => i = j
    BY <1>1, <1>2
  <2>3. QED
    BY <2>1, <2>2
<1>5. Waiting' \subseteq Waiting \ {Head(backlog)}
  BY <1>2, <1>3 DEF TcpInv, Backlog, Waiting
<1>6. ASSUME NEW c \in Waiting, c # Head(backlog)
      PROVE  c \in Waiting'
  <2>1. PICK i \in DOMAIN backlog : backlog[i] = c
    BY DEF Waiting
  <2>2. i - 1 \in DOMAIN backlog' /\ (i - 1) + 1 = i
    BY <1>1, <1>2, <1>6, <2>1
  <2>3. QED
    BY <1>2, <2>1, <2>2 DEF Waiting
<1>7. QED
  BY <1>2, <1>4, <1>5, <1>6 DEF Waiting

\* ... when one comes, ...
LEMMA AfterArrival ==
  ASSUME TcpInv, NEW c \in Client \ Waiting, backlog' = Append(backlog, c)
  PROVE  /\ backlog' \in Seq(Client)
         /\ \A i, j \in DOMAIN backlog' : backlog'[i] = backlog'[j] => i = j
         /\ Waiting' = Waiting \cup {c}
<1>1. backlog \in Seq(Client) /\ Len(backlog) \in Nat /\ DOMAIN backlog = 1 .. Len(backlog)
  BY LenProperties DEF TcpInv, TcpTypeOK
<1>2. /\ backlog' \in Seq(Client) /\ DOMAIN backlog' = 1 .. Len(backlog) + 1
      /\ backlog'[Len(backlog) + 1] = c /\ \A i \in DOMAIN backlog : backlog'[i] = backlog[i]
  BY <1>1, AppendProperties, LenProperties
<1>3. \A i \in DOMAIN backlog' : i \in DOMAIN backlog \/ i = Len(backlog) + 1
  BY <1>1, <1>2
<1>4. \A i \in DOMAIN backlog : backlog[i] # c /\ i \in DOMAIN backlog'
  BY <1>1, <1>2 DEF Waiting
<1>5. \A i, j \in DOMAIN backlog' : backlog'[i] = backlog'[j] => i = j
  BY <1>2, <1>3, <1>4 DEF TcpInv, Backlog
<1>6. Len(backlog) + 1 \in DOMAIN backlog'
  BY <1>1, <1>2
<1>7. Waiting' = Waiting \cup {c}
  BY <1>2, <1>3, <1>4, <1>6 DEF Waiting
<1>8. QED
  BY <1>2, <1>5, <1>7

\* ... when it goes with its listener, and when it stays.
LEMMA AfterClosing ==
  ASSUME TcpInv, backlog' = <<>>
  PROVE  /\ backlog' \in Seq(Client) /\ Waiting' = {}
         /\ \A i, j \in DOMAIN backlog' : backlog'[i] = backlog'[j] => i = j
<1>1. <<>> \in Seq(Client) /\ DOMAIN <<>> = {}
  BY EmptySeq, LenProperties
<1>2. QED
  BY <1>1 DEF Waiting

LEMMA WaitingKept ==
  ASSUME TcpInv, backlog' = backlog
  PROVE  /\ backlog' \in Seq(Client) /\ Waiting' = Waiting
         /\ \A i, j \in DOMAIN backlog' : backlog'[i] = backlog'[j] => i = j
BY DEF Waiting, TcpInv, TcpTypeOK, Backlog

LEMMA StepListen ==
  ASSUME TcpInv, NEW l \in Listener, Listen(l)
  PROVE  TcpInv'
<1> USE DEF TcpInv, Listen, scriptSide, system
<1>0. /\ backlog' \in Seq(Client)
      /\ \A i, j \in DOMAIN backlog' : backlog'[i] = backlog'[j] => i = j
      /\ Waiting' = Waiting
  BY WaitingKept
<1>1. TcpTypeOK'
  BY DEF TcpTypeOK, SlotState
<1>2. Listeners'
  BY DEF TcpTypeOK, Listeners, HeldByTask
<1>3. Backlog'
  BY <1>0 DEF Backlog
<1>4. Results'
  BY DEF Results
<1>5. Dialled'
  BY DEF Dialled
<1>6. Streams'
  BY DEF Streams
<1>7. Somewhere'
  BY <1>0 DEF Somewhere
<1>8. QED
  BY <1>1, <1>2, <1>3, <1>4, <1>5, <1>6, <1>7

LEMMA StepAccept ==
  ASSUME TcpInv, NEW l \in Listener, Accept(l)
  PROVE  TcpInv'
<1> USE DEF TcpInv, Accept, Wrap, scriptSide, system
<1>0. /\ backlog' \in Seq(Client)
      /\ \A i, j \in DOMAIN backlog' : backlog'[i] = backlog'[j] => i = j
      /\ Head(backlog) \in Waiting /\ Waiting' = Waiting \ {Head(backlog)}
  BY AfterHead
<1>1. TcpTypeOK'
  BY DEF TcpTypeOK, Connection
<1>2. Listeners'
  BY DEF Listeners, HeldByTask
<1>3. Backlog'
  BY <1>0 DEF Backlog
<1>4. Results'
  BY DEF Results, Listeners, HeldByTask
<1>5. Dialled'
  BY TcpAssumption DEF TcpTypeOK, Dialled
<1>6. Streams'
  BY <1>0 DEF Streams, Backlog
<1>7. Somewhere'
  BY <1>0 DEF TcpTypeOK, Somewhere
<1>8. QED
  BY <1>1, <1>2, <1>3, <1>4, <1>5, <1>6, <1>7

LEMMA StepAcceptAsync ==
  ASSUME TcpInv, NEW l \in Listener, AcceptAsync(l)
  PROVE  TcpInv'
<1> USE DEF TcpInv, AcceptAsync, scriptSide, system
<1>0. /\ backlog' \in Seq(Client)
      /\ \A i, j \in DOMAIN backlog' : backlog'[i] = backlog'[j] => i = j
      /\ Waiting' = Waiting
  BY WaitingKept
<1>1. TcpTypeOK'
  BY DEF TcpTypeOK, SlotState, TaskState
<1>2. Listeners'
  BY DEF TcpTypeOK, Listeners, HeldByTask
<1>3. Backlog'
  BY <1>0 DEF Backlog
<1>4. Results'
  BY DEF Results, Listeners
<1>5. Dialled'
  BY DEF Dialled
<1>6. Streams'
  BY DEF Streams
<1>7. Somewhere'
  BY <1>0 DEF Somewhere
<1>8. QED
  BY <1>1, <1>2, <1>3, <1>4, <1>5, <1>6, <1>7

LEMMA StepTaskAccepts ==
  ASSUME TcpInv, NEW l \in Listener, TaskAccepts(l)
  PROVE  TcpInv'
<1> USE DEF TcpInv, TaskAccepts, scriptSide, system
<1>a. CASE accepting[l] = "pending"
  <2>0. /\ accepting' = [accepting EXCEPT ![l] = "done"]
        /\ yielded' = [yielded EXCEPT ![l] = {Head(backlog)}]
        /\ backlog' = Tail(backlog) /\ bound' = bound /\ open' = open
        /\ backlog' \in Seq(Client) /\ Head(backlog) \in Waiting
        /\ \A i, j \in DOMAIN backlog' : backlog'[i] = backlog'[j] => i = j
        /\ Waiting' = Waiting \ {Head(backlog)}
    BY <1>a, AfterHead
  <2>1. TcpTypeOK'
    BY <2>0 DEF TcpTypeOK, TaskState
  <2>2. Listeners'
    BY DEF TcpTypeOK, Listeners, HeldByTask
  <2>3. Backlog'
    BY <2>0 DEF Backlog
  <2>4. Results'
    BY <2>0 DEF TcpTypeOK, Results, Backlog
  <2>5. Dialled'
    BY TcpAssumption DEF Dialled, Backlog
  <2>6. Streams'
    BY DEF Streams, Backlog
  <2>7. Somewhere'
    BY <2>0 DEF TcpTypeOK, Somewhere, Results
  <2>8. QED
    BY <2>1, <2>2, <2>3, <2>4, <2>5, <2>6, <2>7
<1>b. CASE accepting[l] = "dropped"
  <2>0. /\ accepting' = [accepting EXCEPT ![l] = "failed"]
        /\ backlog' = <<>> /\ bound' = bound \ {l} /\ open' = open \ Waiting
        /\ yielded' = yielded
        /\ backlog' \in Seq(Client) /\ Waiting' = {}
        /\ \A i, j \in DOMAIN backlog' : backlog'[i] = backlog'[j] => i = j
    BY <1>b, AfterClosing
  <2>1. TcpTypeOK'
    BY <1>b DEF TcpTypeOK, TaskState
  <2>2. Listeners'
    BY DEF TcpTypeOK, Listeners, HeldByTask
  <2>3. Backlog'
    BY <2>0 DEF Backlog
  <2>4. Results'
    BY <1>b DEF TcpTypeOK, Results, Backlog
  <2>5. Dialled'
    BY TcpAssumption DEF Dialled, Backlog
  <2>6. Streams'
    BY DEF Streams, Backlog
  <2>7. Somewhere'
    BY <1>b DEF Somewhere
  <2>8. QED
    BY <2>1, <2>2, <2>3, <2>4, <2>5, <2>6, <2>7
<1>c. QED
  BY <1>a, <1>b

LEMMA StepTaskFails ==
  ASSUME TcpInv, NEW l \in Listener, TaskFails(l)
  PROVE  TcpInv'
<1> USE DEF TcpInv, TaskFails, CloseListening, scriptSide, system
<1>0. /\ backlog' \in Seq(Client)
      /\ \A i, j \in DOMAIN backlog' : backlog'[i] = backlog'[j] => i = j
      /\ backlog' = backlog => Waiting' = Waiting
      /\ backlog' = <<>> => Waiting' = {}
  BY AfterClosing, WaitingKept
<1>1. TcpTypeOK'
  BY DEF TcpTypeOK, TaskState
<1>2. Listeners'
  BY DEF TcpTypeOK, Listeners, HeldByTask
<1>3. Backlog'
  BY <1>0 DEF Backlog
<1>4. Results'
  BY DEF Results, Backlog
<1>5. Dialled'
  BY TcpAssumption DEF Dialled, Backlog
<1>6. Streams'
  BY DEF Streams, Backlog
<1>7. Somewhere'
  BY DEF Somewhere, Listeners, HeldByTask
<1>8. QED
  BY <1>1, <1>2, <1>3, <1>4, <1>5, <1>6, <1>7

LEMMA StepAwaitAccept ==
  ASSUME TcpInv, NEW l \in Listener, AwaitAccept(l)
  PROVE  TcpInv'
<1> USE DEF TcpInv, AwaitAccept, CloseListening, scriptSide, system
<1>0. /\ backlog' \in Seq(Client)
      /\ \A i, j \in DOMAIN backlog' : backlog'[i] = backlog'[j] => i = j
      /\ backlog' = backlog => Waiting' = Waiting
      /\ backlog' = <<>> => Waiting' = {}
  BY AfterClosing, WaitingKept
<1>1. TcpTypeOK'
  BY DEF TcpTypeOK, SlotState, TaskState
<1>2. Listeners'
  BY DEF TcpTypeOK, Listeners, HeldByTask
<1>3. Backlog'
  BY <1>0 DEF Backlog, Connection
<1>4. Results'
  BY DEF TcpTypeOK, Results, Backlog
<1>5. Dialled'
  BY TcpAssumption DEF TcpTypeOK, Dialled, Backlog, Connection
<1>6. Streams'
  BY DEF Streams, Backlog, Results
<1>7. Somewhere'
  BY <1>0 DEF TcpTypeOK, Somewhere
<1>8. QED
  BY <1>1, <1>2, <1>3, <1>4, <1>5, <1>6, <1>7

LEMMA StepDropAccept ==
  ASSUME TcpInv, NEW l \in Listener, DropAccept(l)
  PROVE  TcpInv'
<1> USE DEF TcpInv, DropAccept, scriptSide, system
<1>0. /\ backlog' \in Seq(Client)
      /\ \A i, j \in DOMAIN backlog' : backlog'[i] = backlog'[j] => i = j
      /\ backlog' = backlog => Waiting' = Waiting
      /\ backlog' = <<>> => Waiting' = {}
  BY AfterClosing, WaitingKept
<1>1. TcpTypeOK'
  BY <1>0 DEF TcpTypeOK, TaskState
<1>2. Listeners'
  BY DEF TcpTypeOK, Listeners, HeldByTask
<1>3. Backlog'
  BY <1>0 DEF Backlog
<1>4. Results'
  <2>1. CASE accepting[l] = "pending"
    BY <2>1 DEF TcpTypeOK, Results
  <2>2. CASE accepting[l] = "done"
    <3>1. /\ stream' = stream /\ yielded' = [yielded EXCEPT ![l] = {}]
          /\ open' = open \ (Waiting \cup yielded[l])
      BY <2>2
    <3>2. \A m \in Listener : m # l => yielded[m] \cap yielded[l] = {}
      BY DEF Results
    <3>3. \A m \in Listener : yielded'[m] = IF m = l THEN {} ELSE yielded[m]
      BY <3>1 DEF TcpTypeOK
    <3>4. \A m \in Listener : yielded'[m] # {} => accepting'[m] = "done"
      BY <3>3 DEF TcpTypeOK, Results
    <3>5. \A m \in Listener : \A c \in yielded'[m] : c \notin Waiting \cup yielded[l]
      BY <3>2, <3>3 DEF Backlog
    <3>6. QED
      BY <3>1, <3>3, <3>4, <3>5 DEF Results
  <2>3. QED
    BY <2>1, <2>2
<1>5. Dialled'
  BY TcpAssumption DEF TcpTypeOK, Dialled, Backlog
<1>6. Streams'
  BY DEF Streams, Backlog, Results
<1>7. Somewhere'
  BY <1>0 DEF Somewhere, Results, Listeners, HeldByTask
<1>8. QED
  BY <1>1, <1>2, <1>3, <1>4, <1>5, <1>6, <1>7

LEMMA StepCloseListener ==
  ASSUME TcpInv, NEW l \in Listener, CloseListener(l)
  PROVE  TcpInv'
<1> USE DEF TcpInv, CloseListener, CloseListening, scriptSide, system
<1>0. /\ backlog' \in Seq(Client)
      /\ \A i, j \in DOMAIN backlog' : backlog'[i] = backlog'[j] => i = j
      /\ backlog' = backlog => Waiting' = Waiting
      /\ backlog' = <<>> => Waiting' = {}
  BY AfterClosing, WaitingKept
<1>1. TcpTypeOK'
  BY DEF TcpTypeOK, SlotState
<1>2. Listeners'
  BY DEF TcpTypeOK, Listeners, HeldByTask
<1>3. Backlog'
  BY <1>0 DEF Backlog
<1>4. Results'
  BY DEF Results, Backlog
<1>5. Dialled'
  BY TcpAssumption DEF Dialled, Backlog
<1>6. Streams'
  BY DEF Streams, Backlog
<1>7. Somewhere'
  BY DEF Somewhere, Listeners
<1>8. QED
  BY <1>1, <1>2, <1>3, <1>4, <1>5, <1>6, <1>7

LEMMA StepArrive ==
  ASSUME TcpInv, NEW c \in Client, Arrive(c)
  PROVE  TcpInv'
<1> USE DEF TcpInv, Arrive, scriptSide, system
<1>0. /\ backlog' \in Seq(Client)
      /\ \A i, j \in DOMAIN backlog' : backlog'[i] = backlog'[j] => i = j
      /\ Waiting' = Waiting \cup {c}
  BY AfterArrival DEF Backlog
<1>1. TcpTypeOK'
  BY TcpAssumption DEF TcpTypeOK, Connection
<1>2. Listeners'
  BY DEF Listeners, HeldByTask
<1>3. Backlog'
  BY <1>0 DEF Backlog
<1>4. Results'
  BY DEF Results
<1>5. Dialled'
  BY DEF Dialled
<1>6. Streams'
  BY DEF Streams
<1>7. Somewhere'
  BY <1>0 DEF Somewhere
<1>8. QED
  BY <1>1, <1>2, <1>3, <1>4, <1>5, <1>6, <1>7

LEMMA StepConnect ==
  ASSUME TcpInv, NEW c \in Dial, Connect(c)
  PROVE  TcpInv'
<1> USE DEF TcpInv, Connect, Wrap, scriptSide, system
<1>0. /\ backlog' \in Seq(Client)
      /\ \A i, j \in DOMAIN backlog' : backlog'[i] = backlog'[j] => i = j
      /\ Waiting' = Waiting
  BY WaitingKept
<1>1. TcpTypeOK'
  BY DEF TcpTypeOK, SlotState, TaskState, Connection
<1>2. Listeners'
  BY DEF Listeners, HeldByTask
<1>3. Backlog'
  BY <1>0, TcpAssumption DEF TcpTypeOK, Backlog
<1>4. Results'
  BY TcpAssumption DEF TcpTypeOK, Results
<1>5. Dialled'
  BY DEF TcpTypeOK, Dialled, Connection
<1>6. Streams'
  BY DEF TcpTypeOK, Streams
<1>7. Somewhere'
  BY <1>0 DEF TcpTypeOK, Somewhere, Connection
<1>8. QED
  BY <1>1, <1>2, <1>3, <1>4, <1>5, <1>6, <1>7

LEMMA StepConnectAsync ==
  ASSUME TcpInv, NEW c \in Dial, ConnectAsync(c)
  PROVE  TcpInv'
<1> USE DEF TcpInv, ConnectAsync, scriptSide, system
<1>0. /\ backlog' \in Seq(Client)
      /\ \A i, j \in DOMAIN backlog' : backlog'[i] = backlog'[j] => i = j
      /\ Waiting' = Waiting
  BY WaitingKept
<1>1. TcpTypeOK'
  BY DEF TcpTypeOK, TaskState
<1>2. Listeners'
  BY DEF Listeners, HeldByTask
<1>3. Backlog'
  BY <1>0 DEF Backlog
<1>4. Results'
  BY DEF Results
<1>5. Dialled'
  BY DEF Dialled
<1>6. Streams'
  BY DEF Streams
<1>7. Somewhere'
  BY <1>0 DEF Somewhere
<1>8. QED
  BY <1>1, <1>2, <1>3, <1>4, <1>5, <1>6, <1>7

LEMMA StepTaskConnects ==
  ASSUME TcpInv, NEW c \in Dial, TaskConnects(c)
  PROVE  TcpInv'
<1> USE DEF TcpInv, TaskConnects, scriptSide, system
<1>0. /\ backlog' \in Seq(Client)
      /\ \A i, j \in DOMAIN backlog' : backlog'[i] = backlog'[j] => i = j
      /\ Waiting' = Waiting
  BY WaitingKept
<1>1. TcpTypeOK'
  BY DEF TcpTypeOK, TaskState, Connection
<1>2. Listeners'
  BY DEF Listeners, HeldByTask
<1>3. Backlog'
  BY <1>0 DEF Backlog
<1>4. Results'
  BY DEF Results
<1>5. Dialled'
  BY DEF TcpTypeOK, Dialled
<1>6. Streams'
  BY DEF Streams
<1>7. Somewhere'
  BY <1>0 DEF TcpTypeOK, Somewhere
<1>8. QED
  BY <1>1, <1>2, <1>3, <1>4, <1>5, <1>6, <1>7

LEMMA StepAwaitConnect ==
  ASSUME TcpInv, NEW c \in Dial, AwaitConnect(c)
  PROVE  TcpInv'
<1> USE DEF TcpInv, AwaitConnect, scriptSide, system
<1>0. /\ backlog' \in Seq(Client)
      /\ \A i, j \in DOMAIN backlog' : backlog'[i] = backlog'[j] => i = j
      /\ Waiting' = Waiting
  BY WaitingKept
<1>1. TcpTypeOK'
  BY DEF TcpTypeOK, SlotState, TaskState
<1>2. Listeners'
  BY DEF Listeners, HeldByTask
<1>3. Backlog'
  BY <1>0, TcpAssumption DEF Backlog
<1>4. Results'
  BY TcpAssumption DEF TcpTypeOK, Results
<1>5. Dialled'
  BY DEF TcpTypeOK, Dialled
<1>6. Streams'
  BY DEF Streams, Dialled
<1>7. Somewhere'
  BY <1>0 DEF TcpTypeOK, Somewhere
<1>8. QED
  BY <1>1, <1>2, <1>3, <1>4, <1>5, <1>6, <1>7

LEMMA StepDropConnect ==
  ASSUME TcpInv, NEW c \in Dial, DropConnect(c)
  PROVE  TcpInv'
<1> USE DEF TcpInv, DropConnect, scriptSide, system
<1>0. /\ backlog' \in Seq(Client)
      /\ \A i, j \in DOMAIN backlog' : backlog'[i] = backlog'[j] => i = j
      /\ Waiting' = Waiting
  BY WaitingKept
<1>1. TcpTypeOK'
  BY DEF TcpTypeOK, TaskState
<1>2. Listeners'
  BY DEF Listeners, HeldByTask
<1>3. Backlog'
  BY <1>0, TcpAssumption DEF Backlog
<1>4. Results'
  BY TcpAssumption DEF TcpTypeOK, Results
<1>5. Dialled'
  BY DEF TcpTypeOK, Dialled
<1>6. Streams'
  BY DEF Streams, Dialled
<1>7. Somewhere'
  BY <1>0 DEF TcpTypeOK, Somewhere
<1>8. QED
  BY <1>1, <1>2, <1>3, <1>4, <1>5, <1>6, <1>7

LEMMA StepCloseStream ==
  ASSUME TcpInv, NEW c \in Connection, CloseStream(c)
  PROVE  TcpInv'
<1> USE DEF TcpInv, CloseStream, CloseConnection, scriptSide, system
<1>0. /\ backlog' \in Seq(Client)
      /\ \A i, j \in DOMAIN backlog' : backlog'[i] = backlog'[j] => i = j
      /\ Waiting' = Waiting
  BY WaitingKept
<1>1. TcpTypeOK'
  BY DEF TcpTypeOK, SlotState
<1>2. Listeners'
  BY DEF Listeners, HeldByTask
<1>3. Backlog'
  BY <1>0 DEF Backlog
<1>4. Results'
  BY DEF Results
<1>5. Dialled'
  BY DEF Dialled
<1>6. Streams'
  BY DEF TcpTypeOK, Streams
<1>7. Somewhere'
  BY <1>0 DEF Somewhere
<1>8. QED
  BY <1>1, <1>2, <1>3, <1>4, <1>5, <1>6, <1>7
-----------------------------------------------------------------------------
(* TCP: what follows.                                                      *)

LEMMA TcpInductive == TcpSpec => []TcpInv
<1>1. TcpInit => TcpInv
  BY TcpInitially
<1>2. TcpInv /\ [TcpNext]_tcpVars => TcpInv'
  <2> SUFFICES ASSUME TcpInv, [TcpNext]_tcpVars PROVE TcpInv'
    OBVIOUS
  <2>1. CASE UNCHANGED tcpVars
    BY <2>1 DEF tcpVars, scriptSide, system, TcpInv, TcpTypeOK, Listeners, HeldByTask, Backlog,
       Waiting, Results, Dialled, Streams, Somewhere
  <2>2. ASSUME NEW l \in Listener,
               \/ Listen(l) \/ Accept(l) \/ AcceptAsync(l) \/ TaskAccepts(l) \/ TaskFails(l)
               \/ AwaitAccept(l) \/ DropAccept(l) \/ CloseListener(l)
        PROVE  TcpInv'
    BY <2>2, StepListen, StepAccept, StepAcceptAsync, StepTaskAccepts, StepTaskFails,
       StepAwaitAccept, StepDropAccept, StepCloseListener
  <2>3. ASSUME NEW c \in Dial,
               Connect(c) \/ ConnectAsync(c) \/ TaskConnects(c) \/ AwaitConnect(c) \/ DropConnect(c)
        PROVE  TcpInv'
    BY <2>3, StepConnect, StepConnectAsync, StepTaskConnects, StepAwaitConnect, StepDropConnect
  <2>4. ASSUME NEW c \in Connection, CloseStream(c)
        PROVE  TcpInv'
    BY <2>4, StepCloseStream
  <2>5. QED
    BY <2>1, <2>2, <2>3, <2>4, StepArrive DEF TcpNext
<1>3. QED
  BY <1>1, <1>2, PTL DEF TcpSpec

\* The four kinds of holder of a connection.
LEMMA HolderKinds ==
  ASSUME NEW c, NEW h
  PROVE  h \in Holders(c) <=>
           \/ \E i \in DOMAIN backlog : backlog[i] = c /\ h = <<"backlog", i>>
           \/ \E l \in Listener : c \in yielded[l] /\ h = <<"result", l>>
           \/ c \in Dial /\ dialing[c] = "done" /\ h = <<"connected", c>>
           \/ stream[c] = "some" /\ h = <<"stream", c>>
BY DEF Holders

LEMMA OneOfTheKinds ==
  ASSUME TcpInv, NEW c \in open
  PROVE  \E h \in Holders(c) : Holders(c) = {h}
<1>0. c \in Dial => c \notin Waiting /\ \A l \in Listener : c \notin yielded[l]
  BY TcpAssumption DEF TcpInv, TcpTypeOK, Backlog
<1>a. ASSUME NEW h, h \in Holders(c), \A g : g \in Holders(c) => g = h
      PROVE  \E x \in Holders(c) : Holders(c) = {x}
  BY <1>a
<1>1. CASE c \in Waiting
  <2>1. PICK i \in DOMAIN backlog : backlog[i] = c
    BY <1>1 DEF Waiting
  <2>2. /\ \A j \in DOMAIN backlog : backlog[j] = c => j = i
        /\ stream[c] # "some" /\ c \notin Dial /\ \A l \in Listener : c \notin yielded[l]
    BY <1>0, <1>1, <2>1 DEF TcpInv, Backlog
  <2>3. \A h : h \in Holders(c) <=> h = <<"backlog", i>>
    BY <2>1, <2>2, HolderKinds
  <2>4. QED
    BY <1>a, <2>3
<1>2. CASE \E l \in Listener : c \in yielded[l]
  <2>1. PICK l \in Listener : c \in yielded[l]
    BY <1>2
  <2>2. \A m \in Listener : c \in yielded[m] => m = l
    BY <2>1 DEF TcpInv, Results
  <2>3. stream[c] # "some" /\ c \notin Dial /\ c \notin Waiting
    BY <1>0, <2>1 DEF TcpInv, Results, Backlog
  <2>4. \A i \in DOMAIN backlog : backlog[i] # c
    BY <2>3 DEF Waiting
  <2>5. \A h : h \in Holders(c) <=> h = <<"result", l>>
    BY <2>1, <2>2, <2>3, <2>4, HolderKinds
  <2>6. QED
    BY <1>a, <2>5
<1>3. CASE c \in Dial /\ dialing[c] = "done"
  <2>1. stream[c] # "some" /\ \A i \in DOMAIN backlog : backlog[i] # c
    BY <1>0, <1>3 DEF TcpInv, Dialled, Waiting
  <2>2. \A h : h \in Holders(c) <=> h = <<"connected", c>>
    BY <1>0, <1>3, <2>1, HolderKinds
  <2>3. QED
    BY <1>a, <2>2
<1>4. CASE stream[c] = "some"
  <2>1. /\ \A i \in DOMAIN backlog : backlog[i] # c
        /\ \A l \in Listener : c \notin yielded[l]
        /\ ~(c \in Dial /\ dialing[c] = "done")
    BY <1>4 DEF TcpInv, Backlog, Waiting, Results, Dialled
  <2>2. \A h : h \in Holders(c) <=> h = <<"stream", c>>
    BY <1>4, <2>1, HolderKinds
  <2>3. QED
    BY <1>a, <2>2
<1>5. QED
  BY <1>1, <1>2, <1>3, <1>4 DEF TcpInv, Somewhere

\* Nobody has a closed connection.
LEMMA NoneOfTheKinds ==
  ASSUME TcpInv, NEW c \in Connection \ open
  PROVE  Holders(c) = {}
<1>1. \A i \in DOMAIN backlog : backlog[i] # c
  BY DEF TcpInv, Backlog, Waiting
<1>2. \A l \in Listener : c \notin yielded[l]
  BY DEF TcpInv, Results
<1>3. stream[c] # "some" /\ ~(c \in Dial /\ dialing[c] = "done")
  BY DEF TcpInv, Streams, Dialled
<1>4. QED
  BY <1>1, <1>2, <1>3, HolderKinds

\* tcp.rs never has a listener or a connection in two places, and never loses one that
\* is open, however its scripts accept, await, close and forget and its tasks end.
THEOREM SocketsAreHeldOnce == TcpSpec => []OneHolder
<1>1. TcpInv => OneHolder
  <2> SUFFICES ASSUME TcpInv PROVE OneHolder
    OBVIOUS
  <2>1. \A l \in Listener : ~(slot[l] = "some" /\ HeldByTask(l))
    BY DEF TcpInv, Listeners, HeldByTask
  <2>2. \A c \in Connection : IF c \in open THEN \E h \in Holders(c) : Holders(c) = {h}
                              ELSE Holders(c) = {}
    BY OneOfTheKinds, NoneOfTheKinds
  <2>3. QED
    BY <2>1, <2>2 DEF TcpInv, Listeners, OneHolder
<1>2. QED
  BY <1>1, TcpInductive, PTL
-----------------------------------------------------------------------------
(* UDP: the inductive invariant.                                           *)

\* The datagrams that wait in a socket, and those the script was handed.
In(s) == {queued[s][i] : i \in DOMAIN queued[s]}
Got == {handed[i][1] : i \in DOMAIN handed}

\* A datagram somewhere has been sent, and its task has ended.
Gone(d) == d \in sent /\ sending[d] = {}

WaitsOnce ==
  /\ \A s \in Socket : \A i, j \in DOMAIN queued[s] : queued[s][i] = queued[s][j] => i = j
  /\ \A s, t \in Socket : \A d \in In(s) : d \in In(t) => s = t
  /\ \A s \in Socket : \A d \in In(s) : Gone(d)

ResultOnce ==
  /\ \A r \in RecvCall : result[r] # {} => receiving[r] = "done"
  /\ \A r, q \in RecvCall : \A d \in result[r] : d \in result[q] => r = q
  /\ \A r \in RecvCall : \A d \in result[r] :
       Gone(d) /\ d \notin Got /\ \A s \in Socket : d \notin In(s)

HandedOnce ==
  /\ \A i, j \in DOMAIN handed : handed[i][1] = handed[j][1] => i = j
  /\ \A i \in DOMAIN handed : handed[i][1] \in Text => handed[i][2]
  /\ \A d \in Got : Gone(d) /\ \A s \in Socket : d \notin In(s)

\* Tasks are started by calls, on sockets that have been bound.
Tasks ==
  /\ \A d \in Datagram : sending[d] # {} => d \in sent
  /\ \A r \in RecvCall : receiving[r] = "none" => on[r] = {}
  /\ \A s \in Socket : socket[s] = "unborn" =>
       ~SocketOpen(s) /\ came[s] = <<>> /\ went[s] = <<>>

\* What has come to an open socket has been taken or waits; of what came to one that is
\* closed, the first were taken.
Flow(s) ==
  IF SocketOpen(s) THEN came[s] = went[s] \o queued[s]
  ELSE queued[s] = <<>> /\ went[s] = SubSeq(came[s], 1, Len(went[s]))

UdpInv ==
  /\ UdpTypeOK
  /\ WaitsOnce /\ ResultOnce /\ HandedOnce /\ Tasks
  /\ \A s \in Socket : Flow(s)

-----------------------------------------------------------------------------
(* UDP: sequences.                                                         *)

LEMMA TakenPart ==
  ASSUME NEW X, NEW w \in Seq(X), NEW q \in Seq(X), NEW c, c = w \o q
  PROVE  SubSeq(c, 1, Len(w)) = w
<1> DEFINE p == SubSeq(c, 1, Len(w))
<1>1. /\ c \in Seq(X) /\ Len(c) = Len(w) + Len(q) /\ Len(w) \in Nat /\ Len(q) \in Nat
      /\ \A i \in 1 .. Len(w) : c[i] = w[i]
  BY ConcatProperties, LenProperties
<1>2. p \in Seq(X) /\ Len(p) = Len(w) /\ \A i \in 1 .. Len(w) : p[i] = c[i]
  BY <1>1, SubSeqProperties
<1> HIDE DEF p
<1>3. p = w
  BY <1>1, <1>2, SeqEqual
<1>4. QED
  BY <1>3 DEF p

LEMMA AppendToConcat ==
  ASSUME NEW X, NEW d \in X
  PROVE  \A w, q \in Seq(X) : Append(w \o q, d) = w \o Append(q, d)
<1> SUFFICES ASSUME NEW w \in Seq(X), NEW q \in Seq(X)
             PROVE  Append(w \o q, d) = w \o Append(q, d)
  OBVIOUS
<1>1. w \o q \in Seq(X) /\ <<d>> \in Seq(X)
  BY ConcatProperties
<1>2. Append(w \o q, d) = (w \o q) \o <<d>> /\ Append(q, d) = q \o <<d>>
  BY <1>1, AppendIsConcat
<1>3. (w \o q) \o <<d>> = w \o (q \o <<d>>)
  BY <1>1, ConcatAssociative
<1>4. QED
  BY <1>2, <1>3

LEMMA HeadMoves ==
  ASSUME NEW X, NEW w \in Seq(X), NEW q \in Seq(X), q # <<>>
  PROVE  w \o q = Append(w, Head(q)) \o Tail(q)
<1>1. Head(q) \in X /\ Tail(q) \in Seq(X) /\ <<Head(q)>> \in Seq(X)
  BY HeadTailProperties
<1>2. q = <<Head(q)>> \o Tail(q)
  <2> DEFINE t == <<Head(q)>> \o Tail(q)
  <2>1. /\ Len(q) \in Nat \ {0} /\ Len(Tail(q)) = Len(q) - 1 /\ q[1] = Head(q)
        /\ \A i \in 1 .. Len(q) - 1 : Tail(q)[i] = q[i + 1]
    BY HeadTailProperties, EmptySeq, LenProperties
  <2>2. /\ t \in Seq(X) /\ Len(t) = Len(q)
        /\ \A i \in 1 .. Len(q) : t[i] = IF i <= 1 THEN Head(q) ELSE Tail(q)[i - 1]
    BY <1>1, <2>1, ConcatProperties
  <2> HIDE DEF t
  <2>3. \A i \in 1 .. Len(q) : t[i] = q[i]
    <3>1. ASSUME NEW i \in 1 .. Len(q), i > 1
          PROVE  i - 1 \in 1 .. Len(q) - 1 /\ (i - 1) + 1 = i
      BY <2>1, <3>1
    <3>2. QED
      BY <2>1, <2>2, <3>1
  <2>4. t = q
    BY <2>1, <2>2, <2>3, SeqEqual
  <2>5. QED
    BY <2>4 DEF t
<1>3. Append(w, Head(q)) = w \o <<Head(q)>>
  BY <1>1, AppendIsConcat
<1>4. (w \o <<Head(q)>>) \o Tail(q) = w \o (<<Head(q)>> \o Tail(q))
  BY <1>1, ConcatAssociative
<1>5. QED
  BY <1>2, <1>3, <1>4
LEMMA ElementsOfTail ==
  ASSUME NEW X, NEW q \in Seq(X), q # <<>>, \A i, j \in DOMAIN q : q[i] = q[j] => i = j
  PROVE  /\ Head(q) \in {q[i] : i \in DOMAIN q} /\ Head(q) \in X /\ Tail(q) \in Seq(X)
         /\ \A i, j \in DOMAIN Tail(q) : Tail(q)[i] = Tail(q)[j] => i = j
         /\ {Tail(q)[i] : i \in DOMAIN Tail(q)} \subseteq {q[i] : i \in DOMAIN q} \ {Head(q)}
<1>1. /\ Len(q) \in Nat \ {0} /\ DOMAIN q = 1 .. Len(q) /\ q[1] = Head(q) /\ Head(q) \in X
      /\ Tail(q) \in Seq(X) /\ DOMAIN Tail(q) = 1 .. Len(q) - 1
      /\ \A i \in 1 .. Len(q) - 1 : Tail(q)[i] = q[i + 1]
  BY HeadTailProperties, EmptySeq, LenProperties
<1>2. \A i \in DOMAIN Tail(q) : i + 1 \in DOMAIN q /\ i + 1 # 1 /\ 1 \in DOMAIN q
  BY <1>1
<1>3. \A i, j \in DOMAIN Tail(q) : Tail(q)[i] = Tail(q)[j] => i = j
  <2>1. \A i, j \in DOMAIN Tail(q) : Tail(q)[i] = Tail(q)[j] => i + 1 = j + 1
    BY <1>1, <1>2
  <2>2. \A i, j \in DOMAIN Tail(q) : i + 1 = j + 1 => i = j
    BY <1>1
  <2>3. QED
    BY <2>1, <2>2
<1>4. 1 \in DOMAIN q
  BY <1>1
<1>5. \A i \in DOMAIN Tail(q) : Tail(q)[i] = q[i + 1] /\ Tail(q)[i] # Head(q)
  BY <1>1, <1>2
<1>6. QED
  BY <1>1, <1>2, <1>3, <1>4, <1>5

LEMMA ElementsOfAppend ==
  ASSUME NEW X, NEW q \in Seq(X), NEW d \in X, NEW a, a = Append(q, d)
  PROVE  /\ a \in Seq(X)
         /\ {a[i] : i \in DOMAIN a} = {q[i] : i \in DOMAIN q} \cup {d}
         /\ (\A i, j \in DOMAIN q : q[i] = q[j] => i = j) /\ d \notin {q[i] : i \in DOMAIN q} =>
              \A i, j \in DOMAIN a : a[i] = a[j] => i = j
<1>1. /\ a \in Seq(X) /\ Len(q) \in Nat /\ DOMAIN q = 1 .. Len(q) /\ DOMAIN a = 1 .. Len(q) + 1
      /\ a[Len(q) + 1] = d /\ \A i \in DOMAIN q : a[i] = q[i]
  BY AppendProperties, LenProperties
<1>2. /\ \A i \in DOMAIN a : i \in DOMAIN q \/ i = Len(q) + 1
      /\ \A i \in DOMAIN q : i \in DOMAIN a
      /\ Len(q) + 1 \in DOMAIN a
  BY <1>1
<1>3. {a[i] : i \in DOMAIN a} = {q[i] : i \in DOMAIN q} \cup {d}
  BY <1>1, <1>2
<1>4. ASSUME \A i, j \in DOMAIN q : q[i] = q[j] => i = j, d \notin {q[i] : i \in DOMAIN q}
      PROVE  \A i, j \in DOMAIN a : a[i] = a[j] => i = j
  BY <1>1, <1>2, <1>4
<1>5. QED
  BY <1>1, <1>3, <1>4

-----------------------------------------------------------------------------
(* UDP: what the steps have in common.                                     *)

\* The sockets give up what waits in them when they close, and nothing else happens to
\* what they were given and what was taken.
LEMMA Closing ==
  ASSUME UdpInv, Leaves(queued), came' = came, went' = went,
         \A s \in Socket : SocketOpen(s)' => SocketOpen(s)
  PROVE  /\ queued' \in [Socket -> Seq(Datagram)]
         /\ \A s \in Socket :
              /\ In(s)' \subseteq In(s)
              /\ \A i, j \in DOMAIN queued'[s] : queued'[s][i] = queued'[s][j] => i = j
              /\ Flow(s)'
<1>1. /\ queued' = [s \in Socket |-> IF SocketOpen(s)' THEN queued[s] ELSE <<>>]
      /\ queued \in [Socket -> Seq(Datagram)] /\ came \in [Socket -> Seq(Datagram)]
      /\ went \in [Socket -> Seq(Datagram)]
  BY DEF Leaves, UdpInv, UdpTypeOK
<1>2. <<>> \in Seq(Datagram) /\ DOMAIN <<>> = {}
  BY EmptySeq, LenProperties
<1>3. ASSUME NEW s \in Socket
      PROVE  /\ In(s)' \subseteq In(s)
             /\ \A i, j \in DOMAIN queued'[s] : queued'[s][i] = queued'[s][j] => i = j
             /\ Flow(s)'
  <2>1. CASE SocketOpen(s)'
    <3>1. queued'[s] = queued[s] /\ SocketOpen(s)
      BY <1>1, <2>1
    <3>2. QED
      BY <2>1, <3>1 DEF In, UdpInv, WaitsOnce, Flow
  <2>2. CASE ~SocketOpen(s)'
    <3>1. queued'[s] = <<>>
      BY <1>1, <2>2
    <3>2. went[s] = SubSeq(came[s], 1, Len(went[s]))
      <4>1. went[s] \in Seq(Datagram) /\ queued[s] \in Seq(Datagram)
        BY <1>1
      <4>2. QED
        BY <4>1, TakenPart DEF UdpInv, Flow
    <3>3. QED
      BY <1>2, <2>2, <3>1, <3>2 DEF In, Flow
  <2>3. QED
    BY <2>1, <2>2
<1>4. QED
  BY <1>1, <1>2, <1>3

\* A datagram that is nowhere yet comes to a socket, or is lost.
LEMMA Reaching ==
  ASSUME UdpInv, NEW d \in Datagram, NEW to \in Socket, Reach(d, to), went' = went,
         \A s \in Socket : SocketOpen(s)' => SocketOpen(s),
         \A s \in Socket : d \notin In(s)
  PROVE  /\ queued' \in [Socket -> Seq(Datagram)] /\ came' \in [Socket -> Seq(Datagram)]
         /\ \A s \in Socket :
              /\ In(s)' \subseteq In(s) \cup (IF s = to THEN {d} ELSE {})
              /\ \A i, j \in DOMAIN queued'[s] : queued'[s][i] = queued'[s][j] => i = j
              /\ Flow(s)'
              /\ socket[s] = "unborn" => came'[s] = came[s]
<1>1. CASE came' = came /\ Leaves(queued)
  <2>1. came' \in [Socket -> Seq(Datagram)]
    BY <1>1 DEF UdpInv, UdpTypeOK
  <2>2. QED
    BY <1>1, <2>1, Closing
<1>2. CASE /\ SocketOpen(to)
           /\ came' = [came EXCEPT ![to] = Append(@, d)]
           /\ Leaves([queued EXCEPT ![to] = Append(@, d)])
  <2> DEFINE more == [queued EXCEPT ![to] = Append(@, d)]
  <2>1. /\ queued \in [Socket -> Seq(Datagram)] /\ came \in [Socket -> Seq(Datagram)]
        /\ went \in [Socket -> Seq(Datagram)]
    BY DEF UdpInv, UdpTypeOK
  <2>2. /\ <<>> \in Seq(Datagram) /\ DOMAIN <<>> = {}
        /\ \A q \in Seq(Datagram) : Append(q, d) \in Seq(Datagram)
    BY EmptySeq, LenProperties, AppendProperties
  <2>3. /\ more \in [Socket -> Seq(Datagram)] /\ came' \in [Socket -> Seq(Datagram)]
        /\ more[to] = Append(queued[to], d) /\ \A s \in Socket : s # to => more[s] = queued[s]
        /\ came'[to] = Append(came[to], d) /\ \A s \in Socket : s # to => came'[s] = came[s]
    BY <1>2, <2>1, <2>2
  <2> HIDE DEF more
  <2>4. queued' = [s \in Socket |-> IF SocketOpen(s)' THEN more[s] ELSE <<>>]
    BY <1>2 DEF Leaves, more
  <2>5. queued' \in [Socket -> Seq(Datagram)]
    BY <2>2, <2>3, <2>4
  <2>6. ASSUME NEW s \in Socket
        PROVE  /\ {more[s][i] : i \in DOMAIN more[s]} =
                    In(s) \cup (IF s = to THEN {d} ELSE {})
               /\ \A i, j \in DOMAIN more[s] : more[s][i] = more[s][j] => i = j
               /\ SocketOpen(s) => came'[s] = went[s] \o more[s]
               /\ ~SocketOpen(s) => went[s] = SubSeq(came'[s], 1, Len(went[s]))
    <3>1. queued[s] \in Seq(Datagram) /\ went[s] \in Seq(Datagram) /\ d \notin In(s)
      BY <2>1
    <3>2. CASE s = to
      <4>1. more[s] = Append(queued[s], d) /\ came'[s] = Append(came[s], d)
        BY <2>3, <3>2
      <4>2. /\ {more[s][i] : i \in DOMAIN more[s]} = In(s) \cup {d}
            /\ \A i, j \in DOMAIN more[s] : more[s][i] = more[s][j] => i = j
        <5>1. \A i, j \in DOMAIN queued[s] : queued[s][i] = queued[s][j] => i = j
          BY DEF UdpInv, WaitsOnce
        <5>2. d \notin {queued[s][i] : i \in DOMAIN queued[s]}
          BY <3>1 DEF In
        <5> DEFINE q == queued[s]
                   m == more[s]
        <5>3. /\ q \in Seq(Datagram) /\ m = Append(q, d) /\ d \notin {q[i] : i \in DOMAIN q}
              /\ \A i, j \in DOMAIN q : q[i] = q[j] => i = j
          BY <3>1, <4>1, <5>1, <5>2
        <5> HIDE DEF q, m
        <5>4. /\ {m[i] : i \in DOMAIN m} = {q[i] : i \in DOMAIN q} \cup {d}
              /\ \A i, j \in DOMAIN m : m[i] = m[j] => i = j
          BY <5>3, ElementsOfAppend
        <5>5. QED
          BY <5>4 DEF In, q, m
      <4>3. came[s] = went[s] \o queued[s]
        BY <1>2, <3>2 DEF UdpInv, Flow
      <4>4. came'[s] = went[s] \o more[s]
        <5> DEFINE q == queued[s]
                   m == more[s]
                   w == went[s]
                   c == came[s]
        <5>1. q \in Seq(Datagram) /\ w \in Seq(Datagram) /\ c = w \o q /\ m = Append(q, d)
          BY <3>1, <4>1, <4>3
        <5> HIDE DEF q, m, w, c
        <5>2. Append(c, d) = w \o m
          <6>1. \A y, z \in Seq(Datagram) : Append(y \o z, d) = y \o Append(z, d)
            BY AppendToConcat, Zenon
          <6>2. QED
            BY <5>1, <6>1
        <5>3. QED
          BY <4>1, <5>2 DEF w, c, m
      <4>5. QED
        BY <1>2, <3>2, <4>2, <4>4
    <3>3. CASE s # to
      <4>1. more[s] = queued[s] /\ came'[s] = came[s]
        BY <2>3, <3>3
      <4>2. /\ \A i, j \in DOMAIN queued[s] : queued[s][i] = queued[s][j] => i = j
            /\ IF SocketOpen(s) THEN came[s] = went[s] \o queued[s]
               ELSE went[s] = SubSeq(came[s], 1, Len(went[s]))
        BY DEF UdpInv, WaitsOnce, Flow
      <4>3. {more[s][i] : i \in DOMAIN more[s]} = In(s) \cup (IF s = to THEN {d} ELSE {})
        BY <3>3, <4>1 DEF In
      <4>4. QED
        BY <4>1, <4>2, <4>3
    <3>4. QED
      BY <3>2, <3>3
  <2>7. ASSUME NEW s \in Socket
        PROVE  /\ In(s)' \subseteq In(s) \cup (IF s = to THEN {d} ELSE {})
               /\ \A i, j \in DOMAIN queued'[s] : queued'[s][i] = queued'[s][j] => i = j
               /\ Flow(s)'
    <3>1. CASE SocketOpen(s)'
      <4>1. queued'[s] = more[s] /\ SocketOpen(s)
        BY <2>4, <3>1
      <4>2. In(s)' = {more[s][i] : i \in DOMAIN more[s]}
        BY <4>1 DEF In
      <4>3. Flow(s)'
        BY <2>6, <3>1, <4>1 DEF Flow
      <4>4. QED
        BY <2>6, <4>1, <4>2, <4>3
    <3>2. CASE ~SocketOpen(s)'
      <4>1. queued'[s] = <<>>
        BY <2>4, <3>2
      <4>2. went[s] \in Seq(Datagram) /\ more[s] \in Seq(Datagram)
        BY <2>1, <2>3
      <4>3. went[s] = SubSeq(came'[s], 1, Len(went[s]))
        <5>1. CASE SocketOpen(s)
          <6> DEFINE w == went[s]
                     m == more[s]
                     c == came'[s]
          <6>1. w \in Seq(Datagram) /\ m \in Seq(Datagram) /\ c = w \o m
            BY <2>6, <4>2, <5>1
          <6> HIDE DEF w, m, c
          <6>2. SubSeq(c, 1, Len(w)) = w
            BY <6>1, TakenPart
          <6>3. QED
            BY <6>2 DEF w, c
        <5>2. QED
          BY <2>6, <5>1
      <4>4. QED
        BY <2>2, <3>2, <4>1, <4>3 DEF In, Flow
    <3>3. QED
      BY <3>1, <3>2
  <2>8. \A s \in Socket : socket[s] = "unborn" => came'[s] = came[s]
    BY <1>2, <2>3 DEF UdpInv, Tasks
  <2>9. QED
    BY <2>3, <2>5, <2>7, <2>8
<1>3. QED
  BY <1>1, <1>2 DEF Reach

\* The script is handed a datagram it has not got.
LEMMA Handing ==
  ASSUME UdpInv, NEW d \in Datagram, NEW b \in BOOLEAN, handed' = Append(handed, <<d, b>>),
         d \notin Got, d \in Text => b
  PROVE  /\ handed' \in Seq(Datagram \X BOOLEAN) /\ Got' = Got \cup {d}
         /\ \A i, j \in DOMAIN handed' : handed'[i][1] = handed'[j][1] => i = j
         /\ \A i \in DOMAIN handed' : handed'[i][1] \in Text => handed'[i][2]
<1>1. /\ handed \in Seq(Datagram \X BOOLEAN) /\ <<d, b>> \in Datagram \X BOOLEAN
      /\ <<d, b>>[1] = d /\ <<d, b>>[2] = b
  BY DEF UdpInv, UdpTypeOK
<1>2. /\ handed' \in Seq(Datagram \X BOOLEAN) /\ Len(handed) \in Nat
      /\ DOMAIN handed = 1 .. Len(handed) /\ DOMAIN handed' = 1 .. Len(handed) + 1
      /\ handed'[Len(handed) + 1] = <<d, b>> /\ \A i \in DOMAIN handed : handed'[i] = handed[i]
  BY <1>1, AppendProperties, LenProperties
<1>3. /\ \A i \in DOMAIN handed' : i \in DOMAIN handed \/ i = Len(handed) + 1
      /\ \A i \in DOMAIN handed : i \in DOMAIN handed' /\ handed[i][1] # d
      /\ Len(handed) + 1 \in DOMAIN handed'
  BY <1>2 DEF Got
<1>4. handed'[Len(handed) + 1][1] = d /\ handed'[Len(handed) + 1][2] = b
  BY <1>1, <1>2
<1>5. /\ \A i, j \in DOMAIN handed' : handed'[i][1] = handed'[j][1] => i = j
      /\ \A i \in DOMAIN handed' : handed'[i][1] \in Text => handed'[i][2]
  BY <1>2, <1>3, <1>4 DEF UdpInv, HandedOnce
<1>6. Got' = Got \cup {d}
  BY <1>2, <1>3, <1>4 DEF Got
<1>7. QED
  BY <1>2, <1>5, <1>6

\* Nothing happens to what waits, or to what was handed.
LEMMA QueuesKept ==
  ASSUME UdpInv, queued' = queued
  PROVE  /\ queued' \in [Socket -> Seq(Datagram)] /\ \A s \in Socket : In(s)' = In(s)
         /\ \A s \in Socket : \A i, j \in DOMAIN queued'[s] : queued'[s][i] = queued'[s][j] => i = j
BY DEF UdpInv, UdpTypeOK, WaitsOnce, In

LEMMA FlowKept ==
  ASSUME UdpInv, queued' = queued, came' = came, went' = went,
         \A s \in Socket : SocketOpen(s)' <=> SocketOpen(s)
  PROVE  \A s \in Socket : Flow(s)'
BY DEF UdpInv, Flow

LEMMA HandedKept ==
  ASSUME UdpInv, handed' = handed
  PROVE  /\ Got' = Got /\ handed' \in Seq(Datagram \X BOOLEAN)
         /\ \A i, j \in DOMAIN handed' : handed'[i][1] = handed'[j][1] => i = j
         /\ \A i \in DOMAIN handed' : handed'[i][1] \in Text => handed'[i][2]
BY DEF UdpInv, UdpTypeOK, HandedOnce, Got

\* At most one datagram more waits, in one socket.
LEMMA WaitsAfter ==
  ASSUME UdpInv, NEW d \in Datagram, NEW to \in Socket,
         \A s \in Socket :
           /\ In(s)' \subseteq In(s) \cup (IF s = to THEN {d} ELSE {})
           /\ \A i, j \in DOMAIN queued'[s] : queued'[s][i] = queued'[s][j] => i = j,
         \A s \in Socket : d \notin In(s),
         Gone(d)', \A e \in Datagram : Gone(e) => Gone(e)'
  PROVE  WaitsOnce'
<1>1. \A s \in Socket : In(s) \subseteq Datagram
  BY DEF UdpInv, UdpTypeOK, In
<1>2. ASSUME NEW s \in Socket, NEW e \in In(s)'
      PROVE  e \in In(s) \/ (e = d /\ s = to)
  BY <1>2
<1>3. ASSUME NEW s \in Socket, NEW t \in Socket, NEW e \in In(s)', e \in In(t)'
      PROVE  s = t
  BY <1>2, <1>3 DEF UdpInv, WaitsOnce
<1>4. ASSUME NEW s \in Socket, NEW e \in In(s)'
      PROVE  Gone(e)'
  BY <1>1, <1>2, <1>4 DEF UdpInv, WaitsOnce
<1>5. QED
  BY <1>3, <1>4 DEF WaitsOnce

\* Nothing more waits.
LEMMA WaitsLess ==
  ASSUME UdpInv,
         \A s \in Socket :
           /\ In(s)' \subseteq In(s)
           /\ \A i, j \in DOMAIN queued'[s] : queued'[s][i] = queued'[s][j] => i = j,
         \A s \in Socket : \A e \in In(s) : Gone(e)'
  PROVE  WaitsOnce'
<1>1. ASSUME NEW s \in Socket, NEW e \in In(s)'
      PROVE  e \in In(s)
  BY <1>1
<1>2. ASSUME NEW s \in Socket, NEW t \in Socket, NEW e \in In(s)', e \in In(t)'
      PROVE  s = t
  BY <1>1, <1>2 DEF UdpInv, WaitsOnce
<1>3. ASSUME NEW s \in Socket, NEW e \in In(s)'
      PROVE  Gone(e)'
  BY <1>1, <1>3
<1>4. QED
  BY <1>2, <1>3 DEF WaitsOnce

-----------------------------------------------------------------------------
(* UDP: the steps.                                                         *)

LEMMA StepBind ==
  ASSUME UdpInv, NEW s \in Socket, Bind(s)
  PROVE  UdpInv'
<1> USE DEF Bind
<1>1. \A t \in Socket : t # s => (SocketOpen(t)' <=> SocketOpen(t))
  BY DEF SocketOpen, UdpInv, UdpTypeOK
<1>2. came[s] = <<>> /\ went[s] = <<>> /\ queued[s] = <<>>
  BY DEF UdpInv, Tasks, Flow
<1>3. <<>> \o <<>> = <<>> /\ <<>> = SubSeq(<<>>, 1, Len(<<>>))
  <2>1. <<>> \in Seq(Datagram) /\ <<>> \o <<>> = <<>>
    BY EmptySeq, ConcatEmptySeq
  <2>2. QED
    BY <2>1, TakenPart
<1>4. \A t \in Socket : Flow(t)'
  <2>1. Flow(s)'
    BY <1>2, <1>3 DEF Flow
  <2>2. \A t \in Socket : t # s => Flow(t)'
    BY <1>1 DEF Flow, UdpInv
  <2>3. QED
    BY <2>1, <2>2
<1>5. UdpTypeOK'
  BY DEF UdpInv, UdpTypeOK
<1>6. WaitsOnce' /\ ResultOnce' /\ HandedOnce'
  BY QueuesKept, HandedKept DEF UdpInv, WaitsOnce, ResultOnce, HandedOnce, Gone
<1>7. Tasks'
  BY <1>1 DEF UdpInv, UdpTypeOK, Tasks
<1>8. QED
  BY <1>4, <1>5, <1>6, <1>7 DEF UdpInv

LEMMA StepSendTo ==
  ASSUME UdpInv, NEW d \in Datagram, NEW to \in Socket, SendTo(d, to)
  PROVE  UdpInv'
<1> USE DEF SendTo
<1>1. \A s \in Socket : SocketOpen(s)' <=> SocketOpen(s)
  BY DEF SocketOpen
<1>2. d \notin Got /\ \A s \in Socket : d \notin In(s)
  BY DEF UdpInv, WaitsOnce, HandedOnce, Gone
<1>3. /\ queued' \in [Socket -> Seq(Datagram)] /\ came' \in [Socket -> Seq(Datagram)]
      /\ \A s \in Socket :
           /\ In(s)' \subseteq In(s) \cup (IF s = to THEN {d} ELSE {})
           /\ \A i, j \in DOMAIN queued'[s] : queued'[s][i] = queued'[s][j] => i = j
           /\ Flow(s)'
           /\ socket[s] = "unborn" => came'[s] = came[s]
  BY <1>1, <1>2, Reaching
<1>4. sending[d] = {} /\ \A r \in RecvCall : d \notin result[r]
  BY DEF UdpInv, UdpTypeOK, Tasks, ResultOnce, Gone
<1>5. UdpTypeOK'
  BY <1>3 DEF UdpInv, UdpTypeOK
<1>6. WaitsOnce'
  <2>1. Gone(d)' /\ \A e \in Datagram : Gone(e) => Gone(e)'
    BY <1>4 DEF Gone
  <2>2. QED
    BY <1>2, <1>3, <2>1, WaitsAfter
<1>7. ResultOnce'
  BY <1>3, <1>4, HandedKept DEF UdpInv, ResultOnce, Gone
<1>8. HandedOnce'
  BY <1>2, <1>3, HandedKept DEF UdpInv, HandedOnce, Gone
<1>9. Tasks'
  BY <1>1, <1>3 DEF UdpInv, Tasks
<1>10. QED
  BY <1>3, <1>5, <1>6, <1>7, <1>8, <1>9 DEF UdpInv

LEMMA StepSendToAsync ==
  ASSUME UdpInv, NEW d \in Datagram, NEW from \in Socket, SendToAsync(d, from)
  PROVE  UdpInv'
<1> USE DEF SendToAsync
<1>1. /\ sending[d] = {} /\ d \notin Got /\ \A s \in Socket : d \notin In(s)
      /\ \A r \in RecvCall : d \notin result[r]
  BY DEF UdpInv, UdpTypeOK, Tasks, WaitsOnce, ResultOnce, HandedOnce, Gone
<1>2. \A s \in Socket : SocketOpen(s)' <=> SocketOpen(s)
  BY <1>1 DEF SocketOpen, UdpInv, UdpTypeOK
<1>3. UdpTypeOK'
  BY DEF UdpInv, UdpTypeOK
<1>4. \A e : e # d => Gone(e)' = Gone(e)
  BY DEF Gone, UdpInv, UdpTypeOK
<1>5. WaitsOnce' /\ ResultOnce' /\ HandedOnce'
  <2>1. WaitsOnce'
    <3>1. \A s \in Socket : \A e \in In(s) : Gone(e)'
      BY <1>1, <1>4 DEF UdpInv, WaitsOnce
    <3>2. QED
      BY <3>1, QueuesKept, WaitsLess
  <2>2. Got' = Got /\ \A s \in Socket : In(s)' = In(s)
    BY QueuesKept, HandedKept
  <2>3. ResultOnce'
    BY <1>1, <1>4, <2>2 DEF UdpInv, ResultOnce
  <2>4. HandedOnce'
    BY <1>1, <1>4, <2>2, HandedKept DEF UdpInv, HandedOnce
  <2>5. QED
    BY <2>1, <2>3, <2>4
<1>6. Tasks'
  BY <1>2 DEF UdpInv, UdpTypeOK, Tasks
<1>7. QED
  BY <1>2, <1>3, <1>5, <1>6, FlowKept DEF UdpInv

LEMMA StepTaskSends ==
  ASSUME UdpInv, NEW d \in Datagram, NEW to \in Socket, TaskSends(d, to)
  PROVE  UdpInv'
<1> USE DEF TaskSends
<1>1. \A s \in Socket : SocketOpen(s)' => SocketOpen(s)
  BY DEF SocketOpen, UdpInv, UdpTypeOK
<1>2. /\ d \in sent /\ d \notin Got /\ \A s \in Socket : d \notin In(s)
      /\ \A r \in RecvCall : d \notin result[r]
  BY DEF UdpInv, Tasks, WaitsOnce, ResultOnce, HandedOnce, Gone
<1>3. /\ queued' \in [Socket -> Seq(Datagram)] /\ came' \in [Socket -> Seq(Datagram)]
      /\ \A s \in Socket :
           /\ In(s)' \subseteq In(s) \cup (IF s = to THEN {d} ELSE {})
           /\ \A i, j \in DOMAIN queued'[s] : queued'[s][i] = queued'[s][j] => i = j
           /\ Flow(s)'
           /\ socket[s] = "unborn" => came'[s] = came[s]
  BY <1>1, <1>2, Reaching
<1>4. Gone(d)' /\ \A e \in Datagram : Gone(e) => Gone(e)'
  BY <1>2 DEF UdpInv, UdpTypeOK, Gone
<1>5. UdpTypeOK'
  BY <1>3 DEF UdpInv, UdpTypeOK
<1>6. WaitsOnce'
  BY <1>2, <1>3, <1>4, WaitsAfter
<1>7. ResultOnce'
  BY SMTT(40), <1>2, <1>3, <1>4, HandedKept DEF UdpInv, UdpTypeOK, ResultOnce
<1>8. HandedOnce'
  <2>1. Got \subseteq Datagram
    BY DEF UdpInv, UdpTypeOK, Got
  <2>2. QED
    BY <1>2, <1>3, <1>4, <2>1, HandedKept DEF UdpInv, HandedOnce
<1>9. Tasks'
  BY <1>1, <1>3 DEF UdpInv, UdpTypeOK, Tasks
<1>10. QED
  BY <1>3, <1>5, <1>6, <1>7, <1>8, <1>9 DEF UdpInv

LEMMA StepRecvFromAsync ==
  ASSUME UdpInv, NEW r \in RecvCall, NEW s \in Socket, RecvFromAsync(r, s)
  PROVE  UdpInv'
<1> USE DEF RecvFromAsync
<1>1. on[r] = {}
  BY DEF UdpInv, Tasks
<1>2. \A t \in Socket : SocketOpen(t)' <=> SocketOpen(t)
  BY <1>1 DEF SocketOpen, UdpInv, UdpTypeOK
<1>3. UdpTypeOK'
  BY DEF UdpInv, UdpTypeOK
<1>4. /\ Got' = Got /\ \A t \in Socket : In(t)' = In(t)
      /\ \A d : Gone(d)' = Gone(d)
  BY QueuesKept, HandedKept DEF Gone
<1>5. WaitsOnce'
  <2>1. \A t \in Socket : \A e \in In(t) : Gone(e)'
    BY <1>4 DEF UdpInv, WaitsOnce
  <2>2. QED
    BY <2>1, QueuesKept, WaitsLess
<1>6. ResultOnce'
  BY <1>4 DEF UdpInv, UdpTypeOK, ResultOnce
<1>7. HandedOnce'
  BY <1>4, HandedKept DEF UdpInv, HandedOnce
<1>8. Tasks'
  BY <1>2 DEF UdpInv, UdpTypeOK, Tasks
<1>9. QED
  BY <1>2, <1>3, <1>5, <1>6, <1>7, <1>8, FlowKept DEF UdpInv

\* The first datagram that waits is taken, by a call or by a task that ends with it.
LEMMA Taking ==
  ASSUME UdpInv, NEW s \in Socket, queued[s] # <<>>, Taken(s), came' = came,
         \/ /\ queued' = [queued EXCEPT ![s] = Tail(@)]
            /\ \A t \in Socket : SocketOpen(t)' = SocketOpen(t)
         \/ Leaves([queued EXCEPT ![s] = Tail(@)]),
         SocketOpen(s), \A t \in Socket : SocketOpen(t)' => SocketOpen(t)
  PROVE  /\ Head(queued[s]) \in In(s) /\ Head(queued[s]) \in Datagram
         /\ queued' \in [Socket -> Seq(Datagram)] /\ went' \in [Socket -> Seq(Datagram)]
         /\ \A t \in Socket :
              /\ In(t)' \subseteq In(t) \ {Head(queued[s])}
              /\ \A i, j \in DOMAIN queued'[t] : queued'[t][i] = queued'[t][j] => i = j
              /\ Flow(t)'
<1> DEFINE d == Head(queued[s])
           less == [queued EXCEPT ![s] = Tail(@)]
<1>1. /\ queued \in [Socket -> Seq(Datagram)] /\ came \in [Socket -> Seq(Datagram)]
      /\ went \in [Socket -> Seq(Datagram)]
  BY DEF UdpInv, UdpTypeOK
<1>2. /\ d \in In(s) /\ d \in Datagram /\ Tail(queued[s]) \in Seq(Datagram)
      /\ \A i, j \in DOMAIN Tail(queued[s]) : Tail(queued[s])[i] = Tail(queued[s])[j] => i = j
      /\ {Tail(queued[s])[i] : i \in DOMAIN Tail(queued[s])} \subseteq In(s) \ {d}
  <2> DEFINE q == queued[s]
  <2>1. q \in Seq(Datagram) /\ q # <<>> /\ \A i, j \in DOMAIN q : q[i] = q[j] => i = j
    BY <1>1 DEF UdpInv, WaitsOnce
  <2> HIDE DEF q
  <2>2. /\ Head(q) \in {q[i] : i \in DOMAIN q} /\ Head(q) \in Datagram /\ Tail(q) \in Seq(Datagram)
        /\ \A i, j \in DOMAIN Tail(q) : Tail(q)[i] = Tail(q)[j] => i = j
        /\ {Tail(q)[i] : i \in DOMAIN Tail(q)} \subseteq {q[i] : i \in DOMAIN q} \ {Head(q)}
    BY <2>1, ElementsOfTail
  <2>3. QED
    BY <2>2 DEF In, q
<1>3. /\ less \in [Socket -> Seq(Datagram)] /\ less[s] = Tail(queued[s])
      /\ \A t \in Socket : t # s => less[t] = queued[t]
      /\ went' \in [Socket -> Seq(Datagram)] /\ went'[s] = Append(went[s], d)
      /\ \A t \in Socket : t # s => went'[t] = went[t]
  <2>1. Append(went[s], d) \in Seq(Datagram)
    BY <1>1, <1>2, AppendProperties
  <2>2. QED
    BY <1>1, <1>2, <2>1 DEF Taken
<1> HIDE DEF d, less
<1>4. ASSUME NEW t \in Socket
      PROVE  /\ {less[t][i] : i \in DOMAIN less[t]} \subseteq In(t) \ {d}
             /\ \A i, j \in DOMAIN less[t] : less[t][i] = less[t][j] => i = j
             /\ IF SocketOpen(t) THEN came'[t] = went'[t] \o less[t]
                ELSE less[t] = <<>> /\ went'[t] = SubSeq(came'[t], 1, Len(went'[t]))
  <2>1. CASE t = s
    <3>1. came[s] = went[s] \o queued[s]
      BY DEF UdpInv, Flow
    <3>2. went[s] \o queued[s] = Append(went[s], d) \o Tail(queued[s])
      <4>1. went[s] \in Seq(Datagram) /\ queued[s] \in Seq(Datagram)
        BY <1>1
      <4>2. QED
        BY <4>1, HeadMoves DEF d
    <3>3. less[t] = Tail(queued[s]) /\ went'[t] = Append(went[s], d) /\ came'[t] = came[s]
      BY <1>3, <2>1
    <3>4. came'[t] = went'[t] \o less[t] /\ SocketOpen(t)
      BY <2>1, <3>1, <3>2, <3>3
    <3>5. {less[t][i] : i \in DOMAIN less[t]} \subseteq In(t) \ {d}
      BY <1>2, <2>1, <3>3
    <3>6. \A i, j \in DOMAIN less[t] : less[t][i] = less[t][j] => i = j
      BY <1>2, <3>3
    <3>7. QED
      BY <3>4, <3>5, <3>6
  <2>2. CASE t # s
    <3>1. less[t] = queued[t] /\ went'[t] = went[t] /\ came'[t] = came[t]
      BY <1>3, <2>2
    <3>2. d \notin In(t)
      BY <1>2, <2>2 DEF UdpInv, WaitsOnce
    <3>3. {less[t][i] : i \in DOMAIN less[t]} = In(t)
      BY <3>1 DEF In
    <3>4. /\ \A i, j \in DOMAIN queued[t] : queued[t][i] = queued[t][j] => i = j
          /\ IF SocketOpen(t) THEN came[t] = went[t] \o queued[t]
             ELSE queued[t] = <<>> /\ went[t] = SubSeq(came[t], 1, Len(went[t]))
      BY DEF UdpInv, WaitsOnce, Flow
    <3>5. QED
      BY <3>1, <3>2, <3>3, <3>4
  <2>3. QED
    BY <2>1, <2>2
<1>5. CASE queued' = less /\ \A t \in Socket : SocketOpen(t)' = SocketOpen(t)
  <2>1. \A t \in Socket : SocketOpen(t)' = SocketOpen(t)
    BY <1>5
  <2>2. ASSUME NEW t \in Socket
        PROVE  /\ In(t)' \subseteq In(t) \ {d}
               /\ \A i, j \in DOMAIN queued'[t] : queued'[t][i] = queued'[t][j] => i = j
               /\ Flow(t)'
    <3>1. In(t)' = {less[t][i] : i \in DOMAIN less[t]}
      BY <1>5 DEF In
    <3>2. Flow(t)'
      BY <1>4, <1>5, <2>1 DEF Flow
    <3>3. QED
      BY <1>4, <1>5, <3>1, <3>2
  <2>3. QED
    BY <1>2, <1>3, <1>5, <2>2 DEF d
<1>6. CASE Leaves(less)
  <2>1. queued' = [t \in Socket |-> IF SocketOpen(t)' THEN less[t] ELSE <<>>]
    BY <1>6 DEF Leaves
  <2>2. <<>> \in Seq(Datagram) /\ DOMAIN <<>> = {}
    BY EmptySeq, LenProperties
  <2>3. queued' \in [Socket -> Seq(Datagram)]
    BY <1>3, <2>1, <2>2
  <2>4. ASSUME NEW t \in Socket
        PROVE  /\ In(t)' \subseteq In(t) \ {d}
               /\ \A i, j \in DOMAIN queued'[t] : queued'[t][i] = queued'[t][j] => i = j
               /\ Flow(t)'
    <3>1. CASE SocketOpen(t)'
      <4>1. queued'[t] = less[t] /\ SocketOpen(t)
        BY <2>1, <3>1
      <4>2. In(t)' = {less[t][i] : i \in DOMAIN less[t]}
        BY <4>1 DEF In
      <4>3. Flow(t)'
        BY <1>4, <3>1, <4>1 DEF Flow
      <4>4. QED
        BY <1>4, <4>1, <4>2, <4>3
    <3>2. CASE ~SocketOpen(t)'
      <4>1. queued'[t] = <<>>
        BY <2>1, <3>2
      <4>2. went'[t] = SubSeq(came'[t], 1, Len(went'[t]))
        <5>1. CASE SocketOpen(t)
          <6> DEFINE w == went'[t]
                     m == less[t]
                     c == came'[t]
          <6>1. w \in Seq(Datagram) /\ m \in Seq(Datagram) /\ c = w \o m
            BY <1>3, <1>4, <5>1
          <6> HIDE DEF w, m, c
          <6>2. SubSeq(c, 1, Len(w)) = w
            BY <6>1, TakenPart
          <6>3. QED
            BY <6>2 DEF w, c
        <5>2. QED
          BY <1>4, <5>1
      <4>3. QED
        BY <2>2, <3>2, <4>1, <4>2 DEF In, Flow
    <3>3. QED
      BY <3>1, <3>2
  <2>5. QED
    BY <1>2, <1>3, <2>3, <2>4 DEF d
<1>7. QED
  BY <1>5, <1>6 DEF less

LEMMA StepRecvFrom ==
  ASSUME UdpInv, NEW s \in Socket, RecvFrom(s)
  PROVE  UdpInv'
<1> USE DEF RecvFrom
<1> DEFINE d == Head(queued[s])
<1>1. /\ SocketOpen(s) /\ \A t \in Socket : SocketOpen(t)' = SocketOpen(t)
      /\ \A t \in Socket : SocketOpen(t)' => SocketOpen(t)
  BY DEF SocketOpen
<1>2. /\ d \in In(s) /\ d \in Datagram
      /\ queued' \in [Socket -> Seq(Datagram)] /\ went' \in [Socket -> Seq(Datagram)]
      /\ \A t \in Socket :
           /\ In(t)' \subseteq In(t) \ {d}
           /\ \A i, j \in DOMAIN queued'[t] : queued'[t][i] = queued'[t][j] => i = j
           /\ Flow(t)'
  BY <1>1, Taking
<1> HIDE DEF d
<1>3. Gone(d) /\ d \notin Got /\ \A r \in RecvCall : d \notin result[r]
  BY <1>2 DEF UdpInv, WaitsOnce, HandedOnce, ResultOnce
<1>4. /\ handed' \in Seq(Datagram \X BOOLEAN) /\ Got' = Got \cup {d}
      /\ \A i, j \in DOMAIN handed' : handed'[i][1] = handed'[j][1] => i = j
      /\ \A i \in DOMAIN handed' : handed'[i][1] \in Text => handed'[i][2]
  <2>1. handed' = Append(handed, <<d, TRUE>>)
    BY DEF d
  <2>2. QED
    BY <1>2, <1>3, <2>1, Handing
<1>5. UdpTypeOK'
  BY <1>2, <1>4 DEF UdpInv, UdpTypeOK
<1>6. \A e : Gone(e)' = Gone(e)
  BY DEF Gone
<1>7. WaitsOnce'
  <2>1. \A t \in Socket : \A e \in In(t) : Gone(e)'
    BY <1>6 DEF UdpInv, WaitsOnce
  <2>2. QED
    BY <1>2, <2>1, WaitsLess
<1>8. ResultOnce'
  BY <1>2, <1>3, <1>4, <1>6 DEF UdpInv, ResultOnce
<1>9. HandedOnce'
  <2>1. \A e \in Got' : Gone(e)' /\ \A t \in Socket : e \notin In(t)'
    BY <1>2, <1>3, <1>4, <1>6 DEF UdpInv, HandedOnce
  <2>2. QED
    BY <1>4, <2>1 DEF HandedOnce
<1>10. Tasks'
  <2>1. socket[s] # "unborn" /\ \A t \in Socket : t # s => went'[t] = went[t]
    BY DEF Taken, UdpInv, UdpTypeOK
  <2>2. QED
    BY <1>1, <2>1 DEF UdpInv, Tasks
<1>11. QED
  BY <1>2, <1>5, <1>7, <1>8, <1>9, <1>10 DEF UdpInv

LEMMA StepTaskReceives ==
  ASSUME UdpInv, NEW r \in RecvCall, NEW s \in Socket, TaskReceives(r, s)
  PROVE  UdpInv'
<1> USE DEF TaskReceives
<1> DEFINE d == Head(queued[s])
<1>0. on' = [on EXCEPT ![r] = {}] /\ on \in [RecvCall -> SUBSET Socket] /\ s \in on[r]
  BY DEF UdpInv, UdpTypeOK
<1>1. SocketOpen(s) /\ \A t \in Socket : SocketOpen(t)' => SocketOpen(t)
  BY <1>0 DEF SocketOpen
<1>2. /\ d \in In(s) /\ d \in Datagram
      /\ queued' \in [Socket -> Seq(Datagram)] /\ went' \in [Socket -> Seq(Datagram)]
      /\ \A t \in Socket :
           /\ In(t)' \subseteq In(t) \ {d}
           /\ \A i, j \in DOMAIN queued'[t] : queued'[t][i] = queued'[t][j] => i = j
           /\ Flow(t)'
  BY <1>1, Taking
<1> HIDE DEF d
<1>3. Gone(d) /\ d \notin Got /\ \A q \in RecvCall : d \notin result[q]
  BY <1>2 DEF UdpInv, WaitsOnce, HandedOnce, ResultOnce
<1>4. /\ Got' = Got /\ handed' \in Seq(Datagram \X BOOLEAN)
      /\ \A e : Gone(e)' = Gone(e)
  BY HandedKept DEF Gone
<1>5. \/ /\ receiving' = [receiving EXCEPT ![r] = "done"]
         /\ result' = [result EXCEPT ![r] = {d}]
      \/ receiving' = receiving /\ result' = result
  BY DEF d
<1>6. UdpTypeOK'
  <2>1. /\ receiving' \in [RecvCall -> {"none", "pending", "done", "failed", "awaited", "dropped"}]
        /\ result' \in [RecvCall -> SUBSET Datagram]
    <3>1. /\ receiving \in [RecvCall -> {"none", "pending", "done", "failed", "awaited", "dropped"}]
          /\ result \in [RecvCall -> SUBSET Datagram] /\ {d} \subseteq Datagram
      BY <1>2 DEF UdpInv, UdpTypeOK
    <3>2. CASE receiving' = receiving /\ result' = result
      BY <3>1, <3>2
    <3>3. CASE /\ receiving' = [receiving EXCEPT ![r] = "done"]
               /\ result' = [result EXCEPT ![r] = {d}]
      BY <3>1, <3>3
    <3>4. QED
      BY <1>5, <3>2, <3>3
  <2>2. on' \in [RecvCall -> SUBSET Socket]
    BY <1>0
  <2>3. QED
    BY <1>2, <1>4, <2>1, <2>2 DEF UdpInv, UdpTypeOK
<1>7. WaitsOnce'
  <2>1. \A t \in Socket : \A e \in In(t) : Gone(e)'
    BY <1>4 DEF UdpInv, WaitsOnce
  <2>2. QED
    BY <1>2, <2>1, WaitsLess
<1>8. ResultOnce'
  <2>1. \A q \in RecvCall : \A e \in result'[q] : e \in result[q] \/ (e = d /\ q = r)
    BY <1>5 DEF UdpInv, UdpTypeOK
  <2>2. \A q \in RecvCall : result'[q] # {} => receiving'[q] = "done"
    BY <1>5 DEF UdpInv, UdpTypeOK, ResultOnce
  <2>3. \A p, q \in RecvCall : \A e \in result'[p] : e \in result'[q] => p = q
    BY <1>3, <2>1 DEF UdpInv, ResultOnce
  <2>4. \A q \in RecvCall : \A e \in result'[q] :
          Gone(e)' /\ e \notin Got' /\ \A t \in Socket : e \notin In(t)'
    BY <1>2, <1>3, <1>4, <2>1 DEF UdpInv, ResultOnce
  <2>5. QED
    BY <2>2, <2>3, <2>4 DEF ResultOnce
<1>9. HandedOnce'
  <2>1. \A e \in Got' : Gone(e)' /\ \A t \in Socket : e \notin In(t)'
    BY <1>2, <1>4 DEF UdpInv, HandedOnce
  <2>2. QED
    BY <2>1, HandedKept DEF HandedOnce
<1>10. Tasks'
  <2>1. socket[s] # "unborn" /\ \A t \in Socket : t # s => went'[t] = went[t]
    BY <1>1 DEF Taken, UdpInv, UdpTypeOK, Tasks
  <2>2. \A q \in RecvCall : receiving'[q] = "none" => on'[q] = {}
    BY <1>0, <1>5 DEF UdpInv, UdpTypeOK, Tasks
  <2>3. QED
    BY <1>1, <2>1, <2>2 DEF UdpInv, Tasks
<1>11. QED
  BY <1>2, <1>6, <1>7, <1>8, <1>9, <1>10 DEF UdpInv

LEMMA StepReceiveFails ==
  ASSUME UdpInv, NEW r \in RecvCall, NEW s \in Socket, ReceiveFails(r, s)
  PROVE  UdpInv'
<1> USE DEF ReceiveFails
<1>0. on' = [on EXCEPT ![r] = {}] /\ on \in [RecvCall -> SUBSET Socket] /\ s \in on[r]
  BY DEF UdpInv, UdpTypeOK
<1>1. \A t \in Socket : SocketOpen(t)' => SocketOpen(t)
  BY <1>0 DEF SocketOpen
<1>2. /\ queued' \in [Socket -> Seq(Datagram)]
      /\ \A t \in Socket :
           /\ In(t)' \subseteq In(t)
           /\ \A i, j \in DOMAIN queued'[t] : queued'[t][i] = queued'[t][j] => i = j
           /\ Flow(t)'
  BY <1>1, Closing
<1>3. Got' = Got /\ \A e : Gone(e)' = Gone(e)
  BY HandedKept DEF Gone
<1>4. UdpTypeOK'
  BY <1>0, <1>2 DEF UdpInv, UdpTypeOK
<1>5. WaitsOnce'
  <2>1. \A t \in Socket : \A e \in In(t) : Gone(e)'
    BY <1>3 DEF UdpInv, WaitsOnce
  <2>2. QED
    BY <1>2, <2>1, WaitsLess
<1>6. ResultOnce'
  BY <1>2, <1>3 DEF UdpInv, UdpTypeOK, ResultOnce
<1>7. HandedOnce'
  <2>1. \A e \in Got' : Gone(e)' /\ \A t \in Socket : e \notin In(t)'
    BY <1>2, <1>3 DEF UdpInv, HandedOnce
  <2>2. QED
    BY <2>1, HandedKept DEF HandedOnce
<1>8. Tasks'
  BY <1>0, <1>1 DEF UdpInv, UdpTypeOK, Tasks
<1>9. QED
  BY <1>2, <1>4, <1>5, <1>6, <1>7, <1>8 DEF UdpInv

LEMMA StepAwaitReceive ==
  ASSUME UdpInv, NEW r \in RecvCall, AwaitReceive(r)
  PROVE  UdpInv'
<1> USE DEF AwaitReceive
<1>0. CASE receiving[r] = "failed"
  <2>1. result' = result /\ handed' = handed
    BY <1>0 DEF UdpInv, UdpTypeOK, ResultOnce
  <2>2. /\ \A s \in Socket : In(s)' = In(s) /\ (SocketOpen(s)' <=> SocketOpen(s))
        /\ \A e : Gone(e)' = Gone(e)
        /\ Got' = Got
    BY <2>1, QueuesKept, HandedKept DEF Gone, SocketOpen
  <2>3. UdpTypeOK'
    BY <2>1 DEF UdpInv, UdpTypeOK
  <2>4. WaitsOnce'
    <3>1. \A t \in Socket : \A e \in In(t) : Gone(e)'
      BY <2>2 DEF UdpInv, WaitsOnce
    <3>2. QED
      BY <3>1, QueuesKept, WaitsLess
  <2>5. ResultOnce'
    BY <1>0, <2>1, <2>2 DEF UdpInv, UdpTypeOK, ResultOnce
  <2>6. HandedOnce'
    BY <2>1, <2>2, HandedKept DEF UdpInv, HandedOnce
  <2>7. Tasks'
    BY <2>2 DEF UdpInv, UdpTypeOK, Tasks
  <2>8. QED
    BY <2>2, <2>3, <2>4, <2>5, <2>6, <2>7, FlowKept DEF UdpInv
<1> SUFFICES ASSUME receiving[r] = "done" PROVE UdpInv'
  BY <1>0
<1>1. PICK d \in result[r] : handed' = Append(handed, <<d, d \in Text>>)
  OBVIOUS
<1>2. /\ d \in Datagram /\ Gone(d) /\ d \notin Got /\ \A s \in Socket : d \notin In(s)
      /\ \A q \in RecvCall : q # r => d \notin result[q]
  BY <1>1 DEF UdpInv, UdpTypeOK, ResultOnce
<1>3. /\ handed' \in Seq(Datagram \X BOOLEAN) /\ Got' = Got \cup {d}
      /\ \A i, j \in DOMAIN handed' : handed'[i][1] = handed'[j][1] => i = j
      /\ \A i \in DOMAIN handed' : handed'[i][1] \in Text => handed'[i][2]
  <2> DEFINE b == d \in Text
  <2>1. b \in BOOLEAN /\ (d \in Text => b) /\ handed' = Append(handed, <<d, b>>)
    BY <1>1
  <2> HIDE DEF b
  <2>2. QED
    BY <1>2, <2>1, Handing
<1>4. /\ \A s \in Socket : In(s)' = In(s) /\ (SocketOpen(s)' <=> SocketOpen(s))
      /\ \A e : Gone(e)' = Gone(e)
  BY QueuesKept DEF Gone, SocketOpen
<1>5. UdpTypeOK'
  BY <1>3 DEF UdpInv, UdpTypeOK
<1>6. WaitsOnce'
  <2>1. \A t \in Socket : \A e \in In(t) : Gone(e)'
    BY <1>4 DEF UdpInv, WaitsOnce
  <2>2. QED
    BY <2>1, QueuesKept, WaitsLess
<1>7. ResultOnce'
  BY <1>2, <1>3, <1>4 DEF UdpInv, UdpTypeOK, ResultOnce
<1>8. HandedOnce'
  <2>1. \A e \in Got' : Gone(e)' /\ \A t \in Socket : e \notin In(t)'
    BY <1>2, <1>3, <1>4 DEF UdpInv, HandedOnce
  <2>2. QED
    BY <1>3, <2>1 DEF HandedOnce
<1>9. Tasks'
  BY <1>4 DEF UdpInv, UdpTypeOK, Tasks
<1>10. QED
  BY <1>4, <1>5, <1>6, <1>7, <1>8, <1>9, FlowKept DEF UdpInv

LEMMA StepDropReceive ==
  ASSUME UdpInv, NEW r \in RecvCall, DropReceive(r)
  PROVE  UdpInv'
<1> USE DEF DropReceive
<1>1. /\ \A s \in Socket : In(s)' = In(s) /\ (SocketOpen(s)' <=> SocketOpen(s))
      /\ \A e : Gone(e)' = Gone(e)
      /\ Got' = Got
  BY QueuesKept, HandedKept DEF Gone, SocketOpen
<1>2. UdpTypeOK'
  BY DEF UdpInv, UdpTypeOK
<1>3. WaitsOnce'
  <2>1. \A t \in Socket : \A e \in In(t) : Gone(e)'
    BY <1>1 DEF UdpInv, WaitsOnce
  <2>2. QED
    BY <2>1, QueuesKept, WaitsLess
<1>4. ResultOnce'
  BY <1>1 DEF UdpInv, UdpTypeOK, ResultOnce
<1>5. HandedOnce'
  BY <1>1, HandedKept DEF UdpInv, HandedOnce
<1>6. Tasks'
  BY <1>1 DEF UdpInv, UdpTypeOK, Tasks
<1>7. QED
  BY <1>1, <1>2, <1>3, <1>4, <1>5, <1>6, FlowKept DEF UdpInv

LEMMA StepCloseSocket ==
  ASSUME UdpInv, NEW s \in Socket, CloseSocket(s)
  PROVE  UdpInv'
<1> USE DEF CloseSocket
<1>1. \A t \in Socket : SocketOpen(t)' => SocketOpen(t)
  BY DEF SocketOpen, UdpInv, UdpTypeOK
<1>2. /\ queued' \in [Socket -> Seq(Datagram)]
      /\ \A t \in Socket :
           /\ In(t)' \subseteq In(t)
           /\ \A i, j \in DOMAIN queued'[t] : queued'[t][i] = queued'[t][j] => i = j
           /\ Flow(t)'
  BY <1>1, Closing
<1>3. Got' = Got /\ \A e : Gone(e)' = Gone(e)
  BY HandedKept DEF Gone
<1>4. UdpTypeOK'
  BY <1>2 DEF UdpInv, UdpTypeOK
<1>5. WaitsOnce'
  <2>1. \A t \in Socket : \A e \in In(t) : Gone(e)'
    BY <1>3 DEF UdpInv, WaitsOnce
  <2>2. QED
    BY <1>2, <2>1, WaitsLess
<1>6. ResultOnce'
  BY <1>2, <1>3 DEF UdpInv, ResultOnce
<1>7. HandedOnce'
  <2>1. \A e \in Got' : Gone(e)' /\ \A t \in Socket : e \notin In(t)'
    BY <1>2, <1>3 DEF UdpInv, HandedOnce
  <2>2. QED
    BY <2>1, HandedKept DEF HandedOnce
<1>8. Tasks'
  BY <1>1 DEF UdpInv, UdpTypeOK, Tasks
<1>9. QED
  BY <1>2, <1>4, <1>5, <1>6, <1>7, <1>8 DEF UdpInv

-----------------------------------------------------------------------------
(* UDP: what follows.                                                      *)

LEMMA UdpInitially == UdpInit => UdpInv
<1> SUFFICES ASSUME UdpInit PROVE UdpInv
  OBVIOUS
<1>1. /\ <<>> \in Seq(Datagram) /\ <<>> \in Seq(Datagram \X BOOLEAN) /\ DOMAIN <<>> = {}
  BY EmptySeq, LenProperties
<1>2. UdpTypeOK
  BY <1>1 DEF UdpInit, UdpTypeOK
<1>3. Got = {} /\ \A s \in Socket : In(s) = {} /\ ~SocketOpen(s)
  BY <1>1 DEF UdpInit, Got, In, SocketOpen
<1>4. WaitsOnce /\ ResultOnce /\ HandedOnce
  BY <1>1, <1>3 DEF UdpInit, WaitsOnce, ResultOnce, HandedOnce
<1>5. Tasks
  BY <1>3 DEF UdpInit, Tasks
<1>6. \A s \in Socket : Flow(s)
  <2>1. <<>> = SubSeq(<<>>, 1, Len(<<>>))
    <3>1. <<>> \o <<>> = <<>>
      BY <1>1, ConcatEmptySeq
    <3>2. QED
      BY <1>1, <3>1, TakenPart
  <2>2. QED
    BY <1>3, <2>1 DEF UdpInit, Flow
<1>7. QED
  BY <1>2, <1>4, <1>5, <1>6 DEF UdpInv

LEMMA UdpInductive == UdpSpec => []UdpInv
<1>1. UdpInit => UdpInv
  BY UdpInitially
<1>2. UdpInv /\ [UdpNext]_udpVars => UdpInv'
  <2> SUFFICES ASSUME UdpInv, [UdpNext]_udpVars PROVE UdpInv'
    OBVIOUS
  <2>1. CASE UNCHANGED udpVars
    <3>1. /\ UdpTypeOK'
          /\ \A s \in Socket : SocketOpen(s)' = SocketOpen(s) /\ In(s)' = In(s)
          /\ Got' = Got /\ \A d : Gone(d)' = Gone(d)
      BY <2>1 DEF udpVars, UdpInv, UdpTypeOK, SocketOpen, In, Got, Gone
    <3>2. WaitsOnce' /\ ResultOnce' /\ HandedOnce'
      BY <2>1, <3>1 DEF udpVars, UdpInv, WaitsOnce, ResultOnce, HandedOnce
    <3>3. Tasks' /\ \A s \in Socket : Flow(s)'
      BY <2>1, <3>1 DEF udpVars, UdpInv, Tasks, Flow
    <3>4. QED
      BY <3>1, <3>2, <3>3 DEF UdpInv
  <2>2. ASSUME NEW s \in Socket, Bind(s) \/ RecvFrom(s) \/ CloseSocket(s)
        PROVE  UdpInv'
    BY <2>2, StepBind, StepRecvFrom, StepCloseSocket
  <2>3. ASSUME NEW d \in Datagram, NEW s \in Socket,
               SendTo(d, s) \/ SendToAsync(d, s) \/ TaskSends(d, s)
        PROVE  UdpInv'
    BY <2>3, StepSendTo, StepSendToAsync, StepTaskSends
  <2>4. ASSUME NEW r \in RecvCall, NEW s \in Socket,
               RecvFromAsync(r, s) \/ TaskReceives(r, s) \/ ReceiveFails(r, s)
        PROVE  UdpInv'
    BY <2>4, StepRecvFromAsync, StepTaskReceives, StepReceiveFails
  <2>5. ASSUME NEW r \in RecvCall, AwaitReceive(r) \/ DropReceive(r)
        PROVE  UdpInv'
    BY <2>5, StepAwaitReceive, StepDropReceive
  <2>6. QED
    BY <2>1, <2>2, <2>3, <2>4, <2>5 DEF UdpNext
<1>3. QED
  BY <1>1, <1>2, PTL DEF UdpSpec

\* Where a datagram can be.
LEMMA PlaceKinds ==
  ASSUME NEW d, NEW p
  PROVE  p \in Places(d) <=>
           \/ \E s \in Socket : \E i \in DOMAIN queued[s] : queued[s][i] = d /\ p = <<"waiting", s, i>>
           \/ \E r \in RecvCall : d \in result[r] /\ p = <<"result", r>>
           \/ \E i \in DOMAIN handed : handed[i][1] = d /\ p = <<"handed", i>>
<1> DEFINE inQueue(s) == {<<"waiting", s, i>> : i \in {j \in DOMAIN queued[s] : queued[s][j] = d}}
           results == {<<"result", r>> : r \in {c \in RecvCall : d \in result[c]}}
           taken == {<<"handed", i>> : i \in {j \in DOMAIN handed : handed[j][1] = d}}
           all == UNION {inQueue(s) : s \in Socket}
<1>1. Places(d) = all \cup results \cup taken
  BY Zenon DEF Places
<1>2. p \in all <=> \E s \in Socket : p \in inQueue(s)
  OBVIOUS
<1>3. \A s : p \in inQueue(s) <=>
               \E i \in DOMAIN queued[s] : queued[s][i] = d /\ p = <<"waiting", s, i>>
  OBVIOUS
<1>4. p \in results <=> \E r \in RecvCall : d \in result[r] /\ p = <<"result", r>>
  OBVIOUS
<1>5. p \in taken <=> \E i \in DOMAIN handed : handed[i][1] = d /\ p = <<"handed", i>>
  OBVIOUS
<1> HIDE DEF all, results, taken, inQueue
<1>6. QED
  BY <1>1, <1>2, <1>3, <1>4, <1>5

\* udp.rs hands every datagram of a socket to one receive at most, and the script gets it
\* at most once, in the order the datagrams came to the socket and intact if it is text,
\* however calls, tasks and close are interleaved.
THEOREM DatagramsAreTakenOnce == UdpSpec => []OneTaker
<1>1. UdpInv => OneTaker
  <2> SUFFICES ASSUME UdpInv PROVE OneTaker
    OBVIOUS
  <2>1. ASSUME NEW d \in Datagram, NEW p \in Places(d), NEW q \in Places(d)
        PROVE  p = q
    <3>1. CASE \E s \in Socket : d \in In(s)
      <4>1. PICK s \in Socket : d \in In(s)
        BY <3>1
      <4>2. PICK i \in DOMAIN queued[s] : queued[s][i] = d
        BY <4>1 DEF In
      <4>3. \A t \in Socket : \A j \in DOMAIN queued[t] : queued[t][j] = d => t = s /\ j = i
        <5>1. \A t \in Socket : \A j \in DOMAIN queued[t] : queued[t][j] = d => t = s
          BY <4>1 DEF In, UdpInv, WaitsOnce
        <5>2. \A j \in DOMAIN queued[s] : queued[s][j] = d => j = i
          BY <4>2 DEF UdpInv, WaitsOnce
        <5>3. QED
          BY <5>1, <5>2
      <4>4. /\ \A r \in RecvCall : d \notin result[r]
            /\ \A j \in DOMAIN handed : handed[j][1] # d
        BY <4>1 DEF UdpInv, ResultOnce, HandedOnce, Got
      <4>5. p = <<"waiting", s, i>> /\ q = <<"waiting", s, i>>
        BY <4>3, <4>4, PlaceKinds
      <4>6. QED
        BY <4>5
    <3>2. CASE \A s \in Socket : d \notin In(s)
      <4>1. \A s \in Socket : \A i \in DOMAIN queued[s] : queued[s][i] # d
        BY <3>2 DEF In
      <4>2. CASE \E r \in RecvCall : d \in result[r]
        <5>1. PICK r \in RecvCall : d \in result[r]
          BY <4>2
        <5>2. /\ \A c \in RecvCall : d \in result[c] => c = r
              /\ \A j \in DOMAIN handed : handed[j][1] # d
          BY <5>1 DEF UdpInv, ResultOnce, Got
        <5>3. p = <<"result", r>> /\ q = <<"result", r>>
          BY <4>1, <5>2, PlaceKinds
        <5>4. QED
          BY <5>3
      <4>3. CASE \A r \in RecvCall : d \notin result[r]
        <5>1. PICK i \in DOMAIN handed : handed[i][1] = d /\ p = <<"handed", i>>
          BY <4>1, <4>3, PlaceKinds
        <5>2. PICK j \in DOMAIN handed : handed[j][1] = d /\ q = <<"handed", j>>
          BY <4>1, <4>3, PlaceKinds
        <5>3. i = j
          BY <5>1, <5>2 DEF UdpInv, HandedOnce
        <5>4. QED
          BY <5>1, <5>2, <5>3
      <4>4. QED
        BY <4>2, <4>3
    <3>3. QED
      BY <3>1, <3>2
  <2>2. \A i \in DOMAIN handed : handed[i][1] \in Text => handed[i][2]
    BY DEF UdpInv, HandedOnce
  <2>3. \A s \in Socket :
          IF SocketOpen(s) THEN came[s] = went[s] \o queued[s]
          ELSE queued[s] = <<>> /\ went[s] = SubSeq(came[s], 1, Len(went[s]))
    BY DEF UdpInv, Flow
  <2>4. QED
    BY <2>1, <2>2, <2>3 DEF OneTaker
<1>2. QED
  BY <1>1, UdpInductive, PTL

-----------------------------------------------------------------------------
(* Files: what their types say is enough for what appends do.              *)

FileKinds == {"write", "append", "download", "copy"}

FileCall ==
  {o \in [no : Nat, kind : FileKinds \cup {"none", "delete"}, path : Path, src : SUBSET Inode,
          bytes : Seq(Nat), step : {"idle", "called", "open", "broken", "done"},
          file : SUBSET Inode, at : Nat] :
     o.kind = "copy" => o.src # {}}

FilePiece == [no : Nat, kind : {"append", "download"}, file : Inode, at : Nat, bytes : Seq(Nat)]

FilesInv ==
  /\ name \in [Path -> SUBSET Inode]
  /\ data \in [Inode -> Seq(Nat)]
  /\ op \in [Actor -> FileCall]
  /\ loose \subseteq FilePiece
  /\ calls \in Nat

LEMMA PathsThereAre == AnyPath \in Path
  BY FilesAssumption DEF AnyPath

LEMMA RestingCalls == \A step \in {"idle", "done"} : Resting(AnyPath, step) \in FileCall
  BY PathsThereAre, EmptySeq DEF Resting, Doing, FileCall

LEMMA Overlaid ==
  ASSUME NEW old \in Seq(Nat), NEW at \in Nat, NEW new \in Seq(Nat)
  PROVE  Overlay(old, at, new) \in Seq(Nat)
<1> DEFINE end == at + Len(new)
           long == IF end > Len(old) THEN end ELSE Len(old)
           byte(i) == IF i \in (at + 1)..end THEN new[i - at] ELSE IF i <= Len(old) THEN old[i] ELSE 0
<1>1. end \in Nat /\ long \in Nat
  OBVIOUS
<1>2. \A i \in 1..long : byte(i) \in Nat
  OBVIOUS
<1>3. [i \in 1..long |-> byte(i)] \in Seq(Nat)
  <2> HIDE DEF long, byte
  <2>1. [i \in 1..long |-> byte(i)] \in [1..long -> Nat]
    BY <1>2
  <2>2. QED
    BY <1>1, <2>1, SeqDef
<1>4. QED
  BY <1>3 DEF Overlay

\* A sequence in two parts.
LEMMA Halves ==
  ASSUME NEW s \in Seq(Nat), NEW n \in 0..Len(s)
  PROVE  /\ SubSeq(s, 1, n) \in Seq(Nat) /\ Len(SubSeq(s, 1, n)) = n
         /\ SubSeq(s, n + 1, Len(s)) \in Seq(Nat)
         /\ SubSeq(s, 1, n) \o SubSeq(s, n + 1, Len(s)) = s
<1>1. Len(s) \in Nat /\ n \in Nat /\ n <= Len(s) /\ \A i \in 1..Len(s) : s[i] \in Nat
  BY LenProperties, ElementOfSeq
<1>2. SubSeq(s, 1, n) \in Seq(Nat) /\ Len(SubSeq(s, 1, n)) = n
  <2>1. 1 \in Int /\ n \in Int /\ \A i \in 1..n : s[i] \in Nat
    BY <1>1
  <2>2. SubSeq(s, 1, n) \in Seq(Nat) /\ Len(SubSeq(s, 1, n)) = IF 1 <= n THEN n - 1 + 1 ELSE 0
    BY <2>1, SubSeqProperties
  <2>3. QED
    BY <1>1, <2>2
<1>3. SubSeq(s, n + 1, Len(s)) \in Seq(Nat)
  <2>1. n + 1 \in Int /\ Len(s) \in Int /\ \A i \in n + 1..Len(s) : s[i] \in Nat
    BY <1>1
  <2>2. QED
    BY <2>1, SubSeqProperties
<1>4. SubSeq(s, 1, n) \o SubSeq(s, n + 1, Len(s)) = s
  <2>1. 1 \in 1..Len(s) + 1 /\ n \in 1 - 1..Len(s) /\ Len(s) \in n..Len(s)
    BY <1>1
  <2>2. SubSeq(s, 1, n) \o SubSeq(s, n + 1, Len(s)) = SubSeq(s, 1, Len(s))
    BY <2>1, ConcatAdjacentSubSeq
  <2>3. QED
    BY <2>2, SubSeqFull
<1>5. QED
  BY <1>2, <1>3, <1>4

\* A file that has all it had.
Keeps(i) == SubSeq(data'[i], 1, Len(data[i])) = data[i]

LEMMA KeepsSame ==
  ASSUME NEW d \in Seq(Nat)
  PROVE  SubSeq(d, 1, Len(d)) = d
  BY SubSeqFull

LEMMA KeepsLonger ==
  ASSUME NEW d \in Seq(Nat), NEW e \in Seq(Nat)
  PROVE  SubSeq(d \o e, 1, Len(d)) = d
<1> DEFINE s == SubSeq(d \o e, 1, Len(d))
<1>1. /\ Len(d) \in Nat /\ Len(e) \in Nat
      /\ \A i \in 1..Len(d) : (d \o e)[i] = d[i] /\ d[i] \in Nat
  BY ConcatProperties, ElementOfSeq
<1>2. s \in Seq(Nat) /\ Len(s) = Len(d) /\ \A i \in 1..Len(d) : s[i] = d[i]
  <2> DEFINE de == d \o e
  <2>0. 1 \in Int /\ Len(d) \in Int /\ \A i \in 1..Len(d) : de[i] \in Nat /\ de[i] = d[i]
    BY <1>1
  <2> HIDE DEF de
  <2>1. /\ SubSeq(de, 1, Len(d)) \in Seq(Nat)
        /\ Len(SubSeq(de, 1, Len(d))) = IF 1 <= Len(d) THEN Len(d) - 1 + 1 ELSE 0
        /\ \A i \in 1..Len(d) - 1 + 1 : SubSeq(de, 1, Len(d))[i] = de[1 + i - 1]
    BY <2>0, SubSeqProperties
  <2>2. QED
    BY <1>1, <2>0, <2>1 DEF de
<1> HIDE DEF s
<1>3. s = d
  BY <1>2, SeqEqual
<1>4. QED
  BY <1>3 DEF s

LEMMA FilesInitially == FilesInit => FilesInv
  BY RestingCalls, EmptySeq DEF FilesInit, FilesInv

\* What a step does to the files that have names.
FilesKept ==
  \A p, q \in Path : \A i \in name[p] \cap name'[q] :
    Truncating(i) \/ Truncating(i)' \/ Keeps(i)

LEMMA SameData ==
  ASSUME FilesInv, data' = data
  PROVE  FilesKept
<1>1. \A p \in Path : \A i \in name[p] : data[i] \in Seq(Nat)
  BY DEF FilesInv
<1>2. QED
  BY <1>1, KeepsSame DEF FilesKept, Keeps

\* A call that is over leaves the actor at rest.
LEMMA Returned ==
  ASSUME FilesInv, NEW a \in Actor, NEW end, Return(a, end)
  PROVE  op' \in [Actor -> FileCall]
  BY RestingCalls DEF FilesInv, Return

LEMMA RestIsText ==
  ASSUME FilesInv, NEW a \in Actor
  PROVE  Rest(a) \in Seq(Nat)
<1> DEFINE all == IF op[a].kind = "copy" THEN data[CHOOSE i \in op[a].src : TRUE] ELSE op[a].bytes
<1>1. op[a] \in FileCall
  BY DEF FilesInv
<1>2. all \in Seq(Nat) /\ op[a].at \in Nat
  BY <1>1 DEF FilesInv, FileCall
<1> HIDE DEF all
<1>3. /\ op[a].at + 1 \in Int /\ Len(all) \in Int
      /\ \A i \in op[a].at + 1..Len(all) : all[i] \in Nat
  BY <1>2, LenProperties, ElementOfSeq
<1>4. SubSeq(all, op[a].at + 1, Len(all)) \in Seq(Nat)
  BY <1>3, SubSeqProperties
<1>5. QED
  BY <1>4 DEF Rest, all

LEMMA FilesFail ==
  ASSUME FilesInv, NEW a \in Actor, Fail(a) \/ Finish(a)
  PROVE  FilesInv' /\ FilesKept
<1>1. UNCHANGED <<name, data, loose, calls>> /\ \E end : Return(a, end)
  BY DEF Fail, Finish
<1>2. op' \in [Actor -> FileCall]
  BY <1>1, Returned
<1>3. QED
  BY <1>1, <1>2, SameData DEF FilesInv

LEMMA FilesOpen ==
  ASSUME FilesInv, NEW a \in Actor, Open(a)
  PROVE  FilesInv' /\ FilesKept
<1> DEFINE p == op[a].path
<1>1. op[a] \in FileCall /\ p \in Path /\ name[p] \subseteq Inode
  BY DEF FilesInv, FileCall
<1>2. PICK i \in Inode :
        /\ name[p] = {} => Unused(i)
        /\ op[a].kind \in FileKinds
        /\ data' = IF op[a].kind = "append" /\ name[p] # {} THEN data ELSE [data EXCEPT ![i] = <<>>]
        /\ name' = [name EXCEPT ![p] = {i}]
        /\ op' = [op EXCEPT ![a] = [op[a] EXCEPT !.step = "open", !.file = {i}]]
        /\ loose' = loose /\ calls' = calls
  <2> DEFINE i == IF name[p] # {} THEN CHOOSE i \in name[p] : TRUE ELSE CHOOSE i \in Inode : Unused(i)
  <2>1. i \in Inode /\ (name[p] = {} => Unused(i))
    BY <1>1 DEF Open
  <2>2. QED
    BY <2>1 DEF Open, At, FileKinds
<1>3. [op[a] EXCEPT !.step = "open", !.file = {i}] \in FileCall
  BY <1>1 DEF FileCall
<1>4. name' \in [Path -> SUBSET Inode] /\ data' \in [Inode -> Seq(Nat)] /\ op' \in [Actor -> FileCall]
  BY <1>2, <1>3, EmptySeq DEF FilesInv
<1>5. FilesInv'
  BY <1>2, <1>4 DEF FilesInv
<1>6. FilesKept
  <2>1. CASE data' = data
    BY <2>1, SameData
  <2>2. CASE op[a].kind = "append" /\ name[p] = {}
    <3>1. \A q \in Path : i \notin name[q]
      BY <1>2, <2>2 DEF Unused
    <3>2. \A q \in Path : \A j \in name[q] : data'[j] = data[j] /\ data[j] \in Seq(Nat)
      BY <1>2, <3>1 DEF FilesInv
    <3>3. QED
      BY <3>2, KeepsSame DEF FilesKept, Keeps
  <2>3. CASE op[a].kind # "append"
    <3>1. op'[a].file = {i} /\ op'[a].kind \in {"write", "copy", "download"}
      BY <1>1, <1>2, <2>3 DEF FilesInv, FileCall, FileKinds
    <3>2. Truncating(i)'
      BY <3>1 DEF Truncating
    <3>3. \A q \in Path : \A j \in name[q] : data[j] \in Seq(Nat) /\ (j # i => data'[j] = data[j])
      BY <1>2 DEF FilesInv
    <3>4. \A q \in Path : \A j \in name[q] : j = i \/ Keeps(j)
      BY <3>3, KeepsSame DEF Keeps
    <3>5. QED
      BY <3>2, <3>4 DEF FilesKept
  <2>4. QED
    BY <1>2, <2>1, <2>2, <2>3
<1>7. QED
  BY <1>5, <1>6

\* A part is written to one file, to its end or by who may write elsewhere.
LEMMA WritesTo ==
  ASSUME FilesInv, NEW kind, NEW i \in Inode, NEW at \in Nat, NEW part \in Seq(Nat),
         kind = "append" \/ Truncating(i),
         data' = Into(kind, i, at, part)
  PROVE  data' \in [Inode -> Seq(Nat)] /\ FilesKept
<1>1. data[i] \in Seq(Nat)
  BY DEF FilesInv
<1>2. Overlay(data[i], at, part) \in Seq(Nat) /\ data[i] \o part \in Seq(Nat)
  BY <1>1, Overlaid, ConcatProperties
<1>3. data' = [data EXCEPT ![i] = IF kind = "append" THEN data[i] \o part
                                  ELSE Overlay(data[i], at, part)]
  BY DEF Into
<1>4. Truncating(i) \/ Keeps(i)
  <2>1. CASE kind = "append"
    BY <1>1, <1>3, <2>1, KeepsLonger DEF FilesInv, Keeps
  <2>2. QED
    BY <2>1
<1>5. \A q \in Path : \A j \in name[q] : data[j] \in Seq(Nat) /\ (j # i => data'[j] = data[j])
  BY <1>3 DEF FilesInv
<1>6. FilesKept
  BY <1>4, <1>5, KeepsSame DEF FilesKept, Keeps
<1>7. QED
  BY <1>2, <1>3, <1>6 DEF FilesInv

\* A call has gone on by some bytes.
LEMMA Further ==
  ASSUME FilesInv, NEW a \in Actor, NEW n \in Nat, op' = [op EXCEPT ![a].at = @ + n]
  PROVE  op' \in [Actor -> FileCall]
<1>1. op[a] \in FileCall /\ op[a].at \in Nat
  BY DEF FilesInv, FileCall
<1>2. op[a].at + n \in Nat
  BY <1>1
<1>3. PICK at \in Nat : at = op[a].at + n
  BY <1>2
<1>4. [op[a] EXCEPT !.at = at] \in FileCall
  BY <1>1 DEF FileCall
<1>5. op' = [op EXCEPT ![a] = [op[a] EXCEPT !.at = at]]
  BY <1>3
<1>6. QED
  BY <1>4, <1>5 DEF FilesInv

LEMMA FilesWrite ==
  ASSUME FilesInv, NEW a \in Actor, Write(a)
  PROVE  FilesInv' /\ FilesKept
<1>1. PICK i \in op[a].file, n \in 1..Len(Rest(a)) :
        /\ op[a].kind \in {"write", "append", "copy"}
        /\ data' = Into(op[a].kind, i, op[a].at, SubSeq(Rest(a), 1, n))
        /\ op' = [op EXCEPT ![a].at = @ + n]
        /\ UNCHANGED <<name, loose, calls>>
  BY DEF Write, At
<1>2. Rest(a) \in Seq(Nat) /\ Len(Rest(a)) \in Nat
  BY RestIsText, LenProperties
<1>3. SubSeq(Rest(a), 1, n) \in Seq(Nat) /\ n \in Nat
  BY <1>2, Halves
<1>4. i \in Inode /\ op[a].at \in Nat
  BY DEF FilesInv, FileCall
<1>5. op[a].kind = "append" \/ Truncating(i)
  BY <1>1 DEF Truncating
<1>6. data' \in [Inode -> Seq(Nat)] /\ FilesKept
  BY <1>1, <1>3, <1>4, <1>5, WritesTo
<1>7. op' \in [Actor -> FileCall]
  BY <1>1, <1>3, Further
<1>8. QED
  BY <1>1, <1>6, <1>7 DEF FilesInv

LEMMA FilesPiece ==
  ASSUME FilesInv, NEW a \in Actor, Piece(a)
  PROVE  FilesInv' /\ FilesKept
<1> DEFINE piece(i, n) == [no |-> op[a].no, kind |-> op[a].kind, file |-> i,
                           at |-> op[a].at, bytes |-> SubSeq(Rest(a), 1, n)]
<1>1. PICK i \in op[a].file, n \in 1..Len(Rest(a)) :
        /\ op[a].kind \in {"append", "download"}
        /\ loose' = loose \cup {piece(i, n)}
        /\ op' = [op EXCEPT ![a].at = @ + n]
        /\ UNCHANGED <<name, data, calls>>
  BY DEF Piece, At
<1>2. Rest(a) \in Seq(Nat) /\ Len(Rest(a)) \in Nat
  BY RestIsText, LenProperties
<1>3. SubSeq(Rest(a), 1, n) \in Seq(Nat) /\ n \in Nat
  BY <1>2, Halves
<1>4. i \in Inode /\ op[a].at \in Nat /\ op[a].no \in Nat
  BY DEF FilesInv, FileCall
<1>5. piece(i, n) \in FilePiece
  BY <1>1, <1>3, <1>4 DEF FilePiece
<1> HIDE DEF piece
<1>6. op' \in [Actor -> FileCall]
  BY <1>1, <1>3, Further
<1>7. QED
  BY <1>1, <1>5, <1>6, SameData DEF FilesInv

LEMMA FilesSettle ==
  ASSUME FilesInv, NEW x \in loose, Settle(x)
  PROVE  FilesInv' /\ FilesKept
<1> DEFINE later(n) == [x EXCEPT !.at = @ + n, !.bytes = SubSeq(@, n + 1, Len(@))]
<1>1. x \in FilePiece /\ x.bytes \in Seq(Nat) /\ x.at \in Nat /\ x.file \in Inode
  BY DEF FilesInv, FilePiece
<1>2. PICK n \in 1..Len(x.bytes) :
        /\ data' = Into(x.kind, x.file, x.at, SubSeq(x.bytes, 1, n))
        /\ loose' = (loose \ {x}) \cup (IF n = Len(x.bytes) THEN {} ELSE {later(n)})
        /\ UNCHANGED <<name, op, calls>>
  BY DEF Settle
<1>3. /\ n \in Nat /\ SubSeq(x.bytes, 1, n) \in Seq(Nat)
      /\ SubSeq(x.bytes, n + 1, Len(x.bytes)) \in Seq(Nat)
  BY <1>1, Halves, LenProperties
<1>4. later(n) \in FilePiece
  <2>1. PICK at \in Nat : at = x.at + n
    BY <1>1, <1>3
  <2>2. PICK bytes \in Seq(Nat) : bytes = SubSeq(x.bytes, n + 1, Len(x.bytes))
    BY <1>3
  <2>3. later(n) = [x EXCEPT !.at = at, !.bytes = bytes]
    BY <2>1, <2>2
  <2>4. QED
    BY <1>1, <2>3 DEF FilePiece
<1> HIDE DEF later
<1>5. loose' \subseteq FilePiece
  BY <1>2, <1>4 DEF FilesInv
<1>6. x.kind = "append" \/ Truncating(x.file)
  BY <1>1 DEF Truncating, FilePiece
<1>7. data' \in [Inode -> Seq(Nat)] /\ FilesKept
  BY <1>1, <1>2, <1>3, <1>6, WritesTo
<1>8. QED
  BY <1>2, <1>5, <1>7 DEF FilesInv

LEMMA FilesSpill ==
  ASSUME FilesInv, NEW x \in loose, Spill(x)
  PROVE  FilesInv' /\ FilesKept
<1>1. \A a \in Actor : [op[a] EXCEPT !.step = "broken"] \in FileCall /\ op[a] \in FileCall
  BY DEF FilesInv, FileCall
<1>2. op' \in [Actor -> FileCall]
  BY <1>1 DEF Spill
<1>3. QED
  BY <1>2, SameData DEF Spill, FilesInv

LEMMA FilesRemove ==
  ASSUME FilesInv, NEW a \in Actor, Look(a) \/ RemoveName(a)
  PROVE  FilesInv' /\ FilesKept
<1>1. UNCHANGED <<data, loose, calls>>
  BY DEF Look, RemoveName
<1>2. name' \in [Path -> SUBSET Inode]
  BY DEF FilesInv, Look, RemoveName
<1>3. CASE Look(a)
  <2>1. op' = [op EXCEPT ![a] = [op[a] EXCEPT !.step = "open"]] /\ op[a] \in FileCall
    BY <1>3 DEF Look, FilesInv
  <2>2. [op[a] EXCEPT !.step = "open"] \in FileCall
    BY <2>1 DEF FileCall
  <2>3. QED
    BY <1>1, <1>2, <2>1, <2>2, SameData DEF FilesInv
<1>4. CASE RemoveName(a)
  <2>1. op' \in [Actor -> FileCall]
    BY <1>4, Returned DEF RemoveName
  <2>2. QED
    BY <1>1, <1>2, <2>1, SameData DEF FilesInv
<1>5. QED
  BY <1>3, <1>4

LEMMA FilesCalls ==
  ASSUME FilesInv, NEW a \in Actor, NEW p \in Path,
         \/ \E kind \in {"write", "append", "download"}, c \in Contents : Put(a, kind, p, c)
         \/ Delete(a, p)
         \/ \E from \in Path : Copy(a, from, p)
  PROVE  FilesInv' /\ FilesKept
<1>1. \E kind \in FileKinds \cup {"delete"}, src \in SUBSET Inode, bytes \in Seq(Nat) :
        Makes(a, kind, p, src, bytes) /\ (kind = "copy" => src # {})
  <2>1. CASE \E kind \in {"write", "append", "download"}, c \in Contents : Put(a, kind, p, c)
    BY <2>1, FilesAssumption DEF Put, FileKinds
  <2>2. CASE Delete(a, p)
    <3>1. PICK src \in SUBSET Inode, bytes \in Seq(Nat) : src = {} /\ bytes = <<>>
      BY EmptySeq
    <3>2. Makes(a, "delete", p, src, bytes) /\ "delete" # "copy"
      BY <2>2, <3>1 DEF Delete
    <3>3. QED
      BY <3>2
  <2>3. CASE \E from \in Path : Copy(a, from, p)
    <3>1. PICK from \in Path : Copy(a, from, p)
      BY <2>3
    <3>2. PICK i \in name[from] : Makes(a, "copy", p, {i}, data[i])
      BY <3>1 DEF Copy
    <3>3. {i} \in SUBSET Inode /\ data[i] \in Seq(Nat) /\ {i} # {}
      BY DEF FilesInv
    <3>4. QED
      BY <3>2, <3>3 DEF FileKinds
  <2>4. QED
    BY <2>1, <2>2, <2>3
<1>2. PICK kind \in FileKinds \cup {"delete"}, src \in SUBSET Inode, bytes \in Seq(Nat) :
        Makes(a, kind, p, src, bytes) /\ (kind = "copy" => src # {})
  BY <1>1
<1>3. calls \in Nat /\ calls + 1 \in Nat
  BY DEF FilesInv
<1>4. Doing(calls + 1, kind, p, src, bytes, "called") \in FileCall
  BY <1>2, <1>3 DEF Doing, FileCall
<1>5. op' \in [Actor -> FileCall] /\ UNCHANGED <<name, data, loose>> /\ calls' = calls + 1
  BY <1>2, <1>4 DEF Makes, FilesInv
<1>6. QED
  BY <1>3, <1>5, SameData DEF FilesInv

LEMMA FilesAtOnce ==
  ASSUME FilesInv, NEW p \in Path,
         \/ \E q \in Path : Rename(p, q)
         \/ Mkdir(p)
         \/ Rmdir(p)
  PROVE  FilesInv' /\ FilesKept
<1>1. UNCHANGED <<data, op, loose>> /\ calls' = calls + 1
  BY DEF Rename, Mkdir, Rmdir, Atomic
<1>2. name' \in [Path -> SUBSET Inode]
  BY DEF FilesInv, Rename, Mkdir, Rmdir
<1>3. QED
  BY <1>1, <1>2, SameData DEF FilesInv

LEMMA FilesStep ==
  ASSUME FilesInv, [FilesNext]_filesVars
  PROVE  FilesInv' /\ FilesKept
<1>1. CASE UNCHANGED filesVars
  BY <1>1, SameData DEF filesVars, FilesInv
<1>2. CASE FilesNext
  BY <1>2, FilesFail, FilesOpen, FilesWrite, FilesPiece, FilesRemove, FilesCalls, FilesSettle,
     FilesSpill, FilesAtOnce DEF FilesNext
<1>3. QED
  BY <1>1, <1>2

\* In fs.rs and http.rs only writes, copies and downloads, and the last piece of a download
\* that failed, take from a file what it has: appends, of any number of scripts and tasks,
\* add to it.
THEOREM AppendsAdd == FilesSpec => AppendsOnlyAdd
<1>1. FilesInv /\ [FilesNext]_filesVars => FilesInv'
  BY FilesStep
<1>2. FilesInv /\ [FilesNext]_filesVars =>
        [\A p, q \in Path : \A i \in name[p] \cap name'[q] :
           Truncating(i) \/ Truncating(i)'
             \/ SubSeq(data'[i], 1, Len(data[i])) = data[i]]_filesVars
  BY FilesStep DEF FilesKept, Keeps
<1>3. QED
  BY <1>1, <1>2, FilesInitially, PTL DEF FilesSpec, AppendsOnlyAdd

-----------------------------------------------------------------------------
(* Files: calls that do not overlap.                                       *)

Fits(p) == IF name[p] = {} THEN ideal[p] = {} ELSE \A i \in name[p] : data[i] \in ideal[p]
Agree(P) == \A p \in P : Fits(p)

\* A name leads to one file at most, and a file has one name at most.
Names ==
  /\ \A p \in Path : \A i, j \in name[p] : i = j
  /\ \A p, q \in Path : \A i \in name[p] : i \in name[q] => p = q
  /\ ideal = [p \in Path |-> ideal[p]]

\* What the file that a call opens may have had.
Base(o) == IF o.kind = "append" /\ ideal[o.path] # {} THEN ideal[o.path] ELSE {<<>>}

\* Of the bytes of a call, pre is in its file i, mid on its way or given up, post to come.
Stands(o, i, pre, mid, post) ==
  /\ o.bytes = (pre \o mid) \o post
  /\ o.at = Len(pre \o mid)
  /\ \E b \in Seq(Nat) : b \in Base(o) /\ data[i] = b \o pre

OnWay(a, i, pre, mid) ==
  LET o == op[a]
  IN  \/ loose = {} /\ (mid = <<>> \/ o.step = "broken")
      \/ /\ loose = {[no |-> o.no, kind |-> o.kind, file |-> i, at |-> Len(pre), bytes |-> mid]}
         /\ ByPieces(o, a) /\ o.step = "open"

\* A copy of a file to another finds in it what it had.
SourceKept(o, i) == o.kind = "copy" => \E j \in Inode : o.src = {j} /\ (j # i => data[j] = o.bytes)

Opened(a) ==
  LET o == op[a]
  IN  \E i \in Inode :
        /\ name[o.path] = {i} /\ o.file = {i} /\ o.kind \in FileKinds
        /\ SourceKept(o, i)
        /\ IF o.kind = "copy" /\ o.src = {i}
           THEN data[i] = <<>> /\ loose = {} /\ o.step = "open"
           ELSE \E pre, mid, post \in Seq(Nat) : Stands(o, i, pre, mid, post) /\ OnWay(a, i, pre, mid)

\* What the call of a, on its own, has done so far to the file of its path.
Begun(a) ==
  LET o == op[a]
  IN  \/ /\ o.step = "called" /\ o.kind \in FileKinds \cup {"delete"} /\ o.at = 0
         /\ loose = {} /\ Fits(o.path)
         /\ o.kind = "copy" => \E j \in Inode : o.src = {j} /\ data[j] = o.bytes
      \/ o.step = "open" /\ o.kind = "delete" /\ loose = {} /\ Fits(o.path)
      \/ o.step \in {"open", "broken"} /\ o.kind \in FileKinds /\ Opened(a)

NoneUnderWay == \A a \in Actor : ~Busy(a)

AllOver == NoneUnderWay /\ loose = {} /\ Agree(Path)

UnderWay(a) ==
  /\ Busy(a) /\ \A b \in Actor \ {a} : ~Busy(b)
  /\ Agree(Path \ {op[a].path}) /\ Begun(a)

\* A call is over whose last piece is on its way: however much of it gets there, it is
\* what it may be.
OnTheirWay(x) ==
  /\ NoneUnderWay /\ loose = {x}
  /\ \E p \in Path :
       /\ name[p] = {x.file}
       /\ x.kind = "append" \/ x.at = Len(data[x.file])
       /\ \A s \in Starts(x.bytes) : data[x.file] \o s \in ideal[p]
       /\ Agree(Path \ {p})

AloneInv ==
  ~overlap => \/ AllOver
              \/ \E a \in Actor : UnderWay(a)
              \/ \E x \in loose : OnTheirWay(x)

LEMMA JoinedOf ==
  ASSUME NEW X
  PROVE  \A s, t, u \in Seq(X) : (s \o t) \o u = s \o (t \o u)
<1>1. ASSUME NEW s \in Seq(X), NEW t \in Seq(X), NEW u \in Seq(X)
      PROVE  (s \o t) \o u = s \o (t \o u)
  BY ConcatAssociative
<1>2. QED
  BY <1>1

LEMMA Joined ==
  ASSUME NEW s \in Seq(Nat), NEW t \in Seq(Nat), NEW u \in Seq(Nat)
  PROVE  (s \o t) \o u = s \o (t \o u) /\ s \o t \in Seq(Nat) /\ t \o u \in Seq(Nat)
<1>1. (s \o t) \o u = s \o (t \o u)
  <2>1. PICK S : S = Nat
    OBVIOUS
  <2>2. s \in Seq(S) /\ t \in Seq(S) /\ u \in Seq(S)
    BY <2>1
  <2>3. QED
    BY SMTT(60), <2>2, JoinedOf
<1>2. QED
  BY <1>1, ConcatProperties

LEMMA Regroup == \A s, t, u \in Seq(Nat) : (s \o t) \o u = s \o (t \o u)
  BY Joined

LEMMA EmptyWhole == \A s, t \in Seq(Nat) : s \o t = <<>> => s = <<>>
  BY ConcatEqualIffEmpty

LEMMA BothLong == \A s, t \in Seq(Nat) : s \o t \in Seq(Nat) /\ Len(s \o t) = Len(s) + Len(t)
  BY ConcatProperties

LEMMA Cut ==
  \A s \in Seq(Nat) : \A n \in 0..Len(s) :
    /\ SubSeq(s, 1, n) \in Seq(Nat) /\ Len(SubSeq(s, 1, n)) = n
    /\ SubSeq(s, n + 1, Len(s)) \in Seq(Nat)
    /\ s = SubSeq(s, 1, n) \o SubSeq(s, n + 1, Len(s))
  BY Halves

LEMMA StartsAre ==
  ASSUME NEW s \in Seq(Nat), NEW t \in Seq(Nat)
  PROVE  s \in Starts(s \o t)
<1>1. Len(s) \in Nat /\ Len(t) \in Nat /\ Len(s \o t) = Len(s) + Len(t)
  BY ConcatProperties, LenProperties
<1>2. Len(s) \in 0..Len(s \o t) /\ s = SubSeq(s \o t, 1, Len(s))
  BY <1>1, KeepsLonger
<1>3. QED
  BY <1>2 DEF Starts

LEMMA StartsSplit ==
  ASSUME NEW t \in Seq(Nat), NEW s \in Starts(t)
  PROVE  s \in Seq(Nat) /\ \E r \in Seq(Nat) : t = s \o r
<1>1. PICK n \in 0..Len(t) : s = SubSeq(t, 1, n)
  BY DEF Starts
<1>2. QED
  BY <1>1, Halves

\* A start of the rest of a sequence goes on from what is before it.
LEMMA StartsGoOn ==
  ASSUME NEW h \in Seq(Nat), NEW t \in Seq(Nat), NEW s \in Starts(t)
  PROVE  h \o s \in Starts(h \o t)
<1>1. PICK r \in Seq(Nat) : s \in Seq(Nat) /\ t = s \o r
  BY StartsSplit
<1>2. h \o s \in Seq(Nat) /\ (h \o s) \o r = h \o (s \o r)
  BY <1>1, Joined
<1>3. h \o s \in Starts((h \o s) \o r)
  BY <1>1, <1>2, StartsAre
<1>4. QED
  BY <1>1, <1>2, <1>3

LEMMA NothingStarts ==
  ASSUME NEW t \in Seq(Nat)
  PROVE  <<>> \in Starts(t) /\ t \in Starts(t)
<1>1. <<>> \in Seq(Nat) /\ <<>> \o t = t /\ t \o <<>> = t
  BY EmptySeq, ConcatEmptySeq
<1>2. QED
  BY <1>1, StartsAre

LEMMA Latter ==
  ASSUME NEW c \in Seq(Nat), NEW d \in Seq(Nat)
  PROVE  SubSeq(c \o d, Len(c) + 1, Len(c \o d)) = d
<1>1. Len(c) \in Nat /\ Len(d) \in Nat /\ Len(c \o d) = Len(c) + Len(d)
  BY ConcatProperties, LenProperties
<1>2. CASE d = <<>>
  <2>1. Len(d) = 0
    BY <1>2
  <2>2. Len(c) + 1 \in Int /\ Len(c \o d) \in Int /\ Len(c \o d) < Len(c) + 1
    BY <1>1, <2>1
  <2>3. QED
    BY <1>2, <2>2, SubSeqEmpty
<1>3. CASE d # <<>>
  <2>1. Len(d) # 0
    BY <1>3, EmptySeq
  <2>2. /\ Len(c) + 1 \in Len(c) + 1..Len(c) + Len(d)
        /\ Len(c) + Len(d) \in Len(c) + 1..Len(c) + Len(d)
    BY <1>1, <2>1
  <2>3. SubSeq(c \o d, Len(c) + 1, Len(c) + Len(d))
          = SubSeq(d, (Len(c) + 1) - Len(c), (Len(c) + Len(d)) - Len(c))
    BY <2>2, SubSeqOfConcat2
  <2>4. (Len(c) + 1) - Len(c) = 1 /\ (Len(c) + Len(d)) - Len(c) = Len(d)
    BY <1>1
  <2>5. QED
    BY <1>1, <2>3, <2>4, SubSeqFull
<1>4. QED
  BY <1>2, <1>3

\* To write on from the end is to add.
LEMMA OverlayAtEnd ==
  ASSUME NEW d \in Seq(Nat), NEW e \in Seq(Nat)
  PROVE  Overlay(d, Len(d), e) = d \o e
<1> DEFINE n == Len(d)
           m == Len(e)
           s == Overlay(d, n, e)
<1>1. n \in Nat /\ m \in Nat
  BY LenProperties
<1>2. /\ d \o e \in Seq(Nat) /\ Len(d \o e) = n + m
      /\ \A i \in 1 .. n + m : (d \o e)[i] = IF i <= n THEN d[i] ELSE e[i - n]
  BY ConcatProperties
<1>3. s = [i \in 1 .. (IF n + m > n THEN n + m ELSE n) |->
             IF i \in (n + 1) .. (n + m) THEN e[i - n] ELSE IF i <= n THEN d[i] ELSE 0]
  BY DEF Overlay
<1> HIDE DEF s, n, m
<1>4. (IF n + m > n THEN n + m ELSE n) = n + m
  BY <1>1
<1>5. \A i \in 1 .. n + m :
        (IF i \in (n + 1) .. (n + m) THEN e[i - n] ELSE IF i <= n THEN d[i] ELSE 0) = (d \o e)[i]
  <2>1. TAKE i \in 1 .. n + m
  <2>2. CASE i <= n
    <3>1. i \notin (n + 1) .. (n + m)
      BY <1>1, <2>2
    <3>2. QED
      BY <1>2, <2>2, <3>1
  <2>3. CASE ~(i <= n)
    <3>1. i \in (n + 1) .. (n + m)
      BY <1>1, <2>3
    <3>2. QED
      BY <1>2, <2>3, <3>1
  <2>4. QED
    BY <2>2, <2>3
<1>6. s = [i \in 1 .. n + m |-> (d \o e)[i]]
  BY <1>3, <1>4, <1>5
<1>7. d \o e = [i \in 1 .. n + m |-> (d \o e)[i]]
  BY <1>2, LenProperties, SeqDef
<1>8. QED
  BY <1>6, <1>7 DEF s, n

LEMMA WhatIsLeft ==
  ASSUME FilesInv, NEW a \in Actor, NEW i \in Inode,
         NEW pre \in Seq(Nat), NEW mid \in Seq(Nat), NEW post \in Seq(Nat),
         Stands(op[a], i, pre, mid, post), SourceKept(op[a], i),
         op[a].kind # "copy" \/ op[a].src # {i}
  PROVE  Rest(a) = post
<1> DEFINE all == IF op[a].kind = "copy" THEN data[CHOOSE j \in op[a].src : TRUE] ELSE op[a].bytes
<1>1. all = op[a].bytes
  <2>1. CASE op[a].kind = "copy"
    <3>1. PICK j \in Inode : op[a].src = {j} /\ (j # i => data[j] = op[a].bytes)
      BY <2>1 DEF SourceKept
    <3>2. j # i /\ (CHOOSE k \in op[a].src : TRUE) = j
      BY <2>1, <3>1
    <3>3. QED
      BY <2>1, <3>1, <3>2
  <2>2. QED
    BY <2>1
<1>2. PICK c \in Seq(Nat) : c = pre \o mid
  BY ConcatProperties
<1>3. op[a].bytes = c \o post /\ op[a].at = Len(c)
  BY <1>2 DEF Stands
<1>4. Rest(a) = SubSeq(all, op[a].at + 1, Len(all))
  BY DEF Rest
<1> HIDE DEF all
<1>5. QED
  BY <1>1, <1>3, <1>4, Latter

LEMMA NamesStep ==
  ASSUME FilesInv, Names, [FilesNext]_filesVars
  PROVE  Names'
<1>1. ASSUME name' = name,
             ideal' = ideal \/ ideal' = NoIdeal \/ \E p, v : ideal' = [ideal EXCEPT ![p] = v]
      PROVE  Names'
  BY <1>1 DEF Names, NoIdeal
<1>2. ASSUME NEW a \in Actor, NEW end, Return(a, end)
      PROVE  ideal' = ideal \/ \E p, v : ideal' = [ideal EXCEPT ![p] = v]
  BY <1>2 DEF Return
<1>3. ASSUME NEW a \in Actor, Fail(a) \/ Write(a) \/ Piece(a) \/ Finish(a) \/ Look(a)
      PROVE  Names'
  <2>1. name' = name
    BY <1>3 DEF Fail, Write, Piece, Finish, Look
  <2>2. ideal' = ideal \/ \E end : Return(a, end)
    BY <1>3 DEF Fail, Write, Piece, Finish, Look
  <2>3. QED
    BY <1>1, <1>2, <2>1, <2>2
<1>4. ASSUME NEW a \in Actor, Open(a)
      PROVE  Names'
  <2> DEFINE p == op[a].path
  <2>1. p \in Path /\ name[p] \subseteq Inode
    BY DEF FilesInv, FileCall
  <2>2. PICK i : (i \in name[p] \/ Unused(i)) /\ name' = [name EXCEPT ![p] = {i}]
    <3> DEFINE i == IF name[p] # {} THEN CHOOSE i \in name[p] : TRUE ELSE CHOOSE i \in Inode : Unused(i)
    <3>1. i \in name[p] \/ Unused(i)
      BY <1>4, <2>1 DEF Open
    <3>2. QED
      BY <1>4, <3>1 DEF Open
  <2>3. ideal' = ideal
    BY <1>4 DEF Open
  <2>4. name'[p] = {i} /\ \A q \in Path : q # p => name'[q] = name[q] /\ i \notin name[q]
    BY <2>1, <2>2 DEF FilesInv, Names, Unused
  <2> HIDE DEF p
  <2>5. QED
    BY <2>1, <2>3, <2>4 DEF Names
<1>5. ASSUME NEW a \in Actor, RemoveName(a)
      PROVE  Names'
  <2>1. name' = [name EXCEPT ![op[a].path] = {}] /\ Return(a, "ok")
    BY <1>5 DEF RemoveName
  <2>2. \A q \in Path : name'[q] \subseteq name[q]
    BY <2>1 DEF FilesInv
  <2>3. ideal' = [p \in Path |-> ideal'[p]]
    BY <1>2, <2>1 DEF Names
  <2>4. QED
    BY <2>2, <2>3 DEF Names
<1>6. ASSUME NEW a, NEW kind, NEW p, NEW src, NEW bytes, Makes(a, kind, p, src, bytes)
      PROVE  Names'
  BY <1>1, <1>6 DEF Makes, Overlapping
<1>7. ASSUME NEW x \in loose, Settle(x) \/ Spill(x)
      PROVE  Names'
  BY <1>1, <1>7 DEF Settle, Spill
<1>8. ASSUME NEW p \in Path, NEW q \in Path, Rename(p, q)
      PROVE  Names'
  <2>1. p # q
    BY <1>8 DEF Rename
  <2>2. CASE name' = name
    <3>1. ideal' = [r \in Path |-> ideal'[r]]
      BY <1>8 DEF Rename, Ideal, Names, NoIdeal
    <3>2. QED
      BY <2>2, <3>1 DEF Names
  <2>3. CASE name' = [name EXCEPT ![q] = name[p], ![p] = {}]
    <3>1. ideal' = [r \in Path |-> ideal'[r]]
      BY <1>8 DEF Rename, Ideal, Names, NoIdeal
    <3>2. /\ name'[p] = {} /\ name'[q] = name[p]
          /\ \A r \in Path : r # p /\ r # q => name'[r] = name[r]
      BY <2>1, <2>3 DEF FilesInv
    <3>3. QED
      BY <2>1, <3>1, <3>2 DEF Names
  <2>4. QED
    BY <1>8, <2>2, <2>3 DEF Rename
<1>9. ASSUME NEW p \in Path, Mkdir(p) \/ Rmdir(p)
      PROVE  Names'
  <2>1. name' = name /\ (ideal' = NoIdeal \/ ideal' = ideal)
    BY <1>9 DEF Mkdir, Rmdir, Atomic, Ideal
  <2>2. QED
    BY <1>1, <2>1
<1>10. CASE UNCHANGED filesVars
  BY <1>1, <1>10 DEF filesVars
<1>11. ASSUME NEW a \in Actor, NEW p \in Path,
              \/ \E kind \in {"write", "append", "download"}, c \in Contents : Put(a, kind, p, c)
              \/ Delete(a, p)
              \/ \E from \in Path : Copy(a, from, p)
       PROVE  Names'
  BY <1>6, <1>11 DEF Put, Delete, Copy
<1>12. QED
  BY <1>3, <1>4, <1>5, <1>7, <1>8, <1>9, <1>10, <1>11 DEF FilesNext

-----------------------------------------------------------------------------

\* A call that is under way while no other began is the only one.
LEMMA OnlyOne ==
  ASSUME AloneInv, ~overlap, NEW a \in Actor, Busy(a)
  PROVE  UnderWay(a)
  BY DEF AloneInv, AllOver, NoneUnderWay, UnderWay, OnTheirWay

LEMMA QuietIsOver ==
  ASSUME AloneInv, ~overlap, Quiet
  PROVE  AllOver
  BY DEF AloneInv, AllOver, NoneUnderWay, UnderWay, OnTheirWay, Quiet

\* What is done to one file leaves those of the other names as they are.
LEMMA OthersFit ==
  ASSUME FilesInv, Names, NEW p \in Path, NEW i \in Inode, name[p] = {i}, NEW v,
         name' = name, data' = [data EXCEPT ![i] = v], ideal' = ideal, Agree(Path \ {p})
  PROVE  Agree(Path \ {p})' /\ data'[i] = v /\ \A j \in Inode : j # i => data'[j] = data[j]
<1>1. data'[i] = v /\ \A j \in Inode : j # i => data'[j] = data[j]
  BY DEF FilesInv
<1>2. ASSUME NEW q \in Path \ {p}
      PROVE  Fits(q)'
  <2>1. \A j \in name[q] : j # i /\ j \in Inode
    BY DEF FilesInv, Names
  <2>2. \A j \in name[q] : data'[j] = data[j]
    BY <1>1, <2>1
  <2>3. Fits(q)
    BY DEF Agree
  <2>4. QED
    BY <2>2, <2>3 DEF Fits
<1>3. QED
  BY <1>1, <1>2 DEF Agree

\* A call that ran alone returns.
LEMMA ReturnsAlone ==
  ASSUME FilesInv, Names, NEW a \in Actor, UnderWay(a), ~overlap, NEW end, Return(a, end),
         NEW p \in Path, p = op[a].path,
         data' = data, \A q \in Path \ {p} : name'[q] = name[q]
  PROVE  NoneUnderWay' /\ Agree(Path \ {p})' /\ ideal'[p] = Ideally(op[a], a, end)
<1>1. ideal' = [ideal EXCEPT ![p] = Ideally(op[a], a, end)]
  BY DEF Return
<1>2. ideal'[p] = Ideally(op[a], a, end) /\ \A q \in Path \ {p} : ideal'[q] = ideal[q]
  BY <1>1 DEF Names
<1>3. op' = [op EXCEPT ![a] = Resting(AnyPath, IF a \in LuaThread THEN "idle" ELSE "done")]
  BY DEF Return
<1>4. \A step : Resting(AnyPath, step).step = step
  BY DEF Resting, Doing
<1>5. op'[a].step \in {"idle", "done"} /\ \A b \in Actor \ {a} : op'[b] = op[b]
  BY <1>3, <1>4 DEF FilesInv
<1>6. NoneUnderWay'
  BY <1>5 DEF NoneUnderWay, Busy, UnderWay
<1>7. Agree(Path \ {p})'
  <2>1. \A q \in Path \ {p} : Fits(q)
    BY DEF UnderWay, Agree
  <2>2. \A q \in Path \ {p} : Fits(q)'
    BY <1>2, <2>1 DEF Fits
  <2>3. QED
    BY <2>2 DEF Agree
<1>8. QED
  BY <1>2, <1>6, <1>7

\* The disk as it is, and what is under way, while the others rest.
LEMMA GoesOn ==
  ASSUME FilesInv, NEW a \in Actor, UnderWay(a), NEW o, op' = [op EXCEPT ![a] = o],
         o.path = op[a].path, o.step \in {"open", "broken"},
         Agree(Path \ {op[a].path})', Begun(a)'
  PROVE  UnderWay(a)'
<1>1. op'[a] = o /\ \A b \in Actor \ {a} : op'[b] = op[b]
  BY DEF FilesInv
<1>2. Busy(a)' /\ \A b \in Actor \ {a} : ~Busy(b)'
  BY <1>1 DEF UnderWay, Busy
<1>3. op'[a].path = op[a].path
  BY <1>1
<1>4. QED
  BY <1>2, <1>3 DEF UnderWay

LEMMA AppendedMayBe ==
  ASSUME NEW o, NEW a, NEW end, o.kind = "append", o.step # "called",
         NEW b \in IF ideal[o.path] = {} THEN {<<>>} ELSE ideal[o.path],
         NEW t \in IF a \in Worker THEN Starts(o.bytes)
                   ELSE IF end = "ok" THEN {o.bytes} ELSE Starts(o.bytes)
  PROVE  b \o t \in Ideally(o, a, end)
<1>1. PICK C, D : /\ C = IF ideal[o.path] = {} THEN {<<>>} ELSE ideal[o.path]
                  /\ D = IF a \in Worker THEN Starts(o.bytes)
                         ELSE IF end = "ok" THEN {o.bytes} ELSE Starts(o.bytes)
  OBVIOUS
<1>2. Ideally(o, a, end) = {c \o d : c \in C, d \in D}
  BY <1>1 DEF Ideally
<1>3. b \in C /\ t \in D
  BY <1>1
<1>4. QED
  BY <1>2, <1>3

\* However much of a piece that is on its way gets there, it is what the call may leave.
LEMMA MayBe ==
  ASSUME FilesInv, NEW a \in Actor, NEW i \in Inode,
         NEW pre \in Seq(Nat), NEW mid \in Seq(Nat), NEW post \in Seq(Nat),
         Stands(op[a], i, pre, mid, post), op[a].kind \in FileKinds, op[a].step # "called",
         op[a].kind # "copy" \/ op[a].src # op[a].file,
         NEW end \in {"ok", "error"},
         end = "ok" => \/ op[a].kind = "append" /\ a \in Worker
                       \/ mid = <<>> /\ post = <<>>,
         NEW s \in Starts(mid)
  PROVE  data[i] \o s \in Ideally(op[a], a, end)
<1>1. PICK o : o = op[a]
  OBVIOUS
<1>2. PICK b \in Seq(Nat) : b \in Base(o) /\ data[i] = b \o pre
  BY <1>1 DEF Stands
<1>3. s \in Seq(Nat) /\ pre \o s \in Seq(Nat)
  BY StartsSplit, ConcatProperties
<1>4. pre \o s \in Starts(o.bytes)
  <2>1. PICK c \in Seq(Nat) : c = pre \o mid
    BY ConcatProperties
  <2>2. pre \o s \in Starts(c)
    BY <2>1, StartsGoOn
  <2>3. PICK r \in Seq(Nat) : c = (pre \o s) \o r
    BY <2>2, StartsSplit
  <2>4. PICK u \in Seq(Nat) : u = pre \o s
    BY <1>3
  <2>5. r \o post \in Seq(Nat) /\ (u \o r) \o post = u \o (r \o post)
    <3>1. r \o post \in Seq(Nat)
      BY ConcatProperties
    <3>2. (u \o r) \o post = u \o (r \o post)
      BY Regroup, ZenonT(60)
    <3>3. QED
      BY <3>1, <3>2
  <2>6. o.bytes = u \o (r \o post)
    BY <1>1, <2>1, <2>3, <2>4, <2>5 DEF Stands
  <2>7. QED
    BY <2>4, <2>5, <2>6, StartsAre
<1>5. mid = <<>> /\ post = <<>> => pre \o s = o.bytes
  <2>1. SUFFICES ASSUME mid = <<>>, post = <<>> PROVE pre \o s = o.bytes
    OBVIOUS
  <2>2. PICK r \in Seq(Nat) : mid = s \o r
    BY StartsSplit
  <2>3. s = <<>>
    BY <1>3, <2>1, <2>2, EmptyWhole, Zenon
  <2>4. (pre \o <<>>) \o <<>> = pre \o <<>>
    BY ConcatEmptySeq
  <2>5. QED
    BY <1>1, <2>1, <2>3, <2>4 DEF Stands
<1>6. PICK t \in Seq(Nat) : t = pre \o s
  BY <1>3
<1>7. data[i] \o s = b \o t
  <2>1. (b \o pre) \o s = b \o (pre \o s)
    BY <1>3, Regroup, ZenonT(60)
  <2>2. QED
    BY <1>2, <1>6, <2>1
<1>8. CASE o.kind = "append"
  <2>1. b \in IF ideal[o.path] = {} THEN {<<>>} ELSE ideal[o.path]
    BY <1>2, <1>8 DEF Base
  <2>2. t \in IF a \in Worker THEN Starts(o.bytes) ELSE IF end = "ok" THEN {o.bytes} ELSE Starts(o.bytes)
    BY <1>1, <1>4, <1>5, <1>6
  <2>3. b \o t \in Ideally(o, a, end)
    BY <1>1, <1>8, <2>1, <2>2, AppendedMayBe
  <2>4. QED
    BY <1>1, <1>7, <2>3
<1>9. CASE o.kind # "append"
  <2>1. b = <<>>
    BY <1>2, <1>9 DEF Base
  <2>2. data[i] \o s = t
    BY <1>7, <2>1, ConcatEmptySeq
  <2>3. t \in IF end = "ok" THEN {o.bytes} ELSE Starts(o.bytes)
    BY <1>1, <1>4, <1>5, <1>6, <1>9
  <2>4. Ideally(o, a, end) = IF end = "ok" THEN {o.bytes} ELSE Starts(o.bytes)
    BY <1>1, <1>9 DEF Ideally, FileKinds
  <2>5. QED
    BY <1>1, <2>2, <2>3, <2>4
<1>10. QED
  BY <1>8, <1>9

LEMMA OneOnWay ==
  ASSUME NEW a, NEW i, NEW pre, NEW mid, OnWay(a, i, pre, mid), loose # {}
  PROVE  /\ ByPieces(op[a], a) /\ op[a].step = "open"
         /\ \E x : /\ loose = {x} /\ x.no = op[a].no /\ x.kind = op[a].kind /\ x.file = i
                  /\ x.at = Len(pre) /\ x.bytes = mid
                  /\ x = [no |-> op[a].no, kind |-> op[a].kind, file |-> i, at |-> Len(pre),
                          bytes |-> mid]
<1>1. PICK x : x = [no |-> op[a].no, kind |-> op[a].kind, file |-> i, at |-> Len(pre), bytes |-> mid]
  OBVIOUS
<1>2. loose = {x} /\ ByPieces(op[a], a) /\ op[a].step = "open"
  BY <1>1 DEF OnWay
<1>3. /\ x.no = op[a].no /\ x.kind = op[a].kind /\ x.file = i /\ x.at = Len(pre)
      /\ x.bytes = mid
  BY <1>1
<1>4. QED
  BY <1>1, <1>2, <1>3

LEMMA AloneReturns ==
  ASSUME FilesInv, Names, AloneInv, ~overlap, NEW a \in Actor, Fail(a) \/ Finish(a)
  PROVE  AllOver' \/ \E x \in loose' : OnTheirWay(x)'
<1>1. Busy(a) /\ UNCHANGED <<name, data, loose>>
  BY DEF Fail, Finish, At, Busy
<1>2. PICK end \in {"ok", "error"} :
        /\ Return(a, end)
        /\ end = "ok" => /\ op[a].step = "open" /\ op[a].kind \in FileKinds /\ Rest(a) = <<>>
                         /\ op[a].kind = "download" => ~InFlight(a)
  BY DEF Fail, Finish, At, FileKinds
<1>3. UnderWay(a) /\ Begun(a)
  BY <1>1, OnlyOne DEF UnderWay
<1>4. PICK p \in Path : p = op[a].path
  BY DEF FilesInv, FileCall
<1>5. NoneUnderWay' /\ Agree(Path \ {p})' /\ ideal'[p] = Ideally(op[a], a, end)
  BY <1>1, <1>2, <1>3, <1>4, ReturnsAlone
<1>6. CASE op[a].step = "called" \/ op[a].kind = "delete"
  <2>1. loose = {} /\ Fits(p) /\ end = "error"
    BY <1>2, <1>3, <1>4, <1>6 DEF Begun, FileKinds
  <2>2. Ideally(op[a], a, end) = ideal[p]
    BY <1>4, <1>6, <2>1 DEF Ideally
  <2>3. Fits(p)'
    BY <1>1, <1>5, <2>1, <2>2 DEF Fits
  <2>4. QED
    BY <1>1, <1>5, <2>1, <2>3 DEF AllOver, Agree
<1>7. CASE op[a].step # "called" /\ op[a].kind # "delete"
  <2>1. op[a].step \in {"open", "broken"} /\ op[a].kind \in FileKinds /\ Opened(a)
    BY <1>3, <1>7 DEF Begun
  <2>2. PICK i \in Inode :
          /\ name[p] = {i} /\ op[a].file = {i} /\ SourceKept(op[a], i)
          /\ IF op[a].kind = "copy" /\ op[a].src = {i}
             THEN data[i] = <<>> /\ loose = {} /\ op[a].step = "open"
             ELSE \E pre, mid, post \in Seq(Nat) :
                    Stands(op[a], i, pre, mid, post) /\ OnWay(a, i, pre, mid)
    BY <1>4, <2>1 DEF Opened
  <2>3. ASSUME loose = {}, data[i] \in Ideally(op[a], a, end)
        PROVE  AllOver'
    <3>1. name'[p] = {i} /\ data'[i] \in ideal'[p]
      BY <1>1, <1>5, <2>2, <2>3
    <3>2. Fits(p)'
      BY <3>1 DEF Fits
    <3>3. QED
      BY <1>1, <1>5, <2>3, <3>2 DEF AllOver, Agree
  <2>4. CASE op[a].kind = "copy" /\ op[a].src = {i}
    <3>1. Ideally(op[a], a, end) = {<<>>}
      BY <2>1, <2>2, <2>4 DEF Ideally
    <3>2. QED
      BY <2>2, <2>3, <2>4, <3>1
  <2>5. CASE ~(op[a].kind = "copy" /\ op[a].src = {i})
    <3>1. PICK pre \in Seq(Nat), mid \in Seq(Nat), post \in Seq(Nat) :
            Stands(op[a], i, pre, mid, post) /\ OnWay(a, i, pre, mid)
      BY <2>2, <2>5
    <3>2. end = "ok" => \/ op[a].kind = "append" /\ a \in Worker
                        \/ mid = <<>> /\ post = <<>>
      <4>1. SUFFICES ASSUME end = "ok", ~(op[a].kind = "append" /\ a \in Worker)
                     PROVE  mid = <<>> /\ post = <<>>
        OBVIOUS
      <4>2. post = Rest(a)
        BY <2>2, <2>5, <3>1, WhatIsLeft
      <4>3. ASSUME loose # {}
            PROVE  FALSE
        <5>1. PICK x : x.no = op[a].no /\ loose = {x} /\ ByPieces(op[a], a)
          BY <3>1, <4>3, OneOnWay
        <5>2. QED
          BY <1>2, <4>1, <5>1 DEF ByPieces, InFlight
      <4>4. QED
        BY <1>2, <3>1, <4>1, <4>2, <4>3 DEF OnWay
    <3>3. \A s \in Starts(mid) : data[i] \o s \in Ideally(op[a], a, end)
      BY <2>1, <2>2, <2>5, <3>1, <3>2, MayBe
    <3>4. CASE loose = {}
      <4>1. <<>> \in Starts(mid) /\ data[i] \in Seq(Nat)
        BY NothingStarts DEF FilesInv
      <4>2. data[i] \o <<>> = data[i]
        BY <4>1, ConcatEmptySeq
      <4>3. QED
        BY <2>3, <3>3, <3>4, <4>1, <4>2
    <3>5. CASE loose # {}
      <4>1. PICK x : /\ loose = {x} /\ x.kind = op[a].kind /\ x.file = i /\ x.bytes = mid
                     /\ x.at = Len(pre)
        BY <3>1, <3>5, OneOnWay
      <4>2. x.kind = "append" \/ x.at = Len(data[i])
        <5>1. ASSUME x.kind # "append"
              PROVE  data[i] = pre
          <6>1. PICK b \in Seq(Nat) : b \in Base(op[a]) /\ data[i] = b \o pre
            BY <3>1 DEF Stands
          <6>2. b = <<>>
            BY <4>1, <5>1, <6>1 DEF Base
          <6>3. QED
            BY <6>1, <6>2, ConcatEmptySeq
        <5>2. QED
          BY <4>1, <5>1
      <4>3. \A s \in Starts(x.bytes) : data'[x.file] \o s \in ideal'[p]
        BY <1>1, <1>5, <3>3, <4>1
      <4>4. name'[p] = {x.file} /\ (x.kind = "append" \/ x.at = Len(data'[x.file])) /\ loose' = {x}
        BY <1>1, <2>2, <4>1, <4>2
      <4>5. OnTheirWay(x)'
        BY <1>5, <4>3, <4>4 DEF OnTheirWay
      <4>6. QED
        BY <4>4, <4>5
    <3>6. QED
      BY <3>4, <3>5
  <2>6. QED
    BY <2>4, <2>5
<1>8. QED
  BY <1>6, <1>7

LEMMA AloneOpen ==
  ASSUME FilesInv, Names, AloneInv, ~overlap, NEW a \in Actor, Open(a)
  PROVE  UnderWay(a)'
<1> DEFINE o == op[a]
           p == o.path
<1>1. /\ o \in FileCall /\ p \in Path /\ name[p] \subseteq Inode /\ o.bytes \in Seq(Nat)
      /\ o.step = "called" /\ o.kind \in FileKinds
  BY DEF FilesInv, FileCall, Open, At, FileKinds
<1>2. UnderWay(a) /\ Begun(a)
  BY <1>1, OnlyOne DEF Busy, UnderWay
<1>3. /\ o.at = 0 /\ loose = {} /\ Fits(p)
      /\ o.kind = "copy" => \E j \in Inode : o.src = {j} /\ data[j] = o.bytes
  BY <1>1, <1>2 DEF Begun
<1>4. PICK i \in Inode :
        /\ i \in name[p] \/ (name[p] = {} /\ Unused(i))
        /\ data' = IF o.kind = "append" /\ name[p] # {} THEN data ELSE [data EXCEPT ![i] = <<>>]
        /\ name' = [name EXCEPT ![p] = {i}]
        /\ op' = [op EXCEPT ![a] = [o EXCEPT !.step = "open", !.file = {i}]]
        /\ loose' = loose /\ ideal' = ideal
  <2> DEFINE i == IF name[p] # {} THEN CHOOSE i \in name[p] : TRUE ELSE CHOOSE i \in Inode : Unused(i)
  <2>1. i \in Inode /\ (i \in name[p] \/ (name[p] = {} /\ Unused(i)))
    BY <1>1 DEF Open
  <2>2. QED
    BY <2>1 DEF Open, At
<1>5. PICK new : new = [o EXCEPT !.step = "open", !.file = {i}]
  OBVIOUS
<1>6. /\ new.step = "open" /\ new.file = {i} /\ new.path = p /\ new.kind = o.kind /\ new.at = 0
      /\ new.bytes = o.bytes /\ new.src = o.src
  BY <1>1, <1>3, <1>5 DEF FileCall
<1>7. op' = [op EXCEPT ![a] = new] /\ op'[a] = new
  BY <1>4, <1>5 DEF FilesInv
<1>8. name'[p] = {i} /\ \A q \in Path \ {p} : name'[q] = name[q] /\ i \notin name[q]
  BY <1>1, <1>4 DEF FilesInv, Names, Unused
<1>9. /\ \A j \in Inode : j # i => data'[j] = data[j]
      /\ data'[i] = IF o.kind = "append" /\ name[p] # {} THEN data[i] ELSE <<>>
  BY <1>4 DEF FilesInv
<1>10. Agree(Path \ {p})'
  <2>1. \A q \in Path \ {p} : \A j \in name[q] : data'[j] = data[j]
    BY <1>8, <1>9 DEF FilesInv
  <2>2. \A q \in Path \ {p} : Fits(q)
    BY <1>2 DEF UnderWay, Agree
  <2>3. \A q \in Path \ {p} : Fits(q)'
    BY <1>4, <1>8, <2>1, <2>2 DEF Fits
  <2>4. QED
    BY <1>6, <1>7, <2>3 DEF Agree
<1>11. SourceKept(new, i)'
  BY <1>3, <1>6, <1>9 DEF SourceKept
<1>12. ASSUME ~(o.kind = "copy" /\ o.src = {i})
       PROVE  \E post \in Seq(Nat) : Stands(new, i, <<>>, <<>>, post)'
  <2>1. <<>> \in Seq(Nat) /\ Len(<<>>) = 0 /\ <<>> \o <<>> = <<>> /\ <<>> \o o.bytes = o.bytes
    BY <1>1, EmptySeq, ConcatEmptySeq
  <2>2. PICK post \in Seq(Nat) : post = o.bytes
    BY <1>1
  <2>3. \E b \in Seq(Nat) : b \in Base(new)' /\ data'[i] = b \o <<>>
    <3>1. CASE o.kind = "append" /\ name[p] # {}
      <4>1. data'[i] = data[i] /\ data[i] \in ideal[p] /\ data[i] \in Seq(Nat)
        BY <1>3, <1>4, <1>9, <3>1 DEF Fits, FilesInv
      <4>2. data[i] \in Base(new)'
        BY <1>4, <1>6, <3>1, <4>1 DEF Base
      <4>3. data[i] \o <<>> = data[i]
        BY <4>1, ConcatEmptySeq
      <4>4. QED
        BY <4>1, <4>2, <4>3
    <3>2. CASE ~(o.kind = "append" /\ name[p] # {})
      <4>1. data'[i] = <<>>
        BY <1>9, <3>2
      <4>2. <<>> \in Base(new)'
        BY <1>3, <1>4, <1>6, <3>2 DEF Base, Fits
      <4>3. QED
        BY <2>1, <4>1, <4>2
    <3>3. QED
      BY <3>1, <3>2
  <2>4. new.bytes = (<<>> \o <<>>) \o post /\ new.at = Len(<<>> \o <<>>)
    BY <1>6, <2>1, <2>2
  <2>5. Stands(new, i, <<>>, <<>>, post)'
    BY <2>3, <2>4 DEF Stands
  <2>6. QED
    BY <2>5
<1>13. OnWay(a, i, <<>>, <<>>)'
  BY <1>3, <1>4 DEF OnWay
<1>14. Opened(a)'
  <2>1. name'[new.path] = {i} /\ new.file = {i} /\ new.kind \in FileKinds
    BY <1>1, <1>6, <1>8
  <2>2. CASE o.kind = "copy" /\ o.src = {i}
    <3>1. data'[i] = <<>> /\ loose' = {} /\ new.step = "open"
      BY <1>3, <1>4, <1>6, <1>9, <2>2
    <3>2. QED
      BY <1>6, <1>7, <1>11, <2>1, <2>2, <3>1 DEF Opened
  <2>3. CASE ~(o.kind = "copy" /\ o.src = {i})
    <3>1. (\E post \in Seq(Nat) : Stands(new, i, <<>>, <<>>, post)') /\ <<>> \in Seq(Nat)
      BY <1>12, <2>3, EmptySeq
    <3>2. QED
      BY <1>1, <1>6, <1>7, <1>11, <1>13, <2>1, <2>3, <3>1 DEF Opened
  <2>4. QED
    BY <2>2, <2>3
<1>15. Begun(a)'
  BY <1>1, <1>6, <1>7, <1>14 DEF Begun
<1>16. QED
  BY <1>2, <1>6, <1>7, <1>10, <1>15, GoesOn

\* What is written or on its way, as bytes get there.
LEMMA Moved ==
  ASSUME NEW pre \in Seq(Nat), NEW h \in Seq(Nat), NEW t \in Seq(Nat), NEW post \in Seq(Nat)
  PROVE  /\ pre \o (h \o t) = (pre \o h) \o t
         /\ (pre \o <<>>) \o (h \o t) = (pre \o h) \o t
         /\ ((pre \o h) \o <<>>) \o t = (pre \o h) \o t
         /\ pre \o <<>> = pre /\ (pre \o h) \o <<>> = pre \o h
         /\ pre \o h \in Seq(Nat) /\ Len(pre \o h) = Len(pre) + Len(h)
<1>1. pre \o h \in Seq(Nat) /\ Len(pre \o h) = Len(pre) + Len(h)
  BY ConcatProperties
<1>2. pre \o <<>> = pre /\ (pre \o h) \o <<>> = pre \o h
  BY <1>1, ConcatEmptySeq
<1>3. pre \o (h \o t) = (pre \o h) \o t
  BY Regroup, ZenonT(60)
<1>4. QED
  BY <1>1, <1>2, <1>3

\* The call that is alone has its file open.
LEMMA HasOpen ==
  ASSUME FilesInv, Names, AloneInv, ~overlap, NEW a \in Actor, op[a].step \in {"open", "broken"},
         op[a].kind \in FileKinds
  PROVE  /\ UnderWay(a) /\ op[a].path \in Path
         /\ \E i \in Inode :
              /\ name[op[a].path] = {i} /\ op[a].file = {i} /\ SourceKept(op[a], i)
              /\ IF op[a].kind = "copy" /\ op[a].src = {i}
                 THEN Rest(a) = <<>> /\ data[i] = <<>> /\ loose = {}
                 ELSE \E pre, mid, post \in Seq(Nat) :
                        /\ Stands(op[a], i, pre, mid, post) /\ OnWay(a, i, pre, mid)
                        /\ Rest(a) = post
                        /\ op[a].kind = "append" \/ data[i] = pre
<1>1. UnderWay(a) /\ Begun(a)
  BY OnlyOne DEF Busy, UnderWay
<1>2. op[a].path \in Path /\ op[a].at \in Nat
  BY DEF FilesInv, FileCall
<1>3. Opened(a)
  BY <1>1 DEF Begun, FileKinds
<1>4. PICK i \in Inode :
        /\ name[op[a].path] = {i} /\ op[a].file = {i} /\ SourceKept(op[a], i)
        /\ IF op[a].kind = "copy" /\ op[a].src = {i}
           THEN data[i] = <<>> /\ loose = {} /\ op[a].step = "open"
           ELSE \E pre, mid, post \in Seq(Nat) :
                  Stands(op[a], i, pre, mid, post) /\ OnWay(a, i, pre, mid)
  BY <1>3 DEF Opened
<1>5. CASE op[a].kind = "copy" /\ op[a].src = {i}
  <2>1. (CHOOSE j \in op[a].src : TRUE) = i
    BY <1>5
  <2>2. Rest(a) = SubSeq(<<>>, op[a].at + 1, 0)
    BY <1>4, <1>5, <2>1 DEF Rest
  <2>3. op[a].at + 1 \in Int /\ 0 \in Int /\ 0 < op[a].at + 1
    BY <1>2
  <2>4. Rest(a) = <<>>
    BY <2>2, <2>3, SubSeqEmpty
  <2>5. QED
    BY <1>1, <1>2, <1>4, <1>5, <2>4
<1>6. CASE ~(op[a].kind = "copy" /\ op[a].src = {i})
  <2>1. PICK pre \in Seq(Nat), mid \in Seq(Nat), post \in Seq(Nat) :
          Stands(op[a], i, pre, mid, post) /\ OnWay(a, i, pre, mid)
    BY <1>4, <1>6
  <2>2. Rest(a) = post
    BY <1>4, <1>6, <2>1, WhatIsLeft
  <2>3. ASSUME op[a].kind # "append"
        PROVE  data[i] = pre
    <3>1. PICK b \in Seq(Nat) : b \in Base(op[a]) /\ data[i] = b \o pre
      BY <2>1 DEF Stands
    <3>2. b = <<>>
      BY <2>3, <3>1 DEF Base
    <3>3. QED
      BY <3>1, <3>2, ConcatEmptySeq
  <2>4. QED
    BY <1>1, <1>2, <1>4, <1>6, <2>1, <2>2, <2>3
<1>7. QED
  BY <1>5, <1>6

LEMMA AloneWrites ==
  ASSUME FilesInv, Names, AloneInv, ~overlap, NEW a \in Actor, Write(a) \/ Piece(a)
  PROVE  UnderWay(a)'
<1> DEFINE o == op[a]
<1>1. /\ o.step = "open" /\ o.kind \in FileKinds /\ UNCHANGED <<name, ideal>>
      /\ \E n \in 1..Len(Rest(a)) : op' = [op EXCEPT ![a].at = @ + n]
  BY DEF Write, Piece, At, FileKinds
<1>2. UnderWay(a)
  BY <1>1, HasOpen
<1>3. PICK p \in Path : p = o.path
  BY <1>1, HasOpen
<1>4. PICK i \in Inode :
        /\ name[p] = {i} /\ o.file = {i} /\ SourceKept(o, i)
        /\ IF o.kind = "copy" /\ o.src = {i}
           THEN Rest(a) = <<>> /\ data[i] = <<>> /\ loose = {}
           ELSE \E pre, mid, post \in Seq(Nat) :
                  /\ Stands(o, i, pre, mid, post) /\ OnWay(a, i, pre, mid)
                  /\ Rest(a) = post
                  /\ o.kind = "append" \/ data[i] = pre
  BY <1>1, <1>3, HasOpen
<1>5. ~(o.kind = "copy" /\ o.src = {i})
  <2>1. ASSUME Rest(a) = <<>>
        PROVE  FALSE
    <3>1. Len(Rest(a)) = 0
      BY <2>1
    <3>2. QED
      BY <1>1, <3>1
  <2>2. QED
    BY <1>4, <2>1
<1>6. PICK pre \in Seq(Nat), mid \in Seq(Nat), post \in Seq(Nat) :
        /\ Stands(o, i, pre, mid, post) /\ OnWay(a, i, pre, mid)
        /\ Rest(a) = post
        /\ o.kind = "append" \/ data[i] = pre
  BY <1>4, <1>5
<1>7. loose = {} /\ mid = <<>>
  <2>1. ASSUME loose # {}
        PROVE  FALSE
    <3>1. ByPieces(o, a) /\ \E x : loose = {x} /\ x.no = o.no
      BY <1>6, <2>1, OneOnWay
    <3>2. QED
      BY <3>1 DEF Write, Piece, InFlight
  <2>2. QED
    BY <1>1, <1>6, <2>1 DEF OnWay
<1>8. PICK n \in 1..Len(post) :
        /\ op' = [op EXCEPT ![a].at = @ + n]
        /\ \/ data' = Into(o.kind, i, o.at, SubSeq(post, 1, n)) /\ loose' = loose
           \/ /\ data' = data /\ ByPieces(o, a)
              /\ loose' = {[no |-> o.no, kind |-> o.kind, file |-> i, at |-> o.at,
                            bytes |-> SubSeq(post, 1, n)]}
  <2>1. CASE Write(a)
    BY <1>4, <1>6, <2>1 DEF Write
  <2>2. CASE Piece(a)
    <3>1. PICK n \in 1..Len(Rest(a)) :
            /\ \E j \in o.file :
                 loose' = loose \cup {[no |-> o.no, kind |-> o.kind, file |-> j, at |-> o.at,
                                      bytes |-> SubSeq(Rest(a), 1, n)]}
            /\ op' = [op EXCEPT ![a].at = @ + n]
            /\ data' = data /\ ByPieces(o, a)
      BY <1>1, <2>2 DEF Piece
    <3>2. QED
      BY <1>4, <1>6, <1>7, <3>1
  <2>3. QED
    BY <2>1, <2>2
<1>9. PICK h \in Seq(Nat), t \in Seq(Nat) :
        h = SubSeq(post, 1, n) /\ Len(h) = n /\ n \in Nat /\ post = h \o t
  <2>1. Len(post) \in Nat
    BY LenProperties
  <2>2. n \in 0..Len(post) /\ n \in Nat
    BY <2>1
  <2>3. /\ SubSeq(post, 1, n) \in Seq(Nat) /\ Len(SubSeq(post, 1, n)) = n
        /\ SubSeq(post, n + 1, Len(post)) \in Seq(Nat)
        /\ post = SubSeq(post, 1, n) \o SubSeq(post, n + 1, Len(post))
    BY <2>2, Cut, Zenon
  <2>4. QED
    BY <2>2, <2>3, Zenon
<1>10. /\ o \in FileCall /\ o.bytes = (pre \o <<>>) \o post /\ o.at = Len(pre)
       /\ Len(pre) \in Nat
  <2>1. pre \o <<>> = pre /\ Len(pre) \in Nat
    BY ConcatEmptySeq, LenProperties
  <2>2. o \in FileCall
    BY DEF FilesInv
  <2>3. QED
    BY <1>6, <1>7, <2>1, <2>2 DEF Stands
<1>11. PICK at : at = o.at + n
  OBVIOUS
<1>12. PICK new : new = [o EXCEPT !.at = at]
  OBVIOUS
<1>13. /\ new.step = "open" /\ new.file = {i} /\ new.path = p /\ new.kind = o.kind
       /\ new.bytes = o.bytes /\ new.src = o.src /\ new.no = o.no
       /\ new.at = Len(pre) + Len(h)
  BY <1>1, <1>3, <1>4, <1>9, <1>10, <1>11, <1>12 DEF FileCall
<1>14. op' = [op EXCEPT ![a] = new] /\ op'[a] = new
  BY <1>8, <1>11, <1>12 DEF FilesInv
<1>15. Base(new)' = Base(o)
  BY <1>1, <1>3, <1>13 DEF Base
<1>16. PICK b \in Seq(Nat) : b \in Base(o) /\ data[i] = b \o pre
  BY <1>6 DEF Stands
<1>17. (b \o pre) \o h = b \o (pre \o h)
  BY Regroup, ZenonT(60)
<1>18. o.bytes = (pre \o h) \o t
  <2>1. (pre \o <<>>) \o (h \o t) = (pre \o h) \o t
    BY SMTT(60), Moved
  <2>2. (pre \o <<>>) \o post = (pre \o h) \o t
    BY <1>9, <2>1
  <2>3. QED
    BY <1>10, <2>2
<1>19. pre \o h \in Seq(Nat) /\ Len(pre \o h) = Len(pre) + Len(h)
  BY Moved
<1>20. Agree(Path \ {p})
  BY <1>2, <1>3 DEF UnderWay
<1>21. CASE data' = Into(o.kind, i, o.at, SubSeq(post, 1, n)) /\ loose' = loose
  <2>1. o.kind = "append" \/ o.at = Len(data[i])
    BY <1>6, <1>10
  <2>2. PICK v : v = data[i] \o h
    OBVIOUS
  <2>3. data' = [data EXCEPT ![i] = v]
    <3>1. data' = Into(o.kind, i, o.at, h)
      BY <1>9, <1>21
    <3>2. data[i] \in Seq(Nat)
      BY DEF FilesInv
    <3>3. o.kind = "append" \/ Overlay(data[i], o.at, h) = v
      BY <2>1, <2>2, <3>2, OverlayAtEnd
    <3>4. QED
      BY <2>2, <3>1, <3>3 DEF Into
  <2>4. Agree(Path \ {p})' /\ data'[i] = v /\ \A j \in Inode : j # i => data'[j] = data[j]
    BY <1>1, <1>4, <1>20, <2>2, <2>3, OthersFit
  <2>5. SourceKept(new, i)'
    BY <1>4, <1>13, <2>4 DEF SourceKept
  <2>6. v = b \o (pre \o h)
    BY <1>16, <1>17, <2>2
  <2>7. PICK q \in Seq(Nat) : q = pre \o h
    BY <1>19
  <2>8. new.bytes = (q \o <<>>) \o t /\ new.at = Len(q \o <<>>)
    <3>1. q \o <<>> = q
      BY ConcatEmptySeq
    <3>2. QED
      BY <1>13, <1>18, <1>19, <2>7, <3>1
  <2>9. Stands(new, i, q, <<>>, t)'
    BY <1>15, <1>16, <2>4, <2>6, <2>7, <2>8 DEF Stands
  <2>10. OnWay(a, i, q, <<>>)'
    BY <1>7, <1>21 DEF OnWay
  <2>11. Opened(a)' /\ Begun(a)'
    <3>1. name'[new.path] = {i} /\ <<>> \in Seq(Nat)
      BY <1>1, <1>4, <1>13, EmptySeq
    <3>2. Opened(a)'
      BY <1>1, <1>5, <1>13, <1>14, <2>5, <2>9, <2>10, <3>1 DEF Opened
    <3>3. QED
      BY <1>1, <1>13, <1>14, <3>2 DEF Begun
  <2>12. Agree(Path \ {op[a].path})'
    BY <1>13, <1>14, <2>4
  <2>13. QED
    BY <1>2, <1>3, <1>13, <1>14, <2>11, <2>12, GoesOn
<1>22. CASE /\ data' = data /\ ByPieces(o, a)
            /\ loose' = {[no |-> o.no, kind |-> o.kind, file |-> i, at |-> o.at,
                          bytes |-> SubSeq(post, 1, n)]}
  <2>1. Agree(Path \ {op[a].path})'
    BY <1>1, <1>13, <1>14, <1>20, <1>22 DEF Agree, Fits
  <2>2. SourceKept(new, i)'
    BY <1>4, <1>13, <1>22 DEF SourceKept
  <2>3. new.bytes = (pre \o h) \o t /\ new.at = Len(pre \o h)
    BY <1>13, <1>18, <1>19
  <2>4. Stands(new, i, pre, h, t)'
    BY <1>15, <1>16, <1>22, <2>3 DEF Stands
  <2>5. ByPieces(new, a)
    BY <1>13, <1>22 DEF ByPieces
  <2>6. OnWay(a, i, pre, h)'
    BY <1>9, <1>10, <1>13, <1>14, <1>22, <2>5 DEF OnWay
  <2>7. Opened(a)' /\ Begun(a)'
    <3>1. name'[new.path] = {i}
      BY <1>1, <1>4, <1>13
    <3>2. Opened(a)'
      BY <1>1, <1>5, <1>13, <1>14, <2>2, <2>4, <2>6, <3>1 DEF Opened
    <3>3. QED
      BY <1>1, <1>13, <1>14, <3>2 DEF Begun
  <2>8. QED
    BY <1>2, <1>3, <1>13, <1>14, <2>1, <2>7, GoesOn
<1>23. QED
  BY <1>8, <1>21, <1>22

LEMMA AloneSettles ==
  ASSUME FilesInv, Names, AloneInv, ~overlap, NEW x \in loose, Settle(x)
  PROVE  AllOver' \/ (\E a \in Actor : UnderWay(a)') \/ \E y \in loose' : OnTheirWay(y)'
<1>1. /\ x \in FilePiece /\ x.bytes \in Seq(Nat) /\ x.at \in Nat /\ x.file \in Inode
      /\ UNCHANGED <<name, op, ideal>>
  BY DEF FilesInv, FilePiece, Settle
<1>2. PICK i \in Inode : i = x.file
  BY <1>1
<1>3. PICK n \in 1..Len(x.bytes) :
        /\ data' = Into(x.kind, x.file, x.at, SubSeq(x.bytes, 1, n))
        /\ loose' = (loose \ {x}) \cup
             (IF n = Len(x.bytes) THEN {}
              ELSE {[x EXCEPT !.at = @ + n, !.bytes = SubSeq(@, n + 1, Len(@))]})
  BY DEF Settle
<1>4. PICK h \in Seq(Nat), t \in Seq(Nat) :
        /\ h = SubSeq(x.bytes, 1, n) /\ t = SubSeq(x.bytes, n + 1, Len(x.bytes))
        /\ Len(h) = n /\ n \in Nat /\ x.bytes = h \o t
  <2>1. Len(x.bytes) \in Nat
    BY <1>1, LenProperties
  <2>2. n \in 0..Len(x.bytes) /\ n \in Nat
    BY <2>1
  <2>3. /\ SubSeq(x.bytes, 1, n) \in Seq(Nat) /\ Len(SubSeq(x.bytes, 1, n)) = n
        /\ SubSeq(x.bytes, n + 1, Len(x.bytes)) \in Seq(Nat)
        /\ x.bytes = SubSeq(x.bytes, 1, n) \o SubSeq(x.bytes, n + 1, Len(x.bytes))
    BY <1>1, <2>2, Cut, Zenon
  <2>4. QED
    BY <2>2, <2>3, Zenon
<1>5. n = Len(x.bytes) => t = <<>>
  <2>1. Len(x.bytes) = n + Len(t) /\ n \in Nat /\ Len(t) \in Nat
    BY <1>4, ConcatProperties, LenProperties
  <2>2. SUFFICES ASSUME n = Len(x.bytes) PROVE t = <<>>
    OBVIOUS
  <2>3. Len(t) = 0
    BY <2>1, <2>2
  <2>4. QED
    BY <2>3, EmptySeq
<1>6. PICK y : /\ y = [x EXCEPT !.at = @ + n, !.bytes = SubSeq(@, n + 1, Len(@))]
               /\ y.no = x.no /\ y.kind = x.kind /\ y.file = i /\ y.at = x.at + n /\ y.bytes = t
               /\ y = [no |-> x.no, kind |-> x.kind, file |-> i, at |-> x.at + n, bytes |-> t]
  <2>1. PICK at : at = x.at + n
    OBVIOUS
  <2>2. PICK y : y = [x EXCEPT !.at = at, !.bytes = t]
    OBVIOUS
  <2>3. y = [x EXCEPT !.at = @ + n, !.bytes = SubSeq(@, n + 1, Len(@))]
    BY <1>4, <2>1, <2>2
  <2>4. y = [no |-> x.no, kind |-> x.kind, file |-> i, at |-> at, bytes |-> t]
    BY <1>1, <1>2, <2>2 DEF FilePiece
  <2>5. QED
    BY <2>1, <2>3, <2>4
<1>7. ASSUME loose = {x}
      PROVE  loose' = IF n = Len(x.bytes) THEN {} ELSE {y}
  BY <1>3, <1>6, <1>7
<1>8. ASSUME x.kind = "append" \/ x.at = Len(data[i]), NEW v, v = data[i] \o h
      PROVE  data' = [data EXCEPT ![i] = v]
  <2>1. data' = Into(x.kind, i, x.at, h)
    BY <1>2, <1>3, <1>4
  <2>2. data[i] \in Seq(Nat)
    BY DEF FilesInv
  <2>3. x.kind = "append" \/ Overlay(data[i], x.at, h) = v
    BY <1>8, <2>2, OverlayAtEnd
  <2>4. QED
    BY <1>8, <2>1, <2>3 DEF Into
<1>9. ASSUME NEW a \in Actor, UnderWay(a)
      PROVE  UnderWay(a)'
  <2> DEFINE o == op[a]
  <2>1. o.step \in {"open", "broken"} /\ o.kind \in FileKinds
    BY <1>9 DEF UnderWay, Begun
  <2>2. PICK p \in Path : p = o.path
    BY <2>1, HasOpen
  <2>3. PICK j \in Inode :
          /\ name[p] = {j} /\ o.file = {j} /\ SourceKept(o, j)
          /\ IF o.kind = "copy" /\ o.src = {j}
             THEN Rest(a) = <<>> /\ data[j] = <<>> /\ loose = {}
             ELSE \E pre, mid, post \in Seq(Nat) :
                    /\ Stands(o, j, pre, mid, post) /\ OnWay(a, j, pre, mid)
                    /\ Rest(a) = post
                    /\ o.kind = "append" \/ data[j] = pre
    BY <2>1, <2>2, HasOpen
  <2>4. PICK pre \in Seq(Nat), mid \in Seq(Nat), post \in Seq(Nat) :
          /\ Stands(o, j, pre, mid, post) /\ OnWay(a, j, pre, mid)
          /\ o.kind = "append" \/ data[j] = pre
    BY <2>3
  <2>5. /\ ByPieces(o, a) /\ o.step = "open" /\ loose = {x} /\ x.no = o.no /\ x.kind = o.kind
        /\ i = j /\ x.at = Len(pre) /\ x.bytes = mid
    BY <1>2, <2>4, OneOnWay
  <2>6. PICK v : v = data[i] \o h
    OBVIOUS
  <2>7. data' = [data EXCEPT ![i] = v]
    BY <1>8, <2>4, <2>5, <2>6
  <2>8. Agree(Path \ {p})
    BY <1>9, <2>2 DEF UnderWay
  <2>9. Agree(Path \ {p})' /\ data'[i] = v /\ \A k \in Inode : k # i => data'[k] = data[k]
    BY <1>1, <2>3, <2>5, <2>7, <2>8, OthersFit
  <2>10. PICK q \in Seq(Nat) : q = pre \o h /\ Len(q) = Len(pre) + Len(h)
    BY BothLong, Zenon
  <2>11. pre \o mid = q \o t
    <3>1. pre \o (h \o t) = (pre \o h) \o t
      BY Regroup, ZenonT(60)
    <3>2. QED
      BY <1>4, <2>5, <2>10, <3>1
  <2>12. PICK b \in Seq(Nat) : b \in Base(o) /\ data[i] = b \o pre
    BY <2>4, <2>5 DEF Stands
  <2>13. v = b \o q
    <3>1. (b \o pre) \o h = b \o (pre \o h)
      BY Regroup, ZenonT(60)
    <3>2. QED
      BY <2>6, <2>10, <2>12, <3>1
  <2>14. Base(o)' = Base(o)
    BY <1>1 DEF Base
  <2>15. Stands(o, i, q, t, post)'
    <3>1. o.bytes = (pre \o mid) \o post /\ o.at = Len(pre \o mid)
      BY <2>4 DEF Stands
    <3>2. o.bytes = (q \o t) \o post /\ o.at = Len(q \o t)
      BY <2>11, <3>1
    <3>3. op'[a] = o /\ op' = op
      BY <1>1
    <3>4. b \in Base(o)' /\ data'[i] = b \o q
      BY <2>9, <2>12, <2>13, <2>14
    <3>5. QED
      BY <3>2, <3>3, <3>4 DEF Stands
  <2>16. OnWay(a, i, q, t)'
    <3>1. x.at + n = Len(q) /\ op' = op
      BY <1>1, <1>4, <2>5, <2>10
    <3>2. y = [no |-> o.no, kind |-> o.kind, file |-> i, at |-> Len(q), bytes |-> t]
      BY <1>6, <2>5, <3>1
    <3>3. (loose' = {} /\ t = <<>>) \/ loose' = {y}
      BY <1>5, <1>7, <2>5
    <3>4. QED
      BY <2>5, <3>1, <3>2, <3>3 DEF OnWay, ByPieces
  <2>17. SourceKept(o, i)'
    BY <1>1, <2>5 DEF SourceKept, ByPieces
  <2>18. Opened(a)'
    BY <1>1, <2>1, <2>2, <2>3, <2>5, <2>15, <2>16, <2>17 DEF Opened, ByPieces
  <2>19. QED
    BY <1>1, <1>9, <2>1, <2>2, <2>9, <2>18 DEF UnderWay, Begun, Busy
<1>10. ASSUME OnTheirWay(x)
       PROVE  AllOver' \/ \E z \in loose' : OnTheirWay(z)'
  <2>1. PICK p \in Path :
          /\ name[p] = {i}
          /\ x.kind = "append" \/ x.at = Len(data[i])
          /\ \A s \in Starts(x.bytes) : data[i] \o s \in ideal[p]
          /\ Agree(Path \ {p})
    BY <1>2, <1>10 DEF OnTheirWay
  <2>2. PICK v : v = data[i] \o h
    OBVIOUS
  <2>3. data' = [data EXCEPT ![i] = v]
    BY <1>8, <2>1, <2>2
  <2>4. Agree(Path \ {p})' /\ data'[i] = v
    BY <1>1, <2>1, <2>3, OthersFit
  <2>5. NoneUnderWay' /\ loose' = IF n = Len(x.bytes) THEN {} ELSE {y}
    BY <1>1, <1>7, <1>10 DEF OnTheirWay, NoneUnderWay, Busy
  <2>6. data[i] \in Seq(Nat)
    BY DEF FilesInv
  <2>7. ASSUME NEW s \in Starts(t)
        PROVE  v \o s \in ideal[p]
    <3>1. h \o s \in Starts(x.bytes)
      BY <1>4, StartsGoOn
    <3>2. s \in Seq(Nat)
      BY StartsSplit
    <3>3. (data[i] \o h) \o s = data[i] \o (h \o s)
      BY <2>6, <3>2, Regroup, ZenonT(60)
    <3>4. QED
      BY <2>1, <2>2, <3>1, <3>3
  <2>8. CASE n = Len(x.bytes)
    <3>1. <<>> \in Starts(t) /\ v \in Seq(Nat)
      BY <2>2, <2>6, NothingStarts, ConcatProperties
    <3>2. v \o <<>> = v
      BY <3>1, ConcatEmptySeq
    <3>3. v \in ideal[p]
      BY <2>7, <3>1, <3>2
    <3>4. Fits(p)'
      BY <1>1, <2>1, <2>4, <3>3 DEF Fits
    <3>5. QED
      BY <2>4, <2>5, <2>8, <3>4 DEF AllOver, Agree
  <2>9. CASE n # Len(x.bytes)
    <3>1. y.kind = "append" \/ y.at = Len(v)
      <4>1. Len(v) = Len(data[i]) + Len(h)
        BY <2>2, <2>6, ConcatProperties
      <4>2. QED
        BY <1>4, <1>6, <2>1, <4>1
    <3>2. loose' = {y} /\ name'[p] = {y.file} /\ data'[y.file] = v
      BY <1>1, <1>6, <2>1, <2>4, <2>5, <2>9
    <3>3. \A s \in Starts(y.bytes) : data'[y.file] \o s \in ideal'[p]
      BY <1>1, <1>6, <2>7, <3>2
    <3>4. OnTheirWay(y)'
      BY <2>4, <2>5, <3>1, <3>2, <3>3 DEF OnTheirWay
    <3>5. QED
      BY <3>2, <3>4
  <2>10. QED
    BY <2>8, <2>9
<1>11. QED
  BY <1>9, <1>10 DEF AloneInv, AllOver, OnTheirWay

LEMMA AloneSpills ==
  ASSUME FilesInv, Names, AloneInv, ~overlap, NEW x \in loose, Spill(x)
  PROVE  AllOver' \/ \E a \in Actor : UnderWay(a)'
<1>1. /\ loose' = loose \ {x} /\ UNCHANGED <<name, data, ideal>>
      /\ op' = [a \in Actor |-> IF Busy(a) /\ op[a].no = x.no THEN [op[a] EXCEPT !.step = "broken"]
                                ELSE op[a]]
  BY DEF Spill
<1>2. ASSUME NEW a \in Actor, UnderWay(a)
      PROVE  UnderWay(a)'
  <2> DEFINE o == op[a]
  <2>1. o.step \in {"open", "broken"} /\ o.kind \in FileKinds /\ o \in FileCall
    BY <1>2 DEF UnderWay, Begun, FilesInv
  <2>2. PICK p \in Path : p = o.path
    BY <2>1, HasOpen
  <2>3. PICK i \in Inode :
          /\ name[p] = {i} /\ o.file = {i} /\ SourceKept(o, i)
          /\ IF o.kind = "copy" /\ o.src = {i}
             THEN Rest(a) = <<>> /\ data[i] = <<>> /\ loose = {}
             ELSE \E pre, mid, post \in Seq(Nat) :
                    /\ Stands(o, i, pre, mid, post) /\ OnWay(a, i, pre, mid)
                    /\ Rest(a) = post
                    /\ o.kind = "append" \/ data[i] = pre
    BY <2>1, <2>2, HasOpen
  <2>4. PICK pre \in Seq(Nat), mid \in Seq(Nat), post \in Seq(Nat) :
          Stands(o, i, pre, mid, post) /\ OnWay(a, i, pre, mid)
    BY <2>3
  <2>5. ByPieces(o, a) /\ o.step = "open" /\ loose = {x} /\ x.no = o.no
    BY <2>4, OneOnWay
  <2>6. PICK new : new = [o EXCEPT !.step = "broken"]
    OBVIOUS
  <2>7. /\ new.step = "broken" /\ new.file = o.file /\ new.path = p /\ new.kind = o.kind
        /\ new.bytes = o.bytes /\ new.src = o.src /\ new.at = o.at
    BY <2>1, <2>2, <2>6 DEF FileCall
  <2>8. op'[a] = new /\ \A b \in Actor \ {a} : op'[b] = op[b]
    BY <1>1, <1>2, <2>5, <2>6 DEF UnderWay
  <2>9. loose' = {}
    BY <1>1, <2>5
  <2>10. Stands(new, i, pre, mid, post)'
    <3>1. PICK b \in Seq(Nat) : b \in Base(o) /\ data[i] = b \o pre
      BY <2>4 DEF Stands
    <3>2. b \in Base(new)'
      BY <1>1, <2>2, <2>7, <3>1 DEF Base
    <3>3. QED
      BY <1>1, <2>4, <2>7, <3>1, <3>2 DEF Stands
  <2>11. OnWay(a, i, pre, mid)'
    BY <2>7, <2>8, <2>9 DEF OnWay
  <2>12. SourceKept(new, i)'
    BY <1>1, <2>3, <2>7 DEF SourceKept
  <2>13. name'[new.path] = {i} /\ new.file = {i} /\ new.kind # "copy"
    BY <1>1, <2>3, <2>5, <2>7 DEF ByPieces
  <2>14. Opened(a)'
    BY <2>1, <2>7, <2>8, <2>10, <2>11, <2>12, <2>13 DEF Opened
  <2>15. Agree(Path \ {p})'
    BY <1>1, <1>2, <2>2 DEF UnderWay, Agree, Fits
  <2>16. Begun(a)'
    BY <2>1, <2>7, <2>8, <2>14 DEF Begun
  <2>17. Busy(a)' /\ \A b \in Actor \ {a} : ~Busy(b)'
    BY <1>2, <2>7, <2>8 DEF UnderWay, Busy
  <2>18. QED
    BY <2>7, <2>8, <2>15, <2>16, <2>17 DEF UnderWay
<1>3. ASSUME OnTheirWay(x)
      PROVE  AllOver'
  <2>1. PICK p \in Path : /\ name[p] = {x.file}
                          /\ \A s \in Starts(x.bytes) : data[x.file] \o s \in ideal[p]
                          /\ Agree(Path \ {p})
    BY <1>3 DEF OnTheirWay
  <2>2. x.bytes \in Seq(Nat) /\ data[x.file] \in Seq(Nat)
    BY DEF FilesInv, FilePiece
  <2>3. data[x.file] \in ideal[p]
    <3>1. <<>> \in Starts(x.bytes) /\ data[x.file] \o <<>> = data[x.file]
      BY <2>2, NothingStarts, ConcatEmptySeq
    <3>2. QED
      BY <2>1, <3>1
  <2>4. \A q \in Path : Fits(q)
    BY <2>1, <2>3 DEF Agree, Fits
  <2>5. \A q \in Path : Fits(q)'
    BY <1>1, <2>4 DEF Fits
  <2>6. loose' = {} /\ NoneUnderWay'
    BY <1>1, <1>3 DEF OnTheirWay, NoneUnderWay, Busy
  <2>7. QED
    BY <2>5, <2>6 DEF AllOver, Agree
<1>4. QED
  BY <1>2, <1>3 DEF AloneInv, AllOver, OnTheirWay

LEMMA AloneDelete ==
  ASSUME FilesInv, Names, AloneInv, ~overlap, NEW a \in Actor
  PROVE  /\ Look(a) => UnderWay(a)'
         /\ RemoveName(a) => AllOver'
<1>1. PICK p \in Path : p = op[a].path
  BY DEF FilesInv, FileCall
<1>2. ASSUME Look(a)
      PROVE  UnderWay(a)'
  <2>1. PICK new : new = [op[a] EXCEPT !.step = "open"]
    OBVIOUS
  <2>2. /\ op[a].kind = "delete" /\ op[a].step = "called"
        /\ op' = [op EXCEPT ![a] = new] /\ UNCHANGED <<name, data, loose, ideal>>
    BY <1>2, <2>1 DEF Look, At
  <2>3. UnderWay(a) /\ Begun(a)
    BY <2>2, OnlyOne DEF Busy, UnderWay
  <2>4. new.path = p /\ new.step = "open" /\ new.kind = "delete"
    BY <1>1, <2>1, <2>2 DEF FilesInv, FileCall
  <2>5. op'[a] = new
    BY <2>2 DEF FilesInv
  <2>6. Fits(p)' /\ loose' = {}
    BY <1>1, <2>2, <2>3 DEF Begun, Fits
  <2>7. Begun(a)'
    BY <2>4, <2>5, <2>6 DEF Begun
  <2>8. Agree(Path \ {p})'
    BY <1>1, <2>2, <2>3 DEF UnderWay, Agree, Fits
  <2>9. Agree(Path \ {op[a].path})'
    BY <2>4, <2>5, <2>8
  <2>10. QED
    BY <1>1, <2>2, <2>3, <2>4, <2>7, <2>9, GoesOn
<1>3. ASSUME RemoveName(a)
      PROVE  AllOver'
  <2>1. /\ op[a].kind = "delete" /\ op[a].step = "open"
        /\ name' = [name EXCEPT ![p] = {}] /\ UNCHANGED <<data, loose>> /\ Return(a, "ok")
    BY <1>1, <1>3 DEF RemoveName, At
  <2>2. UnderWay(a) /\ loose = {}
    BY <2>1, OnlyOne DEF Busy, UnderWay, Begun, FileKinds
  <2>3. name'[p] = {} /\ \A q \in Path \ {p} : name'[q] = name[q]
    BY <2>1 DEF FilesInv
  <2>4. NoneUnderWay' /\ Agree(Path \ {p})' /\ ideal'[p] = Ideally(op[a], a, "ok")
    BY <1>1, <2>1, <2>2, <2>3, ReturnsAlone
  <2>5. Ideally(op[a], a, "ok") = {}
    BY <2>1 DEF Ideally
  <2>6. Fits(p)'
    BY <2>3, <2>4, <2>5 DEF Fits
  <2>7. QED
    BY <2>1, <2>2, <2>4, <2>6 DEF AllOver, Agree
<1>4. QED
  BY <1>2, <1>3

LEMMA AloneMakes ==
  ASSUME FilesInv, Names, AloneInv, ~overlap', NEW a \in Actor,
         NEW kind \in FileKinds \cup {"delete"}, NEW p \in Path, NEW src, NEW bytes,
         kind = "copy" => \E i \in Inode : src = {i} /\ bytes = data[i],
         Makes(a, kind, p, src, bytes)
  PROVE  UnderWay(a)'
<1>1. PICK new : new = Doing(calls + 1, kind, p, src, bytes, "called")
  OBVIOUS
<1>2. /\ Quiet /\ ~overlap /\ ideal' = ideal /\ UNCHANGED <<name, data, loose>>
      /\ op' = [op EXCEPT ![a] = new]
  BY <1>1 DEF Makes, Overlapping
<1>3. AllOver
  BY <1>2, QuietIsOver
<1>4. /\ new.step = "called" /\ new.kind = kind /\ new.path = p /\ new.src = src /\ new.at = 0
      /\ new.bytes = bytes
  BY <1>1 DEF Doing
<1>5. op'[a] = new /\ \A b \in Actor \ {a} : op'[b] = op[b]
  BY <1>2 DEF FilesInv
<1>6. \A q \in Path : Fits(q)'
  BY <1>2, <1>3 DEF AllOver, Agree, Fits
<1>7. loose' = {} /\ (kind = "copy" => \E i \in Inode : src = {i} /\ data'[i] = bytes)
  BY <1>2, <1>3 DEF AllOver
<1>8. Begun(a)'
  BY <1>4, <1>5, <1>6, <1>7 DEF Begun
<1>9. Agree(Path \ {op[a].path})'
  BY <1>6 DEF Agree
<1>10. Busy(a)' /\ \A b \in Actor \ {a} : ~Busy(b)'
  BY <1>3, <1>4, <1>5 DEF AllOver, NoneUnderWay, Busy
<1>11. QED
  BY <1>8, <1>9, <1>10 DEF UnderWay

LEMMA AloneAtOnce ==
  ASSUME FilesInv, Names, AloneInv, ~overlap', NEW p \in Path, NEW q \in Path,
         Rename(p, q) \/ Mkdir(p) \/ Rmdir(p)
  PROVE  AllOver'
<1>1. /\ Quiet /\ ~overlap /\ UNCHANGED <<data, op, loose>>
  BY DEF Rename, Mkdir, Rmdir, Atomic
<1>2. AllOver
  BY <1>1, QuietIsOver
<1>3. \A r \in Path : Fits(r)
  BY <1>2 DEF AllOver, Agree
<1>4. \A r \in Path : Fits(r)'
  <2>1. CASE name' = name /\ ideal' = ideal
    BY <1>1, <1>3, <2>1 DEF Fits
  <2>2. CASE /\ p # q /\ name' = [name EXCEPT ![q] = name[p], ![p] = {}]
             /\ ideal' = [ideal EXCEPT ![q] = ideal[p], ![p] = {}]
    <3>1. /\ name'[p] = {} /\ name'[q] = name[p]
          /\ \A r \in Path \ {p, q} : name'[r] = name[r]
      BY <2>2 DEF FilesInv
    <3>2. /\ ideal'[p] = {} /\ ideal'[q] = ideal[p]
          /\ \A r \in Path \ {p, q} : ideal'[r] = ideal[r]
      BY <2>2 DEF Names
    <3>3. Fits(p)' /\ Fits(q)' /\ \A r \in Path \ {p, q} : Fits(r)'
      BY <1>1, <1>3, <3>1, <3>2 DEF Fits
    <3>4. QED
      BY <3>3
  <2>3. QED
    BY <2>1, <2>2 DEF Rename, Mkdir, Rmdir, Ideal
<1>5. QED
  BY <1>1, <1>2, <1>4 DEF AllOver, Agree, NoneUnderWay, Busy

LEMMA AloneStep ==
  ASSUME FilesInv, Names, AloneInv, [FilesNext]_filesVars
  PROVE  AloneInv'
<1> SUFFICES ASSUME ~overlap'
             PROVE  AllOver' \/ (\E a \in Actor : UnderWay(a)') \/ \E x \in loose' : OnTheirWay(x)'
  BY DEF AloneInv
<1>1. ~overlap
  <2>1. ASSUME NEW a \in Actor,
               \/ Fail(a) \/ Open(a) \/ Write(a) \/ Piece(a) \/ Finish(a)
               \/ Look(a) \/ RemoveName(a)
        PROVE  overlap' = overlap
    BY <2>1 DEF Fail, Open, Write, Piece, Finish, Look, RemoveName
  <2>2. ASSUME NEW a, NEW kind, NEW p, NEW src, NEW bytes, Makes(a, kind, p, src, bytes)
        PROVE  overlap' \/ ~overlap
    BY <2>2 DEF Makes, Overlapping
  <2>3. ASSUME NEW a \in Actor, NEW p \in Path,
               \/ \E kind \in {"write", "append", "download"}, c \in Contents : Put(a, kind, p, c)
               \/ Delete(a, p)
               \/ \E from \in Path : Copy(a, from, p)
        PROVE  overlap' \/ ~overlap
    BY <2>2, <2>3 DEF Put, Delete, Copy
  <2>4. ASSUME NEW x \in loose, Settle(x) \/ Spill(x)
        PROVE  overlap' = overlap
    BY <2>4 DEF Settle, Spill
  <2>5. ASSUME NEW p \in Path, NEW q \in Path, Rename(p, q) \/ Mkdir(p) \/ Rmdir(p)
        PROVE  overlap' \/ ~overlap
    BY <2>5 DEF Rename, Mkdir, Rmdir, Atomic
  <2>6. CASE UNCHANGED filesVars
    BY <2>6 DEF filesVars
  <2>7. QED
    BY <2>1, <2>3, <2>4, <2>5, <2>6 DEF FilesNext
<1>2. ASSUME NEW a \in Actor,
             \/ Fail(a) \/ Open(a) \/ Write(a) \/ Piece(a) \/ Finish(a)
             \/ Look(a) \/ RemoveName(a)
      PROVE  AllOver' \/ (\E b \in Actor : UnderWay(b)') \/ \E x \in loose' : OnTheirWay(x)'
  BY <1>1, <1>2, AloneReturns, AloneOpen, AloneWrites, AloneDelete
<1>3. ASSUME NEW a \in Actor, NEW p \in Path,
             \/ \E kind \in {"write", "append", "download"}, c \in Contents : Put(a, kind, p, c)
             \/ Delete(a, p)
             \/ \E from \in Path : Copy(a, from, p)
      PROVE  UnderWay(a)'
  <2>1. \E kind \in FileKinds \cup {"delete"} : \E src, bytes :
          /\ Makes(a, kind, p, src, bytes)
          /\ kind = "copy" => \E i \in Inode : src = {i} /\ bytes = data[i]
    <3>1. CASE \E kind \in {"write", "append", "download"}, c \in Contents : Put(a, kind, p, c)
      BY <3>1 DEF Put, FileKinds
    <3>2. CASE Delete(a, p)
      <4>1. "delete" \in FileKinds \cup {"delete"} /\ "delete" # "copy"
        OBVIOUS
      <4>2. QED
        BY <3>2, <4>1 DEF Delete
    <3>3. CASE \E from \in Path : Copy(a, from, p)
      BY <3>3 DEF Copy, FileKinds, FilesInv
    <3>4. QED
      BY <1>3, <3>1, <3>2, <3>3
  <2>2. QED
    BY <1>1, <2>1, AloneMakes
<1>4. ASSUME NEW x \in loose, Settle(x) \/ Spill(x)
      PROVE  AllOver' \/ (\E b \in Actor : UnderWay(b)') \/ \E y \in loose' : OnTheirWay(y)'
  BY <1>1, <1>4, AloneSettles, AloneSpills
<1>5. ASSUME NEW p \in Path, NEW q \in Path, Rename(p, q) \/ Mkdir(p) \/ Rmdir(p)
      PROVE  AllOver'
  BY <1>1, <1>5, AloneAtOnce
<1>6. CASE UNCHANGED filesVars
  <2>1. UNCHANGED <<name, data, op, loose, overlap, ideal>>
    BY <1>6 DEF filesVars
  <2>2. AllOver \/ (\E a \in Actor : UnderWay(a)) \/ \E x \in loose : OnTheirWay(x)
    BY <1>1 DEF AloneInv
  <2>3. CASE AllOver
    BY <2>1, <2>3 DEF AllOver, NoneUnderWay, Busy, Agree, Fits
  <2>4. ASSUME NEW a \in Actor, UnderWay(a)
        PROVE  UnderWay(a)'
    <3>1. Opened(a) => Opened(a)'
      <4>1. \A i, pre, mid, post : Stands(op[a], i, pre, mid, post) => Stands(op[a], i, pre, mid, post)'
        BY <2>1 DEF Stands, Base
      <4>2. \A i, pre, mid : OnWay(a, i, pre, mid) => OnWay(a, i, pre, mid)'
        BY <2>1 DEF OnWay
      <4>3. \A i : SourceKept(op[a], i) => SourceKept(op[a], i)'
        BY <2>1 DEF SourceKept
      <4>4. QED
        BY <2>1, <4>1, <4>2, <4>3 DEF Opened
    <3>2. Begun(a)'
      BY <2>1, <2>4, <3>1 DEF UnderWay, Begun, Fits
    <3>3. QED
      BY <2>1, <2>4, <3>2 DEF UnderWay, Busy, Agree, Fits
  <2>5. ASSUME NEW x \in loose, OnTheirWay(x)
        PROVE  OnTheirWay(x)'
    BY <2>1, <2>5 DEF OnTheirWay, NoneUnderWay, Busy, Agree, Fits
  <2>6. QED
    BY <2>1, <2>2, <2>3, <2>4, <2>5
<1>7. QED
  BY <1>2, <1>3, <1>4, <1>5, <1>6 DEF FilesNext

\* Calls of fs.rs and http.rs that do not overlap, what they handed over being waited for,
\* do what they would do in one step: what they returned tells what each name holds,
\* however many calls there were and of whatever kind, or, where one raised with the file
\* open and after an append_async, up to how much of its bytes, from the first on, got
\* there.
THEOREM AloneAsOneStep == FilesSpec => []AloneIsAtomic
<1>1. FilesInit => Names /\ AloneInv
  <2>1. SUFFICES ASSUME FilesInit PROVE Names /\ AloneInv
    OBVIOUS
  <2>2. Names
    BY <2>1 DEF FilesInit, Names, NoIdeal
  <2>3. NoneUnderWay
    BY <2>1 DEF FilesInit, NoneUnderWay, Busy, Resting, Doing
  <2>4. \A p \in Path : Fits(p)
    BY <2>1 DEF FilesInit, Fits, NoIdeal
  <2>5. QED
    BY <2>1, <2>2, <2>3, <2>4 DEF FilesInit, AloneInv, AllOver, Agree
<1>2. FilesInv /\ Names /\ AloneInv /\ [FilesNext]_filesVars => FilesInv' /\ Names' /\ AloneInv'
  BY FilesStep, NamesStep, AloneStep
<1>3. Names /\ AloneInv => AloneIsAtomic
  BY QuietIsOver DEF AloneIsAtomic, AllOver, Agree, Fits
<1>4. QED
  BY <1>1, <1>2, <1>3, FilesInitially, PTL DEF FilesSpec

-----------------------------------------------------------------------------
(* Watches: messages that rise, and the sequences they move through.       *)

Rising(s) == \A i, j \in DOMAIN s : i < j => s[i] < s[j]
Below(S, T) == \A x \in S, y \in T : x < y

\* The messages of events not called back with yet; told is a sequence of sequences.
ToldOf(t) == UNION {NumbersIn(t[i]) : i \in DOMAIN t}
EventsRise(t) ==
  /\ \A i \in DOMAIN t : Rising(t[i])
  /\ \A i, j \in DOMAIN t : i < j => Below(NumbersIn(t[i]), NumbersIn(t[j]))

LEMMA NothingRises ==
  /\ <<>> \in Seq(Nat) /\ Rising(<<>>) /\ NumbersIn(<<>>) = {}
  /\ <<>> \in Seq(Seq(Nat)) /\ EventsRise(<<>>) /\ ToldOf(<<>>) = {}
<1>1. DOMAIN <<>> = {}
  OBVIOUS
<1>2. QED
  BY <1>1, EmptySeq DEF Rising, NumbersIn, EventsRise, ToldOf

LEMMA NumbersAre ==
  ASSUME NEW s \in Seq(Nat)
  PROVE  NumbersIn(s) \subseteq Nat
  BY ElementOfSeq, LenProperties DEF NumbersIn

LEMMA LongerRises ==
  ASSUME NEW s \in Seq(Nat), NEW x \in Nat
  PROVE  /\ Append(s, x) \in Seq(Nat)
         /\ NumbersIn(Append(s, x)) = NumbersIn(s) \cup {x}
         /\ Rising(s) /\ Below(NumbersIn(s), {x}) => Rising(Append(s, x))
<1> DEFINE t == Append(s, x)
<1>1. /\ t \in Seq(Nat) /\ Len(s) \in Nat
      /\ DOMAIN s = 1..Len(s) /\ DOMAIN t = 1..Len(s) + 1
      /\ \A i \in 1..Len(s) : t[i] = s[i]
      /\ t[Len(s) + 1] = x
  BY LenProperties
<1> HIDE DEF t
<1>2. NumbersIn(t) = NumbersIn(s) \cup {x}
  <2>1. Len(s) + 1 \in DOMAIN t /\ \A i \in DOMAIN t : i \in DOMAIN s \/ i = Len(s) + 1
    BY <1>1
  <2>2. \A i \in DOMAIN s : i \in DOMAIN t /\ t[i] = s[i]
    BY <1>1
  <2>3. QED
    BY <1>1, <2>1, <2>2 DEF NumbersIn
<1>3. ASSUME Rising(s), Below(NumbersIn(s), {x}) PROVE Rising(t)
  <2>1. \A i \in 1..Len(s) : s[i] < x
    BY <1>1, <1>3 DEF Below, NumbersIn
  <2>2. ASSUME NEW i \in DOMAIN t, NEW j \in DOMAIN t, i < j PROVE t[i] < t[j]
    <3>1. i \in 1..Len(s) /\ t[i] = s[i]
      BY <1>1, <2>2
    <3>2. CASE j = Len(s) + 1
      BY <1>1, <2>1, <3>1, <3>2
    <3>3. CASE j # Len(s) + 1
      <4>1. j \in 1..Len(s) /\ t[j] = s[j]
        BY <1>1, <3>3
      <4>2. QED
        BY <1>1, <1>3, <2>2, <3>1, <4>1 DEF Rising
    <3>4. QED
      BY <3>2, <3>3
  <2>3. QED
    BY <2>2 DEF Rising
<1>4. QED
  BY <1>1, <1>2, <1>3 DEF t

LEMMA ShorterRises ==
  ASSUME NEW s \in Seq(Nat), s # <<>>
  PROVE  /\ Head(s) \in Nat /\ Tail(s) \in Seq(Nat)
         /\ NumbersIn(s) = {Head(s)} \cup NumbersIn(Tail(s))
         /\ Rising(s) => Rising(Tail(s)) /\ Below({Head(s)}, NumbersIn(Tail(s)))
<1> DEFINE t == Tail(s)
<1>1. /\ Head(s) \in Nat /\ t \in Seq(Nat) /\ Head(s) = s[1]
      /\ Len(s) \in Nat \ {0} /\ DOMAIN s = 1..Len(s) /\ DOMAIN t = 1..Len(s) - 1
      /\ \A i \in 1..Len(s) - 1 : t[i] = s[i + 1]
  BY HeadTailProperties, LenProperties, EmptySeq
<1> HIDE DEF t
<1>2. NumbersIn(s) = {Head(s)} \cup NumbersIn(t)
  <2>1. 1 \in DOMAIN s /\ \A i \in DOMAIN t : i + 1 \in DOMAIN s /\ t[i] = s[i + 1]
    BY <1>1
  <2>2. \A i \in DOMAIN s : s[i] = Head(s) \/ (i - 1 \in DOMAIN t /\ t[i - 1] = s[i])
    BY <1>1
  <2>3. \A x \in NumbersIn(s) : x \in {Head(s)} \cup NumbersIn(t)
    BY <2>2 DEF NumbersIn
  <2>4. \A x \in {Head(s)} \cup NumbersIn(t) : x \in NumbersIn(s)
    BY <1>1, <2>1 DEF NumbersIn
  <2>5. QED
    BY <2>3, <2>4
<1>3. ASSUME Rising(s) PROVE Rising(t) /\ Below({Head(s)}, NumbersIn(t))
  <2>1. \A i \in DOMAIN t : 1 < i + 1 /\ 1 \in DOMAIN s /\ i + 1 \in DOMAIN s /\ t[i] = s[i + 1]
    <3>1. \A i \in DOMAIN t : i \in 1..Len(s) - 1 /\ t[i] = s[i + 1]
      BY <1>1
    <3>2. \A i \in 1..Len(s) - 1 : 1 < i + 1 /\ 1 \in 1..Len(s) /\ i + 1 \in 1..Len(s)
      <4>1. Len(s) \in Nat \ {0}
        BY <1>1
      <4>2. QED
        BY <4>1
    <3>3. DOMAIN s = 1..Len(s)
      BY <1>1
    <3>4. QED
      BY <3>1, <3>2, <3>3
  <2>2. Below({Head(s)}, NumbersIn(t))
    <3>1. \A i \in DOMAIN t : Head(s) < t[i]
      BY <1>1, <1>3, <2>1 DEF Rising
    <3>2. QED
      BY <3>1 DEF Below, NumbersIn
  <2>3. \A i, j \in DOMAIN t : i < j => i + 1 < j + 1
    BY <1>1
  <2>4. QED
    BY <1>3, <2>1, <2>2, <2>3 DEF Rising
<1>4. QED
  BY <1>1, <1>2, <1>3 DEF t

LEMMA JoinedRise ==
  ASSUME NEW s \in Seq(Nat), NEW t \in Seq(Nat)
  PROVE  /\ s \o t \in Seq(Nat)
         /\ NumbersIn(s \o t) = NumbersIn(s) \cup NumbersIn(t)
         /\ Rising(s) /\ Rising(t) /\ Below(NumbersIn(s), NumbersIn(t)) => Rising(s \o t)
<1> DEFINE u == s \o t
<1>1. /\ u \in Seq(Nat) /\ Len(s) \in Nat /\ Len(t) \in Nat
      /\ DOMAIN s = 1..Len(s) /\ DOMAIN t = 1..Len(t) /\ DOMAIN u = 1..Len(s) + Len(t)
      /\ \A i \in 1..Len(s) + Len(t) : u[i] = IF i <= Len(s) THEN s[i] ELSE t[i - Len(s)]
  BY ConcatProperties, LenProperties
<1> HIDE DEF u
<1>2. \A i \in DOMAIN s : i \in DOMAIN u /\ u[i] = s[i]
  BY <1>1
<1>3. \A i \in DOMAIN t : i + Len(s) \in DOMAIN u /\ u[i + Len(s)] = t[i]
  <2> SUFFICES ASSUME NEW i \in DOMAIN t PROVE i + Len(s) \in DOMAIN u /\ u[i + Len(s)] = t[i]
    OBVIOUS
  <2>1. i \in Nat /\ 1 <= i /\ i <= Len(t) /\ i + Len(s) \in 1..Len(s) + Len(t)
    <3>1. i \in 1..Len(t) /\ Len(s) \in Nat /\ Len(t) \in Nat
      BY <1>1
    <3>2. QED
      BY <3>1
  <2>2. ~(i + Len(s) <= Len(s)) /\ (i + Len(s)) - Len(s) = i
    <3>1. Len(s) \in Nat
      BY <1>1
    <3>2. QED
      BY <2>1, <3>1
  <2>3. QED
    BY <1>1, <2>1, <2>2
<1>4. \A i \in DOMAIN u : i \notin DOMAIN s => i - Len(s) \in DOMAIN t /\ u[i] = t[i - Len(s)]
  BY <1>1
<1>5. \A i, j \in DOMAIN u : i < j /\ i \notin DOMAIN s => j \notin DOMAIN s /\ i - Len(s) < j - Len(s)
  BY <1>1
<1>6. NumbersIn(u) = NumbersIn(s) \cup NumbersIn(t)
  <2>1. \A x \in NumbersIn(u) : x \in NumbersIn(s) \cup NumbersIn(t)
    BY <1>2, <1>4 DEF NumbersIn
  <2>2. \A x \in NumbersIn(s) \cup NumbersIn(t) : x \in NumbersIn(u)
    BY <1>2, <1>3 DEF NumbersIn
  <2>3. QED
    BY <2>1, <2>2
<1>7. ASSUME Rising(s), Rising(t), Below(NumbersIn(s), NumbersIn(t)) PROVE Rising(u)
  <2> SUFFICES ASSUME NEW i \in DOMAIN u, NEW j \in DOMAIN u, i < j PROVE u[i] < u[j]
    BY DEF Rising
  <2>1. CASE j \in DOMAIN s /\ i \in DOMAIN s
    BY <1>2, <1>7, <2>1 DEF Rising
  <2>2. CASE i \in DOMAIN s /\ j \notin DOMAIN s
    BY <1>2, <1>4, <1>7, <2>2 DEF Below, NumbersIn
  <2>3. CASE i \notin DOMAIN s
    BY <1>4, <1>5, <1>7, <2>3 DEF Rising
  <2>4. QED
    BY <2>1, <2>2, <2>3
<1>8. QED
  BY <1>1, <1>6, <1>7 DEF u

LEMMA MoreTold ==
  ASSUME NEW t \in Seq(Seq(Nat)), NEW e \in Seq(Nat)
  PROVE  /\ Append(t, e) \in Seq(Seq(Nat))
         /\ ToldOf(Append(t, e)) = ToldOf(t) \cup NumbersIn(e)
         /\ EventsRise(t) /\ Rising(e) /\ Below(ToldOf(t), NumbersIn(e))
              => EventsRise(Append(t, e))
<1> DEFINE u == Append(t, e)
<1>1. /\ u \in Seq(Seq(Nat)) /\ Len(t) \in Nat
      /\ DOMAIN t = 1..Len(t) /\ DOMAIN u = 1..Len(t) + 1
      /\ \A i \in 1..Len(t) : u[i] = t[i]
      /\ u[Len(t) + 1] = e
  BY LenProperties
<1> HIDE DEF u
<1>2. /\ Len(t) + 1 \in DOMAIN u /\ \A i \in DOMAIN u : i \in DOMAIN t \/ (i = Len(t) + 1 /\ u[i] = e)
      /\ \A i \in DOMAIN t : i \in DOMAIN u /\ u[i] = t[i]
  BY <1>1
<1>3. ToldOf(u) = ToldOf(t) \cup NumbersIn(e)
  <2>1. \A x \in ToldOf(u) : x \in ToldOf(t) \cup NumbersIn(e)
    BY <1>2 DEF ToldOf
  <2>2. \A x \in ToldOf(t) \cup NumbersIn(e) : x \in ToldOf(u)
    BY <1>1, <1>2 DEF ToldOf
  <2>3. QED
    BY <2>1, <2>2
<1>4. ASSUME EventsRise(t), Rising(e), Below(ToldOf(t), NumbersIn(e)) PROVE EventsRise(u)
  <2>1. \A i \in DOMAIN t : Below(NumbersIn(t[i]), NumbersIn(e))
    BY <1>4 DEF Below, ToldOf
  <2>2. \A i, j \in DOMAIN u : i < j => i \in DOMAIN t
    BY <1>1
  <2>3. QED
    BY <1>2, <1>4, <2>1, <2>2 DEF EventsRise
<1>5. QED
  BY <1>1, <1>3, <1>4 DEF u

LEMMA LessTold ==
  ASSUME NEW t \in Seq(Seq(Nat)), t # <<>>
  PROVE  /\ Head(t) \in Seq(Nat) /\ Tail(t) \in Seq(Seq(Nat))
         /\ ToldOf(t) = NumbersIn(Head(t)) \cup ToldOf(Tail(t))
         /\ EventsRise(t) => /\ Rising(Head(t)) /\ EventsRise(Tail(t))
                             /\ Below(NumbersIn(Head(t)), ToldOf(Tail(t)))
<1> DEFINE u == Tail(t)
<1>1. /\ Head(t) \in Seq(Nat) /\ u \in Seq(Seq(Nat)) /\ Head(t) = t[1]
      /\ Len(t) \in Nat \ {0} /\ DOMAIN t = 1..Len(t) /\ DOMAIN u = 1..Len(t) - 1
      /\ \A i \in 1..Len(t) - 1 : u[i] = t[i + 1]
  BY HeadTailProperties, LenProperties, EmptySeq
<1> HIDE DEF u
<1>2. /\ 1 \in DOMAIN t /\ \A i \in DOMAIN u : i + 1 \in DOMAIN t /\ u[i] = t[i + 1] /\ 1 < i + 1
      /\ \A i \in DOMAIN t : i = 1 \/ (i - 1 \in DOMAIN u /\ u[i - 1] = t[i])
      /\ \A i, j \in DOMAIN u : i < j => i + 1 < j + 1
  BY SMTT(40), <1>1
<1>3. ToldOf(t) = NumbersIn(Head(t)) \cup ToldOf(u)
  <2>1. \A x \in ToldOf(t) : x \in NumbersIn(Head(t)) \cup ToldOf(u)
    BY <1>1, <1>2 DEF ToldOf
  <2>2. \A x \in NumbersIn(Head(t)) \cup ToldOf(u) : x \in ToldOf(t)
    BY <1>1, <1>2 DEF ToldOf
  <2>3. QED
    BY <2>1, <2>2
<1>4. ASSUME EventsRise(t)
      PROVE  Rising(Head(t)) /\ EventsRise(u) /\ Below(NumbersIn(Head(t)), ToldOf(u))
  <2>1. \A i \in DOMAIN u : Below(NumbersIn(t[1]), NumbersIn(u[i]))
    BY <1>2, <1>4 DEF EventsRise
  <2>2. Below(NumbersIn(Head(t)), ToldOf(u))
    BY <1>1, <2>1 DEF Below, ToldOf
  <2>3. Rising(Head(t))
    BY <1>1, <1>2, <1>4 DEF EventsRise
  <2>4. EventsRise(u)
    BY <1>2, <1>4 DEF EventsRise
  <2>5. QED
    BY <2>2, <2>3, <2>4
<1>5. QED
  BY <1>1, <1>3, <1>4 DEF u

LEMMA AnEvent ==
  ASSUME NEW n \in Nat, NEW paths \in 1..2, NEW e, e = [i \in 1..paths |-> n + i]
  PROVE  e \in Seq(Nat) /\ Rising(e) /\ NumbersIn(e) = n + 1..n + paths
<1>1. e \in [1..paths -> Nat]
  OBVIOUS
<1>2. e \in Seq(Nat)
  BY <1>1, SeqDef
<1>3. Rising(e)
  BY DEF Rising
<1>4. NumbersIn(e) = n + 1..n + paths
  <2>1. \A x \in n + 1..n + paths : x - n \in 1..paths /\ e[x - n] = x
    OBVIOUS
  <2>2. \A i \in 1..paths : e[i] \in n + 1..n + paths
    OBVIOUS
  <2>3. QED
    BY <2>1, <2>2 DEF NumbersIn
<1>5. QED
  BY <1>2, <1>3, <1>4

-----------------------------------------------------------------------------
(* Watches: the inductive invariant.                                       *)

GotBy(h) == NumbersIn(got[h])
InQueue(h) == NumbersIn(queue[h])
OnCall(h) == NumbersIn(calling[h])
ToCome(h) == ToldOf(told[h])

\* From what the script got on to what the watcher is yet to be told, messages rise.
InOrder(h) ==
  /\ Rising(got[h]) /\ Rising(queue[h]) /\ Rising(calling[h]) /\ EventsRise(told[h])
  /\ Below(GotBy(h), InQueue(h) \cup OnCall(h) \cup ToCome(h))
  /\ Below(InQueue(h), OnCall(h) \cup ToCome(h))
  /\ Below(OnCall(h), ToCome(h))
  /\ \A x \in GotBy(h) \cup InQueue(h) \cup OnCall(h) \cup ToCome(h) : x \in 1..happened

\* An open handle that lost none has all that happened since it was made.
Complete(h) ==
  /\ since[h] <= happened
  /\ handle[h] = "open" /\ ~missed[h] =>
       GotBy(h) \cup InQueue(h) \cup OnCall(h) \cup ToCome(h) = since[h] + 1..happened

\* Without a channel nothing is in it, and nobody is told.
Still(h) ==
  /\ handle[h] # "open" => queue[h] = <<>> /\ told[h] = <<>>
  /\ handle[h] = "none" => calling[h] = <<>> /\ got[h] = <<>>

WatchTypes ==
  /\ handle \in [Handle -> {"none", "open", "closed"}]
  /\ happened \in Nat
  /\ since \in [Handle -> Nat]
  /\ told \in [Handle -> Seq(Seq(Nat))]
  /\ calling \in [Handle -> Seq(Nat)]
  /\ queue \in [Handle -> Seq(Nat)]
  /\ got \in [Handle -> Seq(Nat)]
  /\ missed \in [Handle -> BOOLEAN]

WatchInv == WatchTypes /\ \A h \in Handle : InOrder(h) /\ Complete(h) /\ Still(h)

LEMMA WatchInitially == WatchInit => WatchInv
<1> SUFFICES ASSUME WatchInit PROVE WatchInv
  OBVIOUS
<1>1. WatchTypes
  BY NothingRises DEF WatchInit, WatchTypes
<1>2. ASSUME NEW h \in Handle PROVE InOrder(h) /\ Complete(h) /\ Still(h)
  <2>1. handle[h] = "none" /\ told[h] = <<>> /\ calling[h] = <<>> /\ queue[h] = <<>> /\ got[h] = <<>>
    BY DEF WatchInit
  <2>2. GotBy(h) = {} /\ InQueue(h) = {} /\ OnCall(h) = {} /\ ToCome(h) = {}
    BY <2>1, NothingRises DEF GotBy, InQueue, OnCall, ToCome
  <2>3. InOrder(h)
    BY <2>1, <2>2, NothingRises DEF InOrder, Below
  <2>4. since[h] <= happened
    BY DEF WatchInit
  <2>5. QED
    BY <2>1, <2>3, <2>4 DEF Complete, Still
<1>3. QED
  BY <1>1, <1>2 DEF WatchInv

\* A step leaves the handles alone that it is not about.
AsBefore(g) ==
  /\ told'[g] = told[g] /\ calling'[g] = calling[g] /\ queue'[g] = queue[g] /\ got'[g] = got[g]
  /\ handle'[g] = handle[g] /\ since'[g] = since[g] /\ missed'[g] = missed[g]

LEMMA OthersKeep ==
  ASSUME WatchInv, happened' = happened, NEW g \in Handle, AsBefore(g)
  PROVE  InOrder(g)' /\ Complete(g)' /\ Still(g)'
<1>1. GotBy(g)' = GotBy(g) /\ InQueue(g)' = InQueue(g) /\ OnCall(g)' = OnCall(g) /\ ToCome(g)' = ToCome(g)
  BY DEF AsBefore, GotBy, InQueue, OnCall, ToCome
<1>2. QED
  BY <1>1 DEF WatchInv, AsBefore, InOrder, Complete, Still

LEMMA StepWatch ==
  ASSUME WatchInv, NEW h \in Handle, Watch(h)
  PROVE  WatchInv'
<1> USE DEF Watch
<1>1. WatchTypes'
  BY DEF WatchInv, WatchTypes
<1>2. \A g \in Handle \ {h} : AsBefore(g)
  BY DEF WatchInv, WatchTypes, AsBefore
<1>3. told[h] = <<>> /\ calling[h] = <<>> /\ queue[h] = <<>> /\ got[h] = <<>>
  BY DEF WatchInv, Still
<1>4. GotBy(h)' = {} /\ InQueue(h)' = {} /\ OnCall(h)' = {} /\ ToCome(h)' = {}
  BY <1>3, NothingRises DEF GotBy, InQueue, OnCall, ToCome
<1>5. InOrder(h)'
  BY <1>3, <1>4, NothingRises DEF InOrder, Below
<1>6. Complete(h)'
  <2>1. since'[h] = happened' /\ happened' \in Nat
    BY DEF WatchInv, WatchTypes
  <2>2. since'[h] <= happened' /\ since'[h] + 1..happened' = {}
    BY <2>1
  <2>3. QED
    BY <1>4, <2>2 DEF Complete
<1>7. Still(h)'
  BY DEF WatchInv, WatchTypes, Still
<1>8. QED
  BY <1>1, <1>2, <1>5, <1>6, <1>7, OthersKeep DEF WatchInv

LEMMA StepHappen ==
  ASSUME WatchInv, NEW paths \in 1..2, Happen(paths)
  PROVE  WatchInv'
<1>1. PICK e : e = [i \in 1..paths |-> happened + i]
  OBVIOUS
<1>2. /\ e \in Seq(Nat) /\ Rising(e) /\ NumbersIn(e) = happened + 1..happened + paths
      /\ happened \in Nat
  BY <1>1, AnEvent DEF WatchInv, WatchTypes
<1>3. /\ told' = [h \in Handle |-> IF handle[h] = "open" THEN Append(told[h], e) ELSE told[h]]
      /\ happened' = happened + paths
      /\ UNCHANGED <<handle, since, calling, queue, got, missed>>
  BY <1>1 DEF Happen
<1>4. WatchTypes'
  <2>1. \A h \in Handle : told[h] \in Seq(Seq(Nat)) /\ Append(told[h], e) \in Seq(Seq(Nat))
    BY <1>2, MoreTold DEF WatchInv, WatchTypes
  <2>2. QED
    BY <1>2, <1>3, <2>1 DEF WatchInv, WatchTypes
<1>5. ASSUME NEW h \in Handle PROVE InOrder(h)' /\ Complete(h)' /\ Still(h)'
  <2>1. GotBy(h)' = GotBy(h) /\ InQueue(h)' = InQueue(h) /\ OnCall(h)' = OnCall(h)
    BY <1>3 DEF GotBy, InQueue, OnCall
  <2>2. CASE handle[h] = "open"
    <3>1. told[h] \in Seq(Seq(Nat)) /\ told'[h] = Append(told[h], e)
      BY <1>3, <2>2 DEF WatchInv, WatchTypes
    <3>2. ToCome(h)' = ToCome(h) \cup NumbersIn(e)
      BY <1>2, <3>1, MoreTold DEF ToCome
    <3>3. /\ \A x \in GotBy(h) \cup InQueue(h) \cup OnCall(h) \cup ToCome(h) : x \in 1..happened
          /\ \A y \in NumbersIn(e) : y > happened /\ y \in 1..happened'
      <4>1. \A x \in GotBy(h) \cup InQueue(h) \cup OnCall(h) \cup ToCome(h) : x \in 1..happened
        BY DEF WatchInv, InOrder
      <4>2. \A y \in NumbersIn(e) : y > happened /\ y \in 1..happened'
        BY <1>2, <1>3
      <4>3. QED
        BY <4>1, <4>2
    <3>4. /\ Below(GotBy(h), NumbersIn(e)) /\ Below(InQueue(h), NumbersIn(e))
          /\ Below(OnCall(h), NumbersIn(e)) /\ Below(ToCome(h), NumbersIn(e))
      BY <1>2, <3>3 DEF Below
    <3>5. EventsRise(told'[h])
      BY <1>2, <3>1, <3>4, MoreTold DEF WatchInv, InOrder, ToCome
    <3>6. \A x \in 1..happened : x \in 1..happened'
      BY <1>2, <1>3
    <3>7. InOrder(h)'
      BY <1>3, <2>1, <3>2, <3>3, <3>4, <3>5, <3>6 DEF WatchInv, InOrder, Below
    <3>8. Complete(h)'
      <4>1. since[h] \in Nat /\ since[h] <= happened /\ since'[h] <= happened'
        BY <1>2, <1>3 DEF WatchInv, WatchTypes, Complete
      <4>2. CASE missed[h]
        BY <1>3, <4>1, <4>2 DEF Complete
      <4>3. CASE ~missed[h]
        <5>1. GotBy(h) \cup InQueue(h) \cup OnCall(h) \cup ToCome(h) = since[h] + 1..happened
          BY <2>2, <4>3 DEF WatchInv, Complete
        <5>2. since[h] + 1..happened' = (since[h] + 1..happened) \cup NumbersIn(e)
          BY <1>2, <1>3, <4>1
        <5>3. QED
          BY <1>3, <2>1, <3>2, <4>1, <5>1, <5>2 DEF Complete
      <4>4. QED
        BY <4>2, <4>3
    <3>9. QED
      BY <1>3, <2>2, <3>7, <3>8 DEF Still
  <2>3. CASE handle[h] # "open"
    <3>1. told'[h] = told[h] /\ ToCome(h)' = ToCome(h)
      BY <1>3, <2>3 DEF ToCome
    <3>2. \A x \in 1..happened : x \in 1..happened'
      BY <1>2, <1>3
    <3>3. InOrder(h)'
      BY <1>3, <2>1, <3>1, <3>2 DEF WatchInv, InOrder
    <3>4. since'[h] <= happened'
      BY <1>2, <1>3 DEF WatchInv, WatchTypes, Complete
    <3>5. QED
      BY <1>3, <2>3, <3>1, <3>3, <3>4 DEF WatchInv, Complete, Still
  <2>4. QED
    BY <2>2, <2>3
<1>6. QED
  BY <1>4, <1>5 DEF WatchInv

LEMMA StepOverflow ==
  ASSUME WatchInv, NEW h \in Handle, Overflow(h)
  PROVE  WatchInv'
<1> USE DEF Overflow
<1>1. WatchTypes'
  BY NothingRises DEF WatchInv, WatchTypes
<1>2. \A g \in Handle \ {h} : AsBefore(g)
  BY DEF WatchInv, WatchTypes, AsBefore
<1>3. told'[h] = <<>> /\ missed'[h]
  BY DEF WatchInv, WatchTypes
<1>4. GotBy(h)' = GotBy(h) /\ InQueue(h)' = InQueue(h) /\ OnCall(h)' = OnCall(h) /\ ToCome(h)' = {}
  BY <1>3, NothingRises DEF GotBy, InQueue, OnCall, ToCome
<1>5. InOrder(h)' /\ Complete(h)' /\ Still(h)'
  BY <1>3, <1>4, NothingRises DEF WatchInv, InOrder, Complete, Still, Below
<1>6. QED
  BY <1>1, <1>2, <1>5, OthersKeep DEF WatchInv

LEMMA StepCallBack ==
  ASSUME WatchInv, NEW h \in Handle, CallBack(h)
  PROVE  WatchInv'
<1> USE DEF CallBack
<1>1. told[h] \in Seq(Seq(Nat)) /\ told[h] # <<>>
  BY DEF WatchInv, WatchTypes
<1>2. /\ Head(told[h]) \in Seq(Nat) /\ Tail(told[h]) \in Seq(Seq(Nat))
      /\ ToCome(h) = NumbersIn(Head(told[h])) \cup ToldOf(Tail(told[h]))
      /\ Rising(Head(told[h])) /\ EventsRise(Tail(told[h]))
      /\ Below(NumbersIn(Head(told[h])), ToldOf(Tail(told[h])))
  BY <1>1, LessTold DEF WatchInv, InOrder, ToCome
<1>3. calling'[h] = Head(told[h]) /\ told'[h] = Tail(told[h])
  BY DEF WatchInv, WatchTypes
<1>4. WatchTypes'
  BY <1>2 DEF WatchInv, WatchTypes
<1>5. \A g \in Handle \ {h} : AsBefore(g)
  BY DEF WatchInv, WatchTypes, AsBefore
<1>6. /\ GotBy(h)' = GotBy(h) /\ InQueue(h)' = InQueue(h) /\ OnCall(h) = {}
      /\ ToCome(h) = OnCall(h)' \cup ToCome(h)' /\ Below(OnCall(h)', ToCome(h)')
  BY <1>2, <1>3, NothingRises DEF GotBy, InQueue, OnCall, ToCome
<1>7. InOrder(h)'
  <2>1. Rising(calling'[h]) /\ EventsRise(told'[h])
    BY <1>2, <1>3
  <2>2. QED
    BY <1>6, <2>1 DEF WatchInv, InOrder, Below
<1>8. Complete(h)'
  BY <1>6 DEF WatchInv, Complete
<1>9. Still(h)'
  BY <1>1 DEF WatchInv, WatchTypes, Still
<1>10. QED
  BY <1>4, <1>5, <1>7, <1>8, <1>9, OthersKeep DEF WatchInv

LEMMA StepSend ==
  ASSUME WatchInv, NEW h \in Handle, Send(h)
  PROVE  WatchInv'
<1> USE DEF Send
<1>1. PICK x : x = Head(calling[h])
  OBVIOUS
<1>2. PICK rest : rest = Tail(calling[h])
  OBVIOUS
<1>3. /\ x \in Nat /\ rest \in Seq(Nat) /\ OnCall(h) = {x} \cup NumbersIn(rest)
      /\ Rising(rest) /\ Below({x}, NumbersIn(rest))
  BY <1>1, <1>2, ShorterRises DEF WatchInv, WatchTypes, InOrder, OnCall
<1>4. calling'[h] = rest /\ OnCall(h)' = NumbersIn(rest)
  BY <1>2 DEF WatchInv, WatchTypes, OnCall
<1>5. GotBy(h)' = GotBy(h) /\ ToCome(h)' = ToCome(h)
  BY DEF GotBy, ToCome
<1>6. \A g \in Handle \ {h} : AsBefore(g)
  BY DEF WatchInv, WatchTypes, AsBefore
<1>7. calling' \in [Handle -> Seq(Nat)]
  BY <1>2, <1>3 DEF WatchInv, WatchTypes
<1>8. CASE handle[h] = "open"
  <2>1. queue[h] \in Seq(Nat) /\ queue' = [queue EXCEPT ![h] = Append(queue[h], x)]
    BY <1>1, <1>8 DEF WatchInv, WatchTypes
  <2>2. Below(InQueue(h), {x})
    BY <1>3 DEF WatchInv, InOrder, Below
  <2>3. /\ queue' \in [Handle -> Seq(Nat)]
        /\ InQueue(h)' = InQueue(h) \cup {x}
        /\ Rising(queue'[h])
    <3>1. queue'[h] = Append(queue[h], x)
      BY <2>1 DEF WatchInv, WatchTypes
    <3>2. /\ Append(queue[h], x) \in Seq(Nat)
          /\ NumbersIn(Append(queue[h], x)) = InQueue(h) \cup {x}
          /\ Rising(Append(queue[h], x))
      BY <1>3, <2>1, <2>2, LongerRises DEF WatchInv, InOrder, InQueue
    <3>3. QED
      BY <2>1, <3>1, <3>2 DEF WatchInv, WatchTypes, InQueue
  <2>4. WatchTypes'
    BY <1>7, <2>3 DEF WatchInv, WatchTypes
  <2>5. InOrder(h)'
    <3>1. Rising(calling'[h])
      BY <1>3, <1>4
    <3>2. got' = got /\ told' = told /\ happened' = happened
      OBVIOUS
    <3>3. InOrder(h)
      BY DEF WatchInv
    <3> HIDE DEF Send
    <3>4. /\ Below(GotBy(h), InQueue(h) \cup {x} \cup NumbersIn(rest) \cup ToCome(h))
          /\ Below(NumbersIn(rest), ToCome(h))
      BY <1>3, <3>3 DEF InOrder, Below
    <3>5. Below(InQueue(h), NumbersIn(rest) \cup ToCome(h))
      BY <1>3, <3>3 DEF InOrder, Below
    <3>6. Below({x}, NumbersIn(rest) \cup ToCome(h))
      BY <1>3, <3>3 DEF InOrder, Below
    <3>7. Below(InQueue(h) \cup {x}, NumbersIn(rest) \cup ToCome(h))
      BY <3>5, <3>6 DEF Below
    <3>8. \A y \in GotBy(h)' \cup InQueue(h)' \cup OnCall(h)' \cup ToCome(h)' : y \in 1..happened'
      BY <1>3, <1>4, <1>5, <2>3, <3>2, <3>3 DEF InOrder
    <3>9. QED
      BY <1>4, <1>5, <2>3, <3>1, <3>2, <3>3, <3>4, <3>7, <3>8 DEF InOrder
  <2>6. Complete(h)'
    BY <1>3, <1>4, <1>5, <2>3 DEF WatchInv, Complete
  <2>7. QED
    BY <1>6, <1>8, <2>4, <2>5, <2>6, OthersKeep DEF WatchInv, Still
<1>9. CASE handle[h] # "open"
  <2>1. queue' = queue /\ InQueue(h)' = InQueue(h)
    BY <1>9 DEF InQueue
  <2>2. WatchTypes'
    BY <1>7, <2>1 DEF WatchInv, WatchTypes
  <2>3. InOrder(h)'
    <3>1. Rising(calling'[h])
      BY <1>3, <1>4
    <3>2. QED
      BY <1>3, <1>4, <1>5, <2>1, <3>1 DEF WatchInv, InOrder, Below
  <2>4. Complete(h)' /\ Still(h)'
    BY <1>9, <2>1 DEF WatchInv, Complete, Still
  <2>5. QED
    BY <1>6, <2>2, <2>3, <2>4, OthersKeep DEF WatchInv
<1>10. QED
  BY <1>8, <1>9

LEMMA StepTakeNext ==
  ASSUME WatchInv, NEW h \in Handle, TakeNext(h)
  PROVE  WatchInv'
<1> USE DEF TakeNext
<1>1. PICK x : x = Head(queue[h])
  OBVIOUS
<1>2. PICK rest : rest = Tail(queue[h])
  OBVIOUS
<1>3. /\ x \in Nat /\ rest \in Seq(Nat) /\ InQueue(h) = {x} \cup NumbersIn(rest)
      /\ Rising(rest) /\ Below({x}, NumbersIn(rest))
  BY <1>1, <1>2, ShorterRises DEF WatchInv, WatchTypes, InOrder, InQueue
<1>4. queue'[h] = rest /\ InQueue(h)' = NumbersIn(rest)
  BY <1>2 DEF WatchInv, WatchTypes, InQueue
<1>5. OnCall(h)' = OnCall(h) /\ ToCome(h)' = ToCome(h)
  BY DEF OnCall, ToCome
<1>6. \A g \in Handle \ {h} : AsBefore(g)
  BY DEF WatchInv, WatchTypes, AsBefore
<1>7. queue' \in [Handle -> Seq(Nat)]
  BY <1>2, <1>3 DEF WatchInv, WatchTypes
<1>8. /\ got[h] \in Seq(Nat) /\ got' = [got EXCEPT ![h] = Append(got[h], x)]
      /\ got'[h] = Append(got[h], x)
  BY <1>1 DEF WatchInv, WatchTypes
<1>9. Below(GotBy(h), {x})
  BY <1>3 DEF WatchInv, InOrder, Below
<1>10. /\ Append(got[h], x) \in Seq(Nat)
       /\ NumbersIn(Append(got[h], x)) = GotBy(h) \cup {x}
       /\ Rising(Append(got[h], x))
  BY <1>3, <1>8, <1>9, LongerRises DEF WatchInv, InOrder, GotBy
<1>11. GotBy(h)' = GotBy(h) \cup {x} /\ Rising(got'[h]) /\ Rising(queue'[h])
  BY <1>3, <1>4, <1>8, <1>10 DEF GotBy
<1>12. WatchTypes'
  BY <1>7, <1>8, <1>10 DEF WatchInv, WatchTypes
<1>13. InOrder(h)'
  BY SMTT(40), <1>3, <1>4, <1>5, <1>11 DEF WatchInv, InOrder, Below
<1>14. Complete(h)'
  BY <1>3, <1>4, <1>5, <1>11 DEF WatchInv, Complete
<1>15. Still(h)'
  BY DEF WatchInv, Still
<1>16. QED
  BY <1>6, <1>12, <1>13, <1>14, <1>15, OthersKeep DEF WatchInv

LEMMA StepCloseWatch ==
  ASSUME WatchInv, NEW h \in Handle, CloseWatch(h)
  PROVE  WatchInv'
<1> USE DEF CloseWatch
<1>1. WatchTypes'
  BY NothingRises DEF WatchInv, WatchTypes
<1>2. \A g \in Handle \ {h} : AsBefore(g)
  BY DEF WatchInv, WatchTypes, AsBefore
<1>3. handle'[h] = "closed" /\ told'[h] = <<>> /\ queue'[h] = <<>>
  BY DEF WatchInv, WatchTypes
<1>4. GotBy(h)' = GotBy(h) /\ InQueue(h)' = {} /\ OnCall(h)' = OnCall(h) /\ ToCome(h)' = {}
  BY <1>3, NothingRises DEF GotBy, InQueue, OnCall, ToCome
<1>5. InOrder(h)' /\ Complete(h)' /\ Still(h)'
  BY <1>3, <1>4, NothingRises DEF WatchInv, InOrder, Complete, Still, Below
<1>6. QED
  BY <1>1, <1>2, <1>5, OthersKeep DEF WatchInv

LEMMA WatchStep ==
  ASSUME WatchInv, [WatchNext]_watchVars
  PROVE  WatchInv'
<1>1. CASE UNCHANGED <<handle, happened, since, told, calling, queue, got, missed>>
  <2>1. \A g \in Handle : AsBefore(g)
    BY <1>1 DEF AsBefore
  <2>2. WatchTypes'
    BY <1>1 DEF WatchInv, WatchTypes
  <2>3. QED
    BY <1>1, <2>1, <2>2, OthersKeep DEF WatchInv
<1>2. CASE UNCHANGED watchVars
  BY <1>1, <1>2 DEF watchVars
<1>3. ASSUME NEW h \in Handle, Ask(h) \/ TimeOut(h) PROVE WatchInv'
  BY <1>1, <1>3 DEF Ask, TimeOut
<1>4. QED
  BY <1>2, <1>3, StepWatch, StepHappen, StepOverflow, StepCallBack, StepSend, StepTakeNext,
     StepCloseWatch DEF WatchNext

LEMMA WatchInductive == WatchSpec => []WatchInv
  BY WatchInitially, WatchStep, PTL DEF WatchSpec

\* A handle of fs.watch tells all that happened since it was made, once and in order.
THEOREM TellsAllInOrder == WatchSpec => []ToldInOrder
<1>1. WatchInv => ToldInOrder
  <2> SUFFICES ASSUME WatchInv, NEW h \in Handle
               PROVE  /\ \A i \in 1..Len(Arrived(h)) - 1 : Arrived(h)[i] < Arrived(h)[i + 1]
                      /\ handle[h] = "open" /\ ~missed[h] =>
                           NumbersIn(Arrived(h))
                             \cup UNION {NumbersIn(told[h][i]) : i \in DOMAIN told[h]}
                               = since[h] + 1..happened
    BY DEF ToldInOrder
  <2>1. got[h] \in Seq(Nat) /\ queue[h] \in Seq(Nat) /\ calling[h] \in Seq(Nat)
    BY DEF WatchInv, WatchTypes
  <2>2. PICK some : some = got[h] \o queue[h]
    OBVIOUS
  <2>3. some \in Seq(Nat) /\ NumbersIn(some) = GotBy(h) \cup InQueue(h) /\ Rising(some)
    <3>1. Below(GotBy(h), InQueue(h))
      BY DEF WatchInv, InOrder, Below
    <3>2. QED
      BY <2>1, <2>2, <3>1, JoinedRise DEF WatchInv, InOrder, GotBy, InQueue
  <2>4. PICK all : all = some \o calling[h]
    OBVIOUS
  <2>5. all \in Seq(Nat) /\ NumbersIn(all) = GotBy(h) \cup InQueue(h) \cup OnCall(h) /\ Rising(all)
    <3>1. Below(GotBy(h) \cup InQueue(h), OnCall(h))
      BY DEF WatchInv, InOrder, Below
    <3>2. QED
      BY <2>1, <2>3, <2>4, <3>1, JoinedRise DEF WatchInv, InOrder, OnCall
  <2>6. Arrived(h) = all
    BY <2>2, <2>4 DEF Arrived
  <2>7. \A i \in 1..Len(all) - 1 : all[i] < all[i + 1]
    <3>1. \A i \in 1..Len(all) - 1 : i \in DOMAIN all /\ i + 1 \in DOMAIN all /\ i < i + 1
      BY <2>5, LenProperties
    <3>2. QED
      BY <2>5, <3>1 DEF Rising
  <2>8. QED
    BY <2>5, <2>6, <2>7 DEF WatchInv, Complete, ToCome, ToldOf
<1>2. QED
  BY <1>1, WatchInductive, PTL

-----------------------------------------------------------------------------
(* The JSON-RPC client: the inductive invariant.                           *)

\* The counter is above all ids given out, and no two requests have the same.
IdsFresh ==
  /\ \A c \in Caller : \A i \in DOMAIN call[c].ids : call[c].ids[i] < next_id
  /\ \A c, d \in Caller : \A i \in DOMAIN call[c].ids : \A j \in DOMAIN call[d].ids :
       call[c].ids[i] = call[d].ids[j] => c = d /\ i = j

Entries == [ok : BOOLEAN, of : AllSlots \cup {Nobody}]
CallResults == [kind : {"none", "raised", "nil", "value", "entries"}, entries : Seq(Entries)]
CallRecord ==
  [op : {"none", "call", "notify", "batch"}, ids : Seq(Nat \ {0}), result : CallResults,
   said : SUBSET AllSlots]

\* What a result says of a call's requests.
OwnEntries(c, res) ==
  \A i \in DOMAIN res.entries :
    \/ res.entries[i].of = <<c, i>>
    \/ res.entries[i].of = Nobody /\ ~res.entries[i].ok

-----------------------------------------------------------------------------
(* Items and results.                                                      *)

\* An item of an answer is about a request that was posted, and if it has an id it is
\* the one of that request.
LEMMA ItemsAreOfSlots ==
  ASSUME TypeOK, NEW item \in Items
  PROVE  /\ item.of \in AllSlots
         /\ item.id \in Nat
         /\ item.part \in Parts
         /\ \E c \in Caller : \E i \in DOMAIN call[c].ids :
              item.of = <<c, i>> /\ item.id \in {NoId, call[c].ids[i]}
<1>1. PICK sl \in Slots :
        item \in [id : {NoId, IdOf(sl)}, part : Parts, of : {sl}]
  BY DEF Items
<1>2. PICK c \in Caller : sl \in {c} \X DOMAIN call[c].ids
  BY <1>1 DEF Slots
<1>3. PICK i \in DOMAIN call[c].ids : sl = <<c, i>>
  BY <1>2
<1>4. call[c].ids \in Seq(Nat \ {0}) /\ i \in Nat \ {0} /\ call[c].ids[i] \in Nat \ {0}
  <2>1. call[c].ids \in Seq(Nat \ {0})
    BY DEF TypeOK
  <2>2. DOMAIN call[c].ids = 1 .. Len(call[c].ids) /\ Len(call[c].ids) \in Nat
    BY <2>1, LenProperties
  <2>3. i \in Nat \ {0}
    BY <2>2
  <2>4. QED
    BY <2>1, <2>2, <2>3, ElementOfSeq
<1>5. IdOf(sl) = call[c].ids[i]
  BY <1>3 DEF IdOf
<1>6. QED
  BY <1>1, <1>3, <1>4, <1>5 DEF AllSlots, NoId

\* An item under the id of a request is about that request, and about a request that was
\* posted an item with an id has its id.
LEMMA ItemsAreOwn ==
  ASSUME TypeOK, IdsFresh, NEW c \in Caller, NEW i \in DOMAIN call[c].ids, NEW item \in Items
  PROVE  /\ item.id = call[c].ids[i] => item.of = <<c, i>>
         /\ item.of = <<c, i>> /\ item.id # NoId => item.id = call[c].ids[i]
<1>0. PICK d \in Caller : \E j \in DOMAIN call[d].ids :
        item.of = <<d, j>> /\ item.id \in {NoId, call[d].ids[j]}
  BY ItemsAreOfSlots
<1>1. PICK j \in DOMAIN call[d].ids : item.of = <<d, j>> /\ item.id \in {NoId, call[d].ids[j]}
  BY <1>0
<1>2. call[c].ids[i] # NoId
  <2>1. call[c].ids \in Seq(Nat \ {0})
    BY DEF TypeOK
  <2>2. QED
    BY <2>1, ElementOfSeq, LenProperties DEF NoId
<1>3. ASSUME item.id = call[c].ids[i]
      PROVE  item.of = <<c, i>>
  BY <1>1, <1>2, <1>3 DEF IdsFresh
<1>4. ASSUME item.of = <<c, i>>, item.id # NoId
      PROVE  item.id = call[c].ids[i]
  <2>1. d = c /\ j = i
    BY <1>1, <1>4
  <2>2. QED
    BY <1>1, <1>4, <2>1
<1>5. QED
  BY <1>3, <1>4

\* What is made of an answer to a call.
LEMMA OutcomeType ==
  ASSUME TypeOK, IdsFresh, NEW c \in Caller, NEW reply \in Replies, call[c].op # "none"
  PROVE  Outcome(c, reply) \in CallResults /\ OwnEntries(c, Outcome(c, reply))
<1> DEFINE ids == call[c].ids
<1>1. ids \in Seq(Nat \ {0}) /\ DOMAIN ids = 1 .. Len(ids) /\ Len(ids) \in Nat
  <2>1. ids \in Seq(Nat \ {0})
    BY DEF TypeOK
  <2>2. QED
    BY <2>1, LenProperties
<1>2. \A i \in DOMAIN ids : ids[i] \in Nat \ {0}
  BY <1>1, ElementOfSeq
<1>3. <<>> \in Seq(Entries) /\ Len(<<>>) = 0 /\ DOMAIN <<>> = {}
  BY EmptySeq, LenProperties
<1>a. \A entry \in Entries : <<entry>> \in Seq(Entries)
  OBVIOUS
<1>4. Raised \in CallResults /\ OwnEntries(c, Raised)
  BY <1>3 DEF Raised, Result, CallResults, OwnEntries
<1>5. CASE call[c].op = "notify"
  <2>1. Result("nil", <<>>) \in CallResults /\ OwnEntries(c, Result("nil", <<>>))
    BY <1>3 DEF Result, CallResults, OwnEntries
  <2>2. QED
    BY <1>4, <1>5, <2>1 DEF Outcome
<1>6. ASSUME NEW item \in Items, NEW i \in DOMAIN ids, item.id = ids[i]
      PROVE  item.of = <<c, i>>
  BY <1>6, ItemsAreOwn
<1>7. \A i \in DOMAIN ids : <<c, i>> \in AllSlots
  BY <1>1 DEF AllSlots
<1>8. CASE call[c].op = "call"
  <2>1. Len(ids) = 1 /\ 1 \in DOMAIN ids
    <3>1. Len(ids) = 1
      BY <1>8, Zenon DEF TypeOK
    <3>2. QED
      BY <1>1, <3>1
  <2>2. CASE reply.shape = "object"
    <3>1. PICK item \in Items : reply = Reply("object", <<item>>)
      BY <2>2 DEF Replies, Reply
    <3>2. reply.items[1] = item
      BY <3>1 DEF Reply
    <3>3. ASSUME item.id = ids[1]
          PROVE  /\ Result("value", <<Entry(TRUE, item.of)>>) \in CallResults
                 /\ OwnEntries(c, Result("value", <<Entry(TRUE, item.of)>>))
      <4>1. item.of = <<c, 1>>
        BY <1>6, <2>1, <3>3
      <4>2. Entry(TRUE, item.of) \in Entries
        BY <4>1, <1>7, <2>1 DEF Entry, Entries
      <4>3. <<Entry(TRUE, item.of)>> \in Seq(Entries)
        BY <4>2, <1>a
      <4>4. DOMAIN <<Entry(TRUE, item.of)>> = {1}
        OBVIOUS
      <4>5. QED
        BY <4>1, <4>3, <4>4 DEF Result, CallResults, OwnEntries, Entry
    <3>4. Outcome(c, reply) =
            IF ~HasError(item) /\ item.id = ids[1] /\ item.part # "neither"
            THEN Result("value", <<Entry(TRUE, item.of)>>) ELSE Raised
      BY <1>8, <2>2, <3>2 DEF Outcome, ExtractSingleResult
    <3>5. QED
      BY <1>4, <3>3, <3>4
  <2>3. QED
    BY <1>4, <1>8, <2>2 DEF Outcome, ExtractSingleResult
<1>9. CASE call[c].op = "batch"
  <2>1. CASE reply.shape = "array"
    <3>1. PICK items \in Arrays : reply = Reply("array", items)
      BY <2>1 DEF Replies, Reply
    <3>2. PICK n \in 0 .. MaxItems : items \in [1 .. n -> Items]
      BY <3>1 DEF Arrays
    <3>3. reply.items = items
      BY <3>1 DEF Reply
    <3> DEFINE entries == [i \in DOMAIN ids |-> BatchEntry(items, ids[i])]
    <3>4. ASSUME NEW i \in DOMAIN ids
          PROVE  /\ entries[i] \in Entries
                 /\ entries[i].of = <<c, i>> \/ (entries[i].of = Nobody /\ ~entries[i].ok)
      <4>1. CASE \E k \in DOMAIN items : Kept(items, ids[i], k)
        <5> DEFINE k == CHOOSE l \in DOMAIN items : Kept(items, ids[i], l)
        <5>1. k \in DOMAIN items /\ Kept(items, ids[i], k)
          BY <4>1
        <5>2. items[k] \in Items /\ items[k].id = ids[i]
          BY <3>2, <5>1 DEF Kept
        <5>3. items[k].of = <<c, i>>
          BY <1>6, <5>2
        <5>4. entries[i] = Entry(~HasError(items[k]) /\ items[k].part # "neither", items[k].of)
          BY <4>1 DEF BatchEntry
        <5>5. (~HasError(items[k]) /\ items[k].part # "neither") \in BOOLEAN
          OBVIOUS
        <5> HIDE DEF k, entries
        <5>6. QED
          BY <1>7, <5>3, <5>4, <5>5 DEF Entry, Entries
      <4>2. CASE ~\E k \in DOMAIN items : Kept(items, ids[i], k)
        <5>1. entries[i] = Entry(FALSE, Nobody)
          BY <4>2 DEF BatchEntry
        <5> HIDE DEF entries
        <5>2. QED
          BY <5>1 DEF Entry, Entries
      <4>3. QED
        BY <4>1, <4>2
    <3>5. entries \in Seq(Entries) /\ DOMAIN entries = DOMAIN ids
      <4>1. entries \in [1 .. Len(ids) -> Entries]
        BY <1>1, <3>4
      <4>2. QED
        BY <1>1, <4>1, SeqDef
    <3>6. Outcome(c, reply) = Result("entries", entries)
      BY <1>9, <2>1, <3>3 DEF Outcome, CorrelateBatchResponse
    <3> HIDE DEF entries
    <3>7. QED
      BY <3>4, <3>5, <3>6 DEF Result, CallResults, OwnEntries
  <2>2. QED
    BY <1>4, <1>9, <2>1 DEF Outcome, CorrelateBatchResponse
<1>10. call[c].op \in {"call", "notify", "batch"}
  BY DEF TypeOK
<1>11. QED
  BY <1>5, <1>8, <1>9, <1>10

-----------------------------------------------------------------------------
(* The steps.                                                              *)

LEMMA TypeIsCallRecord == TypeOK => call \in [Caller -> CallRecord]
BY Zenon DEF TypeOK, CallRecord, CallResults, Entries

\* A call that is made gets ids no request has.
LEMMA PostStep ==
  ASSUME TypeOK, IdsFresh, OwnAnswers,
         NEW c \in Caller, NEW sort \in {"call", "notify", "batch"}, NEW n \in Nat,
         NEW ids, ids = FreshIds(n), sort = "call" => n = 1,
         NEW blocking \in BOOLEAN, Post(c, sort, ids, blocking)
  PROVE  TypeOK' /\ IdsFresh' /\ OwnAnswers'
<1> DEFINE record == Posted(sort, ids)
<1>1. ids \in Seq(Nat \ {0}) /\ Len(ids) = n /\ DOMAIN ids = 1 .. n
  <2>1. ids \in [1 .. n -> Nat \ {0}]
    BY DEF FreshIds, TypeOK
  <2>2. QED
    BY <2>1, SeqDef, LenProperties
<1>2. \A i \in DOMAIN ids : ids[i] = next_id + i - 1 /\ i \in Nat \ {0} /\ i <= n
  BY <1>1 DEF FreshIds
<1>3. /\ call[c] = Unmade
      /\ next_id' = next_id + n
      /\ call' = [call EXCEPT ![c] = record]
      /\ waiting' = IF blocking THEN {c} ELSE {}
      /\ waiting = {}
  BY <1>1 DEF Post, Ready
<1>4. <<>> \in Seq(Entries) /\ Len(<<>>) = 0 /\ DOMAIN <<>> = {}
  BY EmptySeq, LenProperties
<1>5. record = [op |-> sort, ids |-> ids, result |-> NoResult, said |-> {}]
  BY DEF Posted
<1>6. record \in CallRecord /\ record.result = NoResult /\ record.ids = ids /\ record.op = sort
  BY <1>1, <1>4, <1>5 DEF CallRecord, CallResults, NoResult, Result
<1> HIDE DEF record
<1>7. call \in [Caller -> CallRecord]
  BY TypeIsCallRecord
<1>8. call' \in [Caller -> CallRecord] /\ call'[c] = record
      /\ \A d \in Caller \ {c} : call'[d] = call[d]
  BY <1>3, <1>6, <1>7
<1>9. TypeOK'
  <2>1. next_id' \in Nat \ {0} /\ waiting' \in SUBSET Caller
    BY <1>3 DEF TypeOK
  <2>2. ASSUME NEW d \in Caller
        PROVE  /\ call'[d].op = "none" => call'[d] = Unmade
               /\ call'[d].op = "call" => Len(call'[d].ids) = 1
               /\ d \in waiting' => call'[d].op # "none" /\ call'[d].result = NoResult
    <3>1. CASE d = c
      BY <1>1, <1>6, <1>8, <3>1
    <3>2. CASE d # c
      <4>1. /\ call[d].op = "none" => call[d] = Unmade
            /\ call[d].op = "call" => Len(call[d].ids) = 1
        BY Zenon DEF TypeOK
      <4>2. call'[d] = call[d] /\ d \notin waiting'
        BY <1>3, <1>8, <3>2
      <4>3. QED
        BY <4>1, <4>2
    <3>3. QED
      BY <3>1, <3>2
  <2>3. QED
    BY <1>8, <2>1, <2>2, Zenon DEF TypeOK, CallRecord, CallResults, Entries
<1>10. ASSUME NEW d \in Caller, NEW i \in DOMAIN call[d].ids
       PROVE  call[d].ids[i] < next_id /\ call[d].ids[i] \in Nat
  <2>1. call[d].ids \in Seq(Nat \ {0})
    BY <1>7 DEF CallRecord
  <2>2. QED
    BY <2>1, ElementOfSeq, LenProperties DEF IdsFresh
<1>11. IdsFresh'
  <2>1. next_id \in Nat \ {0}
    BY DEF TypeOK
  <2>2. ASSUME NEW d \in Caller, NEW i \in DOMAIN call'[d].ids
        PROVE  /\ call'[d].ids[i] \in Nat
               /\ call'[d].ids[i] < next_id'
               /\ d = c => call'[d].ids[i] = next_id + i - 1 /\ i \in Nat
               /\ d = c <=> call'[d].ids[i] >= next_id
    BY <1>2, <1>3, <1>6, <1>8, <1>10, <2>1
  <2>3. ASSUME NEW d \in Caller, NEW e \in Caller,
               NEW i \in DOMAIN call'[d].ids, NEW j \in DOMAIN call'[e].ids,
               call'[d].ids[i] = call'[e].ids[j]
        PROVE  d = e /\ i = j
    <3>1. d = c <=> e = c
      BY <2>2, <2>3
    <3>2. CASE d = c
      BY <2>1, <2>2, <2>3, <3>1, <3>2
    <3>3. CASE d # c
      BY <1>8, <2>3, <3>1, <3>3 DEF IdsFresh
    <3>4. QED
      BY <3>2, <3>3
  <2>4. QED
    BY <2>2, <2>3 DEF IdsFresh
<1>12. OwnAnswers'
  <2>1. DOMAIN NoResult.entries = {}
    BY <1>4 DEF NoResult, Result
  <2>2. ASSUME NEW d \in Caller
        PROVE  OwnEntries(d, call'[d].result)
    BY <1>6, <1>8, <2>1 DEF OwnAnswers, OwnEntries
  <2>3. QED
    BY <2>2 DEF OwnAnswers, OwnEntries
<1>13. QED
  BY <1>9, <1>11, <1>12

\* What a call returns is about its own requests, whatever the answer has.
LEMMA ReceiveStep ==
  ASSUME TypeOK, IdsFresh, OwnAnswers,
         NEW c \in Caller, NEW reply \in Replies, Receive(c, reply)
  PROVE  TypeOK' /\ IdsFresh' /\ OwnAnswers'
<1> DEFINE outcome == Outcome(c, reply)
           said == {reply.items[k].of : k \in {l \in DOMAIN reply.items :
                                                  reply.items[l].id # NoId}}
           record == [call[c] EXCEPT !.result = outcome, !.said = said]
<1>1. call[c].op # "none" /\ call[c].result = NoResult
  BY DEF Receive
<1>2. outcome \in CallResults /\ OwnEntries(c, outcome)
  BY <1>1, OutcomeType
<1>3. said \in SUBSET AllSlots
  <2>1. ASSUME NEW k \in DOMAIN reply.items
        PROVE  reply.items[k].of \in AllSlots
    <3>1. CASE reply = Reply("fails", <<>>)
      <4>1. reply.items = <<>>
        BY <3>1 DEF Reply
      <4>2. QED
        BY <4>1, EmptySeq, LenProperties
    <3>2. CASE \E item \in Items : reply = Reply("object", <<item>>)
      <4>1. PICK item \in Items : reply = Reply("object", <<item>>)
        BY <3>2
      <4>2. reply.items = <<item>> /\ k = 1
        BY <4>1 DEF Reply
      <4>3. QED
        BY <4>2, ItemsAreOfSlots
    <3>3. CASE \E items \in Arrays : reply = Reply("array", items)
      <4>1. PICK items \in Arrays : reply = Reply("array", items)
        BY <3>3
      <4>2. reply.items = items
        BY <4>1 DEF Reply
      <4>3. reply.items[k] \in Items
        BY <4>2 DEF Arrays
      <4>4. QED
        BY <4>3, ItemsAreOfSlots
    <3>4. QED
      BY <3>1, <3>2, <3>3 DEF Replies
  <2>2. QED
    BY <2>1
<1>4. call \in [Caller -> CallRecord]
  BY TypeIsCallRecord
<1>5. call' = [call EXCEPT ![c] = record] /\ waiting' = waiting \ {c} /\ next_id' = next_id
  BY DEF Receive
<1> HIDE DEF outcome, said
<1>6. record \in CallRecord /\ record.op = call[c].op /\ record.ids = call[c].ids
      /\ record.result = outcome
  BY <1>2, <1>3, <1>4 DEF CallRecord
<1> HIDE DEF record
<1>7. call' \in [Caller -> CallRecord] /\ call'[c] = record
      /\ \A d \in Caller \ {c} : call'[d] = call[d]
  BY <1>4, <1>5, <1>6
<1>8. TypeOK'
  <2>1. next_id' \in Nat \ {0} /\ waiting' \in SUBSET Caller
    BY <1>5 DEF TypeOK
  <2>2. ASSUME NEW d \in Caller
        PROVE  /\ call'[d].op = "none" => call'[d] = Unmade
               /\ call'[d].op = "call" => Len(call'[d].ids) = 1
               /\ d \in waiting' => call'[d].op # "none" /\ call'[d].result = NoResult
    <3>1. /\ call[d].op = "none" => call[d] = Unmade
          /\ call[d].op = "call" => Len(call[d].ids) = 1
          /\ d \in waiting => call[d].op # "none" /\ call[d].result = NoResult
      BY Zenon DEF TypeOK
    <3>2. QED
      BY <1>1, <1>5, <1>6, <1>7, <3>1
  <2>3. QED
    BY <1>7, <2>1, <2>2, Zenon DEF TypeOK, CallRecord, CallResults, Entries
<1>9. IdsFresh'
  <2>1. \A d \in Caller : call'[d].ids = call[d].ids
    BY <1>6, <1>7
  <2>2. QED
    BY <1>5, <2>1 DEF IdsFresh
<1>10. OwnAnswers'
  <2>1. ASSUME NEW d \in Caller
        PROVE  OwnEntries(d, call'[d].result)
    BY <1>2, <1>6, <1>7 DEF OwnAnswers, OwnEntries
  <2>2. QED
    BY <2>1 DEF OwnAnswers, OwnEntries
<1>11. QED
  BY <1>8, <1>9, <1>10

IInv == TypeOK /\ IdsFresh /\ OwnAnswers

\* Nothing is made, given out or answered at the start.
LEMMA InitInv == Init => IInv
<1> SUFFICES ASSUME Init
             PROVE  IInv
  OBVIOUS
<1>1. <<>> \in Seq(Entries) /\ <<>> \in Seq(Nat \ {0}) /\ Len(<<>>) = 0 /\ DOMAIN <<>> = {}
  BY EmptySeq, LenProperties
<1>2. Unmade = [op |-> "none", ids |-> <<>>, result |-> NoResult, said |-> {}]
  BY DEF Unmade, Posted
<1>3. Unmade \in CallRecord /\ Unmade.op = "none" /\ Unmade.ids = <<>> /\ Unmade.result.entries = <<>>
  BY <1>1, <1>2 DEF CallRecord, CallResults, NoResult, Result
<1>4. \A c \in Caller : call[c] = Unmade
  BY DEF Init
<1>5. call \in [Caller -> CallRecord]
  BY <1>3 DEF Init
<1>6. TypeOK
  <2>1. next_id \in Nat \ {0} /\ waiting \in SUBSET Caller /\ waiting = {}
    BY DEF Init
  <2>2. \A c \in Caller :
          /\ call[c].op = "none" => call[c] = Unmade
          /\ call[c].op = "call" => Len(call[c].ids) = 1
          /\ c \in waiting => call[c].op # "none" /\ call[c].result = NoResult
    BY <1>3, <1>4, <2>1
  <2>3. QED
    BY <1>5, <2>1, <2>2, Zenon DEF TypeOK, CallRecord, CallResults, Entries
<1>7. IdsFresh /\ OwnAnswers
  BY <1>1, <1>3, <1>4 DEF IdsFresh, OwnAnswers
<1>8. QED
  BY <1>6, <1>7 DEF IInv

LEMMA NextInv == IInv /\ [Next]_vars => IInv'
<1> SUFFICES ASSUME IInv, [Next]_vars
             PROVE  IInv'
  OBVIOUS
<1> USE DEF IInv
<1>1. ASSUME NEW c \in Caller, NEW blocking \in BOOLEAN, Call(c, blocking)
      PROVE  IInv'
  BY <1>1, PostStep DEF Call
<1>2. ASSUME NEW c \in Caller, NEW blocking \in BOOLEAN, Notify(c, blocking)
      PROVE  IInv'
  <2>1. <<>> = FreshIds(0)
    BY DEF FreshIds, TypeOK
  <2>2. QED
    BY <1>2, <2>1, PostStep DEF Notify
<1>3. ASSUME NEW c \in Caller, NEW blocking \in BOOLEAN, NEW n \in 1 .. MaxBatch,
             Batch(c, n, blocking)
      PROVE  IInv'
  <2>1. n \in Nat
    BY JsonRpcAssumption
  <2>2. QED
    BY <1>3, <2>1, PostStep DEF Batch
<1>4. ASSUME NEW k \in 1 .. MaxBatch, BatchFails(k)
      PROVE  IInv'
  <2>1. next_id' = next_id + k /\ k \in Nat /\ next_id \in Nat \ {0} /\ UNCHANGED <<call, waiting>>
    BY <1>4, JsonRpcAssumption DEF BatchFails, TypeOK
  <2>2. TypeOK'
    <3>1. next_id' \in Nat \ {0}
      BY <2>1
    <3>2. QED
      BY <2>1, <3>1, Zenon DEF TypeOK
  <2>3. IdsFresh'
    <3>1. ASSUME NEW c \in Caller, NEW i \in DOMAIN call[c].ids
          PROVE  call[c].ids[i] < next_id + k
      <4>1. call[c].ids \in Seq(Nat \ {0})
        BY TypeIsCallRecord DEF CallRecord
      <4>2. call[c].ids[i] \in Nat
        BY <4>1, ElementOfSeq, LenProperties
      <4>3. QED
        BY <2>1, <4>2 DEF IdsFresh
    <3>2. QED
      BY <2>1, <3>1 DEF IdsFresh
  <2>4. OwnAnswers'
    BY <2>1 DEF OwnAnswers
  <2>5. QED
    BY <2>2, <2>3, <2>4
<1>5. ASSUME NEW c \in Caller, NEW reply \in Replies, Receive(c, reply)
      PROVE  IInv'
  BY <1>5, ReceiveStep
<1>6. CASE UNCHANGED vars
  <2>1. next_id' = next_id /\ call' = call /\ waiting' = waiting
    BY <1>6 DEF vars
  <2>2. TypeOK'
    BY <2>1, Zenon DEF TypeOK
  <2>3. IdsFresh'
    BY <2>1 DEF IdsFresh
  <2>4. OwnAnswers'
    BY <2>1 DEF OwnAnswers
  <2>5. QED
    BY <2>2, <2>3, <2>4
<1>7. QED
  BY <1>1, <1>2, <1>3, <1>4, <1>5, <1>6 DEF Next

\* The state of a client is well-typed: a single call has one id, and the script waits
\* for a call that was made and has no answer yet (next_id, the methods of LuaRpcClient).
THEOREM TypeCorrect == Spec => []TypeOK
<1>1. IInv => TypeOK
  BY DEF IInv
<1>2. QED
  BY InitInv, NextInv, <1>1, PTL DEF Spec

\* A result, or an error of a batch, is handed out as the answer to a request only if the
\* server said it of that request (extract_single_result, correlate_batch_response), for
\* any number of calls at once and any answers.  It rests on the ids: an answer is told
\* from another only by an id no other request ever had.
THEOREM AnswersAreOwn == Spec => []OwnAnswers
<1>1. IInv => OwnAnswers
  BY DEF IInv
<1>2. QED
  BY InitInv, NextInv, <1>1, PTL DEF Spec

-----------------------------------------------------------------------------
(* Batches.                                                                *)

LEMMA GreatestPlace ==
  ASSUME NEW n \in Nat, NEW K \in SUBSET (1 .. n), K # {}
  PROVE  \E k \in K : \A l \in K : l <= k
<1> DEFINE T == {m \in Nat : \E k \in K : m = n - k}
<1>1. T # {}
  <2>1. PICK k \in K : TRUE
    OBVIOUS
  <2>2. n - k \in T
    OBVIOUS
  <2>3. QED
    BY <2>2
<1>2. PICK m \in T : \A l \in T : m <= l
  <2>1. T \in SUBSET Nat
    OBVIOUS
  <2> HIDE DEF T
  <2>2. QED
    BY <1>1, <2>1, LeastNatural
<1>3. PICK k \in K : m = n - k
  OBVIOUS
<1>4. \A l \in K : n - l \in T
  OBVIOUS
<1>5. \A l \in K : l <= k
  BY <1>2, <1>3, <1>4
<1>6. QED
  BY <1>5

\* The requests that the items of an answer are about, those without an id left out.
SaidIn(items) == {items[k].of : k \in {l \in DOMAIN items : items[l].id # NoId}}

\* The entry of a request is made up just when no item is about it.
LEMMA MadeUpEntry ==
  ASSUME TypeOK, IdsFresh, NEW c \in Caller, NEW i \in DOMAIN call[c].ids, NEW items \in Arrays
  PROVE  BatchEntry(items, call[c].ids[i]).of = Nobody <=> <<c, i>> \notin SaidIn(items)
<1>1. PICK id : id = call[c].ids[i]
  OBVIOUS
<1>2. id # NoId
  <2>1. call[c].ids \in Seq(Nat \ {0})
    BY DEF TypeOK
  <2>2. QED
    BY <1>1, <2>1, ElementOfSeq, LenProperties DEF NoId
<1>3. PICK n \in 0 .. MaxItems : items \in [1 .. n -> Items]
  BY DEF Arrays
<1>4. n \in Nat /\ DOMAIN items = 1 .. n
  BY <1>3, JsonRpcAssumption
<1>5. \A k \in DOMAIN items :
        /\ items[k].id = id => items[k].of = <<c, i>>
        /\ items[k].of = <<c, i>> /\ items[k].id # NoId => items[k].id = id
  BY <1>1, <1>3, ItemsAreOwn
<1>6. CASE \E k \in DOMAIN items : items[k].id = id
  <2> DEFINE K == {k \in 1 .. n : items[k].id = id}
  <2>1. PICK k \in K : \A l \in K : l <= k
    <3>1. K \in SUBSET (1 .. n) /\ K # {}
      BY <1>4, <1>6
    <3> HIDE DEF K
    <3>2. QED
      BY <1>4, <3>1, GreatestPlace
  <2>2. k \in DOMAIN items /\ Kept(items, id, k)
    BY <1>4, <2>1 DEF Kept
  <2>3. PICK last \in DOMAIN items :
          /\ Kept(items, id, last)
          /\ last = CHOOSE l \in DOMAIN items : Kept(items, id, l)
    BY <2>2
  <2>4. BatchEntry(items, id).of = items[last].of
    BY <2>2, <2>3 DEF BatchEntry, Entry
  <2>5. items[last].id = id /\ items[last].of = <<c, i>>
    BY <1>5, <2>3 DEF Kept
  <2>6. <<c, i>> \in SaidIn(items)
    BY <1>2, <2>5 DEF SaidIn
  <2>7. QED
    BY <1>1, <2>4, <2>5, <2>6 DEF Nobody
<1>7. CASE ~\E k \in DOMAIN items : items[k].id = id
  <2>1. BatchEntry(items, id).of = Nobody
    BY <1>7 DEF BatchEntry, Kept, Entry
  <2>2. <<c, i>> \notin SaidIn(items)
    BY <1>5, <1>7 DEF SaidIn
  <2>3. QED
    BY <1>1, <2>1, <2>2
<1>8. QED
  BY <1>6, <1>7

\* NothingLost, of one call's result.
EntryEach(c, res, ids, said) ==
  res.kind = "entries" =>
    /\ DOMAIN res.entries = DOMAIN ids
    /\ \A i \in DOMAIN res.entries : res.entries[i].of = Nobody <=> <<c, i>> \notin said

LEMMA OutcomeHasAll ==
  ASSUME TypeOK, IdsFresh, NEW c \in Caller, NEW reply \in Replies
  PROVE  EntryEach(c, Outcome(c, reply), call[c].ids, SaidIn(reply.items))
<1> SUFFICES ASSUME Outcome(c, reply).kind = "entries"
             PROVE  /\ DOMAIN Outcome(c, reply).entries = DOMAIN call[c].ids
                    /\ \A i \in DOMAIN Outcome(c, reply).entries :
                         Outcome(c, reply).entries[i].of = Nobody
                           <=> <<c, i>> \notin SaidIn(reply.items)
  BY DEF EntryEach
<1>1. Outcome(c, reply) = CorrelateBatchResponse(reply, call[c].ids) /\ reply.shape = "array"
  BY DEF Outcome, ExtractSingleResult, CorrelateBatchResponse, Raised, Result
<1>2. PICK items \in Arrays : reply = Reply("array", items)
  BY <1>1 DEF Replies, Reply
<1>3. reply.items = items
  BY <1>2 DEF Reply
<1> DEFINE entries == [i \in DOMAIN call[c].ids |-> BatchEntry(items, call[c].ids[i])]
<1>4. Outcome(c, reply).entries = entries
  BY <1>1, <1>3 DEF CorrelateBatchResponse, Result
<1>5. \A i \in DOMAIN call[c].ids : entries[i].of = Nobody <=> <<c, i>> \notin SaidIn(items)
  BY MadeUpEntry
<1>6. DOMAIN entries = DOMAIN call[c].ids
  OBVIOUS
<1> HIDE DEF entries
<1>7. QED
  BY <1>3, <1>4, <1>5, <1>6

LEMMA NothingLostStep ==
  ASSUME IInv, NothingLost, [Next]_vars
  PROVE  NothingLost'
<1> USE DEF IInv
<1>1. NothingLost <=>
        \A c \in Caller : EntryEach(c, call[c].result, call[c].ids, call[c].said)
  BY DEF NothingLost, EntryEach
<1>2. NothingLost' <=>
        \A c \in Caller : EntryEach(c, call'[c].result, call'[c].ids, call'[c].said)
  BY DEF NothingLost, EntryEach
<1>3. call \in [Caller -> CallRecord]
  BY TypeIsCallRecord
<1>4. CASE call' = call
  BY <1>1, <1>2, <1>4
<1>5. ASSUME NEW c \in Caller, NEW sort, NEW ids, NEW blocking, Post(c, sort, ids, blocking)
      PROVE  NothingLost'
  <2>1. call' = [call EXCEPT ![c] = Posted(sort, ids)]
    BY <1>5 DEF Post
  <2>2. Posted(sort, ids).result.kind = "none"
    BY DEF Posted, NoResult, Result
  <2>3. \A d \in Caller : EntryEach(d, call'[d].result, call'[d].ids, call'[d].said)
    BY <1>1, <1>3, <2>1, <2>2 DEF EntryEach
  <2>4. QED
    BY <1>2, <2>3
<1>6. ASSUME NEW c \in Caller, NEW reply \in Replies, Receive(c, reply)
      PROVE  NothingLost'
  <2> DEFINE record == [call[c] EXCEPT !.result = Outcome(c, reply), !.said = SaidIn(reply.items)]
  <2>1. call' = [call EXCEPT ![c] = record]
    BY <1>6 DEF Receive, SaidIn
  <2>2. /\ record.result = Outcome(c, reply) /\ record.said = SaidIn(reply.items)
        /\ record.ids = call[c].ids
    BY <1>3 DEF CallRecord
  <2> HIDE DEF record
  <2>3. EntryEach(c, record.result, record.ids, record.said)
    BY <2>2, OutcomeHasAll
  <2>4. \A d \in Caller : EntryEach(d, call'[d].result, call'[d].ids, call'[d].said)
    BY <1>1, <1>3, <2>1, <2>3
  <2>5. QED
    BY <1>2, <2>4
<1>7. CASE UNCHANGED vars
  BY <1>4, <1>7 DEF vars
<1>8. CASE \E k \in 1 .. MaxBatch : BatchFails(k)
  BY <1>4, <1>8 DEF BatchFails
<1>9. QED
  BY <1>5, <1>6, <1>7, <1>8 DEF Next, Call, Notify, Batch

\* correlate_batch_response drops no request of a batch, and makes up an error for those
\* alone that the server left out, however many items an answer has and in what order:
\* as answers are told apart by ids, an item is about a request just when it has its id.
THEOREM BatchesAreComplete == Spec => []NothingLost
<1>1. Init => NothingLost
  BY DEF Init, NothingLost, Unmade, Posted, NoResult, Result
<1>2. IInv /\ NothingLost /\ [Next]_vars => NothingLost'
  BY NothingLostStep
<1>3. QED
  BY <1>1, <1>2, InitInv, NextInv, PTL DEF Spec
=============================================================================
