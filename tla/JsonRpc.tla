------------------------------- MODULE JsonRpc -------------------------------
(***************************************************************************)
(* The JSON-RPC client of the luaml standard library (stdlib/rpc.rs):      *)
(* calls, notifications and batches over one HTTP exchange each, whose     *)
(* answers are told apart by the ids the client gave out.                  *)
(*                                                                         *)
(* What a request asks and an answer says is abstracted to the request it  *)
(* is about: a slot is a request of a call, the i-th of a batch or the     *)
(* first of a single call.  The server knows the requests posted so far    *)
(* and may answer an exchange with whatever it has for any of them, in any *)
(* order, none, twice or to the wrong exchange, but it does not put the id *)
(* of one request to what it says about another.                           *)
(*                                                                         *)
(* A definition whose name starts with Slip is not part of the model: it   *)
(* is what the one after it would be with a plausible bug in that code,    *)
(* kept to show which property notices.                                    *)
(***************************************************************************)
EXTENDS Naturals, Sequences

CONSTANTS
  Caller,    \* the calls a script makes with one client
  MaxBatch,  \* bound: the requests of a batch
  MaxItems,  \* bound: the items of an answer
  MaxId      \* bound: the ids given out

ASSUME JsonRpcAssumption == MaxBatch \in Nat /\ MaxItems \in Nat /\ MaxId \in Nat

VARIABLES
  next_id,  \* the counter of the client, an AtomicU64
  call,     \* each call and what became of it; said (auxiliary): what its answer was about
  waiting   \* the call the script is blocked in, if any

vars == <<next_id, call, waiting>>

NoId == 0     \* the id field is missing or not a number; ids start at 1
Nobody == <<>>

Reply(shape, items) == [shape |-> shape, items |-> items]
Result(kind, entries) == [kind |-> kind, entries |-> entries]
Entry(ok, slot) == [ok |-> ok, of |-> slot]

NoResult == Result("none", <<>>)
Posted(op, ids) == [op |-> op, ids |-> ids, result |-> NoResult, said |-> {}]
Unmade == Posted("none", <<>>)

Init ==
  /\ next_id = 1
  /\ call = [c \in Caller |-> Unmade]
  /\ waiting = {}

-----------------------------------------------------------------------------
(* Requests.  A batch takes an id for each of its elements in turn.        *)

FreshIds(n) == [i \in 1 .. n |-> next_id + i - 1]

Ready == waiting = {}

\* A batch counts as one request.
SlipPost(c, op, ids, blocking) ==
  /\ Ready
  /\ call[c] = Unmade
  /\ next_id + Len(ids) <= MaxId
  /\ next_id' = IF ids = <<>> THEN next_id ELSE next_id + 1
  /\ call' = [call EXCEPT ![c] = Posted(op, ids)]
  /\ waiting' = IF blocking THEN {c} ELSE {}

\* The request is built on the Lua thread and posted: the method waits for the answer,
\* or a task does and the method returns a promise of it.
Post(c, op, ids, blocking) ==
  /\ Ready
  /\ call[c] = Unmade
  /\ next_id + Len(ids) <= MaxId
  /\ next_id' = next_id + Len(ids)
  /\ call' = [call EXCEPT ![c] = Posted(op, ids)]
  /\ waiting' = IF blocking THEN {c} ELSE {}

Call(c, blocking) == Post(c, "call", FreshIds(1), blocking)
Notify(c, blocking) == Post(c, "notify", <<>>, blocking)
Batch(c, n, blocking) == Post(c, "batch", FreshIds(n), blocking)

\* An element of a batch is not a pair of a method and encodable parameters: nothing is
\* posted, and the ids of the k elements before it are gone.
BatchFails(k) ==
  /\ Ready
  /\ next_id + k <= MaxId
  /\ next_id' = next_id + k
  /\ UNCHANGED <<call, waiting>>

-----------------------------------------------------------------------------
(* The server, and the network on the way to it.                           *)

Slots == UNION {{c} \X DOMAIN call[c].ids : c \in Caller}
IdOf(slot) == call[slot[1]].ids[slot[2]]

\* What an item has for a request: its result, its error, a result beside an error, or
\* neither.  An error that is null is none.
Parts == {"result", "error", "both", "neither"}

Items ==
  UNION {[id : {NoId, IdOf(slot)}, part : Parts, of : {slot}] : slot \in Slots}

Arrays == UNION {[1 .. n -> Items] : n \in 0 .. MaxItems}

\* A connection that fails, a status other than 2xx and a body that is not JSON are the
\* same to a call.  A notification does not read the body, whatever it is.
Replies ==
  {Reply("fails", <<>>)}
    \cup {Reply("object", <<item>>) : item \in Items}
    \cup {Reply("array", items) : items \in Arrays}

-----------------------------------------------------------------------------
(* Correlation.                                                            *)

Raised == Result("raised", <<>>)

HasError(item) == item.part \in {"error", "both"}

ExtractSingleResult(reply, expected) ==
  IF /\ reply.shape = "object"
     /\ ~HasError(reply.items[1])
     /\ reply.items[1].id = expected
     /\ reply.items[1].part # "neither"
  THEN Result("value", <<Entry(TRUE, reply.items[1].of)>>)
  ELSE Raised

\* The place of the item kept for an id: a later one replaces an earlier.
Kept(items, id, k) == items[k].id = id /\ \A l \in DOMAIN items : items[l].id = id => l <= k

BatchEntry(items, id) ==
  IF \E k \in DOMAIN items : Kept(items, id, k)
  THEN LET item == items[CHOOSE k \in DOMAIN items : Kept(items, id, k)]
       IN Entry(~HasError(item) /\ item.part # "neither", item.of)
  ELSE Entry(FALSE, Nobody)

\* Requests that were not answered are left out.
SlipCorrelateBatchResponse(reply, ids) ==
  IF reply.shape = "array"
  THEN Result("entries", SelectSeq([i \in DOMAIN ids |-> BatchEntry(reply.items, ids[i])],
                                   LAMBDA entry : entry.of # Nobody))
  ELSE Raised

CorrelateBatchResponse(reply, ids) ==
  IF reply.shape = "array"
  THEN Result("entries", [i \in DOMAIN ids |-> BatchEntry(reply.items, ids[i])])
  ELSE Raised

Outcome(c, reply) ==
  IF reply.shape = "fails" THEN Raised
  ELSE IF call[c].op = "notify" THEN Result("nil", <<>>)
  ELSE IF call[c].op = "call" THEN ExtractSingleResult(reply, call[c].ids[1])
  ELSE CorrelateBatchResponse(reply, call[c].ids)

\* The answer arrives, is read to its end and taken apart, by the method that waits or by
\* the task of the promise.
Receive(c, reply) ==
  /\ call[c].op # "none"
  /\ call[c].result = NoResult
  /\ call' = [call EXCEPT ![c].result = Outcome(c, reply),
                        ![c].said = {reply.items[k].of : k \in {l \in DOMAIN reply.items :
                                                                reply.items[l].id # NoId}}]
  /\ waiting' = waiting \ {c}
  /\ UNCHANGED next_id

-----------------------------------------------------------------------------

Next ==
  \/ \E c \in Caller, blocking \in BOOLEAN :
       \/ Call(c, blocking)
       \/ Notify(c, blocking)
       \/ \E n \in 1 .. MaxBatch : Batch(c, n, blocking)
  \/ \E k \in 1 .. MaxBatch : BatchFails(k)
  \/ \E c \in Caller : \E reply \in Replies : Receive(c, reply)

Spec == Init /\ [][Next]_vars

-----------------------------------------------------------------------------

AllSlots == Caller \X (Nat \ {0})

TypeOK ==
  /\ next_id \in Nat \ {0}
  /\ waiting \in SUBSET Caller
  /\ call \in [Caller ->
       [op : {"none", "call", "notify", "batch"},
        ids : Seq(Nat \ {0}),
        result : [kind : {"none", "raised", "nil", "value", "entries"},
                  entries : Seq([ok : BOOLEAN, of : AllSlots \cup {Nobody}])],
        said : SUBSET AllSlots]]
  /\ \A c \in Caller :
       /\ call[c].op = "none" => call[c] = Unmade
       /\ call[c].op = "call" => Len(call[c].ids) = 1
       /\ c \in waiting => call[c].op # "none" /\ call[c].result = NoResult

\* Whatever a call returns as the result of a request, the server said of that request,
\* and likewise an error in a batch, though answers come in any order, late, twice, from
\* another exchange or without an id, while any number of calls are on their way.
OwnAnswers ==
  \A c \in Caller : \A i \in DOMAIN call[c].result.entries :
    LET entry == call[c].result.entries[i]
    IN entry.of = <<c, i>> \/ (entry.of = Nobody /\ ~entry.ok)

\* A batch returns an entry for each of its requests, and makes one up only for those
\* of which the answer says nothing under their id.
NothingLost ==
  \A c \in Caller : call[c].result.kind = "entries" =>
    LET entries == call[c].result.entries
    IN /\ DOMAIN entries = DOMAIN call[c].ids
       /\ \A i \in DOMAIN entries : entries[i].of = Nobody <=> <<c, i>> \notin call[c].said
=============================================================================
