------------------------------- MODULE Promises ------------------------------
(***************************************************************************)
(* Promises of the luaml standard library and the calls that wait for them *)
(* (stdlib/promise.rs, stdlib/thread.rs).                                  *)
(*                                                                         *)
(* Tasks end on the threads of the runtime, in any order and at any time;  *)
(* the script that waits for them is one Lua thread, which a call blocks.  *)
(* A promise is the handle of a task until a call takes it.  What a task   *)
(* yields is abstracted to how it ended, and a result in the list that     *)
(* wait_all returns to the promise it comes from.                          *)
(*                                                                         *)
(* A definition whose name starts with Slip is not part of the model: it   *)
(* is what the one after it would be with a plausible bug in that code,    *)
(* kept to show which property notices.                                    *)
(***************************************************************************)
EXTENDS Naturals, Sequences

CONSTANTS
  Promise,  \* the promises a script makes
  Lists     \* the lists of promises it waits for

ASSUME PromisesAssumption == Lists \subseteq Seq(Promise)

VARIABLES
  task,    \* how far the task of each promise is
  inner,   \* inner is Some: the promise has the handle
  call,    \* what the script is waiting in
  answer,  \* what the last call returned
  taken    \* how often the outcome of a task was handed to the script (auxiliary)

vars == <<task, inner, call, answer, taken>>

End == {"value", "error", "panic"}
Ended(p) == task[p] \in End

Call(op, list) == [op |-> op, list |-> list, at |-> 1, holds |-> FALSE, got |-> <<>>]
Idle == Call("none", <<>>)

Answer(kind, index, results) == [kind |-> kind, index |-> index, results |-> results]

Init ==
  /\ task = [p \in Promise |-> "unborn"]
  /\ inner = [p \in Promise |-> FALSE]
  /\ call = Idle
  /\ answer = Answer("none", 0, <<>>)
  /\ taken = [p \in Promise |-> 0]

-----------------------------------------------------------------------------
(* The runtime.                                                            *)

Finish(p, outcome) ==
  /\ task[p] = "running"
  /\ task' = [task EXCEPT ![p] = outcome]
  /\ UNCHANGED <<inner, call, answer, taken>>

-----------------------------------------------------------------------------
(* The methods of a promise, and the waits.                                *)

Ready == call = Idle

Made(p) == task[p] # "unborn"

\* An asynchronous operation, such as thread.sleep_async.
New(p) ==
  /\ Ready
  /\ ~Made(p)
  /\ task' = [task EXCEPT ![p] = "running"]
  /\ inner' = [inner EXCEPT ![p] = TRUE]
  /\ UNCHANGED <<call, answer, taken>>

State(p) == IF ~inner[p] THEN "resolved" ELSE IF Ended(p) THEN "ready" ELSE "pending"

Poll(p) ==
  /\ Ready
  /\ Made(p)
  /\ answer' = Answer(State(p), 0, <<>>)
  /\ UNCHANGED <<task, inner, call, taken>>

\* The call returns: with the outcome of a task, which the script has now got.
Deliver(p, results) ==
  /\ taken' = [taken EXCEPT ![p] = @ + 1]
  /\ answer' = IF task[p] = "value" THEN Answer("value", call.at, results)
               ELSE Answer("error", call.at, <<>>)

\* A task that failed leaves its handle behind.
SlipTryAwait(p) ==
  /\ Ready
  /\ Made(p)
  /\ State(p) = "ready"
  /\ Deliver(p, <<p>>)
  /\ inner' = IF task[p] = "value" THEN [inner EXCEPT ![p] = FALSE] ELSE inner
  /\ UNCHANGED <<task, call>>

TryAwait(p) ==
  /\ Ready
  /\ Made(p)
  /\ IF State(p) = "ready"
     THEN Deliver(p, <<p>>) /\ inner' = [inner EXCEPT ![p] = FALSE]
     ELSE /\ answer' = Answer(IF inner[p] THEN "pending" ELSE "exhausted", 0, <<>>)
          /\ UNCHANGED <<inner, taken>>
  /\ UNCHANGED <<task, call>>

Begin(op, list) ==
  /\ Ready
  /\ \A i \in DOMAIN list : Made(list[i])
  /\ call' = Call(op, list)
  /\ UNCHANGED <<task, inner, answer, taken>>

Await(p) == Begin("await", <<p>>)
WaitAll(list) == Begin("wait_all", list)
WaitAny(list) == list # <<>> /\ Begin("wait_any", list)

WaitAnyOfNone ==
  /\ Ready
  /\ answer' = Answer("empty", 0, <<>>)
  /\ UNCHANGED <<task, inner, call, taken>>

Awaiting == call.op \in {"await", "wait_all"}
Current == call.list[call.at]

\* await takes the handle before it waits.
Take ==
  /\ Awaiting
  /\ call.at <= Len(call.list)
  /\ ~call.holds
  /\ IF inner[Current]
     THEN /\ inner' = [inner EXCEPT ![Current] = FALSE]
          /\ call' = [call EXCEPT !.holds = TRUE]
          /\ UNCHANGED answer
     ELSE /\ answer' = Answer("exhausted", call.at, <<>>)
          /\ call' = Idle
          /\ UNCHANGED inner
  /\ UNCHANGED <<task, taken>>

\* A failed task does not end the wait: its place in the results is left out.
SlipJoin ==
  /\ Awaiting
  /\ call.holds
  /\ Ended(Current)
  /\ taken' = [taken EXCEPT ![Current] = @ + 1]
  /\ call' = [call EXCEPT !.at = @ + 1, !.holds = FALSE,
                          !.got = IF task[Current] = "value" THEN Append(@, Current) ELSE @]
  /\ UNCHANGED <<task, inner, answer>>

\* block_on returns.  The first task that failed ends a wait_all: what the tasks before
\* it yielded is dropped.
Join ==
  /\ Awaiting
  /\ call.holds
  /\ Ended(Current)
  /\ IF task[Current] = "value"
     THEN /\ call' = [call EXCEPT !.at = @ + 1, !.holds = FALSE, !.got = Append(@, Current)]
          /\ taken' = [taken EXCEPT ![Current] = @ + 1]
          /\ UNCHANGED answer
     ELSE Deliver(Current, <<>>) /\ call' = Idle
  /\ UNCHANGED <<task, inner>>

ReturnAll ==
  /\ Awaiting
  /\ call.at > Len(call.list)
  /\ answer' = Answer("value", 0, call.got)
  /\ call' = Idle
  /\ UNCHANGED <<task, inner, taken>>

Sweeping == call.op = "wait_any"

\* The sweep of wait_any finds a promise ready and takes it, with try_await: nobody else
\* could since the poll.
Collect ==
  /\ Sweeping
  /\ call.at <= Len(call.list)
  /\ State(Current) = "ready"
  /\ Deliver(Current, <<Current>>)
  /\ inner' = [inner EXCEPT ![Current] = FALSE]
  /\ call' = Idle
  /\ UNCHANGED task

\* Pending promises and those that were awaited before are passed over.
Pass ==
  /\ Sweeping
  /\ call.at <= Len(call.list)
  /\ State(Current) # "ready"
  /\ call' = [call EXCEPT !.at = @ + 1]
  /\ UNCHANGED <<task, inner, answer, taken>>

\* The next sweep goes on where the last one ended.
SlipSleep == Sweeping /\ call.at > Len(call.list) /\ UNCHANGED vars

\* A sleep of 1 ms, and the next sweep.
Sleep ==
  /\ Sweeping
  /\ call.at > Len(call.list)
  /\ call' = [call EXCEPT !.at = 1]
  /\ UNCHANGED <<task, inner, answer, taken>>

-----------------------------------------------------------------------------

Wait == Take \/ Join \/ ReturnAll \/ Collect \/ Pass \/ Sleep

Script ==
  \/ \E p \in Promise : New(p) \/ Poll(p) \/ TryAwait(p) \/ Await(p)
  \/ \E list \in Lists : WaitAll(list) \/ WaitAny(list)
  \/ WaitAnyOfNone

Next ==
  \/ \E p \in Promise, outcome \in End : Finish(p, outcome)
  \/ Script
  \/ Wait

\* The runtime runs its tasks, whose operations come to an end, and a call that can go
\* on does.
Fairness ==
  /\ \A p \in Promise : WF_vars(\E outcome \in End : Finish(p, outcome))
  /\ WF_vars(Wait)

Spec == Init /\ [][Next]_vars /\ Fairness

-----------------------------------------------------------------------------

Calls ==
  [op : {"none", "await", "wait_all", "wait_any"}, list : Seq(Promise), at : Nat \ {0},
   holds : BOOLEAN, got : Seq(Promise)]

Answers ==
  [kind : {"none", "resolved", "ready", "pending", "exhausted", "empty", "value", "error"},
   index : Nat, results : Seq(Promise)]

TypeOK ==
  /\ task \in [Promise -> {"unborn", "running"} \cup End]
  /\ inner \in [Promise -> BOOLEAN]
  /\ call \in Calls
  /\ call.at <= Len(call.list) + 1
  /\ call.holds => Awaiting /\ call.at <= Len(call.list)
  /\ call.op = "none" => call = Idle
  /\ answer \in Answers
  /\ taken \in [Promise -> Nat]

\* The promise whose handle the waiting call has taken.
Held(p) == call.holds /\ Current = p

\* The outcome of a task is handed to the script once, whoever polls, tries, awaits and
\* waits for it, alone or in lists that name it twice: until then either the promise has
\* the handle or the call that waits for it does, and after that neither.
DeliveredOnce ==
  \A p \in Promise :
    IF ~Made(p) THEN ~inner[p] /\ ~Held(p) /\ taken[p] = 0
    ELSE \/ inner[p] /\ ~Held(p) /\ taken[p] = 0
         \/ ~inner[p] /\ Held(p) /\ taken[p] = 0
         \/ ~inner[p] /\ ~Held(p) /\ taken[p] = 1 /\ Ended(p)

\* The results of wait_all so far, and in the end all of them, are in the order of the
\* list, in whatever order the tasks end: each is there, none twice, all of them values.
ResultsInOrder ==
  Awaiting =>
    /\ call.got = SubSeq(call.list, 1, call.at - 1)
    /\ \A i, j \in DOMAIN call.got : call.got[i] = call.got[j] => i = j
    /\ \A i \in DOMAIN call.got : task[call.got[i]] = "value" /\ taken[call.got[i]] = 1

\* Every wait returns once the tasks it can still wait for end: await and wait_all
\* always, and wait_any unless all promises in its list were awaited before (it then
\* sweeps for ever).
Hopeless == Sweeping /\ \A i \in DOMAIN call.list : ~inner[call.list[i]]
WaitsReturn == (call # Idle /\ ~Hopeless) ~> (call = Idle)
=============================================================================
