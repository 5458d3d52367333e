---------------------------- MODULE PromisesProofs ---------------------------
(***************************************************************************)
(* Safety of promises and waits, for any number of promises and any lists. *)
(***************************************************************************)
EXTENDS Promises, SequenceTheorems, TLAPS

-----------------------------------------------------------------------------
(* Types.                                                                  *)

\* The call in progress while a wait has not come to the end of its list: it has a
\* current promise.
LEMMA CurrentIsPromise ==
  ASSUME TypeOK, call.at <= Len(call.list)
  PROVE  Current \in Promise
<1>1. call.list \in Seq(Promise) /\ call.at \in Nat \ {0}
  BY DEF TypeOK, Calls
<1>2. Len(call.list) \in Nat
  BY <1>1, LenProperties
<1>3. call.at \in 1 .. Len(call.list)
  BY <1>1, <1>2
<1>4. QED
  BY <1>1, <1>3, ElementOfSeq DEF Current

\* Every variable keeps its type.
LEMMA TypeOKStep == TypeOK /\ [Next]_vars => TypeOK'
<1> SUFFICES ASSUME TypeOK, [Next]_vars
             PROVE  TypeOK'
  OBVIOUS
<1> USE DEF TypeOK
<1>a. Idle \in Calls /\ Idle.at <= Len(Idle.list) + 1 /\ ~Idle.holds /\ Idle.op = "none"
  BY EmptySeq DEF Idle, Call, Calls
<1>b. <<>> \in Seq(Promise)
  BY EmptySeq
<1>c. \A p \in Promise : <<p>> \in Seq(Promise)
  OBVIOUS
<1>d. call = [op |-> call.op, list |-> call.list, at |-> call.at, holds |-> call.holds, got |-> call.got]
      /\ call.op \in {"none", "await", "wait_all", "wait_any"} /\ call.list \in Seq(Promise)
      /\ call.at \in Nat \ {0} /\ call.holds \in BOOLEAN /\ call.got \in Seq(Promise)
  BY DEF Calls
<1>e. ASSUME NEW kind \in {"resolved", "ready", "pending", "exhausted", "empty", "value", "error"},
             NEW index \in Nat, NEW results \in Seq(Promise)
      PROVE  Answer(kind, index, results) \in Answers
  BY DEF Answer, Answers
<1>1. ASSUME NEW p \in Promise, NEW outcome \in End, Finish(p, outcome)
      PROVE  TypeOK'
  BY <1>1 DEF Finish, Awaiting
<1>2. ASSUME NEW p \in Promise, New(p)
      PROVE  TypeOK'
  BY <1>2 DEF New, Awaiting
<1>3. ASSUME NEW p \in Promise, Poll(p)
      PROVE  TypeOK'
  BY <1>3, <1>b DEF Poll, Answer, Answers, State, Awaiting
<1>4. ASSUME NEW p \in Promise, NEW results \in Seq(Promise), Deliver(p, results)
      PROVE  answer' \in Answers /\ taken' \in [Promise -> Nat]
  <2>1. call.at \in Nat
    BY DEF Calls
  <2>2. QED
    BY <1>4, <1>b, <2>1 DEF Deliver, Answer, Answers
<1>5. ASSUME NEW p \in Promise, TryAwait(p)
      PROVE  TypeOK'
  <2>1. CASE State(p) = "ready"
    BY <1>4, <1>5, <1>c, <2>1 DEF TryAwait, Awaiting
  <2>2. CASE State(p) # "ready"
    <3>1. answer' \in Answers
      BY <1>5, <1>b, <1>e, <2>2 DEF TryAwait
    <3>2. QED
      BY <1>5, <2>2, <3>1 DEF TryAwait, Awaiting
  <2>3. QED
    BY <2>1, <2>2
<1>6. ASSUME NEW op \in {"await", "wait_all", "wait_any"}, NEW list \in Seq(Promise), Begin(op, list)
      PROVE  TypeOK'
  <2>1. Len(list) \in Nat
    BY LenProperties
  <2>2. call' \in Calls /\ call'.at <= Len(call'.list) + 1 /\ ~call'.holds /\ call'.op # "none"
    BY <1>6, <1>b, <2>1 DEF Begin, Call, Calls
  <2>3. QED
    BY <1>6, <2>2 DEF Begin, Awaiting
<1>7. CASE WaitAnyOfNone
  BY <1>7, <1>b DEF WaitAnyOfNone, Answer, Answers, Awaiting
<1>8. CASE Take
  <2>1. Current \in Promise
    BY <1>8, CurrentIsPromise DEF Take
  <2>2. CASE inner[Current]
    <3>1. call' \in Calls /\ call'.at = call.at /\ call'.list = call.list /\ call'.op = call.op
      BY <1>8, <2>2 DEF Take, Calls
    <3>2. QED
      BY <1>8, <2>1, <2>2, <3>1 DEF Take, Awaiting
  <2>3. CASE ~inner[Current]
    <3>1. answer' \in Answers
      BY <1>8, <2>3, <1>b, <1>d, <1>e DEF Take
    <3>2. QED
      BY <1>8, <1>a, <2>3, <3>1 DEF Take, Awaiting
  <2>4. QED
    BY <2>2, <2>3
<1>9. CASE Join
  <2>1. call.at <= Len(call.list) /\ Current \in Promise
    BY <1>9, CurrentIsPromise DEF Join
  <2>2. CASE task[Current] = "value"
    <3>1. Append(call.got, Current) \in Seq(Promise)
      BY <2>1, AppendProperties DEF Calls
    <3>2. Len(call.list) \in Nat
      BY LenProperties DEF Calls
    <3>3. call' \in Calls /\ call'.at = call.at + 1 /\ call'.list = call.list /\ call'.op = call.op
          /\ ~call'.holds
      <4>1. call' = [call EXCEPT !.at = @ + 1, !.holds = FALSE, !.got = Append(@, Current)]
        BY <1>9, <2>2 DEF Join
      <4>2. call' = [op |-> call.op, list |-> call.list, at |-> call.at + 1, holds |-> FALSE,
                     got |-> Append(call.got, Current)]
        BY <1>d, <4>1
      <4>3. call.at + 1 \in Nat \ {0}
        BY <1>d
      <4>4. QED
        BY <1>d, <3>1, <4>2, <4>3 DEF Calls
    <3>4. call'.at <= Len(call'.list) + 1
      BY <2>1, <3>2, <3>3 DEF Calls
    <3>5. QED
      BY <1>9, <2>1, <2>2, <3>3, <3>4 DEF Join, Awaiting
  <2>3. CASE task[Current] # "value"
    BY <1>4, <1>9, <1>a, <1>b, <2>1, <2>3 DEF Join, Awaiting
  <2>4. QED
    BY <2>2, <2>3
<1>10. CASE ReturnAll
  BY <1>10, <1>a DEF ReturnAll, Answer, Answers, Calls, Awaiting
<1>11. CASE Collect
  <2>1. Current \in Promise
    BY <1>11, CurrentIsPromise DEF Collect
  <2>2. answer' \in Answers /\ taken' \in [Promise -> Nat]
    BY <1>4, <1>11, <1>c, <2>1 DEF Collect
  <2>3. QED
    BY <1>11, <1>a, <2>1, <2>2 DEF Collect, Awaiting
<1>12. CASE Pass
  <2>1. Len(call.list) \in Nat
    BY LenProperties DEF Calls
  <2>2. call' \in Calls /\ call'.at = call.at + 1 /\ call'.list = call.list /\ call'.op = "wait_any"
        /\ ~call'.holds
    <3>1. call' = [call EXCEPT !.at = @ + 1] /\ call.op = "wait_any" /\ ~call.holds
      BY <1>12 DEF Pass, Sweeping, Awaiting
    <3>2. call' = [op |-> call.op, list |-> call.list, at |-> call.at + 1, holds |-> call.holds,
                   got |-> call.got]
      BY <1>d, <3>1
    <3>3. call.at + 1 \in Nat \ {0}
      BY <1>d
    <3>4. QED
      BY <1>d, <3>1, <3>2, <3>3 DEF Calls
  <2>3. call'.at <= Len(call'.list) + 1
    BY <1>12, <2>1, <2>2 DEF Pass, Calls
  <2>4. QED
    BY <1>12, <2>2, <2>3 DEF Pass, Awaiting
<1>13. CASE Sleep
  <2>1. Len(call.list) \in Nat
    BY LenProperties DEF Calls
  <2>2. call' \in Calls /\ call'.at = 1 /\ call'.list = call.list /\ call'.op = "wait_any"
        /\ ~call'.holds
    <3>1. call' = [call EXCEPT !.at = 1] /\ call.op = "wait_any" /\ ~call.holds
      BY <1>13 DEF Sleep, Sweeping, Awaiting
    <3>2. call' = [op |-> call.op, list |-> call.list, at |-> 1, holds |-> call.holds,
                   got |-> call.got]
      BY <1>d, <3>1
    <3>3. 1 \in Nat \ {0}
      OBVIOUS
    <3>4. QED
      BY <1>d, <3>1, <3>2, <3>3 DEF Calls
  <2>3. QED
    BY <1>13, <2>1, <2>2 DEF Sleep, Awaiting
<1>14. CASE UNCHANGED vars
  BY <1>14 DEF vars, Awaiting
<1>15. QED
  BY <1>1, <1>2, <1>3, <1>5, <1>6, <1>7, <1>8, <1>9, <1>10, <1>11, <1>12, <1>13, <1>14, <1>c,
     PromisesAssumption DEF Next, Script, Wait, Await, WaitAll, WaitAny

\* The state of the promises, the tasks and the waiting call is well-typed.
THEOREM TypeCorrect == Spec => []TypeOK
<1>1. Init => TypeOK
  BY EmptySeq DEF Init, TypeOK, Idle, Call, Calls, Answer, Answers
<1>2. QED
  BY <1>1, TypeOKStep, PTL DEF Spec

-----------------------------------------------------------------------------
(* Every outcome is delivered once.                                        *)

\* A call that begins, and one that ends, holds no handle.
LEMMA NewCallsHoldNone == ~Idle.holds /\ \A op, list : ~Call(op, list).holds
  BY DEF Idle, Call

\* The handle of a task is in one place, and its outcome handed over when it is in none.
LEMMA DeliveredOnceStep == TypeOK /\ DeliveredOnce /\ [Next]_vars => DeliveredOnce'
<1> SUFFICES ASSUME TypeOK, DeliveredOnce, [Next]_vars
             PROVE  DeliveredOnce'
  OBVIOUS
<1>a. /\ task \in [Promise -> {"unborn", "running"} \cup End]
      /\ inner \in [Promise -> BOOLEAN]
      /\ taken \in [Promise -> Nat]
  BY DEF TypeOK
<1>b. ASSUME call = Idle PROVE ~call.holds
  BY <1>b, NewCallsHoldNone
<1> USE DEF DeliveredOnce, Made, Held, Ended
<1>1. ASSUME NEW p \in Promise, NEW outcome \in End, Finish(p, outcome)
      PROVE  DeliveredOnce'
  BY <1>1, <1>a DEF Finish, End, Current
<1>2. ASSUME NEW p \in Promise, New(p)
      PROVE  DeliveredOnce'
  BY <1>2, <1>a, <1>b DEF New, Ready, End, Current
<1>3. ASSUME NEW p \in Promise, Poll(p)
      PROVE  DeliveredOnce'
  BY <1>3 DEF Poll, Current
<1>4. ASSUME NEW p \in Promise, TryAwait(p)
      PROVE  DeliveredOnce'
  <2>1. CASE State(p) = "ready"
    BY <1>4, <1>a, <1>b, <2>1 DEF TryAwait, Deliver, State, Ready, Current
  <2>2. CASE State(p) # "ready"
    BY <1>4, <2>2 DEF TryAwait, Current
  <2>3. QED
    BY <2>1, <2>2
<1>5. ASSUME NEW op, NEW list, Begin(op, list)
      PROVE  DeliveredOnce'
  BY <1>5, <1>b, NewCallsHoldNone DEF Begin, Ready
<1>6. CASE WaitAnyOfNone
  BY <1>6 DEF WaitAnyOfNone, Current
<1>7. CASE Take
  <2>1. Current \in Promise
    BY <1>7, CurrentIsPromise DEF Take
  <2>2. CASE inner[Current]
    <3>1. call' = [call EXCEPT !.holds = TRUE]
      BY <1>7, <2>2 DEF Take
    <3>2. call'.holds /\ Current' = Current
      BY <3>1 DEF TypeOK, Calls, Current
    <3>3. inner' = [inner EXCEPT ![Current] = FALSE] /\ UNCHANGED <<task, taken>> /\ ~call.holds
      BY <1>7, <2>2 DEF Take
    <3>4. QED
      BY <1>a, <2>1, <2>2, <3>2, <3>3
  <2>3. CASE ~inner[Current]
    BY <1>7, <2>3, NewCallsHoldNone DEF Take
  <2>4. QED
    BY <2>2, <2>3
<1>8. CASE Join
  <2>1. call.holds /\ Current \in Promise /\ Ended(Current)
    BY <1>8, CurrentIsPromise DEF Join, TypeOK
  <2>2. ~call'.holds
    <3>1. CASE task[Current] = "value"
      <4>1. call' = [call EXCEPT !.at = @ + 1, !.holds = FALSE, !.got = Append(@, Current)]
        BY <1>8, <3>1 DEF Join
      <4>2. QED
        BY <4>1 DEF TypeOK, Calls
    <3>2. CASE task[Current] # "value"
      BY <1>8, <3>2, NewCallsHoldNone DEF Join
    <3>3. QED
      BY <3>1, <3>2
  <2>3. taken' = [taken EXCEPT ![Current] = @ + 1] /\ UNCHANGED <<task, inner>>
    BY <1>8 DEF Join, Deliver
  <2>4. QED
    BY <1>a, <2>1, <2>2, <2>3 DEF End
<1>9. CASE ReturnAll
  <2>1. ~call.holds
    BY <1>9 DEF ReturnAll, TypeOK, Calls
  <2>2. QED
    BY <1>9, <2>1, NewCallsHoldNone DEF ReturnAll
<1>10. CASE Collect
  <2>1. Current \in Promise /\ inner[Current] /\ Ended(Current)
    BY <1>10, <1>a, CurrentIsPromise DEF Collect, State
  <2>2. ~call.holds /\ ~call'.holds
    BY <1>10, NewCallsHoldNone DEF Collect, Sweeping, TypeOK, Awaiting
  <2>3. /\ taken' = [taken EXCEPT ![Current] = @ + 1]
        /\ inner' = [inner EXCEPT ![Current] = FALSE]
        /\ task' = task
    BY <1>10 DEF Collect, Deliver
  <2>4. QED
    BY <1>a, <2>1, <2>2, <2>3 DEF End
<1>11. CASE Pass \/ Sleep
  <2>1. ~call.holds
    BY <1>11 DEF Pass, Sleep, Sweeping, TypeOK, Awaiting
  <2>2. call'.holds = call.holds
    BY <1>11 DEF Pass, Sleep, TypeOK, Calls
  <2>3. QED
    BY <1>11, <2>1, <2>2 DEF Pass, Sleep
<1>12. CASE UNCHANGED vars
  BY <1>12 DEF vars, Current
<1>13. QED
  BY <1>1, <1>2, <1>3, <1>4, <1>5, <1>6, <1>7, <1>8, <1>9, <1>10, <1>11, <1>12
     DEF Next, Script, Wait, Await, WaitAll, WaitAny

\* Whatever a script does with its promises, and whenever their tasks end, each outcome
\* is handed to it at most once, and is handed over when the promise is exhausted.
THEOREM EachDeliveredOnce == Spec => []DeliveredOnce
<1>1. Init => DeliveredOnce
  BY NewCallsHoldNone DEF Init, DeliveredOnce, Made, Held
<1>2. QED
  BY <1>1, TypeCorrect, DeliveredOnceStep, PTL DEF Spec

-----------------------------------------------------------------------------
(* The results of wait_all are in the order of its list.                   *)

\* The results collected by a call that only the runtime, or nothing, has touched.
LEMMA ResultsKept ==
  ASSUME TypeOK, ResultsInOrder, UNCHANGED <<call, taken>>,
         \A p \in Promise : task[p] = "value" => task'[p] = "value"
  PROVE  ResultsInOrder'
<1>1. call.got \in Seq(Promise)
  BY DEF TypeOK, Calls
<1>2. \A i \in DOMAIN call.got : call.got[i] \in Promise
  BY <1>1, ElementOfSeq
<1>3. QED
  BY <1>2 DEF ResultsInOrder, Awaiting

\* One more element of a prefix.
LEMMA PrefixExtends ==
  ASSUME NEW S, NEW list \in Seq(S), NEW n \in 1 .. Len(list)
  PROVE  Append(SubSeq(list, 1, n - 1), list[n]) = SubSeq(list, 1, n)
<1>1. Len(list) \in Nat /\ list \in [1 .. Len(list) -> S]
  BY LenProperties
<1>2. n - 1 \in Int /\ n - 1 <= Len(list) /\ 1 <= n - 1 + 1
  BY <1>1
<1>3. /\ SubSeq(list, 1, n - 1) \in Seq(S)
      /\ Len(SubSeq(list, 1, n - 1)) = n - 1
      /\ \A i \in 1 .. n - 1 : SubSeq(list, 1, n - 1)[i] = list[i]
  BY <1>1, <1>2, SubSeqProperties
<1>4. /\ SubSeq(list, 1, n) \in Seq(S)
      /\ Len(SubSeq(list, 1, n)) = n
      /\ \A i \in 1 .. n : SubSeq(list, 1, n)[i] = list[i]
  BY <1>1, SubSeqProperties
<1>5. list[n] \in S
  BY <1>1
<1>6. /\ Append(SubSeq(list, 1, n - 1), list[n]) \in Seq(S)
      /\ Len(Append(SubSeq(list, 1, n - 1), list[n])) = n
      /\ \A i \in 1 .. n - 1 : Append(SubSeq(list, 1, n - 1), list[n])[i] = list[i]
      /\ Append(SubSeq(list, 1, n - 1), list[n])[n] = list[n]
  BY <1>1, <1>3, <1>5, AppendProperties
<1>7. \A i \in 1 .. n : Append(SubSeq(list, 1, n - 1), list[n])[i] = SubSeq(list, 1, n)[i]
  BY <1>4, <1>6
<1>8. QED
  BY <1>4, <1>6, <1>7, SeqEqual

\* A step keeps the results in order.  That a task is not joined twice follows from where
\* its handle is.
LEMMA ResultsInOrderStep ==
  TypeOK /\ DeliveredOnce /\ ResultsInOrder /\ [Next]_vars => ResultsInOrder'
<1> SUFFICES ASSUME TypeOK, DeliveredOnce, ResultsInOrder, [Next]_vars
             PROVE  ResultsInOrder'
  OBVIOUS
<1>a. ASSUME ~Awaiting' PROVE ResultsInOrder'
  BY <1>a DEF ResultsInOrder
<1>b. ASSUME call' = Idle PROVE ResultsInOrder'
  BY <1>a, <1>b DEF Awaiting, Idle, Call
<1>c. ASSUME UNCHANGED <<call, taken>>, task' = task PROVE ResultsInOrder'
  BY <1>c, ResultsKept
<1>1. ASSUME NEW p \in Promise, NEW outcome \in End, Finish(p, outcome)
      PROVE  ResultsInOrder'
  <2>1. \A q \in Promise : task[q] = "value" => task'[q] = "value"
    BY <1>1 DEF Finish, TypeOK
  <2>2. QED
    BY <1>1, <2>1, ResultsKept DEF Finish
<1>2. ASSUME NEW p \in Promise, New(p)
      PROVE  ResultsInOrder'
  <2>1. \A q \in Promise : task[q] = "value" => task'[q] = "value"
    BY <1>2 DEF New, Made, TypeOK
  <2>2. QED
    BY <1>2, <2>1, ResultsKept DEF New
<1>3. ASSUME NEW p \in Promise, Poll(p) \/ TryAwait(p)
      PROVE  ResultsInOrder'
  <2>1. call = Idle /\ call' = call
    BY <1>3 DEF Poll, TryAwait, Ready
  <2>2. QED
    BY <1>b, <2>1
<1>4. ASSUME NEW op, NEW list \in Seq(Promise), Begin(op, list)
      PROVE  ResultsInOrder'
  <2>1. call'.at = 1 /\ call'.list = list /\ call'.got = <<>>
    BY <1>4 DEF Begin, Call
  <2>2. SubSeq(list, 1, 0) = <<>>
    BY SubSeqProperties, LenProperties, EmptySeq
  <2>3. QED
    BY <2>1, <2>2 DEF ResultsInOrder
<1>5. CASE WaitAnyOfNone
  BY <1>5, <1>c DEF WaitAnyOfNone
<1>6. CASE Take
  <2>1. CASE inner[Current]
    <3>1. call' = [call EXCEPT !.holds = TRUE] /\ UNCHANGED <<task, taken>>
      BY <1>6, <2>1 DEF Take
    <3>2. call'.got = call.got /\ call'.list = call.list /\ call'.at = call.at /\ call'.op = call.op
      BY <3>1 DEF TypeOK, Calls
    <3>3. QED
      BY <3>1, <3>2 DEF ResultsInOrder, Awaiting
  <2>2. CASE ~inner[Current]
    BY <1>6, <1>b, <2>2 DEF Take
  <2>3. QED
    BY <2>1, <2>2
<1>7. CASE Join
  <2>1. CASE task[Current] = "value"
    <3>1. /\ call' = [call EXCEPT !.at = @ + 1, !.holds = FALSE, !.got = Append(@, Current)]
          /\ taken' = [taken EXCEPT ![Current] = @ + 1]
          /\ task' = task
          /\ Awaiting /\ call.holds
      BY <1>7, <2>1 DEF Join
    <3>2. call'.at = call.at + 1 /\ call'.list = call.list /\ call'.got = Append(call.got, Current)
      BY <3>1 DEF TypeOK, Calls
    <3>3. /\ call.list \in Seq(Promise) /\ call.got \in Seq(Promise)
          /\ call.at \in Nat \ {0} /\ call.at <= Len(call.list) /\ Len(call.list) \in Nat
          /\ taken \in [Promise -> Nat]
      BY <3>1, LenProperties DEF TypeOK, Calls
    <3>4. Current \in Promise /\ Current = call.list[call.at]
      BY <3>3, CurrentIsPromise DEF Current
    <3>5. call'.got = SubSeq(call'.list, 1, call'.at - 1)
      <4> DEFINE at == call.at
                 n == Len(call.list)
      <4>a. at \in Nat \ {0} /\ n \in Nat /\ at <= n /\ call'.at = at + 1
        BY <3>2, <3>3
      <4>1. at \in 1 .. n /\ call'.at - 1 = at
        <5> HIDE DEF at, n
        <5> QED BY <4>a
      <4>2. call.got = SubSeq(call.list, 1, call.at - 1)
        BY <3>1 DEF ResultsInOrder
      <4>3. QED
        BY <3>2, <3>3, <3>4, <4>1, <4>2, PrefixExtends
    <3>6. taken[Current] = 0
      BY <3>1, <3>4 DEF DeliveredOnce, Held
    <3>7. \A i \in DOMAIN call.got :
            call.got[i] \in Promise /\ task[call.got[i]] = "value" /\ taken[call.got[i]] = 1
      BY <3>1, <3>3, ElementOfSeq DEF ResultsInOrder
    <3>8. \A i \in DOMAIN call.got : call.got[i] # Current
      BY <3>6, <3>7
    <3>9. /\ Len(call.got) \in Nat
          /\ DOMAIN call.got = 1 .. Len(call.got)
          /\ DOMAIN call'.got = 1 .. Len(call.got) + 1
          /\ \A i \in 1 .. Len(call.got) : call'.got[i] = call.got[i]
          /\ call'.got[Len(call.got) + 1] = Current
      BY <3>2, <3>3, <3>4, AppendProperties, LenProperties
    <3>10. \A i, j \in DOMAIN call'.got : call'.got[i] = call'.got[j] => i = j
      <4> SUFFICES ASSUME NEW i \in DOMAIN call'.got, NEW j \in DOMAIN call'.got,
                          call'.got[i] = call'.got[j]
                   PROVE  i = j
        OBVIOUS
      <4>1. CASE i \in 1 .. Len(call.got) /\ j \in 1 .. Len(call.got)
        BY <3>1, <3>9, <4>1 DEF ResultsInOrder
      <4>2. CASE i = Len(call.got) + 1 \/ j = Len(call.got) + 1
        BY <3>8, <3>9, <4>2
      <4>3. QED
        BY <3>9, <4>1, <4>2
    <3>11. \A i \in DOMAIN call'.got : task'[call'.got[i]] = "value" /\ taken'[call'.got[i]] = 1
      <4> SUFFICES ASSUME NEW i \in DOMAIN call'.got
                   PROVE  task'[call'.got[i]] = "value" /\ taken'[call'.got[i]] = 1
        OBVIOUS
      <4>1. CASE i \in 1 .. Len(call.got)
        BY <3>1, <3>3, <3>7, <3>8, <3>9, <4>1
      <4>2. CASE i = Len(call.got) + 1
        BY <2>1, <3>1, <3>3, <3>4, <3>6, <3>9, <4>2
      <4>3. QED
        BY <3>9, <4>1, <4>2
    <3>12. QED
      BY <3>5, <3>10, <3>11 DEF ResultsInOrder
  <2>2. CASE task[Current] # "value"
    BY <1>7, <1>b, <2>2 DEF Join
  <2>3. QED
    BY <2>1, <2>2
<1>8. CASE ReturnAll \/ Collect
  BY <1>8, <1>b DEF ReturnAll, Collect
<1>9. CASE Pass \/ Sleep
  <2>1. call'.op = call.op /\ call.op = "wait_any"
    BY <1>9 DEF Pass, Sleep, Sweeping, TypeOK, Calls
  <2>2. QED
    BY <1>a, <2>1 DEF Awaiting
<1>10. CASE UNCHANGED vars
  BY <1>10, <1>c DEF vars
<1>d. \A p \in Promise : <<p>> \in Seq(Promise)
  OBVIOUS
<1>11. QED
  BY <1>1, <1>2, <1>3, <1>4, <1>5, <1>6, <1>7, <1>8, <1>9, <1>10, <1>d, PromisesAssumption
     DEF Next, Script, Wait, Await, WaitAll, WaitAny

\* wait_all returns its results in the order of its list, whatever the order in which the
\* tasks end, and never counts a task twice.
THEOREM WaitAllInOrder == Spec => []ResultsInOrder
<1>1. Init => ResultsInOrder
  BY DEF Init, ResultsInOrder, Awaiting, Idle, Call
<1>2. QED
  BY <1>1, TypeCorrect, EachDeliveredOnce, ResultsInOrderStep, PTL DEF Spec
=============================================================================
