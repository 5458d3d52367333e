--------------------------- MODULE ConnectionProofs ---------------------------
(***************************************************************************)
(* Safety of one connection of luaml-service, and that it implements       *)
(* RequestService, for any requests, any consumer and any number of lines  *)
(* and calls.                                                              *)
(***************************************************************************)
EXTENDS Connection, Recursion

-----------------------------------------------------------------------------
(* The two streams.                                                        *)

LEMMA TailOf ==
  ASSUME NEW S, NEW s \in Seq(S), s # <<>>
  PROVE  /\ Len(s) \in Nat \ {0} /\ DOMAIN s = 1 .. Len(s)
         /\ Head(s) \in S /\ Head(s) = s[1]
         /\ Tail(s) \in Seq(S) /\ DOMAIN Tail(s) = 1 .. Len(s) - 1 /\ Len(Tail(s)) = Len(s) - 1
         /\ \A i \in DOMAIN Tail(s) : Tail(s)[i] = s[i + 1]
<1>1. Len(s) \in Nat \ {0}
  BY EmptySeq
<1>2. Head(s) = s[1]
  BY <1>1
<1>3. QED
  BY <1>1, <1>2, HeadTailProperties, LenProperties

LEMMA AppendOf ==
  ASSUME NEW S, NEW s \in Seq(S), NEW e \in S
  PROVE  /\ Len(s) \in Nat /\ DOMAIN s = 1 .. Len(s)
         /\ Append(s, e) \in Seq(S) /\ Append(s, e) # <<>>
         /\ DOMAIN Append(s, e) = 1 .. Len(s) + 1
         /\ Len(Append(s, e)) = Len(s) + 1
         /\ \A i \in DOMAIN s : Append(s, e)[i] = s[i]
         /\ Append(s, e)[Len(s) + 1] = e
BY AppendProperties, LenProperties

\* What the consumer sends.
LEMMA Requested ==
  ASSUME TypeOK, NEW r \in Requests, SendRequest(r)
  PROVE  [sort |-> "request", id |-> sent + 1, method |-> r.method, params |-> r.params]
           \in RequestLine
<1>1. r \in [method : Method, params : Params]
  BY ConnectionAssumption
<1>2. sent + 1 \in RequestIds
  BY ConnectionAssumption DEF TypeOK, SendRequest, RequestIds
<1>3. QED
  BY <1>1, <1>2 DEF RequestLine

LEMMA AnswerType ==
  ASSUME TypeOK, NEW call \in owed \cup settled, NEW v \in {"value", "refused"}
  PROVE  AnswerFor(call, v) \in AnswerLine
BY DEF TypeOK, AnswerFor, AnswerLine

\* What the service sends.
LEMMA SentOut ==
  ASSUME TypeOK, NEW line \in ToConsumer, Send(line)
  PROVE  toConsumer' \in Seq(ToConsumer)
BY AppendProperties DEF Send, TypeOK

LEMMA CodeType ==
  ASSUME NEW method, NEW params
  PROVE  HandlerCode(method, params) \in Code
BY Zenon DEF HandlerCode, Code

LEMMA LineType ==
  ASSUME TypeOK, toService # <<>>
  PROVE  /\ Line \in ToService
         /\ Line.sort = "request" => Line \in RequestLine
         /\ Line.sort = "answer" => Line \in AnswerLine
         /\ Tail(toService) \in Seq(ToService)
<1>1. Line \in ToService /\ Tail(toService) \in Seq(ToService)
  BY HeadTailProperties DEF TypeOK, Line
<1>2. QED
  BY <1>1 DEF ToService, RequestLine, AnswerLine, OtherLine

-----------------------------------------------------------------------------

IsCall(line) == line.sort = "api_call"

\* The calls the consumer has not read are those it has not counted, in order, unless
\* they were lost with the service's end of the connection.
CallsInOrder ==
  open =>
    /\ \A i \in DOMAIN toConsumer :
         IsCall(toConsumer[i]) =>
           /\ FirstCallId + heard <= toConsumer[i].id
           /\ toConsumer[i].id < nextId
           /\ \A j \in DOMAIN toConsumer :
                IsCall(toConsumer[j]) /\ i < j => toConsumer[i].id < toConsumer[j].id
    /\ service # "closed" \/ toConsumer # <<>> =>
         \A n \in CallIds :
           FirstCallId + heard <= n /\ n < nextId =>
             \E i \in DOMAIN toConsumer : IsCall(toConsumer[i]) /\ toConsumer[i].id = n

\* What is computed for a call has its place among the calls.
Serials ==
  /\ \A call \in owed \cup settled : call.id = FirstCallId + call.serial - 1
  /\ \A i \in DOMAIN toService :
       toService[i].sort = "answer" => toService[i].id = FirstCallId + toService[i].serial - 1

HeardIsMade == open => FirstCallId + heard <= nextId

Freshness == CallsInOrder /\ Serials /\ HeardIsMade /\ FreshAnswers

\* Where the one request of a polite consumer is.
Polite == open /\ ~pipelined /\ ~junk

Idle ==
  /\ service = "reading" /\ toService = <<>> /\ toConsumer = <<>>
  /\ outstanding = {} /\ owed = {}
Sent ==
  /\ service = "reading" /\ Len(toService) = 1 /\ Line.sort = "request" /\ toConsumer = <<>>
  /\ outstanding = {Line.id} /\ owed = {}
Dispatched ==
  /\ service = "dispatching" /\ toService = <<>> /\ toConsumer = <<>>
  /\ outstanding = {current.id} /\ owed = {}
Answered ==
  /\ service = "reading" /\ toService = <<>> /\ Len(toConsumer) = 1
  /\ Head(toConsumer).sort = "response" /\ outstanding = {Head(toConsumer).id} /\ owed = {}
Calling ==
  /\ service = "awaiting" /\ toService = <<>> /\ Len(toConsumer) = 1
  /\ Head(toConsumer).sort = "api_call" /\ Head(toConsumer).id = CallId
  /\ outstanding = {current.id} /\ owed = {}
Heard ==
  /\ service = "awaiting" /\ toService = <<>> /\ toConsumer = <<>>
  /\ outstanding = {current.id}
  /\ \E call \in owed : owed = {call} /\ call.id = CallId
CalledBack ==
  /\ service = "awaiting" /\ Len(toService) = 1 /\ IsAnswer /\ toConsumer = <<>>
  /\ outstanding = {current.id} /\ owed = {}

Politeness ==
  Polite =>
    /\ result.kind # "broken"
    /\ Idle \/ Sent \/ Dispatched \/ Answered \/ Calling \/ Heard \/ CalledBack

\* A line that is not UTF-8 was sent by the consumer.
Spoilt == \A i \in DOMAIN toService : toService[i].sort = "binary" => spoiled

-----------------------------------------------------------------------------
(* Type correctness.  That the consumer does not hear more calls than were *)
(* made is a matter of their order on the stream.                          *)

LEMMA TypeInit == Init => TypeOK /\ Freshness /\ Politeness /\ NoCrossWait /\ Spoilt
<1> SUFFICES ASSUME Init PROVE TypeOK /\ Freshness /\ Politeness /\ NoCrossWait /\ Spoilt
  OBVIOUS
<1>1. <<>> \in Seq(ToService) /\ <<>> \in Seq(ToConsumer) /\ DOMAIN <<>> = {}
  BY EmptySeq, LenProperties
<1>2. TypeOK
  <2>1. result \in [kind : {"none", "value", "refused", "broken"}, serial : Serial \cup {0}]
    BY DEF Init
  <2>2. nextId \in CallIds /\ sent \in 0 .. MaxSent /\ heard \in 0 .. MaxCalls
    BY ConnectionAssumption DEF Init, CallIds
  <2>3. QED
    BY <1>1, <2>1, <2>2 DEF Init, TypeOK
<1>3. Freshness
  BY <1>1, ConnectionAssumption
  DEF Init, Freshness, CallsInOrder, Serials, HeardIsMade, FreshAnswers, CallIds
<1>4. Politeness /\ NoCrossWait
  BY DEF Init, Politeness, Idle, NoCrossWait
<1>5. Spoilt
  BY <1>1 DEF Init, Spoilt
<1>6. QED
  BY <1>2, <1>3, <1>4, <1>5

LEMMA TypeStepConsumer ==
  ASSUME TypeOK, Freshness, Consumer
  PROVE  TypeOK'
<1> USE ConnectionAssumption
<1>1. ASSUME NEW r \in Requests, SendRequest(r)
      PROVE  TypeOK'
  <2>1. toService' \in Seq(ToService)
    BY <1>1, Requested, AppendProperties DEF TypeOK, ToService, SendRequest, Write
  <2>2. QED
    BY <1>1, <2>1 DEF TypeOK, SendRequest, RequestIds, engine, thread
<1>2. ASSUME NEW line \in ToService, SendOther(line)
      PROVE  TypeOK'
  <2>1. toService' \in Seq(ToService)
    BY <1>2, AppendProperties DEF TypeOK, SendOther, Write
  <2>2. QED
    BY <1>2, <2>1 DEF TypeOK, SendOther, engine, thread
<1>3. ASSUME NEW call \in owed, NEW v \in {"value", "refused"}, Answer(call, v)
      PROVE  TypeOK'
  <2>1. toService' \in Seq(ToService)
    BY <1>3, AnswerType, AppendProperties DEF TypeOK, ToService, Answer, Write
  <2>2. QED
    BY <1>3, <2>1 DEF TypeOK, Answer, engine, thread
<1>4. ASSUME Receive
      PROVE  TypeOK'
  <2>1. /\ toConsumer \in Seq(ToConsumer) /\ toConsumer # <<>> /\ Head(toConsumer) \in ToConsumer
        /\ toConsumer' \in Seq(ToConsumer)
        /\ Head(toConsumer) = toConsumer[1] /\ 1 \in DOMAIN toConsumer
    BY <1>4, TailOf DEF TypeOK, Receive
  <2>2. CASE Head(toConsumer).sort = "response"
    BY <1>4, <2>1, <2>2 DEF TypeOK, Receive, engine, thread
  <2>3. CASE Head(toConsumer).sort = "api_call"
    <3>1. FirstCallId + heard < nextId /\ heard + 1 \in 0 .. MaxCalls /\ heard + 1 \in Serial
      BY <1>4, <2>1, <2>3 DEF Freshness, CallsInOrder, IsCall, Receive, TypeOK, CallIds, Serial, ToConsumer
    <3>2. [id |-> Head(toConsumer).id, serial |-> heard + 1] \in [id : CallIds, serial : Serial]
      BY <2>1, <2>3, <3>1 DEF ToConsumer
    <3>3. heard' = heard + 1 /\ owed' = owed \cup {[id |-> Head(toConsumer).id, serial |-> heard + 1]}
      BY <1>4, <2>3 DEF Receive
    <3>4. QED
      BY <1>4, <2>1, <2>3, <3>1, <3>2, <3>3 DEF TypeOK, Receive, engine, thread
  <2>4. QED
    BY <1>4, <2>2, <2>3 DEF Receive
<1>5. ASSUME Close \/ Reset \/ ResetByService
      PROVE  TypeOK'
  BY <1>5, EmptySeq DEF TypeOK, Close, Reset, ResetByService, engine, thread, consumer
<1>6. ASSUME NEW call \in settled, NEW v \in {"value", "refused"}, SendOther(AnswerFor(call, v))
      PROVE  TypeOK'
  BY <1>2, <1>6, AnswerType DEF ToService
<1>7. QED
  BY <1>1, <1>2, <1>3, <1>4, <1>5, <1>6 DEF Consumer, ToService

LEMMA TypeStepService ==
  ASSUME TypeOK, Freshness, Service
  PROVE  TypeOK'
<1> USE ConnectionAssumption
<1>1. ASSUME SkipBlank
      PROVE  TypeOK'
  BY <1>1, LineType DEF TypeOK, SkipBlank, Reading, TakeLine, engine, thread, consumer
<1>2. ASSUME RejectLine
      PROVE  TypeOK'
  <2>1. toConsumer' \in Seq(ToConsumer)
    BY <1>2, SentOut DEF RejectLine, Respond, ToConsumer, Code
  <2>2. QED
    BY <1>2, <2>1, LineType DEF TypeOK, RejectLine, Reading, TakeLine, engine, thread, consumer
<1>3. ASSUME HandleRequest
      PROVE  TypeOK'
  <2>1. Line \in RequestLine /\ Tail(toService) \in Seq(ToService)
    BY <1>3, LineType DEF HandleRequest, Reading
  <2>2. toConsumer' \in Seq(ToConsumer)
    BY <1>3, <2>1, SentOut, CodeType DEF HandleRequest, Respond, ToConsumer, RequestLine
  <2>3. scripts' \in BOOLEAN /\ apis' \in BOOLEAN
    BY <1>3 DEF HandleRequest
  <2>4. QED
    BY <1>3, <2>1, <2>2, <2>3 DEF TypeOK, HandleRequest, TakeLine, thread, consumer
<1>4. ASSUME BeginDispatch
      PROVE  TypeOK'
  <2>1. Line \in RequestLine /\ Tail(toService) \in Seq(ToService)
    BY <1>4, LineType DEF BeginDispatch, Reading
  <2>2. QED
    BY <1>4, <2>1 DEF TypeOK, BeginDispatch, TakeLine, engine, consumer
<1>5. ASSUME ScriptFails
      PROVE  TypeOK'
  BY <1>5 DEF TypeOK, ScriptFails, channels, engine, consumer
<1>6. ASSUME Call
      PROVE  TypeOK'
  <2>1. toConsumer' \in Seq(ToConsumer)
    BY <1>6, SentOut DEF Call, TypeOK, ToConsumer
  <2>2. QED
    BY <1>6, <2>1 DEF TypeOK, Call, ScriptCalls, CallIds, engine, consumer
<1>7. ASSUME NEW kind \in {"value", "refused", "broken"}, NEW serial \in Serial \cup {0},
             Return(kind, serial), service \in {"dispatching", "awaiting"},
             toService' \in Seq(ToService), toConsumer' = toConsumer, open' = open,
             nextId' \in CallIds
      PROVE  TypeOK'
  BY <1>7 DEF TypeOK, Return, engine, consumer
<1>8. ASSUME CallCannotWrite
      PROVE  TypeOK'
  <2>1. nextId' \in CallIds /\ service = "dispatching"
    BY <1>8 DEF CallCannotWrite, ScriptCalls, TypeOK, CallIds
  <2>2. QED
    BY <1>7, <1>8, <2>1 DEF CallCannotWrite, channels, TypeOK
<1>9. ASSUME CallReturns
      PROVE  TypeOK'
  <2>1. Line \in AnswerLine /\ Tail(toService) \in Seq(ToService)
    BY <1>9, LineType DEF CallReturns, IsAnswer
  <2>2. Line.value \in {"value", "refused", "broken"} /\ Line.serial \in Serial \cup {0}
    BY <2>1 DEF AnswerLine
  <2>3. QED
    BY <1>7, <1>9, <2>1, <2>2 DEF CallReturns, TakeLine, TypeOK
<1>10. ASSUME CallMisreads
       PROVE  TypeOK'
  BY <1>7, <1>10, LineType DEF CallMisreads, TakeLine, TypeOK
<1>11. ASSUME CallSeesEnd
       PROVE  TypeOK'
  BY <1>7, <1>11 DEF CallSeesEnd, channels, TypeOK
<1>12. ASSUME FinishDispatch
       PROVE  TypeOK'
  <2>1. current \in RequestLine
    BY <1>12 DEF FinishDispatch, TypeOK
  <2>2. toConsumer' \in Seq(ToConsumer)
    BY <1>12, <2>1, SentOut DEF FinishDispatch, Respond, ToConsumer, RequestLine, Code
  <2>3. QED
    BY <1>12, <2>2 DEF TypeOK, FinishDispatch, engine, consumer
<1>13. ASSUME EndThread
       PROVE  TypeOK'
  BY <1>13 DEF TypeOK, EndThread, channels, engine, consumer
<1>14. ASSUME BreakOff
       PROVE  TypeOK'
  BY <1>14, EmptySeq DEF TypeOK, BreakOff, Reading, engine, consumer
<1>15. QED
  BY <1>1, <1>2, <1>3, <1>4, <1>5, <1>6, <1>8, <1>9, <1>10, <1>11, <1>12, <1>13, <1>14 DEF Service

-----------------------------------------------------------------------------
(* Fresh answers.                                                          *)

\* The order of the calls is that of the stream to the consumer.
LEMMA OrderKept ==
  ASSUME CallsInOrder, HeardIsMade, UNCHANGED <<toConsumer, heard, nextId>>, open' => open,
         service = "closed" => service' = "closed"
  PROVE  CallsInOrder' /\ HeardIsMade'
BY DEF CallsInOrder, HeardIsMade, IsCall

LEMMA OrderAfterResponse ==
  ASSUME TypeOK, CallsInOrder, HeardIsMade, UNCHANGED <<open, heard, nextId>>,
         service # "closed",
         NEW line \in ToConsumer, ~IsCall(line), Send(line)
  PROVE  CallsInOrder' /\ HeardIsMade'
<1>1. CASE ~open
  BY <1>1 DEF CallsInOrder, HeardIsMade
<1>2. CASE open
  <2>1. toConsumer' = Append(toConsumer, line)
    BY <1>2 DEF Send
  <2>2. /\ DOMAIN toConsumer = 1 .. Len(toConsumer) /\ Len(toConsumer) \in Nat
        /\ DOMAIN toConsumer' = 1 .. Len(toConsumer) + 1
        /\ \A i \in DOMAIN toConsumer : toConsumer'[i] = toConsumer[i]
        /\ toConsumer'[Len(toConsumer) + 1] = line
    BY <2>1, AppendOf DEF TypeOK
  <2>3. \A i \in DOMAIN toConsumer' : IsCall(toConsumer'[i]) => i \in DOMAIN toConsumer
    BY <2>2
  <2>4. QED
    BY <1>2, <2>2, <2>3 DEF CallsInOrder, HeardIsMade
<1>3. QED
  BY <1>1, <1>2

LEMMA OrderAfterCall ==
  ASSUME TypeOK, CallsInOrder, HeardIsMade, Call
  PROVE  CallsInOrder' /\ HeardIsMade'
<1> USE ConnectionAssumption
<1> DEFINE line == [sort |-> "api_call", id |-> nextId]
<1>0. /\ open' = open /\ heard' = heard /\ nextId' = nextId + 1 /\ nextId \in Nat /\ heard \in Nat
      /\ service # "closed"
  BY DEF Call, ScriptCalls, consumer, TypeOK, CallIds
<1>1. CASE ~open
  BY <1>0, <1>1 DEF CallsInOrder, HeardIsMade
<1>2. CASE open
  <2>0. line \in ToConsumer
    BY DEF TypeOK, ToConsumer
  <2>1. toConsumer' = Append(toConsumer, line)
    BY <1>2 DEF Send, Call
  <2>2. /\ DOMAIN toConsumer = 1 .. Len(toConsumer) /\ Len(toConsumer) \in Nat
        /\ DOMAIN toConsumer' = 1 .. Len(toConsumer) + 1
        /\ \A i \in DOMAIN toConsumer : toConsumer'[i] = toConsumer[i]
        /\ toConsumer'[Len(toConsumer) + 1] = line
    BY <2>0, <2>1, AppendOf DEF TypeOK
  <2>3. HeardIsMade'
    BY <1>0 DEF HeardIsMade
  <2> DEFINE last == Len(toConsumer) + 1
  <2>a. IsCall(line) /\ line.id = nextId
    BY DEF IsCall
  <2> HIDE DEF line
  <2>4. ASSUME NEW i \in DOMAIN toConsumer', IsCall(toConsumer'[i])
        PROVE  /\ FirstCallId + heard <= toConsumer'[i].id
               /\ toConsumer'[i].id < nextId + 1
               /\ \A j \in DOMAIN toConsumer' :
                    IsCall(toConsumer'[j]) /\ i < j => toConsumer'[i].id < toConsumer'[j].id
    <3>1. CASE i = last
      BY <1>0, <1>2, <2>2, <2>a, <3>1 DEF HeardIsMade
    <3>2. CASE i \in DOMAIN toConsumer
      <4>0. toConsumer[i] \in ToConsumer
        BY <3>2, <2>2, ElementOfSeq DEF TypeOK
      <4>1. /\ FirstCallId + heard <= toConsumer[i].id /\ toConsumer[i].id < nextId
            /\ toConsumer[i].id \in Nat
        BY <1>2, <2>2, <2>4, <3>2, <4>0 DEF CallsInOrder, ToConsumer, IsCall, CallIds
      <4>2. ASSUME NEW j \in DOMAIN toConsumer', IsCall(toConsumer'[j]), i < j
            PROVE  toConsumer'[i].id < toConsumer'[j].id
        <5>1. CASE j = last
          BY <2>2, <2>a, <3>2, <4>1, <5>1
        <5>2. CASE j \in DOMAIN toConsumer
          BY <1>2, <2>2, <2>4, <3>2, <4>2, <5>2 DEF CallsInOrder
        <5>3. QED
          BY <2>2, <5>1, <5>2
      <4>3. QED
        BY <1>0, <2>2, <3>2, <4>1, <4>2
    <3>3. QED
      BY <2>2, <3>1, <3>2
  <2>5. ASSUME NEW n \in CallIds, FirstCallId + heard <= n, n < nextId + 1
        PROVE  \E i \in DOMAIN toConsumer' : IsCall(toConsumer'[i]) /\ toConsumer'[i].id = n
    <3>1. CASE n = nextId
      BY <2>2, <2>a, <3>1
    <3>2. CASE n < nextId
      BY <1>0, <1>2, <2>2, <2>5, <3>2 DEF CallsInOrder
    <3>3. QED
      BY <1>0, <2>5, <3>1, <3>2 DEF CallIds
  <2>6. QED
    BY <1>0, <2>3, <2>4, <2>5 DEF CallsInOrder
<1>3. QED
  BY <1>1, <1>2

\* The first call on the stream is the next one to be heard.
LEMMA FirstIsNext ==
  ASSUME TypeOK, CallsInOrder, open, toConsumer # <<>>, IsCall(Head(toConsumer))
  PROVE  Head(toConsumer).id = FirstCallId + heard
<1> USE ConnectionAssumption
<1>1. /\ Head(toConsumer) = toConsumer[1] /\ Head(toConsumer) \in ToConsumer
      /\ DOMAIN toConsumer = 1 .. Len(toConsumer) /\ Len(toConsumer) \in Nat \ {0}
  BY TailOf DEF TypeOK
<1> DEFINE n == FirstCallId + heard
<1>2. n <= toConsumer[1].id /\ toConsumer[1].id < nextId /\ toConsumer[1].id \in Nat
  BY <1>1 DEF CallsInOrder, ToConsumer, IsCall, CallIds
<1>3. n \in CallIds /\ n < nextId
  BY <1>2 DEF TypeOK, CallIds
<1>4. PICK i \in DOMAIN toConsumer : IsCall(toConsumer[i]) /\ toConsumer[i].id = n
  BY <1>3 DEF CallsInOrder, TypeOK
<1>5. i > 1 => toConsumer[1].id < n
  BY <1>1, <1>4 DEF CallsInOrder
<1>6. QED
  BY <1>1, <1>2, <1>3, <1>4, <1>5 DEF CallIds

LEMMA OrderAfterReceive ==
  ASSUME TypeOK, CallsInOrder, HeardIsMade, Receive
  PROVE  CallsInOrder' /\ HeardIsMade'
<1> USE ConnectionAssumption
<1>0. /\ open /\ open' = open /\ nextId' = nextId /\ toConsumer # <<>>
      /\ toConsumer' = Tail(toConsumer) /\ nextId \in Nat /\ heard \in Nat
  BY DEF Receive, thread, TypeOK, CallIds
<1>1. /\ Head(toConsumer) = toConsumer[1] /\ Head(toConsumer) \in ToConsumer
      /\ DOMAIN toConsumer = 1 .. Len(toConsumer) /\ Len(toConsumer) \in Nat \ {0}
      /\ DOMAIN toConsumer' = 1 .. Len(toConsumer) - 1
      /\ \A i \in DOMAIN toConsumer' : toConsumer'[i] = toConsumer[i + 1]
  BY <1>0, TailOf DEF TypeOK
<1>2. \A i \in DOMAIN toConsumer' : i + 1 \in DOMAIN toConsumer
  BY <1>1
<1>3. CASE ~IsCall(Head(toConsumer))
  <2>1. heard' = heard
    BY <1>3 DEF Receive, IsCall
  <2>2. ASSUME NEW n \in CallIds, FirstCallId + heard <= n, n < nextId
        PROVE  \E i \in DOMAIN toConsumer' : IsCall(toConsumer'[i]) /\ toConsumer'[i].id = n
    <3>1. PICK i \in DOMAIN toConsumer : IsCall(toConsumer[i]) /\ toConsumer[i].id = n
      BY <1>0, <2>2 DEF CallsInOrder
    <3>2. i # 1 /\ i - 1 \in DOMAIN toConsumer' /\ toConsumer'[i - 1] = toConsumer[i]
      BY <1>1, <1>3, <3>1
    <3>3. QED
      BY <3>1, <3>2
  <2>3. QED
    BY <1>0, <1>1, <1>2, <2>1, <2>2 DEF CallsInOrder, HeardIsMade
<1>4. CASE IsCall(Head(toConsumer))
  <2>1. heard' = heard + 1
    BY <1>4 DEF Receive, IsCall
  <2>2. toConsumer[1].id = FirstCallId + heard
    BY <1>0, <1>1, <1>4, FirstIsNext
  <2>3. FirstCallId + heard < nextId
    BY <1>0, <1>1, <1>4, <2>2 DEF CallsInOrder
  <2>4. ASSUME NEW i \in DOMAIN toConsumer', IsCall(toConsumer'[i])
        PROVE  /\ FirstCallId + heard + 1 <= toConsumer'[i].id
               /\ toConsumer'[i].id < nextId
               /\ \A j \in DOMAIN toConsumer' :
                    IsCall(toConsumer'[j]) /\ i < j => toConsumer'[i].id < toConsumer'[j].id
    <3>0. i + 1 \in DOMAIN toConsumer /\ 1 < i + 1 /\ i \in Nat
      BY <1>1, <1>2
    <3>1. toConsumer[i + 1].id \in Nat
      <4>1. toConsumer[i + 1] \in ToConsumer
        BY <1>1, <3>0, ElementOfSeq DEF TypeOK
      <4>2. QED
        BY <1>1, <2>4, <4>1 DEF ToConsumer, IsCall, CallIds
    <3>2. toConsumer[1].id < toConsumer[i + 1].id /\ toConsumer[i + 1].id < nextId
      BY <1>0, <1>1, <1>4, <2>4, <3>0 DEF CallsInOrder
    <3>3. ASSUME NEW j \in DOMAIN toConsumer', IsCall(toConsumer'[j]), i < j
          PROVE  toConsumer'[i].id < toConsumer'[j].id
      <4>1. j + 1 \in DOMAIN toConsumer /\ i + 1 < j + 1
        BY <1>1, <1>2, <3>0, <3>3
      <4>2. QED
        BY <1>0, <1>1, <2>4, <3>0, <3>3, <4>1 DEF CallsInOrder
    <3>4. QED
      BY <1>0, <1>1, <2>2, <3>1, <3>2, <3>3
  <2>5. ASSUME NEW n \in CallIds, FirstCallId + heard + 1 <= n, n < nextId
        PROVE  \E i \in DOMAIN toConsumer' : IsCall(toConsumer'[i]) /\ toConsumer'[i].id = n
    <3>1. FirstCallId + heard <= n /\ FirstCallId + heard # n
      BY <1>0, <2>5 DEF CallIds
    <3>2. PICK i \in DOMAIN toConsumer : IsCall(toConsumer[i]) /\ toConsumer[i].id = n
      BY <1>0, <2>5, <3>1 DEF CallsInOrder
    <3>3. i # 1
      BY <2>2, <3>1, <3>2
    <3>4. i - 1 \in DOMAIN toConsumer' /\ toConsumer'[i - 1] = toConsumer[i]
      BY <1>1, <3>3
    <3>5. QED
      BY <3>2, <3>4
  <2>6. QED
    BY <1>0, <2>1, <2>3, <2>4, <2>5 DEF CallsInOrder, HeardIsMade
<1>5. QED
  BY <1>3, <1>4

\* Lines taken from the stream to the service leave the others as they are.
LEMMA SerialsAfterTake ==
  ASSUME TypeOK, Serials, UNCHANGED <<owed, settled>>, toService # <<>>, TakeLine
  PROVE  Serials'
<1>1. /\ DOMAIN toService = 1 .. Len(toService) /\ Len(toService) \in Nat \ {0}
      /\ DOMAIN toService' = 1 .. Len(toService) - 1
      /\ \A i \in DOMAIN toService' : toService'[i] = toService[i + 1]
  BY TailOf DEF TypeOK, TakeLine
<1>2. \A i \in DOMAIN toService' : i + 1 \in DOMAIN toService
  BY <1>1
<1>3. QED
  BY <1>1, <1>2 DEF Serials

LEMMA SerialsAfterWrite ==
  ASSUME TypeOK, Serials, NEW line \in ToService, Write(line),
         line.sort = "answer" => line.id = FirstCallId + line.serial - 1,
         owed' \cup settled' \subseteq owed \cup settled
  PROVE  Serials'
<1>1. /\ DOMAIN toService' = 1 .. Len(toService) + 1
      /\ DOMAIN toService = 1 .. Len(toService) /\ Len(toService) \in Nat
      /\ \A i \in DOMAIN toService : toService'[i] = toService[i]
      /\ toService'[Len(toService) + 1] = line
  BY AppendOf DEF TypeOK, Write
<1>2. \A i \in DOMAIN toService' : i \in DOMAIN toService \/ i = Len(toService) + 1
  BY <1>1
<1>3. QED
  BY <1>1, <1>2 DEF Serials

LEMMA FreshStepConsumer ==
  ASSUME TypeOK, Freshness, Consumer
  PROVE  Freshness'
<1> USE ConnectionAssumption DEF Freshness
<1>0. ASSUME UNCHANGED <<service, result, nextId>>
      PROVE  FreshAnswers'
  BY <1>0 DEF FreshAnswers
<1>1. ASSUME NEW r \in Requests, SendRequest(r)
      PROVE  Freshness'
  <2>1. CallsInOrder' /\ HeardIsMade'
    BY <1>1, OrderKept DEF SendRequest, Write, thread
  <2>2. Serials'
    BY <1>1, Requested, SerialsAfterWrite DEF SendRequest, ToService
  <2>3. QED
    BY <1>0, <1>1, <2>1, <2>2 DEF SendRequest, thread
<1>2. ASSUME NEW line \in ToService, SendOther(line),
             line.sort = "answer" => line.id = FirstCallId + line.serial - 1
      PROVE  Freshness'
  <2>1. CallsInOrder' /\ HeardIsMade'
    BY <1>2, OrderKept DEF SendOther, Write, thread
  <2>2. Serials'
    BY <1>2, SerialsAfterWrite DEF SendOther
  <2>3. QED
    BY <1>0, <1>2, <2>1, <2>2 DEF SendOther, thread
<1>3. ASSUME NEW call \in owed \cup settled, NEW v \in {"value", "refused"}
      PROVE  /\ AnswerFor(call, v) \in ToService
             /\ AnswerFor(call, v).id = FirstCallId + AnswerFor(call, v).serial - 1
  BY AnswerType DEF ToService, AnswerFor, Serials
<1>4. ASSUME NEW call \in owed, NEW v \in {"value", "refused"}, Answer(call, v)
      PROVE  Freshness'
  <2>1. CallsInOrder' /\ HeardIsMade'
    BY <1>4, OrderKept DEF Answer, Write, thread
  <2>2. owed' \cup settled' \subseteq owed \cup settled
    BY <1>4 DEF Answer
  <2>3. Serials'
    BY <1>3, <1>4, <2>2, SerialsAfterWrite DEF Answer
  <2>4. QED
    BY <1>0, <1>4, <2>1, <2>3 DEF Answer, thread
<1>5. ASSUME Receive
      PROVE  Freshness'
  <2>1. CallsInOrder' /\ HeardIsMade'
    BY <1>5, OrderAfterReceive
  <2>2. Serials'
    <3>1. CASE Head(toConsumer).sort = "response"
      BY <1>5, <3>1 DEF Receive, Serials
    <3>2. CASE Head(toConsumer).sort = "api_call"
      <4>1. Head(toConsumer).id = FirstCallId + heard
        BY <1>5, <3>2, FirstIsNext DEF Receive, IsCall
      <4>2. \A call \in owed' : call \in owed \/ call = [id |-> Head(toConsumer).id, serial |-> heard + 1]
        BY <1>5, <3>2 DEF Receive
      <4>3. [id |-> Head(toConsumer).id, serial |-> heard + 1].id
              = FirstCallId + [id |-> Head(toConsumer).id, serial |-> heard + 1].serial - 1
        BY <4>1 DEF TypeOK
      <4>4. toService' = toService /\ settled' = settled
        BY <1>5 DEF Receive
      <4>5. QED
        BY <4>2, <4>3, <4>4 DEF Serials
    <3>3. QED
      BY <1>5, <3>1, <3>2 DEF Receive
  <2>3. QED
    BY <1>0, <1>5, <2>1, <2>2 DEF Receive, thread
<1>6. ASSUME Close \/ Reset
      PROVE  Freshness'
  <2>1. CallsInOrder' /\ HeardIsMade'
    BY <1>6, OrderKept DEF Close, Reset, thread, consumer
  <2>2. Serials'
    <3>1. CASE Close
      BY <3>1 DEF Close, Serials, consumer
    <3>2. CASE Reset
      BY <3>2, EmptySeq, LenProperties DEF Reset, Serials, consumer
    <3>3. QED
      BY <1>6, <3>1, <3>2
  <2>3. QED
    BY <1>0, <1>6, <2>1, <2>2 DEF Close, Reset, thread
<1>7. ASSUME ResetByService
      PROVE  Freshness'
  <2>1. CallsInOrder' /\ HeardIsMade'
    <3>1. toConsumer' = <<>> /\ DOMAIN toConsumer' = {}
      BY <1>7, EmptySeq, LenProperties DEF ResetByService
    <3>2. QED
      BY <1>7, <3>1 DEF ResetByService, CallsInOrder, HeardIsMade, thread, consumer
  <2>2. Serials'
    BY <1>7 DEF ResetByService, Serials, consumer
  <2>3. QED
    BY <1>0, <1>7, <2>1, <2>2 DEF ResetByService, thread
<1>8. QED
  <2>1. \A line \in OtherLine : line \in ToService /\ line.sort # "answer"
    BY DEF OtherLine, ToService
  <2>2. QED
    BY <1>1, <1>2, <1>3, <1>4, <1>5, <1>6, <1>7, <2>1 DEF Consumer

LEMMA FreshStepService ==
  ASSUME TypeOK, Freshness, Service
  PROVE  Freshness'
<1> USE ConnectionAssumption DEF Freshness
<1>a. ASSUME UNCHANGED <<result, nextId>>, service # "awaiting" \/ service' = "awaiting"
      PROVE  FreshAnswers'
  BY <1>a DEF FreshAnswers
<1>b. ASSUME toService # <<>>, TakeLine, UNCHANGED consumer
      PROVE  Serials'
  BY <1>b, SerialsAfterTake DEF consumer
<1>d. ASSUME UNCHANGED <<toService, owed, settled>>
      PROVE  Serials'
  BY <1>d DEF Serials
<1>c. ASSUME NEW id \in RequestIds \cup {0}, NEW code \in Code, Respond(id, code),
             UNCHANGED <<open, heard, nextId>>, service # "closed"
      PROVE  CallsInOrder' /\ HeardIsMade'
  <2>1. [sort |-> "response", id |-> id, code |-> code] \in ToConsumer
    BY DEF ToConsumer
  <2>2. ~IsCall([sort |-> "response", id |-> id, code |-> code])
    BY DEF IsCall
  <2>3. QED
    BY <1>c, <2>1, <2>2, OrderAfterResponse DEF Respond
<1>1. ASSUME SkipBlank
      PROVE  Freshness'
  BY <1>1, <1>a, <1>b, OrderKept DEF SkipBlank, Reading, thread, consumer
<1>2. ASSUME RejectLine
      PROVE  Freshness'
  BY <1>2, <1>a, <1>b, <1>c DEF RejectLine, Reading, thread, consumer, Code
<1>3. ASSUME HandleRequest
      PROVE  Freshness'
  <2>1. Line.id \in RequestIds /\ HandlerCode(Line.method, Line.params) \in Code
    BY <1>3, LineType, CodeType DEF HandleRequest, Reading, RequestLine
  <2>2. CallsInOrder' /\ HeardIsMade'
    BY <1>3, <1>c, <2>1 DEF HandleRequest, Reading, thread, consumer
  <2>3. QED
    BY <1>3, <1>a, <1>b, <2>2 DEF HandleRequest, Reading, thread, consumer
<1>4. ASSUME BeginDispatch
      PROVE  Freshness'
  BY <1>4, <1>a, <1>b, OrderKept DEF BeginDispatch, Reading, consumer
<1>5. ASSUME ScriptFails
      PROVE  Freshness'
  <2>1. CallsInOrder' /\ HeardIsMade'
    BY <1>5, OrderKept DEF ScriptFails, channels, consumer
  <2>2. Serials'
    BY <1>5, <1>d DEF ScriptFails, channels, consumer
  <2>3. FreshAnswers'
    BY <1>5, <1>a DEF ScriptFails, channels, consumer
  <2>4. QED
    BY <2>1, <2>2, <2>3
<1>6. ASSUME Call
      PROVE  Freshness'
  <2>1. FreshAnswers'
    BY <1>6 DEF Call, FreshAnswers
  <2>2. QED
    BY <1>6, <1>d, <2>1, OrderAfterCall DEF Call, consumer
<1>7. ASSUME CallCannotWrite
      PROVE  Freshness'
  <2>1. CallsInOrder' /\ HeardIsMade'
    BY <1>7 DEF CallCannotWrite, channels, CallsInOrder, HeardIsMade
  <2>2. FreshAnswers'
    BY <1>7 DEF CallCannotWrite, Return, FreshAnswers
  <2>3. QED
    BY <1>7, <1>d, <2>1, <2>2 DEF CallCannotWrite, Return, channels, consumer
<1>8. ASSUME CallReturns
      PROVE  Freshness'
  <2>1. Line.serial = nextId - FirstCallId
    <3>1. Line = toService[1] /\ 1 \in DOMAIN toService /\ Line \in AnswerLine
      BY <1>8, TailOf, LineType DEF CallReturns, IsAnswer, TypeOK, Line
    <3>2. Line.id = FirstCallId + Line.serial - 1 /\ Line.id = nextId - 1
      BY <1>8, <3>1 DEF CallReturns, IsAnswer, CallId, Serials
    <3>3. QED
      BY <3>1, <3>2 DEF TypeOK, AnswerLine, Serial, CallIds
  <2>2. FreshAnswers'
    BY <1>8, <2>1 DEF CallReturns, Return, FreshAnswers
  <2>3. QED
    BY <1>8, <1>b, <2>2, OrderKept DEF CallReturns, Return, consumer
<1>9. ASSUME CallMisreads \/ CallSeesEnd
      PROVE  Freshness'
  <2>1. FreshAnswers'
    <3>1. Return("broken", 0)
      BY <1>9 DEF CallMisreads, CallSeesEnd
    <3>2. QED
      BY <3>1 DEF Return, FreshAnswers
  <2>2. CallsInOrder' /\ HeardIsMade'
    <3>1. UNCHANGED <<toConsumer, open, heard, nextId>> /\ service # "closed"
      BY <1>9 DEF CallMisreads, CallSeesEnd, Return, channels, consumer
    <3>2. QED
      BY <3>1, OrderKept
  <2>3. Serials'
    BY <1>9, <1>b, <1>d DEF CallMisreads, CallSeesEnd, Return, channels, consumer
  <2>4. QED
    BY <2>1, <2>2, <2>3
<1>10. ASSUME FinishDispatch
       PROVE  Freshness'
  <2>1. current.id \in RequestIds
    BY <1>10 DEF FinishDispatch, TypeOK, RequestLine
  <2>2. CallsInOrder' /\ HeardIsMade'
    BY <1>10, <1>c, <2>1 DEF FinishDispatch, consumer, Code
  <2>3. QED
    BY <1>10, <1>a, <1>d, <2>2 DEF FinishDispatch, consumer
<1>11. ASSUME EndThread
       PROVE  Freshness'
  <2>1. CallsInOrder' /\ HeardIsMade'
    BY <1>11, OrderKept DEF EndThread, channels, consumer
  <2>2. Serials'
    BY <1>11, <1>d DEF EndThread, channels, consumer
  <2>3. FreshAnswers'
    BY <1>11, <1>a DEF EndThread, channels, consumer
  <2>4. QED
    BY <2>1, <2>2, <2>3
<1>12. ASSUME BreakOff
       PROVE  Freshness'
  <2>1. CallsInOrder' /\ HeardIsMade'
    BY <1>12, OrderKept DEF BreakOff, Reading, consumer
  <2>2. Serials'
    <3>1. toService' = <<>> /\ DOMAIN toService' = {}
      BY <1>12, EmptySeq, LenProperties DEF BreakOff
    <3>2. QED
      BY <1>12, <3>1 DEF BreakOff, Serials, consumer
  <2>3. FreshAnswers'
    BY <1>12, <1>a DEF BreakOff, Reading
  <2>4. QED
    BY <2>1, <2>2, <2>3
<1>13. QED
  BY <1>1, <1>2, <1>3, <1>4, <1>5, <1>6, <1>7, <1>8, <1>9, <1>10, <1>11, <1>12 DEF Service

-----------------------------------------------------------------------------
(* Polite consumers.                                                       *)

LEMMA AppendedToNone ==
  ASSUME NEW S, NEW e \in S
  PROVE  Len(Append(<<>>, e)) = 1 /\ Head(Append(<<>>, e)) = e
<1>1. /\ Append(<<>>, e) \in Seq(S) /\ Append(<<>>, e) # <<>> /\ Len(Append(<<>>, e)) = 1
      /\ Append(<<>>, e)[1] = e
  BY EmptySeq, AppendOf
<1>2. QED
  BY <1>1, TailOf

LEMMA TakenFromOne ==
  ASSUME NEW S, NEW s \in Seq(S), Len(s) = 1
  PROVE  s # <<>> /\ Tail(s) = <<>>
<1>1. s # <<>>
  BY EmptySeq
<1>2. Tail(s) \in Seq(S) /\ Len(Tail(s)) = 0
  BY <1>1, TailOf
<1>3. QED
  BY <1>1, <1>2, EmptySeq

LEMMA PoliteStepConsumer ==
  ASSUME TypeOK, Politeness, Consumer
  PROVE  Politeness'
<1> SUFFICES ASSUME Polite'
             PROVE  /\ result'.kind # "broken"
                    /\ \/ Idle' \/ Sent' \/ Dispatched' \/ Answered'
                       \/ Calling' \/ Heard' \/ CalledBack'
  BY DEF Politeness
<1>1. ASSUME NEW r \in Requests, SendRequest(r)
      PROVE  Sent' /\ result'.kind # "broken"
  <2> DEFINE line == [sort |-> "request", id |-> sent + 1, method |-> r.method, params |-> r.params]
  <2>1. Polite /\ outstanding = {}
    BY <1>1 DEF Polite, SendRequest, TypeOK
  <2>2. Idle /\ result.kind # "broken"
    BY <2>1 DEF Politeness, Sent, Dispatched, Answered, Calling, Heard, CalledBack
  <2>3. line \in ToService /\ line.sort = "request" /\ line.id = sent + 1
    BY <1>1, Requested DEF ToService
  <2>4. Len(toService') = 1 /\ Head(toService') = line
    BY <1>1, <2>2, <2>3, AppendedToNone DEF SendRequest, Write, Idle
  <2>5. QED
    BY <1>1, <2>2, <2>3, <2>4 DEF Sent, Idle, SendRequest, thread, Line
<1>2. ASSUME NEW line, SendOther(line)
      PROVE  FALSE
  BY <1>2 DEF Polite, SendOther
<1>3. ASSUME NEW call \in owed, NEW v \in {"value", "refused"}, Answer(call, v)
      PROVE  CalledBack' /\ result'.kind # "broken"
  <2>1. Polite /\ owed # {}
    BY <1>3 DEF Polite, Answer
  <2>2. Heard /\ result.kind # "broken"
    BY <2>1 DEF Politeness, Idle, Sent, Dispatched, Answered, Calling, CalledBack
  <2>3. owed = {call} /\ call.id = CallId
    BY <2>2 DEF Heard
  <2>4. AnswerFor(call, v) \in ToService /\ AnswerFor(call, v).sort = "answer"
        /\ AnswerFor(call, v).id = call.id
    BY AnswerType DEF ToService, AnswerFor
  <2>5. Len(toService') = 1 /\ Head(toService') = AnswerFor(call, v)
    BY <1>3, <2>2, <2>4, AppendedToNone DEF Answer, Write, Heard
  <2>6. QED
    BY <1>3, <2>2, <2>3, <2>4, <2>5 DEF CalledBack, Heard, Answer, thread, Line, IsAnswer, CallId
<1>4. ASSUME Receive
      PROVE  (Idle' \/ Heard') /\ result'.kind # "broken"
  <2>1. Polite /\ toConsumer # <<>>
    BY <1>4 DEF Polite, Receive
  <2>2. (Answered \/ Calling) /\ result.kind # "broken"
    BY <2>1 DEF Politeness, Idle, Sent, Dispatched, Heard, CalledBack
  <2>3. toConsumer' = <<>>
    BY <1>4, <2>2, TakenFromOne DEF Receive, Answered, Calling, TypeOK
  <2>4. CASE Answered
    <3>1. outstanding' = {} /\ owed' = {}
      BY <1>4, <2>4 DEF Answered, Receive
    <3>2. QED
      BY <1>4, <2>2, <2>3, <2>4, <3>1 DEF Answered, Idle, Receive, thread
  <2>5. CASE Calling
    <3>1. /\ outstanding' = {current.id}
          /\ owed' = {[id |-> Head(toConsumer).id, serial |-> heard + 1]}
      BY <1>4, <2>5 DEF Calling, Receive
    <3>2. [id |-> Head(toConsumer).id, serial |-> heard + 1].id = CallId
      BY <2>5 DEF Calling
    <3>3. QED
      BY <1>4, <2>2, <2>3, <2>5, <3>1, <3>2 DEF Calling, Heard, Receive, thread, CallId
  <2>6. QED
    BY <2>2, <2>4, <2>5
<1>5. ASSUME Close \/ Reset
      PROVE  FALSE
  BY <1>5 DEF Polite, Close, Reset
<1>6. ASSUME ResetByService
      PROVE  FALSE
  <2>1. Polite /\ service = "closed"
    BY <1>6 DEF ResetByService, Polite, consumer
  <2>2. QED
    BY <2>1 DEF Politeness, Idle, Sent, Dispatched, Answered, Calling, Heard, CalledBack
<1>7. QED
  BY <1>1, <1>2, <1>3, <1>4, <1>5, <1>6 DEF Consumer

LEMMA PoliteStepService ==
  ASSUME TypeOK, Politeness, Service
  PROVE  Politeness'
<1> SUFFICES ASSUME Polite'
             PROVE  /\ result'.kind # "broken"
                    /\ \/ Idle' \/ Sent' \/ Dispatched' \/ Answered'
                       \/ Calling' \/ Heard' \/ CalledBack'
  BY DEF Politeness
<1>a. Polite /\ open /\ open' = open /\ UNCHANGED <<outstanding, owed>>
  <2>1. UNCHANGED consumer /\ open' = open
    BY DEF Service, SkipBlank, RejectLine, BreakOff, HandleRequest, BeginDispatch,
       FinishDispatch, ScriptFails, Call, CallCannotWrite, CallReturns, CallMisreads,
       CallSeesEnd, EndThread, Return, channels
  <2>2. QED
    BY <2>1 DEF Polite, consumer
<1>b. result.kind # "broken"
  BY <1>a DEF Politeness
<1>c. Reading => Sent
  BY <1>a DEF Politeness, Reading, Idle, Dispatched, Answered, Calling, Heard, CalledBack
<1>d. service = "dispatching" => Dispatched
  BY <1>a DEF Politeness, Idle, Sent, Answered, Calling, Heard, CalledBack
<1>e. service = "awaiting" /\ toService # <<>> => CalledBack
  BY <1>a DEF Politeness, Idle, Sent, Answered, Dispatched, Calling, Heard
<1>f. Sent \/ CalledBack => Tail(toService) = <<>>
  BY TakenFromOne DEF Sent, CalledBack, TypeOK
<1>g. ASSUME toConsumer = <<>>, NEW id \in RequestIds \cup {0}, NEW code \in Code, Respond(id, code)
      PROVE  /\ Len(toConsumer') = 1
             /\ Head(toConsumer').sort = "response" /\ Head(toConsumer').id = id
  <2>1. [sort |-> "response", id |-> id, code |-> code] \in ToConsumer
    BY DEF ToConsumer
  <2>2. toConsumer' = Append(<<>>, [sort |-> "response", id |-> id, code |-> code])
    BY <1>a, <1>g DEF Respond, Send
  <2>3. QED
    BY <2>1, <2>2, AppendedToNone
<1>1. ASSUME SkipBlank \/ RejectLine \/ BreakOff
      PROVE  FALSE
  BY <1>1, <1>c DEF SkipBlank, RejectLine, BreakOff, Sent
<1>2. ASSUME HandleRequest
      PROVE  Answered' /\ result'.kind # "broken"
  <2>1. Sent
    BY <1>2, <1>c DEF HandleRequest
  <2>2. Line.id \in RequestIds /\ HandlerCode(Line.method, Line.params) \in Code
    BY <1>2, LineType, CodeType DEF HandleRequest, Reading, RequestLine
  <2>3. Len(toConsumer') = 1 /\ Head(toConsumer').sort = "response" /\ Head(toConsumer').id = Line.id
    BY <1>2, <1>g, <2>1, <2>2 DEF HandleRequest, Sent
  <2>4. toService' = <<>> /\ service' = service /\ result' = result
    BY <1>2, <1>f, <2>1 DEF HandleRequest, TakeLine, thread
  <2>5. QED
    BY <1>a, <1>b, <2>1, <2>3, <2>4 DEF Sent, Answered
<1>3. ASSUME BeginDispatch
      PROVE  Dispatched' /\ result'.kind # "broken"
  <2>1. Sent
    BY <1>3, <1>c DEF BeginDispatch
  <2>2. QED
    BY <1>3, <1>a, <1>b, <1>f, <2>1 DEF BeginDispatch, TakeLine, Sent, Dispatched
<1>4. ASSUME ScriptFails
      PROVE  Dispatched' /\ result'.kind # "broken"
  BY <1>4, <1>a, <1>b, <1>d DEF ScriptFails, Dispatched, channels
<1>5. ASSUME Call
      PROVE  Calling' /\ result'.kind # "broken"
  <2>1. Dispatched
    BY <1>5, <1>d DEF Call, ScriptCalls
  <2>2. [sort |-> "api_call", id |-> nextId] \in ToConsumer
    BY DEF TypeOK, ToConsumer
  <2>3. toConsumer' = Append(<<>>, [sort |-> "api_call", id |-> nextId])
    BY <1>5, <1>a, <2>1 DEF Call, Send, Dispatched
  <2>4. /\ Len(toConsumer') = 1
        /\ Head(toConsumer').sort = "api_call" /\ Head(toConsumer').id = nextId
    BY <2>2, <2>3, AppendedToNone
  <2>5. CallId' = nextId
    BY <1>5, ConnectionAssumption DEF Call, ScriptCalls, CallId, TypeOK, CallIds
  <2>6. QED
    BY <1>5, <1>a, <1>b, <2>1, <2>4, <2>5 DEF Call, Dispatched, Calling
<1>6. ASSUME CallCannotWrite \/ CallSeesEnd \/ EndThread
      PROVE  FALSE
  BY <1>6, <1>a DEF CallCannotWrite, CallSeesEnd, EndThread
<1>7. ASSUME CallReturns
      PROVE  Dispatched' /\ result'.kind # "broken"
  <2>1. CalledBack
    BY <1>7, <1>e DEF CallReturns
  <2>2. Line.value # "broken"
    BY <1>7, LineType DEF CallReturns, IsAnswer, AnswerLine
  <2>3. /\ service' = "dispatching" /\ toService' = <<>> /\ toConsumer' = <<>>
        /\ current' = current /\ result'.kind = Line.value
    BY <1>7, <1>f, <2>1 DEF CallReturns, Return, TakeLine, CalledBack
  <2>4. QED
    BY <1>a, <2>1, <2>2, <2>3 DEF CalledBack, Dispatched
<1>8. ASSUME CallMisreads
      PROVE  FALSE
  BY <1>8, <1>e DEF CallMisreads, CalledBack
<1>9. ASSUME FinishDispatch
      PROVE  Answered' /\ result'.kind # "broken"
  <2>1. Dispatched
    BY <1>9, <1>d DEF FinishDispatch
  <2>2. current.id \in RequestIds
    BY <1>9 DEF FinishDispatch, TypeOK, RequestLine
  <2>3. /\ Len(toConsumer') = 1
        /\ Head(toConsumer').sort = "response" /\ Head(toConsumer').id = current.id
    BY <1>9, <1>g, <2>1, <2>2 DEF FinishDispatch, Dispatched, Code
  <2>4. QED
    BY <1>9, <1>a, <1>b, <2>1, <2>3 DEF FinishDispatch, Dispatched, Answered
<1>10. QED
  BY <1>1, <1>2, <1>3, <1>4, <1>5, <1>6, <1>7, <1>8, <1>9 DEF Service

-----------------------------------------------------------------------------
(* Nobody waits for a call that is nowhere.                                *)

LEMMA CrossStep ==
  ASSUME TypeOK, NoCrossWait, Next
  PROVE  NoCrossWait'
<1> DEFINE Underway == \E i \in DOMAIN toConsumer :
                         toConsumer[i].sort = "api_call" /\ toConsumer[i].id = CallId
<1>1. CASE Consumer
  <2>a. UNCHANGED <<service, nextId>> /\ CallId' = CallId
    BY <1>1 DEF Consumer, SendRequest, SendOther, Answer, Receive, Close, Reset, ResetByService,
       thread, CallId
  <2>1. ASSUME NEW line \in ToService, Write(line)
        PROVE  NoCrossWait'
    BY <2>1, AppendOf DEF NoCrossWait, Write, TypeOK
  <2>2. ASSUME NEW r \in Requests, SendRequest(r)
        PROVE  NoCrossWait'
    BY <2>1, <2>2, Requested DEF SendRequest, ToService
  <2>3. ASSUME NEW line \in ToService, SendOther(line)
        PROVE  NoCrossWait'
    BY <2>1, <2>3 DEF SendOther
  <2>4. ASSUME NEW call \in owed, NEW v \in {"value", "refused"}, Answer(call, v)
        PROVE  NoCrossWait'
    BY <2>1, <2>4, AnswerType DEF Answer, ToService
  <2>5. ASSUME Receive
        PROVE  NoCrossWait'
    <3>1. /\ DOMAIN toConsumer = 1 .. Len(toConsumer) /\ Len(toConsumer) \in Nat \ {0}
          /\ Head(toConsumer) = toConsumer[1]
          /\ DOMAIN toConsumer' = 1 .. Len(toConsumer) - 1
          /\ \A i \in DOMAIN toConsumer' : toConsumer'[i] = toConsumer[i + 1]
      BY <2>5, TailOf DEF Receive, TypeOK
    <3>2. ASSUME NEW i \in DOMAIN toConsumer, toConsumer[i].sort = "api_call",
                 toConsumer[i].id = CallId
          PROVE  Underway' \/ \E call \in owed' : call.id = CallId
      <4>1. CASE i = 1
        <5>1. owed' = owed \cup {[id |-> Head(toConsumer).id, serial |-> heard + 1]}
          BY <2>5, <3>1, <3>2, <4>1 DEF Receive
        <5>2. [id |-> Head(toConsumer).id, serial |-> heard + 1].id = CallId
          BY <3>1, <3>2, <4>1
        <5>3. QED
          BY <5>1, <5>2
      <4>2. CASE i # 1
        <5>1. i - 1 \in DOMAIN toConsumer' /\ toConsumer'[i - 1] = toConsumer[i]
          BY <3>1, <4>2
        <5>2. QED
          BY <2>a, <3>2, <5>1
      <4>3. QED
        BY <4>1, <4>2
    <3>3. owed \subseteq owed' /\ toService' = toService /\ open' = open
      BY <2>5 DEF Receive
    <3>4. QED
      BY <2>a, <3>2, <3>3 DEF NoCrossWait
  <2>6. ASSUME Close \/ Reset \/ ResetByService
        PROVE  NoCrossWait'
    BY <2>6, <2>a DEF Close, Reset, ResetByService, NoCrossWait
  <2>7. ASSUME NEW call \in settled, NEW v \in {"value", "refused"}, SendOther(AnswerFor(call, v))
        PROVE  NoCrossWait'
    BY <2>3, <2>7, AnswerType DEF ToService
  <2>8. QED
    BY <1>1, <2>2, <2>3, <2>4, <2>5, <2>6, <2>7 DEF Consumer, ToService
<1>2. CASE Service
  <2>1. ASSUME Call
        PROVE  NoCrossWait'
    <3>1. CASE ~open
      BY <2>1, <3>1 DEF Call, NoCrossWait
    <3>2. CASE open
      <4>1. [sort |-> "api_call", id |-> nextId] \in ToConsumer
        BY DEF TypeOK, ToConsumer
      <4>2. toConsumer' = Append(toConsumer, [sort |-> "api_call", id |-> nextId])
        BY <2>1, <3>2 DEF Call, Send
      <4>3. /\ Len(toConsumer) + 1 \in DOMAIN toConsumer'
            /\ toConsumer'[Len(toConsumer) + 1] = [sort |-> "api_call", id |-> nextId]
        BY <4>1, <4>2, AppendOf DEF TypeOK
      <4>4. CallId' = nextId
        BY <2>1, ConnectionAssumption DEF Call, ScriptCalls, CallId, TypeOK, CallIds
      <4>5. QED
        BY <4>3, <4>4 DEF NoCrossWait
    <3>3. QED
      BY <3>1, <3>2
  <2>2. ASSUME ~Call
        PROVE  service' # "awaiting"
    BY <1>2, <2>2 DEF Service, SkipBlank, RejectLine, BreakOff, HandleRequest, BeginDispatch,
       FinishDispatch, ScriptFails, CallCannotWrite, CallReturns, CallMisreads, CallSeesEnd,
       EndThread, Return, Reading, thread
  <2>3. QED
    BY <2>1, <2>2 DEF NoCrossWait
<1>3. QED
  BY <1>1, <1>2 DEF Next

-----------------------------------------------------------------------------

(* A line that is not UTF-8 comes from nowhere else.                       *)

LEMMA SpoiltAfterWrite ==
  ASSUME TypeOK, Spoilt, NEW line \in ToService, Write(line), spoiled => spoiled',
         line.sort = "binary" => spoiled'
  PROVE  Spoilt'
<1>1. /\ DOMAIN toService' = 1 .. Len(toService) + 1
      /\ DOMAIN toService = 1 .. Len(toService) /\ Len(toService) \in Nat
      /\ \A i \in DOMAIN toService : toService'[i] = toService[i]
      /\ toService'[Len(toService) + 1] = line
  BY AppendOf DEF TypeOK, Write
<1>2. \A i \in DOMAIN toService' : i \in DOMAIN toService \/ i = Len(toService) + 1
  BY <1>1
<1>3. QED
  BY <1>1, <1>2 DEF Spoilt

LEMMA SpoiltAfterTake ==
  ASSUME TypeOK, Spoilt, spoiled' = spoiled,
         toService' = toService \/ toService' = <<>> \/ (toService # <<>> /\ TakeLine)
  PROVE  Spoilt'
<1>1. CASE toService' = toService
  BY <1>1 DEF Spoilt
<1>2. CASE toService' = <<>>
  BY <1>2, EmptySeq, LenProperties DEF Spoilt
<1>3. CASE toService # <<>> /\ TakeLine
  <2>1. /\ DOMAIN toService = 1 .. Len(toService) /\ Len(toService) \in Nat \ {0}
        /\ DOMAIN toService' = 1 .. Len(toService) - 1
        /\ \A i \in DOMAIN toService' : toService'[i] = toService[i + 1]
    BY <1>3, TailOf DEF TypeOK, TakeLine
  <2>2. \A i \in DOMAIN toService' : i + 1 \in DOMAIN toService
    BY <2>1
  <2>3. QED
    BY <2>1, <2>2 DEF Spoilt
<1>4. QED
  BY <1>1, <1>2, <1>3

LEMMA SpoiltStep ==
  ASSUME TypeOK, Spoilt, Next
  PROVE  Spoilt'
<1>1. ASSUME NEW r \in Requests, SendRequest(r)
      PROVE  Spoilt'
  BY <1>1, Requested, SpoiltAfterWrite DEF SendRequest, ToService
<1>2. ASSUME NEW line \in ToService, SendOther(line)
      PROVE  Spoilt'
  BY <1>2, SpoiltAfterWrite DEF SendOther
<1>3. ASSUME NEW call \in owed, NEW v \in {"value", "refused"}, Answer(call, v)
      PROVE  Spoilt'
  <2>1. AnswerFor(call, v) \in ToService /\ AnswerFor(call, v).sort # "binary"
    BY AnswerType DEF ToService, AnswerFor
  <2>2. QED
    BY <1>3, <2>1, SpoiltAfterWrite DEF Answer
<1>4. ASSUME NEW call \in settled, NEW v \in {"value", "refused"}, SendOther(AnswerFor(call, v))
      PROVE  Spoilt'
  BY <1>2, <1>4, AnswerType DEF ToService
<1>5. ASSUME Receive \/ Close \/ Reset \/ ResetByService
      PROVE  Spoilt'
  <2>1. spoiled' = spoiled /\ (toService' = toService \/ toService' = <<>>)
    BY <1>5 DEF Receive, Close, Reset, ResetByService, consumer
  <2>2. QED
    BY <2>1, SpoiltAfterTake
<1>6. ASSUME Service
      PROVE  Spoilt'
  <2>1. spoiled' = spoiled
    BY <1>6 DEF Service, SkipBlank, RejectLine, BreakOff, HandleRequest, BeginDispatch,
       FinishDispatch, ScriptFails, Call, CallCannotWrite, CallReturns, CallMisreads,
       CallSeesEnd, EndThread, Return, consumer
  <2>2. toService' = toService \/ toService' = <<>> \/ (toService # <<>> /\ TakeLine)
    BY <1>6 DEF Service, SkipBlank, RejectLine, BreakOff, HandleRequest, BeginDispatch,
       FinishDispatch, ScriptFails, Call, CallCannotWrite, CallReturns, CallMisreads,
       CallSeesEnd, EndThread, Reading, channels
  <2>3. QED
    BY <2>1, <2>2, SpoiltAfterTake
<1>7. QED
  <2>1. \A line \in OtherLine : line \in ToService
    BY DEF ToService
  <2>2. QED
    BY <1>1, <1>2, <1>3, <1>4, <1>5, <1>6, <2>1 DEF Next, Consumer

-----------------------------------------------------------------------------

IInv == TypeOK /\ Freshness /\ Politeness /\ NoCrossWait /\ Spoilt

LEMMA Inductive == Spec => []IInv
<1>1. Init => IInv
  BY TypeInit DEF IInv
<1>2. ASSUME IInv, [Next]_vars
      PROVE  IInv'
  <2>1. CASE Consumer
    BY <1>2, <2>1, TypeStepConsumer, FreshStepConsumer, PoliteStepConsumer, CrossStep,
       SpoiltStep DEF IInv, Next
  <2>2. CASE Service
    BY <1>2, <2>2, TypeStepService, FreshStepService, PoliteStepService, CrossStep,
       SpoiltStep DEF IInv, Next
  <2>3. CASE UNCHANGED vars
    <3>1. TypeOK'
      BY <1>2, <2>3 DEF IInv, TypeOK, vars, channels, engine, thread, consumer
    <3>2. Freshness'
      BY <1>2, <2>3 DEF IInv, Freshness, CallsInOrder, Serials, HeardIsMade, FreshAnswers, IsCall,
         vars, channels, engine, thread, consumer
    <3>3. Politeness'
      BY <1>2, <2>3 DEF IInv, Politeness, Polite, Idle, Sent, Dispatched, Answered, Calling, Heard,
         CalledBack, IsAnswer, Line, CallId, vars, channels, engine, thread, consumer
    <3>4. NoCrossWait'
      BY <1>2, <2>3 DEF IInv, NoCrossWait, CallId, vars, channels, engine, thread, consumer
    <3>5. Spoilt'
      BY <1>2, <2>3 DEF IInv, Spoilt, vars, channels, consumer
    <3>6. QED
      BY <3>1, <3>2, <3>3, <3>4, <3>5 DEF IInv
  <2>4. QED
    BY <1>2, <2>1, <2>2, <2>3 DEF Next
<1>3. QED
  BY <1>1, <1>2, PTL DEF Spec

\* The state of a connection is well-typed: no more calls are heard than were made, and
\* a request is being dispatched just when the thread is inside one (connection.rs).
THEOREM TypeCorrect == Spec => []TypeOK
<1>1. IInv => TypeOK
  BY DEF IInv
<1>2. QED
  BY <1>1, Inductive, PTL

\* What RemoteApiHandler::call returns was computed for the call it made, however late
\* or often the consumer answers, and whatever else it sends.
THEOREM AnswersAreFresh == Spec => []FreshAnswers
<1>1. IInv => FreshAnswers
  BY DEF IInv, Freshness
<1>2. QED
  BY <1>1, Inductive, PTL

\* A consumer that has one request outstanding at a time, and sends nothing but
\* requests and answers, never makes RemoteApiHandler::call fail while it is connected.
THEOREM PoliteAnswers == Spec => []PoliteCallsAnswered
<1>1. IInv => PoliteCallsAnswered
  BY DEF IInv, Politeness, Polite, PoliteCallsAnswered
<1>2. QED
  BY <1>1, Inductive, PTL

\* While RemoteApiHandler::call waits, something that ends its wait is under way, or the
\* consumer has the call to answer: consumer and service never wait for each other.
THEOREM NobodyWaitsForEver == Spec => []NoCrossWait
<1>1. IInv => NoCrossWait
  BY DEF IInv
<1>2. QED
  BY <1>1, Inductive, PTL

-----------------------------------------------------------------------------
(* The detailed connection implements RequestService: every step of any    *)
(* consumer and of the connection's thread is a step of the promise or     *)
(* none.  What the refinement mapping computes from a stream is defined by *)
(* recursion, so the first part, on what Ids computes, is an induction.    *)

\* The body of its recursion.
Upto(lines, sort, g, n) ==
  IF n = 0 THEN <<>>
  ELSE IF Named(lines[n], sort) THEN Append(g[n - 1], lines[n].id)
  ELSE g[n - 1]

LEMMA RecursionExists ==
  ASSUME NEW lines, NEW sort, Len(lines) \in Nat
  PROVE  \E g : g = [n \in 0 .. Len(lines) |-> Upto(lines, sort, g, n)]
<1> DEFINE T == {k \in Nat : \E g : g = [n \in 0 .. k |-> Upto(lines, sort, g, n)]}
<1>1. 0 \in T
  <2>1. [n \in 0 .. 0 |-> <<>>] = [n \in 0 .. 0 |-> Upto(lines, sort, [m \in 0 .. 0 |-> <<>>], n)]
    BY DEF Upto
  <2>2. QED
    BY <2>1
<1>2. ASSUME NEW k \in T
      PROVE  k + 1 \in T
  <2>1. PICK g : g = [n \in 0 .. k |-> Upto(lines, sort, g, n)]
    OBVIOUS
  <2> DEFINE h == [n \in 0 .. k + 1 |-> IF n <= k THEN g[n] ELSE Upto(lines, sort, g, n)]
  <2>2. ASSUME NEW n \in 0 .. k + 1
        PROVE  h[n] = Upto(lines, sort, h, n)
    <3>1. CASE n = 0
      BY <2>1, <3>1 DEF Upto
    <3>2. CASE n # 0 /\ n <= k
      <4>1. n \in 0 .. k /\ n - 1 \in 0 .. k /\ n - 1 \in 0 .. k + 1
        BY <3>2
      <4>2. h[n - 1] = g[n - 1] /\ h[n] = g[n]
        BY <3>2, <4>1
      <4>3. g[n] = Upto(lines, sort, g, n)
        BY <2>1, <4>1, Zenon
      <4>4. Upto(lines, sort, g, n) = Upto(lines, sort, h, n)
        BY <4>2 DEF Upto
      <4>5. QED
        BY <4>2, <4>3, <4>4
    <3>3. CASE n = k + 1
      <4>1. h[n - 1] = g[n - 1] /\ h[n] = Upto(lines, sort, g, n)
        BY <3>3
      <4>2. Upto(lines, sort, g, n) = Upto(lines, sort, h, n)
        BY <3>3, <4>1 DEF Upto
      <4>3. QED
        BY <4>1, <4>2
    <3>4. QED
      BY <3>1, <3>2, <3>3
  <2>3. h = [n \in 0 .. k + 1 |-> Upto(lines, sort, h, n)]
    <3>1. h = [n \in 0 .. k + 1 |-> h[n]]
      OBVIOUS
    <3> HIDE DEF h
    <3>2. QED
      BY <2>2, <3>1
  <2>4. QED
    BY <2>3
<1>3. T = Nat
  BY <1>1, <1>2, Induction
<1>4. QED
  BY <1>3

LEMMA IdsRecursion ==
  ASSUME NEW lines, NEW sort, Len(lines) \in Nat
  PROVE  \E g : /\ \A n \in 0 .. Len(lines) : g[n] = Upto(lines, sort, g, n)
                /\ Ids(lines, sort) = g[Len(lines)]
<1> DEFINE g == CHOOSE f : f = [n \in 0 .. Len(lines) |-> Upto(lines, sort, f, n)]
<1>1. g = [n \in 0 .. Len(lines) |-> Upto(lines, sort, g, n)]
  BY RecursionExists, Zenon
<1>2. Ids(lines, sort) = g[Len(lines)]
  BY Zenon DEF Ids, Upto
<1> HIDE DEF g
<1>3. \A n \in 0 .. Len(lines) : g[n] = Upto(lines, sort, g, n)
  BY <1>1
<1>4. QED
  BY <1>2, <1>3

LEMMA IdsOfNone ==
  ASSUME NEW sort
  PROVE  Ids(<<>>, sort) = <<>>
<1>1. Len(<<>>) = 0
  OBVIOUS
<1>2. PICK g : /\ \A n \in 0 .. Len(<<>>) : g[n] = Upto(<<>>, sort, g, n)
               /\ Ids(<<>>, sort) = g[Len(<<>>)]
  BY <1>1, IdsRecursion
<1>3. QED
  BY <1>1, <1>2 DEF Upto

\* Lines whose ids are from a set.
NamedIn(lines, sort, X) == \A i \in DOMAIN lines : Named(lines[i], sort) => lines[i].id \in X

LEMMA IdsType ==
  ASSUME NEW S, NEW lines \in Seq(S), NEW sort, NEW X, NamedIn(lines, sort, X)
  PROVE  Ids(lines, sort) \in Seq(X)
<1>1. Len(lines) \in Nat /\ DOMAIN lines = 1 .. Len(lines)
  BY LenProperties
<1>2. PICK g : /\ \A n \in 0 .. Len(lines) : g[n] = Upto(lines, sort, g, n)
               /\ Ids(lines, sort) = g[Len(lines)]
  BY <1>1, IdsRecursion
<1> DEFINE T == {n \in Nat : n <= Len(lines) => g[n] \in Seq(X)}
<1>3. 0 \in T
  <2>1. g[0] = <<>>
    BY <1>1, <1>2 DEF Upto
  <2>2. QED
    BY <2>1, EmptySeq
<1>4. ASSUME NEW n \in T
      PROVE  n + 1 \in T
  <2>1. SUFFICES ASSUME n + 1 <= Len(lines)
                 PROVE  g[n + 1] \in Seq(X)
    OBVIOUS
  <2>2. n + 1 \in 0 .. Len(lines) /\ n + 1 \in DOMAIN lines /\ (n + 1) - 1 = n /\ n + 1 # 0
    BY <1>1, <2>1
  <2>3. g[n] \in Seq(X)
    BY <1>1, <2>1
  <2>4. g[n + 1] = Upto(lines, sort, g, n + 1)
    BY <1>2, <2>2
  <2>5. CASE Named(lines[n + 1], sort)
    <3>1. lines[n + 1].id \in X
      BY <2>2, <2>5 DEF NamedIn
    <3>2. g[n + 1] = Append(g[n], lines[n + 1].id)
      BY <2>2, <2>4, <2>5 DEF Upto
    <3>3. QED
      BY <2>3, <3>1, <3>2, AppendProperties
  <2>6. CASE ~Named(lines[n + 1], sort)
    BY <2>2, <2>3, <2>4, <2>6 DEF Upto
  <2>7. QED
    BY <2>5, <2>6
<1>5. T = Nat
  BY <1>3, <1>4, Induction
<1>6. QED
  BY <1>1, <1>2, <1>5

\* A line at the end adds its id at the end.
LEMMA IdsOfAppend ==
  ASSUME NEW S, NEW lines \in Seq(S), NEW e \in S, NEW sort
  PROVE  Ids(Append(lines, e), sort) =
           IF Named(e, sort) THEN Append(Ids(lines, sort), e.id) ELSE Ids(lines, sort)
<1> DEFINE more == Append(lines, e)
<1>1. /\ Len(lines) \in Nat /\ DOMAIN lines = 1 .. Len(lines) /\ Len(more) = Len(lines) + 1
      /\ more[Len(lines) + 1] = e /\ \A i \in DOMAIN lines : more[i] = lines[i]
  BY AppendOf
<1> HIDE DEF more
<1>2. PICK g : /\ \A n \in 0 .. Len(lines) : g[n] = Upto(lines, sort, g, n)
               /\ Ids(lines, sort) = g[Len(lines)]
  BY <1>1, IdsRecursion
<1>3. PICK h : /\ \A n \in 0 .. Len(more) : h[n] = Upto(more, sort, h, n)
               /\ Ids(more, sort) = h[Len(more)]
  BY <1>1, IdsRecursion
<1> DEFINE T == {n \in Nat : n <= Len(lines) => h[n] = g[n]}
<1>4. 0 \in T
  <2>1. h[0] = <<>> /\ g[0] = <<>>
    BY <1>1, <1>2, <1>3 DEF Upto
  <2>2. QED
    BY <2>1
<1>5. ASSUME NEW n \in T
      PROVE  n + 1 \in T
  <2>1. SUFFICES ASSUME n + 1 <= Len(lines)
                 PROVE  h[n + 1] = g[n + 1]
    OBVIOUS
  <2>2. /\ n + 1 \in 0 .. Len(lines) /\ n + 1 \in 0 .. Len(more) /\ n + 1 \in DOMAIN lines
        /\ (n + 1) - 1 = n /\ n + 1 # 0
    BY <1>1, <2>1
  <2>3. h[n] = g[n] /\ more[n + 1] = lines[n + 1]
    BY <1>1, <2>1, <2>2
  <2>4. g[n + 1] = Upto(lines, sort, g, n + 1) /\ h[n + 1] = Upto(more, sort, h, n + 1)
    BY <1>2, <1>3, <2>2
  <2>5. QED
    BY <2>2, <2>3, <2>4 DEF Upto
<1>6. T = Nat
  BY <1>4, <1>5, Induction
<1>7. h[Len(lines)] = g[Len(lines)]
  BY <1>1, <1>6
<1>8. h[Len(lines) + 1] = Upto(more, sort, h, Len(lines) + 1)
  BY <1>1, <1>3
<1>9. Ids(more, sort) =
        IF Named(e, sort) THEN Append(Ids(lines, sort), e.id) ELSE Ids(lines, sort)
  <2>1. (Len(lines) + 1) - 1 = Len(lines) /\ Len(lines) + 1 # 0
    BY <1>1
  <2>2. QED
    BY <1>1, <1>2, <1>3, <1>7, <1>8, <2>1 DEF Upto
<1>10. QED
  BY <1>9 DEF more

\* What the first line adds at the front.
FirstId(lines, sort) == IF Named(Head(lines), sort) THEN <<Head(lines).id>> ELSE <<>>

LEMMA FirstIdType ==
  ASSUME NEW S, NEW lines \in Seq(S), lines # <<>>, NEW sort, NEW X, NamedIn(lines, sort, X)
  PROVE  FirstId(lines, sort) \in Seq(X)
<1>1. Head(lines) = lines[1] /\ 1 \in DOMAIN lines
  BY TailOf
<1>2. CASE Named(Head(lines), sort)
  <2>1. Head(lines).id \in X
    BY <1>1, <1>2 DEF NamedIn
  <2>2. FirstId(lines, sort) = <<Head(lines).id>>
    BY <1>2 DEF FirstId
  <2>3. QED
    BY <2>1, <2>2
<1>3. CASE ~Named(Head(lines), sort)
  <2>1. FirstId(lines, sort) = <<>>
    BY <1>3 DEF FirstId
  <2>2. QED
    BY <2>1, EmptySeq
<1>4. QED
  BY <1>2, <1>3

LEMMA ConcatThree ==
  ASSUME NEW X
  PROVE  \A r, s, t \in Seq(X) : (r \o s) \o t = r \o (s \o t)
<1>1. ASSUME NEW r \in Seq(X), NEW s \in Seq(X), NEW t \in Seq(X)
      PROVE  (r \o s) \o t = r \o (s \o t)
  BY ConcatAssociative
<1>2. QED
  BY <1>1, Zenon

LEMMA AppendIn ==
  ASSUME NEW X, NEW s \in Seq(X), NEW e \in X
  PROVE  Append(s, e) \in Seq(X) /\ Append(s, e) = s \o <<e>>
BY AppendProperties, AppendIsConcat

LEMMA IdsOfTail ==
  ASSUME NEW S, NEW lines \in Seq(S), lines # <<>>, NEW sort, NEW X, NamedIn(lines, sort, X)
  PROVE  /\ NamedIn(Tail(lines), sort, X)
         /\ Ids(Tail(lines), sort) \in Seq(X)
         /\ FirstId(lines, sort) \in Seq(X)
         /\ Ids(lines, sort) = FirstId(lines, sort) \o Ids(Tail(lines), sort)
<1> DEFINE rest == Tail(lines)
           first == FirstId(lines, sort)
<1>1. /\ Len(lines) \in Nat \ {0} /\ DOMAIN lines = 1 .. Len(lines) /\ Head(lines) = lines[1]
      /\ rest \in Seq(S) /\ DOMAIN rest = 1 .. Len(lines) - 1 /\ Len(rest) = Len(lines) - 1
      /\ \A i \in DOMAIN rest : rest[i] = lines[i + 1]
  BY TailOf
<1>a. NamedIn(rest, sort, X)
  <2>1. \A i \in DOMAIN rest : i + 1 \in DOMAIN lines
    BY <1>1
  <2>2. QED
    BY <1>1, <2>1 DEF NamedIn
<1>b. Ids(rest, sort) \in Seq(X)
  BY <1>1, <1>a, IdsType
<1>c. first \in Seq(X)
  BY FirstIdType
<1>d. first = IF Named(lines[1], sort) THEN <<lines[1].id>> ELSE <<>>
  BY <1>1 DEF FirstId
<1>e. \A r, s, t \in Seq(X) : (r \o s) \o t = r \o (s \o t)
  BY ConcatThree, SMTT(30)
<1> HIDE DEF rest, first
<1>2. PICK g : /\ \A n \in 0 .. Len(lines) : g[n] = Upto(lines, sort, g, n)
               /\ Ids(lines, sort) = g[Len(lines)]
  BY <1>1, IdsRecursion
<1>3. PICK h : /\ \A n \in 0 .. Len(rest) : h[n] = Upto(rest, sort, h, n)
               /\ Ids(rest, sort) = h[Len(rest)]
  BY <1>1, IdsRecursion
<1> DEFINE T == {n \in Nat : n <= Len(rest) => h[n] \in Seq(X) /\ g[n + 1] = first \o h[n]}
<1>4. 0 \in T
  <2>0. 0 \in 0 .. Len(lines) /\ 1 \in 0 .. Len(lines) /\ 0 \in 0 .. Len(rest)
    BY <1>1
  <2>1. h[0] = <<>> /\ g[0] = <<>>
    BY <1>2, <1>3, <2>0 DEF Upto
  <2>2. g[1] = IF Named(lines[1], sort) THEN Append(<<>>, lines[1].id) ELSE <<>>
    <3>1. g[1] = Upto(lines, sort, g, 1)
      BY <1>2, <2>0
    <3>2. 1 - 1 = 0 /\ 1 # 0
      OBVIOUS
    <3>3. QED
      BY <2>1, <3>1, <3>2 DEF Upto
  <2>3. Append(<<>>, lines[1].id) = <<lines[1].id>>
    OBVIOUS
  <2>4. g[1] = first
    BY <1>d, <2>2, <2>3
  <2>5. first \o <<>> = first
    BY <1>c, ConcatEmptySeq
  <2>6. <<>> \in Seq(X) /\ 0 + 1 = 1
    BY EmptySeq
  <2>7. QED
    BY <2>1, <2>4, <2>5, <2>6
<1>5. ASSUME NEW n \in T
      PROVE  n + 1 \in T
  <2>1. SUFFICES ASSUME n + 1 <= Len(rest)
                 PROVE  h[n + 1] \in Seq(X) /\ g[(n + 1) + 1] = first \o h[n + 1]
    OBVIOUS
  <2>2. /\ n + 1 \in 0 .. Len(rest) /\ n + 2 \in 0 .. Len(lines) /\ n + 1 \in DOMAIN rest
        /\ (n + 1) - 1 = n /\ n + 1 # 0 /\ (n + 2) - 1 = n + 1 /\ n + 2 # 0 /\ (n + 1) + 1 = n + 2
    BY <1>1, <2>1
  <2>3. h[n] \in Seq(X) /\ g[n + 1] = first \o h[n]
    BY <1>1, <2>1
  <2>4. rest[n + 1] = lines[n + 2]
    BY <1>1, <2>2
  <2>5. h[n + 1] = Upto(rest, sort, h, n + 1) /\ g[n + 2] = Upto(lines, sort, g, n + 2)
    BY <1>2, <1>3, <2>2
  <2>6. CASE Named(rest[n + 1], sort)
    <3>1. rest[n + 1].id \in X
      BY <1>a, <2>2, <2>6 DEF NamedIn
    <3>2. h[n + 1] = Append(h[n], rest[n + 1].id) /\ g[n + 2] = Append(g[n + 1], rest[n + 1].id)
      BY <2>2, <2>4, <2>5, <2>6 DEF Upto
    <3>3. h[n + 1] \in Seq(X) /\ h[n + 1] = h[n] \o <<rest[n + 1].id>>
      BY <2>3, <3>1, <3>2, AppendIn, Zenon
    <3>4. first \o h[n] \in Seq(X)
      BY <1>c, <2>3, ConcatProperties
    <3>5. g[n + 2] = (first \o h[n]) \o <<rest[n + 1].id>>
      BY <2>3, <3>1, <3>2, <3>4, AppendIsConcat
    <3>6. <<rest[n + 1].id>> \in Seq(X)
      BY <3>1
    <3>7. (first \o h[n]) \o <<rest[n + 1].id>> = first \o (h[n] \o <<rest[n + 1].id>>)
      BY <1>c, <1>e, <2>3, <3>6, Zenon
    <3>8. QED
      BY <2>2, <3>3, <3>5, <3>7
  <2>7. CASE ~Named(rest[n + 1], sort)
    BY <2>2, <2>3, <2>4, <2>5, <2>7 DEF Upto
  <2>8. QED
    BY <2>6, <2>7
<1>6. T = Nat
  <2> HIDE DEF T
  <2>1. \A n \in T : n + 1 \in T
    BY <1>5
  <2>2. T \subseteq Nat
    BY DEF T
  <2>3. QED
    BY <1>4, <2>1, <2>2, Induction
<1>7. g[Len(rest) + 1] = first \o h[Len(rest)]
  <2>1. Len(rest) \in Nat /\ Len(rest) <= Len(rest)
    BY <1>1
  <2>2. Len(rest) \in T
    BY <1>6, <2>1, Zenon
  <2>3. QED
    BY <2>1, <2>2, Zenon
<1>8. Ids(lines, sort) = first \o Ids(rest, sort)
  <2>1. Len(rest) + 1 = Len(lines)
    BY <1>1
  <2>2. QED
    BY <1>2, <1>3, <1>7, <2>1
<1>9. QED
  BY <1>8, <1>a, <1>b, <1>c DEF rest, first

-----------------------------------------------------------------------------
(* The requests not handled, as a function of the stream they are on.      *)

AskedOf(op, cur, lines) ==
  IF ~op THEN <<>>
  ELSE (IF cur = NoRequest THEN <<>> ELSE <<cur.id>>) \o Ids(lines, "request")

RepliesOf(op, lines) == IF op THEN Ids(lines, "response") ELSE <<>>

LEMMA RequestsNamed ==
  ASSUME NEW lines \in Seq(ToService)
  PROVE  NamedIn(lines, "request", RequestIds)
<1>1. \A i \in DOMAIN lines : lines[i] \in ToService
  OBVIOUS
<1>2. \A e \in ToService : e.sort = "request" => e.id \in RequestIds
  BY DEF ToService, RequestLine, AnswerLine, OtherLine
<1>3. QED
  BY <1>1, <1>2 DEF NamedIn, Named

LEMMA ResponsesNamed ==
  ASSUME NEW lines \in Seq(ToConsumer)
  PROVE  NamedIn(lines, "response", RequestIds)
<1>1. \A i \in DOMAIN lines : lines[i] \in ToConsumer
  OBVIOUS
<1>2. \A e \in ToConsumer : e.sort = "response" /\ e.id # 0 => e.id \in RequestIds
  BY DEF ToConsumer
<1>3. QED
  BY <1>1, <1>2 DEF NamedIn, Named

LEMMA RequestIsNamed ==
  ASSUME NEW e \in ToService
  PROVE  /\ Named(e, "request") <=> e.sort = "request"
         /\ e.sort = "request" => e.id \in RequestIds
<1>1. e.sort = "request" => e.id \in RequestIds
  BY DEF ToService, RequestLine, AnswerLine, OtherLine
<1>2. \A i \in RequestIds : i # 0
  BY ConnectionAssumption DEF RequestIds
<1>3. QED
  BY <1>1, <1>2 DEF Named

\* A sequence with something put before it.
LEMMA FrontOf ==
  ASSUME NEW X, NEW e \in X, NEW s \in Seq(X)
  PROVE  /\ <<e>> \o s \in Seq(X) /\ <<e>> \o s # <<>>
         /\ Head(<<e>> \o s) = e /\ Tail(<<e>> \o s) = s /\ Len(<<e>> \o s) = Len(s) + 1
<1>1. <<e>> \in Seq(X) /\ Len(<<e>>) = 1 /\ <<e>>[1] = e
  OBVIOUS
<1>2. /\ <<e>> \o s \in Seq(X) /\ Len(<<e>> \o s) = Len(s) + 1
      /\ \A i \in 1 .. Len(s) + 1 :
           (<<e>> \o s)[i] = IF i <= 1 THEN <<e>>[i] ELSE s[i - 1]
  BY <1>1, ConcatProperties
<1>3. <<e>> \o s # <<>> /\ Head(<<e>> \o s) = e
  BY <1>1, <1>2
<1>4. Tail(<<e>> \o s) = s
  <2> DEFINE t == Tail(<<e>> \o s)
  <2>1. /\ t \in Seq(X) /\ Len(t) = Len(s) /\ DOMAIN t = 1 .. Len(s)
        /\ \A i \in DOMAIN t : t[i] = (<<e>> \o s)[i + 1]
    BY <1>2, <1>3, TailOf
  <2>2. \A i \in 1 .. Len(s) : t[i] = s[i]
    BY <1>2, <2>1
  <2> HIDE DEF t
  <2>3. t = s
    BY <2>1, <2>2, SeqEqual
  <2>4. QED
    BY <2>3 DEF t
<1>5. QED
  BY <1>2, <1>3, <1>4

LEMMA FrontIs ==
  ASSUME NEW X, NEW e \in X, NEW s \in Seq(X), NEW t, t = <<e>> \o s
  PROVE  t \in Seq(X) /\ t # <<>> /\ Head(t) = e /\ Tail(t) = s /\ Len(t) = Len(s) + 1
BY FrontOf

LEMMA ConcatOfNone ==
  ASSUME NEW X, NEW s \in Seq(X)
  PROVE  <<>> \o s = s
BY ConcatEmptySeq

LEMMA AskedByNobody ==
  ASSUME NEW lines \in Seq(ToService)
  PROVE  AskedOf(TRUE, NoRequest, lines) = Ids(lines, "request")
<1>1. Ids(lines, "request") \in Seq(RequestIds)
  BY RequestsNamed, IdsType
<1>2. AskedOf(TRUE, NoRequest, lines) = <<>> \o Ids(lines, "request")
  BY DEF AskedOf
<1>3. QED
  BY <1>1, <1>2, ConcatOfNone

\* A request being dispatched is the first of those asked.
LEMMA AskedWhileDispatching ==
  ASSUME NEW lines \in Seq(ToService), NEW cur \in RequestLine
  PROVE  /\ AskedOf(TRUE, cur, lines) = <<cur.id>> \o Ids(lines, "request")
         /\ AskedOf(TRUE, cur, lines) # <<>>
         /\ Head(AskedOf(TRUE, cur, lines)) = cur.id
         /\ Tail(AskedOf(TRUE, cur, lines)) = Ids(lines, "request")
<1>1. Ids(lines, "request") \in Seq(RequestIds)
  BY RequestsNamed, IdsType
<1>2. cur # NoRequest /\ cur.id \in RequestIds
  BY ConnectionAssumption DEF RequestLine
<1>3. AskedOf(TRUE, cur, lines) = <<cur.id>> \o Ids(lines, "request")
  BY <1>2 DEF AskedOf
<1>4. QED
  BY <1>1, <1>2, <1>3, FrontOf

\* A line that is not a request changes nothing when it is taken ...
LEMMA OthersTaken ==
  ASSUME NEW lines \in Seq(ToService), lines # <<>>, Head(lines).sort # "request"
  PROVE  Ids(Tail(lines), "request") = Ids(lines, "request")
<1>1. ~Named(Head(lines), "request")
  BY DEF Named
<1>2. FirstId(lines, "request") = <<>>
  BY <1>1 DEF FirstId
<1>3. /\ Ids(Tail(lines), "request") \in Seq(RequestIds)
      /\ Ids(lines, "request") = FirstId(lines, "request") \o Ids(Tail(lines), "request")
  BY RequestsNamed, IdsOfTail
<1>4. QED
  BY <1>2, <1>3, ConcatOfNone

\* ... and a request leaves the front.
LEMMA RequestTaken ==
  ASSUME NEW lines \in Seq(ToService), lines # <<>>, Head(lines).sort = "request"
  PROVE  /\ Head(lines) \in RequestLine /\ Head(lines).id \in RequestIds
         /\ Ids(Tail(lines), "request") \in Seq(RequestIds)
         /\ Ids(lines, "request") = <<Head(lines).id>> \o Ids(Tail(lines), "request")
         /\ Ids(lines, "request") # <<>>
         /\ Head(Ids(lines, "request")) = Head(lines).id
         /\ Tail(Ids(lines, "request")) = Ids(Tail(lines), "request")
<1>1. Head(lines) \in ToService
  BY TailOf
<1>2. Head(lines) \in RequestLine
  BY <1>1 DEF ToService, AnswerLine, OtherLine
<1>3. Head(lines).id \in RequestIds /\ Named(Head(lines), "request")
  BY <1>1, RequestIsNamed
<1>4. FirstId(lines, "request") = <<Head(lines).id>>
  BY <1>3 DEF FirstId
<1>5. /\ Ids(Tail(lines), "request") \in Seq(RequestIds)
      /\ Ids(lines, "request") = FirstId(lines, "request") \o Ids(Tail(lines), "request")
  BY RequestsNamed, IdsOfTail
<1>6. Ids(lines, "request") = <<Head(lines).id>> \o Ids(Tail(lines), "request")
  BY <1>4, <1>5
<1>7. /\ Ids(lines, "request") # <<>> /\ Head(Ids(lines, "request")) = Head(lines).id
      /\ Tail(Ids(lines, "request")) = Ids(Tail(lines), "request")
  BY <1>3, <1>5, <1>6, FrontIs
<1>8. QED
  BY <1>2, <1>3, <1>5, <1>6, <1>7

\* A request written is asked last; another line is not.
LEMMA AskedMore ==
  ASSUME NEW lines \in Seq(ToService), NEW e \in ToService, NEW cur \in RequestLine \cup {NoRequest}
  PROVE  AskedOf(TRUE, cur, Append(lines, e)) =
           IF e.sort = "request" THEN Append(AskedOf(TRUE, cur, lines), e.id)
           ELSE AskedOf(TRUE, cur, lines)
<1> DEFINE ids == Ids(lines, "request")
<1>1. /\ ids \in Seq(RequestIds) /\ Append(lines, e) \in Seq(ToService)
      /\ Ids(Append(lines, e), "request") =
           IF Named(e, "request") THEN Append(ids, e.id) ELSE ids
  BY RequestsNamed, IdsType, IdsOfAppend, AppendProperties
<1>2. /\ Named(e, "request") <=> e.sort = "request"
      /\ e.sort = "request" => e.id \in RequestIds
  BY RequestIsNamed
<1> HIDE DEF ids
<1>3. CASE cur = NoRequest
  <2>1. /\ AskedOf(TRUE, cur, lines) = ids
        /\ AskedOf(TRUE, cur, Append(lines, e)) = Ids(Append(lines, e), "request")
    BY <1>1, <1>3, AskedByNobody DEF ids
  <2>2. QED
    BY <1>1, <1>2, <2>1
<1>4. CASE cur # NoRequest
  <2>1. /\ AskedOf(TRUE, cur, lines) = <<cur.id>> \o ids
        /\ AskedOf(TRUE, cur, Append(lines, e)) = <<cur.id>> \o Ids(Append(lines, e), "request")
    BY <1>1, <1>4, AskedWhileDispatching DEF ids
  <2>2. <<cur.id>> \in Seq(RequestIds)
    <3>1. cur.id \in RequestIds
      BY <1>4 DEF RequestLine
    <3>2. QED
      BY <3>1
  <2>3. CASE e.sort = "request"
    <3>1. e.id \in RequestIds /\ <<e.id>> \in Seq(RequestIds)
      BY <1>2, <2>3
    <3>2. Append(ids, e.id) = ids \o <<e.id>>
      BY <1>1, <3>1, AppendIn
    <3>3. <<cur.id>> \o ids \in Seq(RequestIds)
      BY <1>1, <2>2, ConcatProperties
    <3>4. Append(<<cur.id>> \o ids, e.id) = (<<cur.id>> \o ids) \o <<e.id>>
      BY <3>1, <3>3, AppendIn
    <3>5. \A r, s, t \in Seq(RequestIds) : (r \o s) \o t = r \o (s \o t)
      BY ConcatThree, SMTT(30)
    <3>6. (<<cur.id>> \o ids) \o <<e.id>> = <<cur.id>> \o (ids \o <<e.id>>)
      BY <1>1, <2>2, <3>1, <3>5, Zenon
    <3>7. QED
      BY <1>1, <1>2, <2>1, <2>3, <3>2, <3>4, <3>6
  <2>4. CASE e.sort # "request"
    BY <1>1, <1>2, <2>1, <2>4
  <2>5. QED
    BY <2>3, <2>4
<1>5. QED
  BY <1>3, <1>4

\* The line behind the request being dispatched is taken: if it is a request, it is lost.
LEMMA AskedLost ==
  ASSUME NEW lines \in Seq(ToService), lines # <<>>, NEW cur \in RequestLine
  PROVE  IF Head(lines).sort = "request"
         THEN /\ Len(AskedOf(TRUE, cur, lines)) > 1
              /\ AskedOf(TRUE, cur, Tail(lines)) =
                   <<Head(AskedOf(TRUE, cur, lines))>> \o Tail(Tail(AskedOf(TRUE, cur, lines)))
         ELSE AskedOf(TRUE, cur, Tail(lines)) = AskedOf(TRUE, cur, lines)
<1>1. Tail(lines) \in Seq(ToService)
  BY TailOf
<1>2. /\ AskedOf(TRUE, cur, lines) = <<cur.id>> \o Ids(lines, "request")
      /\ Head(AskedOf(TRUE, cur, lines)) = cur.id
      /\ Tail(AskedOf(TRUE, cur, lines)) = Ids(lines, "request")
      /\ AskedOf(TRUE, cur, Tail(lines)) = <<cur.id>> \o Ids(Tail(lines), "request")
  BY <1>1, AskedWhileDispatching
<1>3. CASE Head(lines).sort = "request"
  <2>1. /\ Ids(Tail(lines), "request") \in Seq(RequestIds) /\ Head(lines).id \in RequestIds
        /\ Ids(lines, "request") = <<Head(lines).id>> \o Ids(Tail(lines), "request")
        /\ Tail(Ids(lines, "request")) = Ids(Tail(lines), "request")
    BY <1>3, RequestTaken
  <2>2. /\ Ids(lines, "request") \in Seq(RequestIds)
        /\ Len(Ids(lines, "request")) = Len(Ids(Tail(lines), "request")) + 1
    BY <2>1, FrontIs
  <2>3. cur.id \in RequestIds
    BY DEF RequestLine
  <2>4. Len(AskedOf(TRUE, cur, lines)) = Len(Ids(lines, "request")) + 1
    <3> DEFINE ids == Ids(lines, "request")
               all == AskedOf(TRUE, cur, lines)
    <3>1. ids \in Seq(RequestIds) /\ all = <<cur.id>> \o ids
      BY <1>2, <2>2
    <3> HIDE DEF ids, all
    <3>2. Len(all) = Len(ids) + 1
      BY <2>3, <3>1, FrontIs
    <3>3. QED
      BY <3>2 DEF ids, all
  <2>5. Len(Ids(Tail(lines), "request")) \in Nat
    BY <2>1, LenProperties
  <2>6. Len(AskedOf(TRUE, cur, lines)) > 1
    <3> DEFINE m == Len(Ids(Tail(lines), "request"))
               n == Len(Ids(lines, "request"))
               k == Len(AskedOf(TRUE, cur, lines))
    <3>1. m \in Nat /\ n = m + 1 /\ k = n + 1
      BY <2>2, <2>4, <2>5
    <3> HIDE DEF m, n, k
    <3>2. k > 1
      BY <3>1
    <3>3. QED
      BY <3>2 DEF k
  <2>7. AskedOf(TRUE, cur, Tail(lines)) =
          <<Head(AskedOf(TRUE, cur, lines))>> \o Tail(Tail(AskedOf(TRUE, cur, lines)))
    BY <1>2, <2>1
  <2>8. QED
    BY <1>3, <2>6, <2>7
<1>4. CASE Head(lines).sort # "request"
  BY <1>2, <1>4, OthersTaken
<1>5. QED
  BY <1>3, <1>4

\* A response written is the last reply; a call, or a line under id 0, is none.
LEMMA RepliesMore ==
  ASSUME NEW lines \in Seq(ToConsumer), NEW e \in ToConsumer
  PROVE  RepliesOf(TRUE, Append(lines, e)) =
           IF Named(e, "response") THEN Append(RepliesOf(TRUE, lines), e.id)
           ELSE RepliesOf(TRUE, lines)
BY IdsOfAppend DEF RepliesOf

LEMMA RepliesFewer ==
  ASSUME NEW lines \in Seq(ToConsumer), lines # <<>>
  PROVE  IF Named(Head(lines), "response")
         THEN /\ RepliesOf(TRUE, lines) # <<>>
              /\ RepliesOf(TRUE, Tail(lines)) = Tail(RepliesOf(TRUE, lines))
         ELSE RepliesOf(TRUE, Tail(lines)) = RepliesOf(TRUE, lines)
<1>1. /\ Ids(Tail(lines), "response") \in Seq(RequestIds)
      /\ Ids(lines, "response") = FirstId(lines, "response") \o Ids(Tail(lines), "response")
  BY ResponsesNamed, IdsOfTail
<1>2. /\ RepliesOf(TRUE, lines) = Ids(lines, "response")
      /\ RepliesOf(TRUE, Tail(lines)) = Ids(Tail(lines), "response")
  BY DEF RepliesOf
<1>3. CASE Named(Head(lines), "response")
  <2>1. FirstId(lines, "response") = <<Head(lines).id>>
    BY <1>3 DEF FirstId
  <2>2. Head(lines).id \in RequestIds
    <3>1. NamedIn(lines, "response", RequestIds) /\ Head(lines) = lines[1] /\ 1 \in DOMAIN lines
      BY ResponsesNamed, TailOf
    <3>2. QED
      BY <1>3, <3>1 DEF NamedIn
  <2>3. Ids(lines, "response") = <<Head(lines).id>> \o Ids(Tail(lines), "response")
    BY <1>1, <2>1
  <2>4. /\ Ids(lines, "response") # <<>>
        /\ Tail(Ids(lines, "response")) = Ids(Tail(lines), "response")
    BY <1>1, <2>2, <2>3, FrontIs
  <2>5. QED
    BY <1>2, <1>3, <2>4
<1>4. CASE ~Named(Head(lines), "response")
  <2>1. FirstId(lines, "response") = <<>>
    BY <1>4 DEF FirstId
  <2>2. Ids(lines, "response") = Ids(Tail(lines), "response")
    BY <1>1, <2>1, ConcatOfNone
  <2>3. QED
    BY <1>2, <1>4, <2>2
<1>5. QED
  BY <1>3, <1>4

-----------------------------------------------------------------------------
(* Each step maps to a step of RequestService or to none.                  *)

LEMMA Mapped ==
  /\ Up => Asked = AskedOf(TRUE, current, toService)
  /\ ~Up => Asked = <<>>
  /\ Replies = RepliesOf(open, toConsumer)
BY DEF Asked, AskedOf, Replies, RepliesOf

LEMMA MappedNext ==
  /\ Up' => Asked' = AskedOf(TRUE, current', toService')
  /\ ~Up' => Asked' = <<>>
  /\ Replies' = RepliesOf(open', toConsumer')
BY DEF Asked, AskedOf, Replies, RepliesOf

\* Nothing of the promise changes.
Kept == Asked' = Asked /\ Replies' = Replies /\ Up' = Up /\ spoiled' = spoiled

\* The two ends are as they were, or only the service's is, and stands.
LEMMA StillUp ==
  ASSUME open' = open, service' = service \/ (service # "closed" /\ service' # "closed")
  PROVE  Up' = Up
BY DEF Up

LEMMA AskKept ==
  ASSUME Up' = Up, current' = current, toService' = toService
  PROVE  Asked' = Asked
BY Zenon DEF Asked

LEMMA RepliesKept ==
  ASSUME open' = open, toConsumer' = toConsumer
  PROVE  Replies' = Replies
BY Mapped, MappedNext

\* Nothing is asked of a connection that has ended, and nothing is on its way back to a
\* consumer that closed it.
LEMMA Ended ==
  ASSUME ~open, open' = open
  PROVE  Asked' = Asked /\ Replies' = Replies /\ Up' = Up
BY DEF Asked, Replies, Up

LEMMA StepConsumer ==
  ASSUME TypeOK, Consumer
  PROVE  Kept \/ Abstract!Next
<1>0. service' = service
  BY DEF Consumer, SendRequest, SendOther, Answer, Receive, Close, Reset, ResetByService, thread
<1>1. ASSUME NEW r \in Requests, SendRequest(r)
      PROVE  Abstract!Next
  <2> DEFINE e == [sort |-> "request", id |-> sent + 1, method |-> r.method, params |-> r.params]
  <2>1. /\ e \in ToService /\ e.sort = "request" /\ e.id = sent + 1 /\ sent + 1 \in RequestIds
        /\ toService' = Append(toService, e) /\ Up /\ open' = open /\ current' = current
        /\ toConsumer' = toConsumer /\ spoiled' = spoiled
    <3>1. e \in RequestLine
      BY <1>1, Requested
    <3>2. sent + 1 \in RequestIds
      BY <1>1, ConnectionAssumption DEF TypeOK, SendRequest, RequestIds
    <3>3. QED
      BY <1>1, <3>1, <3>2 DEF SendRequest, Write, thread, ToService
  <2> HIDE DEF e
  <2>2. current \in RequestLine \cup {NoRequest} /\ toService \in Seq(ToService)
    BY DEF TypeOK
  <2>3. Up' = Up
    BY <1>0, <2>1, StillUp
  <2>4. Asked' = Append(Asked, sent + 1)
    BY <2>1, <2>2, <2>3, AskedMore, Mapped, MappedNext
  <2>5. Replies' = Replies
    BY <2>1, RepliesKept
  <2>6. QED
    BY <2>1, <2>3, <2>4, <2>5 DEF Abstract!Next, Abstract!Ask
<1>2. ASSUME NEW e \in ToService, e.sort # "request", Write(e),
             open' = open, current' = current, toConsumer' = toConsumer
      PROVE  Asked' = Asked /\ Replies' = Replies /\ Up /\ Up' = Up
  <2>1. /\ current \in RequestLine \cup {NoRequest} /\ toService \in Seq(ToService) /\ Up
        /\ toService' = Append(toService, e)
    BY <1>2 DEF TypeOK, Write
  <2>2. Up' = Up
    BY <1>0, <1>2, StillUp
  <2>3. Asked' = Asked
    BY <1>2, <2>1, <2>2, AskedMore, Mapped, MappedNext
  <2>4. QED
    BY <1>2, <2>1, <2>2, <2>3, RepliesKept
<1>3. ASSUME NEW e \in ToService, e.sort # "request", SendOther(e)
      PROVE  Kept \/ Abstract!Next
  <2>1. Write(e) /\ open' = open /\ current' = current /\ toConsumer' = toConsumer
    BY <1>3 DEF SendOther, thread
  <2>2. Asked' = Asked /\ Replies' = Replies /\ Up /\ Up' = Up
    BY <1>2, <1>3, <2>1
  <2>3. CASE e.sort = "binary"
    <3>1. spoiled' = TRUE
      BY <1>3, <2>3 DEF SendOther
    <3>2. QED
      BY <2>2, <3>1 DEF Abstract!Next, Abstract!Spoil
  <2>4. CASE e.sort # "binary"
    <3>1. spoiled' = spoiled
      BY <1>3, <2>4 DEF SendOther, TypeOK
    <3>2. QED
      BY <2>2, <3>1 DEF Kept
  <2>5. QED
    BY <2>3, <2>4
<1>4. ASSUME NEW call \in owed \cup settled, NEW v \in {"value", "refused"}
      PROVE  AnswerFor(call, v) \in ToService /\ AnswerFor(call, v).sort # "request"
  <2>1. AnswerFor(call, v) \in AnswerLine
    BY <1>4, AnswerType DEF TypeOK
  <2>2. QED
    BY <2>1 DEF AnswerLine, ToService
<1>5. ASSUME NEW call \in owed, NEW v \in {"value", "refused"}, Answer(call, v)
      PROVE  Kept
  <2>1. AnswerFor(call, v) \in ToService /\ AnswerFor(call, v).sort # "request"
    BY <1>4
  <2>2. /\ Write(AnswerFor(call, v)) /\ open' = open /\ current' = current
        /\ toConsumer' = toConsumer /\ spoiled' = spoiled
    BY <1>5 DEF Answer, thread
  <2>3. QED
    BY <1>2, <2>1, <2>2 DEF Kept
<1>6. ASSUME NEW call \in settled, NEW v \in {"value", "refused"}, SendOther(AnswerFor(call, v))
      PROVE  Kept \/ Abstract!Next
  BY <1>3, <1>4, <1>6
<1>7. CASE Receive
  <2>1. /\ toConsumer \in Seq(ToConsumer) /\ toConsumer # <<>> /\ open = TRUE /\ open' = open
        /\ toConsumer' = Tail(toConsumer) /\ toService' = toService /\ current' = current
        /\ spoiled' = spoiled
    BY <1>7 DEF Receive, TypeOK, engine, thread
  <2>2. Up' = Up
    BY <1>0, <2>1, StillUp
  <2>3. Asked' = Asked
    BY <2>1, <2>2, AskKept
  <2>4. CASE Named(Head(toConsumer), "response")
    <3>1. Replies # <<>> /\ Replies' = Tail(Replies)
      BY <2>1, <2>4, RepliesFewer, Mapped, MappedNext
    <3>2. QED
      BY <2>1, <2>2, <2>3, <3>1 DEF Abstract!Next, Abstract!Collect
  <2>5. CASE ~Named(Head(toConsumer), "response")
    <3>1. Replies' = Replies
      BY <2>1, <2>5, RepliesFewer, Mapped, MappedNext
    <3>2. QED
      BY <2>1, <2>2, <2>3, <3>1 DEF Kept
  <2>6. QED
    BY <2>4, <2>5
<1>8. CASE Close
  <2>1. Asked' = <<>> /\ Replies' = <<>> /\ Up' = FALSE /\ spoiled' = spoiled
    BY <1>8 DEF Close, Asked, Replies, Up, consumer
  <2>2. QED
    BY <2>1 DEF Abstract!Next, Abstract!HangUp
<1>9. CASE Reset
  BY <1>9, Ended DEF Reset, Kept, consumer
<1>10. CASE ResetByService
  <2>1. toConsumer' = <<>> /\ Up' = FALSE /\ ~Up' /\ spoiled' = spoiled
    BY <1>10 DEF ResetByService, Up, thread, consumer
  <2>2. Asked' = <<>>
    BY <2>1, MappedNext
  <2>3. Replies' = <<>>
    BY <2>1, IdsOfNone, MappedNext DEF RepliesOf
  <2>4. QED
    BY <2>1, <2>2, <2>3 DEF Abstract!Next, Abstract!HangUp
<1>11. QED
  <2>1. \A e \in OtherLine : e \in ToService /\ e.sort # "request"
    BY DEF ToService, OtherLine
  <2>2. QED
    BY <1>1, <1>3, <1>5, <1>6, <1>7, <1>8, <1>9, <1>10, <2>1 DEF Consumer

\* What the service sends while the connection is open, and what becomes of the replies.
LEMMA RepliesSent ==
  ASSUME TypeOK, NEW e \in ToConsumer, Send(e), open, open' = open
  PROVE  Replies' = IF Named(e, "response") THEN Append(Replies, e.id) ELSE Replies
<1>1. open = TRUE /\ toConsumer \in Seq(ToConsumer) /\ toConsumer' = Append(toConsumer, e)
  BY DEF TypeOK, Send
<1>2. QED
  BY <1>1, RepliesMore, Mapped, MappedNext

\* The thread takes a line that is not a request.
LEMMA AskedAfterOther ==
  ASSUME TypeOK, toService # <<>>, TakeLine, Line.sort # "request", Up' = Up,
         current' = current
  PROVE  Asked' = Asked
<1>1. toService \in Seq(ToService) /\ toService' = Tail(toService) /\ Head(toService) = Line
  BY DEF TypeOK, TakeLine, Line
<1>2. Ids(toService', "request") = Ids(toService, "request")
  BY <1>1, OthersTaken
<1>3. QED
  BY <1>2, Zenon DEF Asked

\* The thread answers a request it has taken.
LEMMA ResponseTo ==
  ASSUME TypeOK, NEW id \in RequestIds, NEW code \in Code, Respond(id, code), open, open' = open
  PROVE  Replies' = Append(Replies, id)
<1> DEFINE e == [sort |-> "response", id |-> id, code |-> code]
<1>1. e \in ToConsumer /\ e.sort = "response" /\ e.id = id /\ Send(e)
  BY DEF ToConsumer, Respond
<1>2. id # 0
  BY ConnectionAssumption DEF RequestIds
<1> HIDE DEF e
<1>3. Named(e, "response")
  BY <1>1, <1>2 DEF Named
<1>4. QED
  BY <1>1, <1>3, RepliesSent

LEMMA StepService ==
  ASSUME TypeOK, TypeOK', Spoilt, Service
  PROVE  Kept \/ Abstract!Next
<1>0. open' = open /\ spoiled' = spoiled /\ service # "closed"
  BY DEF Service, SkipBlank, RejectLine, BreakOff, HandleRequest, BeginDispatch, FinishDispatch,
     ScriptFails, Call, CallCannotWrite, CallReturns, CallMisreads, CallSeesEnd, EndThread,
     Reading, ScriptCalls, Return, channels, consumer
<1>1. CASE ~open
  BY <1>0, <1>1, Ended DEF Kept
<1>2. CASE open
  <2> USE <1>0, <1>2
  <2>0. /\ open = TRUE /\ toService \in Seq(ToService) /\ toConsumer \in Seq(ToConsumer)
        /\ Up
    BY DEF TypeOK, Up
  <2>a. ASSUME service' # "closed"
        PROVE  Up' = Up /\ Up'
    BY <2>a DEF Up
  <2>1. CASE SkipBlank
    <3>1. /\ toService # <<>> /\ TakeLine /\ Line.sort # "request" /\ current' = current
          /\ toConsumer' = toConsumer /\ service' # "closed"
      BY <2>1 DEF SkipBlank, Reading, thread
    <3>2. QED
      BY <2>a, <3>1, AskedAfterOther, RepliesKept DEF Kept
  <2>2. CASE RejectLine
    <3> DEFINE e == [sort |-> "response", id |-> 0, code |-> "parse_error"]
    <3>1. e \in ToConsumer /\ e.id = 0 /\ Send(e)
      BY <2>2 DEF ToConsumer, Code, RejectLine, Respond
    <3> HIDE DEF e
    <3>2. Replies' = Replies
      BY <3>1, RepliesSent DEF Named
    <3>3. /\ toService # <<>> /\ TakeLine /\ Line.sort # "request" /\ current' = current
          /\ service' # "closed"
      BY <2>2 DEF RejectLine, Reading, thread
    <3>4. QED
      BY <2>a, <3>2, <3>3, AskedAfterOther DEF Kept
  <2>3. CASE HandleRequest
    <3>1. /\ toService # <<>> /\ Line.sort = "request" /\ Line = Head(toService)
          /\ toService' = Tail(toService) /\ current' = current /\ service = "reading"
          /\ service' # "closed"
      BY <2>3 DEF HandleRequest, Reading, Line, TakeLine, thread
    <3>2. current = NoRequest
      BY <3>1 DEF TypeOK
    <3>3. /\ Line.id \in RequestIds /\ Ids(toService, "request") # <<>>
          /\ Head(Ids(toService, "request")) = Line.id
          /\ Tail(Ids(toService, "request")) = Ids(toService', "request")
      BY <2>0, <3>1, RequestTaken
    <3>4. Asked = Ids(toService, "request") /\ Asked' = Ids(toService', "request")
      <4>1. toService' \in Seq(ToService)
        BY DEF TypeOK
      <4>2. QED
        BY <2>0, <2>a, <3>1, <3>2, <4>1, AskedByNobody, Mapped, MappedNext
    <3>5. PICK code \in Code : Respond(Line.id, code)
      BY <2>3, CodeType DEF HandleRequest
    <3>6. Replies' = Append(Replies, Line.id)
      BY <3>3, <3>5, ResponseTo
    <3>7. QED
      BY <2>a, <3>1, <3>3, <3>4, <3>6 DEF Abstract!Next, Abstract!Reply
  <2>4. CASE BeginDispatch
    <3>1. /\ toService # <<>> /\ Line.sort = "request" /\ Line = Head(toService)
          /\ toService' = Tail(toService) /\ current' = Line /\ service = "reading"
          /\ toConsumer' = toConsumer /\ service' # "closed"
      BY <2>4 DEF BeginDispatch, Reading, Line, TakeLine
    <3>2. current = NoRequest
      BY <3>1 DEF TypeOK
    <3>3. /\ Line \in RequestLine
          /\ Ids(toService, "request") = <<Line.id>> \o Ids(toService', "request")
      BY <2>0, <3>1, RequestTaken
    <3>4. Asked = Ids(toService, "request")
      BY <2>0, <3>2, AskedByNobody, Mapped
    <3>5. Asked' = <<Line.id>> \o Ids(toService', "request")
      <4>1. toService' \in Seq(ToService)
        BY DEF TypeOK
      <4>2. QED
        BY <2>a, <3>1, <3>3, <4>1, AskedWhileDispatching, MappedNext
    <3>6. QED
      BY <2>a, <3>1, <3>3, <3>4, <3>5, RepliesKept DEF Kept
  <2>5. CASE FinishDispatch
    <3>1. /\ service = "dispatching" /\ current' = NoRequest /\ toService' = toService
          /\ Respond(current.id, "ok") /\ service' # "closed"
      BY <2>5 DEF FinishDispatch
    <3>2. current \in RequestLine /\ current.id \in RequestIds
      <4>1. current \in RequestLine
        BY <3>1 DEF TypeOK
      <4>2. QED
        BY <4>1 DEF RequestLine
    <3>3. /\ Asked # <<>> /\ Head(Asked) = current.id
          /\ Tail(Asked) = Ids(toService, "request")
      BY <2>0, <3>2, AskedWhileDispatching, Mapped
    <3>4. Asked' = Ids(toService, "request")
      BY <2>0, <2>a, <3>1, AskedByNobody, MappedNext
    <3>5. "ok" \in Code
      BY DEF Code
    <3>6. Replies' = Append(Replies, current.id)
      BY <3>1, <3>2, <3>5, ResponseTo
    <3>7. QED
      BY <2>a, <3>1, <3>3, <3>4, <3>6 DEF Abstract!Next, Abstract!Reply
  <2>6. CASE ScriptFails
    <3>1. UNCHANGED <<toService, toConsumer, current, service>>
      BY <2>6 DEF ScriptFails, channels
    <3>2. QED
      BY <2>a, <3>1, AskKept, RepliesKept DEF Kept
  <2>7. CASE Call
    <3> DEFINE e == [sort |-> "api_call", id |-> nextId]
    <3>1. e \in ToConsumer /\ e.sort = "api_call" /\ Send(e)
      BY <2>7 DEF Call, ToConsumer, TypeOK
    <3> HIDE DEF e
    <3>2. Replies' = Replies
      BY <3>1, RepliesSent DEF Named
    <3>3. UNCHANGED <<toService, current>> /\ service' # "closed"
      BY <2>7 DEF Call
    <3>4. QED
      BY <2>a, <3>2, <3>3, AskKept DEF Kept
  <2>8. CASE CallCannotWrite
    BY <2>8 DEF CallCannotWrite
  <2>9. CASE CallReturns
    <3>1. /\ toService # <<>> /\ TakeLine /\ Line.sort # "request" /\ current' = current
          /\ toConsumer' = toConsumer /\ service' # "closed"
      BY <2>9 DEF CallReturns, IsAnswer, Return
    <3>2. QED
      BY <2>a, <3>1, AskedAfterOther, RepliesKept DEF Kept
  <2>10. CASE CallMisreads
    <3>1. /\ toService # <<>> /\ toService' = Tail(toService) /\ Line = Head(toService)
          /\ current' = current /\ toConsumer' = toConsumer /\ service = "awaiting"
          /\ service' # "closed"
      BY <2>10 DEF CallMisreads, TakeLine, Line, Return
    <3>2. current \in RequestLine
      BY <3>1 DEF TypeOK
    <3>3. IF Line.sort = "request"
          THEN Len(Asked) > 1 /\ Asked' = <<Head(Asked)>> \o Tail(Tail(Asked))
          ELSE Asked' = Asked
      BY <2>0, <2>a, <3>1, <3>2, AskedLost, Mapped, MappedNext
    <3>4. Replies' = Replies /\ Up' = Up
      BY <2>a, <3>1, RepliesKept
    <3>5. QED
      BY <3>3, <3>4 DEF Abstract!Next, Abstract!Lose, Kept
  <2>11. CASE CallSeesEnd
    BY <2>11 DEF CallSeesEnd
  <2>12. CASE EndThread
    BY <2>12 DEF EndThread
  <2>13. CASE BreakOff
    <3>1. toService # <<>> /\ Line.sort = "binary" /\ toConsumer' = toConsumer
      BY <2>13 DEF BreakOff, Reading
    <3>2. spoiled
      <4>1. Line = toService[1] /\ 1 \in DOMAIN toService
        BY <2>0, <3>1, TailOf DEF Line
      <4>2. QED
        BY <3>1, <4>1 DEF Spoilt
    <3>3. Up' = FALSE /\ ~Up'
      BY <2>13 DEF BreakOff, Up
    <3>4. Asked' = <<>> /\ Replies' = Replies
      BY <3>1, <3>3, MappedNext, RepliesKept
    <3>5. QED
      BY <2>0, <3>2, <3>3, <3>4 DEF Abstract!Next, Abstract!GiveUp
  <2>14. QED
    BY <2>1, <2>2, <2>3, <2>4, <2>5, <2>6, <2>7, <2>8, <2>9, <2>10, <2>11, <2>12, <2>13
    DEF Service
<1>3. QED
  BY <1>1, <1>2

\* What RequestService promises, liveness aside.
KeepsOrder == Abstract!Init /\ [][Abstract!Next]_(Abstract!vars)

\* A connection answers requests in the order they came, each at most once, loses none
\* but those a consumer sends while a script of an earlier one waits for an answer, and
\* gives the connection up on none but a consumer that sent what is not UTF-8:
\* handle_stream and RemoteApiHandler::call implement RequestService to any consumer.
THEOREM ResponsesInOrder == Spec => KeepsOrder
<1>1. Init => Abstract!Init
  <2>1. SUFFICES ASSUME Init
                 PROVE  Asked = <<>> /\ Replies = <<>> /\ Up = TRUE /\ spoiled = FALSE
    BY DEF Abstract!Init
  <2>2. Ids(<<>>, "request") = <<>> /\ Ids(<<>>, "response") = <<>>
    BY IdsOfNone
  <2>3. <<>> \o <<>> = <<>>
    BY EmptySeq, ConcatEmptySeq
  <2>4. /\ open = TRUE /\ service = "reading" /\ current = NoRequest /\ toService = <<>>
        /\ toConsumer = <<>> /\ spoiled = FALSE
    BY <2>1 DEF Init
  <2>5. Up = TRUE /\ Up
    BY <2>4 DEF Up
  <2>6. Asked = <<>> \o Ids(<<>>, "request")
    BY <2>4, <2>5, Zenon DEF Asked
  <2>7. Replies = Ids(<<>>, "response")
    BY <2>4, Zenon DEF Replies
  <2>8. QED
    BY <2>2, <2>3, <2>4, <2>5, <2>6, <2>7
<1>2. IInv /\ IInv' /\ [Next]_vars => [Abstract!Next]_(Abstract!vars)
  <2>1. SUFFICES ASSUME TypeOK, TypeOK', Spoilt, [Next]_vars
                 PROVE  Kept \/ Abstract!Next
    BY DEF Kept, Abstract!vars, IInv
  <2>2. CASE Consumer
    BY <2>1, <2>2, StepConsumer
  <2>3. CASE Service
    BY <2>1, <2>3, StepService
  <2>4. CASE UNCHANGED vars
    <3>1. UNCHANGED <<open, service, current, toService, toConsumer, spoiled>>
      BY <2>4 DEF vars, channels, thread, consumer
    <3>2. Up' = Up
      BY <3>1, StillUp
    <3>3. QED
      BY <3>1, <3>2, AskKept, RepliesKept DEF Kept
  <2>5. QED
    BY <2>1, <2>2, <2>3, <2>4 DEF Next
<1>3. QED
  BY <1>1, <1>2, Inductive, PTL DEF Spec, KeepsOrder
=============================================================================
