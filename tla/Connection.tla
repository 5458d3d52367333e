----------------------------- MODULE Connection ------------------------------
(***************************************************************************)
(* One connection of luaml-service: the thread that runs handle_stream     *)
(* with its own engine (connection.rs), the api_call it makes back to the  *)
(* consumer while it dispatches (remote_api.rs), and a consumer that may   *)
(* do anything README.md allows it and some things it does not.            *)
(*                                                                         *)
(* Both directions are streams of lines.  The service reads its stream in  *)
(* two places: at the top of its loop, for a request, and inside an        *)
(* api_call, for the answer; each takes the next line whatever it is.  The *)
(* engine is abstracted to whether a script and an API namespace are       *)
(* registered; what a dispatched script does is its choice of calls and of *)
(* failing.                                                                *)
(*                                                                         *)
(* A definition whose name starts with Slip is not part of the model: it   *)
(* is what the one after it would be with a plausible bug in that code,    *)
(* kept to show which property notices.                                    *)
(***************************************************************************)
EXTENDS Naturals, Sequences

CONSTANTS
  Requests,     \* the requests a consumer sends: [method, params]
  NoRequest,
  FirstCallId,  \* next_id starts here (1_000_000)
  MaxSent,      \* bound: lines a consumer sends besides its answers
  MaxCalls      \* bound: calls all scripts make on the connection

Method == {"register", "register_api", "dispatch", "query", "query_subset", "unknown"}
\* "bad" parameters do not deserialize; a "broken" script does not parse.
Params == {"good", "bad", "broken"}

RequestIds == 1 .. MaxSent
CallIds == FirstCallId .. FirstCallId + MaxCalls
Serial == 1 .. MaxCalls

\* An answer names the call it is for by id; serial is what was computed for it.
RequestLine == [sort : {"request"}, id : RequestIds, method : Method, params : Params]
AnswerLine == [sort : {"answer"}, id : CallIds, serial : Serial, value : {"value", "refused"}]
\* Of the other lines, a "binary" one is not UTF-8.
OtherLine == [sort : {"blank", "garbage", "binary"}]
ToService == RequestLine \cup AnswerLine \cup OtherLine

Code == {"ok", "parse_error", "method_not_found", "invalid_params", "luaml_error"}
ToConsumer == [sort : {"response"}, id : RequestIds \cup {0}, code : Code]
                \cup [sort : {"api_call"}, id : CallIds]

\* Ids of requests and of calls never collide: "Start api_call IDs at a high range".
ASSUME ConnectionAssumption ==
  /\ Requests \subseteq [method : Method, params : Params]
  /\ MaxSent \in Nat
  /\ MaxCalls \in Nat
  /\ FirstCallId \in Nat /\ FirstCallId > MaxSent
  /\ NoRequest \notin RequestLine

VARIABLES
  toService,   \* the lines the consumer wrote and the service has not read
  toConsumer,  \* the lines the service wrote and the consumer has not read
  open,        \* the consumer has not closed the connection
  service,     \* where the connection's thread is
  current,     \* the request being dispatched, or NoRequest
  nextId,      \* RemoteApiHandler.next_id
  result,      \* what the last RemoteApiHandler::call returned
  failed,      \* a clause of the current dispatch failed
  scripts,     \* the engine has a script
  apis,        \* the engine has an API namespace
  sent,        \* lines the consumer sent besides its answers (bounded by MaxSent)
  heard,       \* number of calls the consumer has read
  owed,        \* the calls the consumer has read and not answered
  settled,     \* the calls the consumer has answered
  outstanding, \* the requests the consumer has no response for
  pipelined,   \* the consumer sent a request with another one outstanding
  junk,        \* the consumer sent something other than requests and answers
  spoiled      \* the consumer sent a line that is not UTF-8

channels == <<toService, toConsumer, open>>
engine == <<scripts, apis>>
thread == <<service, current, nextId, result, failed>>
consumer == <<sent, heard, owed, settled, outstanding, pipelined, junk, spoiled>>
vars == <<channels, engine, thread, consumer>>

Init ==
  /\ toService = <<>> /\ toConsumer = <<>> /\ open = TRUE
  /\ service = "reading" /\ current = NoRequest
  /\ nextId = FirstCallId
  /\ result = [kind |-> "none", serial |-> 0]
  /\ failed = FALSE
  /\ scripts = FALSE /\ apis = FALSE
  /\ sent = 0 /\ heard = 0 /\ owed = {} /\ settled = {} /\ outstanding = {}
  /\ pipelined = FALSE /\ junk = FALSE /\ spoiled = FALSE

-----------------------------------------------------------------------------
(* The consumer.                                                           *)

\* The connection stands as long as neither side has closed it.
Up == open /\ service # "closed"

Write(line) == Up /\ toService' = Append(toService, line)

SendRequest(r) ==
  /\ sent < MaxSent
  /\ Write([sort |-> "request", id |-> sent + 1, method |-> r.method, params |-> r.params])
  /\ sent' = sent + 1
  /\ outstanding' = outstanding \cup {sent + 1}
  /\ pipelined' = (pipelined \/ outstanding # {})
  /\ UNCHANGED <<toConsumer, open, engine, thread, heard, owed, settled, junk, spoiled>>

SendOther(line) ==
  /\ sent < MaxSent
  /\ Write(line)
  /\ sent' = sent + 1
  /\ junk' = TRUE
  /\ spoiled' = (spoiled \/ line.sort = "binary")
  /\ UNCHANGED <<toConsumer, open, engine, thread, heard, owed, settled, outstanding,
                 pipelined>>

AnswerFor(call, v) == [sort |-> "answer", id |-> call.id, serial |-> call.serial, value |-> v]

Answer(call, v) ==
  /\ Write(AnswerFor(call, v))
  /\ owed' = owed \ {call}
  /\ settled' = settled \cup {call}
  /\ UNCHANGED <<toConsumer, open, engine, thread, sent, heard, outstanding, pipelined, junk,
                 spoiled>>

Receive ==
  /\ open /\ toConsumer # <<>>
  /\ toConsumer' = Tail(toConsumer)
  /\ LET line == Head(toConsumer)
     IN \/ /\ line.sort = "response"
           /\ outstanding' = outstanding \ {line.id}
           /\ UNCHANGED <<heard, owed>>
        \/ /\ line.sort = "api_call"
           /\ heard' = heard + 1
           /\ owed' = owed \cup {[id |-> line.id, serial |-> heard + 1]}
           /\ UNCHANGED outstanding
  /\ UNCHANGED <<toService, open, engine, thread, sent, settled, pipelined, junk, spoiled>>

Close ==
  /\ open
  /\ open' = FALSE
  /\ UNCHANGED <<toService, toConsumer, engine, thread, consumer>>

\* Closing with responses unread resets the connection: what the service has not
\* read by then is gone.
Reset ==
  /\ ~open /\ toService # <<>>
  /\ toService' = <<>>
  /\ UNCHANGED <<toConsumer, open, engine, thread, consumer>>

\* Just so when the service closes with lines unread: what it sent may not get through.
ResetByService ==
  /\ service = "closed" /\ toConsumer # <<>>
  /\ toConsumer' = <<>>
  /\ UNCHANGED <<toService, open, engine, thread, consumer>>

-----------------------------------------------------------------------------
(* The connection's thread.                                                *)

Reading == service = "reading" /\ toService # <<>>
Line == Head(toService)
TakeLine == toService' = Tail(toService)

\* Lines written to a closed connection go nowhere, and nobody asks.
Send(line) == toConsumer' = IF open THEN Append(toConsumer, line) ELSE toConsumer
Respond(id, code) == Send([sort |-> "response", id |-> id, code |-> code])

SkipBlank ==
  /\ Reading /\ Line.sort = "blank"
  /\ TakeLine
  /\ UNCHANGED <<toConsumer, open, engine, thread, consumer>>

\* Anything that is not a request, a late answer too, is answered under id 0.
RejectLine ==
  /\ Reading /\ Line.sort \in {"garbage", "answer"}
  /\ TakeLine
  /\ Respond(0, "parse_error")
  /\ UNCHANGED <<open, engine, thread, consumer>>

\* A read that fails, here for a line that is not UTF-8, ends the loop without an answer:
\* the stream is dropped, with whatever else was on its way to the service.
BreakOff ==
  /\ Reading /\ Line.sort = "binary"
  /\ service' = "closed"
  /\ toService' = <<>>
  /\ UNCHANGED <<toConsumer, open, engine, current, nextId, result, failed, consumer>>

HandlerCode(method, params) ==
  CASE method = "unknown" -> "method_not_found"
    [] method # "unknown" /\ params = "bad" -> "invalid_params"
    [] method = "register" /\ params = "broken" -> "luaml_error"
    [] OTHER -> "ok"

IsDispatch(line) == line.method = "dispatch" /\ HandlerCode(line.method, line.params) = "ok"

\* A request that fails is logged and not answered.
SlipHandleRequest ==
  /\ Reading /\ Line.sort = "request" /\ ~IsDispatch(Line)
  /\ TakeLine
  /\ LET code == HandlerCode(Line.method, Line.params)
     IN /\ IF code = "ok" THEN Respond(Line.id, code) ELSE UNCHANGED toConsumer
        /\ scripts' = (scripts \/ (Line.method = "register" /\ code = "ok"))
        /\ apis' = (apis \/ (Line.method = "register_api" /\ code = "ok"))
  /\ UNCHANGED <<open, thread, consumer>>

HandleRequest ==
  /\ Reading /\ Line.sort = "request" /\ ~IsDispatch(Line)
  /\ TakeLine
  /\ LET code == HandlerCode(Line.method, Line.params)
     IN /\ Respond(Line.id, code)
        /\ scripts' = (scripts \/ (Line.method = "register" /\ code = "ok"))
        /\ apis' = (apis \/ (Line.method = "register_api" /\ code = "ok"))
  /\ UNCHANGED <<open, thread, consumer>>

BeginDispatch ==
  /\ Reading /\ Line.sort = "request" /\ IsDispatch(Line)
  /\ TakeLine
  /\ current' = Line
  /\ service' = "dispatching"
  /\ failed' = FALSE
  /\ UNCHANGED <<toConsumer, open, engine, nextId, result, consumer>>

\* A script fails on its own account.
ScriptFails ==
  /\ service = "dispatching" /\ scripts /\ ~failed
  /\ failed' = TRUE
  /\ UNCHANGED <<channels, engine, service, current, nextId, result, consumer>>

ScriptCalls ==
  /\ service = "dispatching" /\ scripts /\ apis
  /\ nextId < FirstCallId + MaxCalls
  /\ nextId' = nextId + 1

\* The call is written to the buffer and not flushed.
SlipCall ==
  /\ ScriptCalls
  /\ service' = "awaiting"
  /\ UNCHANGED <<channels, engine, current, result, failed, consumer>>

\* RemoteApiHandler::call up to the read.
Call ==
  /\ ScriptCalls
  /\ Send([sort |-> "api_call", id |-> nextId])
  /\ service' = "awaiting"
  /\ UNCHANGED <<toService, open, engine, current, result, failed, consumer>>

\* The counter is read again instead of keeping what fetch_add returned.
SlipCallId == nextId

CallId == nextId - 1

\* The script may catch the error of a call that failed.
Return(kind, serial) ==
  /\ service' = "dispatching"
  /\ result' = [kind |-> kind, serial |-> serial]
  /\ failed' \in IF kind = "value" THEN {failed} ELSE {failed, TRUE}
  /\ UNCHANGED <<engine, current, consumer>>

CallCannotWrite ==
  /\ ScriptCalls /\ ~open
  /\ Return("broken", 0)
  /\ UNCHANGED channels

IsAnswer == Line.sort = "answer" /\ Line.id = CallId

\* The id of the answer is not compared.
SlipCallReturns ==
  /\ service = "awaiting" /\ toService # <<>> /\ Line.sort = "answer"
  /\ TakeLine
  /\ Return(Line.value, Line.serial)
  /\ UNCHANGED <<toConsumer, open, nextId>>

CallReturns ==
  /\ service = "awaiting" /\ toService # <<>> /\ IsAnswer
  /\ TakeLine
  /\ Return(Line.value, Line.serial)
  /\ UNCHANGED <<toConsumer, open, nextId>>

\* The next line is not the answer, or no text at all: it is taken all the same, and the
\* call fails.
CallMisreads ==
  /\ service = "awaiting" /\ toService # <<>> /\ ~IsAnswer
  /\ TakeLine
  /\ Return("broken", 0)
  /\ UNCHANGED <<toConsumer, open, nextId>>

\* An empty line is read again, at the end of the stream too.
SlipCallSeesEnd ==
  /\ service = "awaiting" /\ toService = <<>> /\ ~open
  /\ UNCHANGED vars

CallSeesEnd ==
  /\ service = "awaiting" /\ toService = <<>> /\ ~open
  /\ Return("broken", 0)
  /\ UNCHANGED <<channels, nextId>>

\* The errors of the clauses are not in the response.
FinishDispatch ==
  /\ service = "dispatching"
  /\ Respond(current.id, "ok")
  /\ service' = "reading"
  /\ current' = NoRequest
  /\ UNCHANGED <<toService, open, engine, nextId, result, failed, consumer>>

EndThread ==
  /\ service = "reading" /\ toService = <<>> /\ ~open
  /\ service' = "closed"
  /\ UNCHANGED <<channels, engine, current, nextId, result, failed, consumer>>

-----------------------------------------------------------------------------

Consumer ==
  \/ \E r \in Requests : SendRequest(r)
  \/ \E line \in OtherLine : SendOther(line)
  \/ \E call \in owed, v \in {"value", "refused"} : Answer(call, v)
  \/ \E call \in settled, v \in {"value", "refused"} : SendOther(AnswerFor(call, v))
  \/ Receive
  \/ Close
  \/ Reset
  \/ ResetByService

Service ==
  \/ SkipBlank \/ RejectLine \/ BreakOff \/ HandleRequest \/ BeginDispatch \/ FinishDispatch
  \/ ScriptFails \/ Call \/ CallCannotWrite
  \/ CallReturns \/ CallMisreads \/ CallSeesEnd
  \/ EndThread

Next == Consumer \/ Service

\* The thread runs, a script comes to an end (MaxCalls), and "the consumer executes
\* the function and responds".
Fairness ==
  /\ WF_vars(Service)
  /\ WF_vars(Receive)
  /\ WF_vars(\E call \in owed, v \in {"value", "refused"} : Answer(call, v))

Spec == Init /\ [][Next]_vars /\ Fairness

-----------------------------------------------------------------------------

TypeOK ==
  /\ toService \in Seq(ToService)
  /\ toConsumer \in Seq(ToConsumer)
  /\ open \in BOOLEAN
  /\ service \in {"reading", "dispatching", "awaiting", "closed"}
  /\ current \in RequestLine \cup {NoRequest}
  /\ (current # NoRequest) <=> (service \in {"dispatching", "awaiting"})
  /\ nextId \in CallIds
  /\ result \in [kind : {"none", "value", "refused", "broken"}, serial : Serial \cup {0}]
  /\ failed \in BOOLEAN /\ scripts \in BOOLEAN /\ apis \in BOOLEAN
  /\ sent \in 0 .. MaxSent
  /\ heard \in 0 .. MaxCalls
  /\ owed \subseteq [id : CallIds, serial : Serial]
  /\ settled \subseteq [id : CallIds, serial : Serial]
  /\ outstanding \subseteq RequestIds
  /\ pipelined \in BOOLEAN /\ junk \in BOOLEAN /\ spoiled \in BOOLEAN

\* A script never gets the answer to another call than the one it waits for, though
\* the consumer may answer late, after the call has failed, or twice: what the last
\* call returned was computed for the last call made.
FreshAnswers ==
  result.kind \in {"value", "refused"} /\ service # "awaiting"
    => result.serial = nextId - FirstCallId

\* As long as a consumer waits for each response before its next request and sends
\* nothing but requests and answers, no call fails for want of its answer.
PoliteCallsAnswered == open /\ ~pipelined /\ ~junk => result.kind # "broken"

\* The two sides never wait for each other: while a call waits, a line is on its way
\* to it, the connection has ended, or the consumer has the call to answer.
NoCrossWait ==
  service = "awaiting" =>
    \/ toService # <<>>
    \/ ~open
    \/ \E i \in DOMAIN toConsumer : toConsumer[i].sort = "api_call" /\ toConsumer[i].id = CallId
    \/ \E call \in owed : call.id = CallId

\* When the consumer closes the connection its thread ends, wherever it was.
ThreadEnds == ~open ~> (service = "closed")

\* The ids of the requests sent and not handled, and of the responses not received.
Named(line, sort) == line.sort = sort /\ line.id # 0

Ids(lines, sort) ==
  LET upTo[n \in 0 .. Len(lines)] ==
        IF n = 0 THEN <<>>
        ELSE IF Named(lines[n], sort) THEN Append(upTo[n - 1], lines[n].id)
        ELSE upTo[n - 1]
  IN upTo[Len(lines)]

Asked ==
  IF ~Up THEN <<>>
  ELSE (IF current = NoRequest THEN <<>> ELSE <<current.id>>) \o Ids(toService, "request")

Replies == IF open THEN Ids(toConsumer, "response") ELSE <<>>

Abstract ==
  INSTANCE RequestService WITH RequestId <- RequestIds, asked <- Asked, replies <- Replies,
                               up <- Up

\* The connection keeps the promise of RequestService to any consumer: responses in
\* the order of the requests, one each, none lost but to pipelining, and the connection
\* kept up but for a line that is not UTF-8.
KeepsPromise == Abstract!Spec
=============================================================================
