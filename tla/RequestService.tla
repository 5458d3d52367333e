--------------------------- MODULE RequestService ----------------------------
(***************************************************************************)
(* What a connection of luaml-service promises its consumer, whatever the  *)
(* consumer does: requests are answered one at a time in the order they    *)
(* were sent, each at most once, and the oldest one always in the end.     *)
(* Only a request sent behind one that is still being handled can be lost, *)
(* so a consumer that waits for each response gets them all.  The service  *)
(* gives the connection up only on a consumer that spoiled it.             *)
(***************************************************************************)
EXTENDS Naturals, Sequences

CONSTANT RequestId

VARIABLES
  asked,    \* the requests sent and not handled, oldest first
  replies,  \* the responses sent and not received, oldest first
  up,       \* the connection stands
  spoiled   \* the consumer sent what is not text

vars == <<asked, replies, up, spoiled>>

Init == asked = <<>> /\ replies = <<>> /\ up = TRUE /\ spoiled = FALSE

Ask(r) ==
  /\ up
  /\ asked' = Append(asked, r)
  /\ UNCHANGED <<replies, up, spoiled>>

Spoil ==
  /\ up
  /\ spoiled' = TRUE
  /\ UNCHANGED <<asked, replies, up>>

Reply ==
  /\ asked # <<>>
  /\ replies' = Append(replies, Head(asked))
  /\ asked' = Tail(asked)
  /\ UNCHANGED <<up, spoiled>>

\* The request behind the one being handled is lost.
Lose ==
  /\ Len(asked) > 1
  /\ asked' = <<Head(asked)>> \o Tail(Tail(asked))
  /\ UNCHANGED <<replies, up, spoiled>>

Collect ==
  /\ replies # <<>>
  /\ replies' = Tail(replies)
  /\ UNCHANGED <<asked, up, spoiled>>

\* The consumer closes the connection, or what was still on its way is lost with it.
HangUp ==
  /\ up' = FALSE
  /\ asked' = <<>>
  /\ replies' = <<>>
  /\ UNCHANGED spoiled

GiveUp ==
  /\ up /\ spoiled
  /\ up' = FALSE
  /\ asked' = <<>>
  /\ UNCHANGED <<replies, spoiled>>

Next ==
  \/ \E r \in RequestId : Ask(r)
  \/ Spoil \/ Reply \/ Lose \/ Collect \/ HangUp \/ GiveUp

Spec == Init /\ [][Next]_vars /\ WF_vars(Reply)
=============================================================================
