------------------------------- MODULE FileWatch ------------------------------
(***************************************************************************)
(* fs.watch of the luaml standard library (stdlib/fs.rs): handles that     *)
(* tell a script what changes below a path.                                *)
(*                                                                         *)
(* A handle holds a watcher of the notify crate and the receiving end of   *)
(* a channel without bound.  The watcher's own thread calls back with an   *)
(* event, which has a kind and the paths it is about, and the callback     *)
(* sends one message for each path.  The script takes messages one by one  *)
(* with next, which waits half a second and then returns nil; and it may   *)
(* close the handle at any time, the callback then calling to nobody.      *)
(*                                                                         *)
(* A message, of a path and a kind, is its number here: those that could   *)
(* be sent are counted as their events happen.                             *)
(*                                                                         *)
(* A definition whose name starts with Slip is not part of the model: it   *)
(* is what the one after it would be with a plausible bug in that code,    *)
(* kept to show which property notices.                                    *)
(***************************************************************************)
EXTENDS Naturals, Sequences

CONSTANTS
  Handle,     \* the watch handles of a script
  MaxMessages \* bound: the messages that the events make

VARIABLES
  handle,     \* "none", "open" or "closed"
  happened,   \* how many messages the events so far make
  since,      \* how many those before the handle was made do (auxiliary)
  told,       \* events the operating system has for the watcher of each handle
  calling,    \* what the callback has yet to send of the event it was called with
  queue,      \* the messages in the channel
  asking,     \* the handle whose next the script waits in, if any
  got,        \* what next returned, nil left out (auxiliary)
  missed      \* an event was lost on its way to the handle (auxiliary)

watchVars == <<handle, happened, since, told, calling, queue, asking, got, missed>>

WatchInit ==
  /\ handle = [h \in Handle |-> "none"]
  /\ happened = 0
  /\ since = [h \in Handle |-> 0]
  /\ told = [h \in Handle |-> <<>>]
  /\ calling = [h \in Handle |-> <<>>]
  /\ queue = [h \in Handle |-> <<>>]
  /\ asking = {}
  /\ got = [h \in Handle |-> <<>>]
  /\ missed = [h \in Handle |-> FALSE]

-----------------------------------------------------------------------------

\* fs.watch, of a path that can be watched.
Watch(h) ==
  /\ handle[h] = "none"
  /\ asking = {}
  /\ handle' = [handle EXCEPT ![h] = "open"]
  /\ since' = [since EXCEPT ![h] = happened]
  /\ UNCHANGED <<happened, told, calling, queue, asking, got, missed>>

\* An event about one path, or about two, as a name changed to another is: each watcher
\* there is will be told.
Happen(paths) ==
  /\ happened + paths <= MaxMessages
  /\ happened' = happened + paths
  /\ told' = [h \in Handle |->
                IF handle[h] = "open" THEN Append(told[h], [i \in 1..paths |-> happened + i])
                ELSE told[h]]
  /\ UNCHANGED <<handle, since, calling, queue, asking, got, missed>>

\* The callback gets an error, or an event without paths, in place of events: the queue
\* of the operating system ran over.
Overflow(h) ==
  /\ told[h] # <<>>
  /\ told' = [told EXCEPT ![h] = <<>>]
  /\ missed' = [missed EXCEPT ![h] = TRUE]
  /\ UNCHANGED <<handle, happened, since, calling, queue, asking, got>>

\* The watcher's thread calls back with an event.
CallBack(h) ==
  /\ told[h] # <<>>
  /\ calling[h] = <<>>
  /\ calling' = [calling EXCEPT ![h] = Head(told[h])]
  /\ told' = [told EXCEPT ![h] = Tail(@)]
  /\ UNCHANGED <<handle, happened, since, queue, asking, got, missed>>

\* The channel has room for one message only, and sending does not wait.
SlipSend(h) ==
  /\ calling[h] # <<>>
  /\ calling' = [calling EXCEPT ![h] = Tail(@)]
  /\ queue' = IF handle[h] = "open" /\ queue[h] = <<>>
              THEN [queue EXCEPT ![h] = Append(@, Head(calling[h]))] ELSE queue
  /\ UNCHANGED <<handle, happened, since, told, asking, got, missed>>

\* The callback sends a message; to a closed channel, in vain.
Send(h) ==
  /\ calling[h] # <<>>
  /\ calling' = [calling EXCEPT ![h] = Tail(@)]
  /\ queue' = IF handle[h] = "open" THEN [queue EXCEPT ![h] = Append(@, Head(calling[h]))] ELSE queue
  /\ UNCHANGED <<handle, happened, since, told, asking, got, missed>>

\* The script calls next, which returns nil at once if the handle is closed.
Ask(h) ==
  /\ handle[h] = "open"
  /\ asking = {}
  /\ asking' = {h}
  /\ UNCHANGED <<handle, happened, since, told, calling, queue, got, missed>>

\* next returns a message.
TakeNext(h) ==
  /\ h \in asking
  /\ queue[h] # <<>>
  /\ asking' = {}
  /\ got' = [got EXCEPT ![h] = Append(@, Head(queue[h]))]
  /\ queue' = [queue EXCEPT ![h] = Tail(@)]
  /\ UNCHANGED <<handle, happened, since, told, calling, missed>>

\* next returns nil after half a second without a message.
TimeOut(h) ==
  /\ h \in asking
  /\ queue[h] = <<>>
  /\ asking' = {}
  /\ UNCHANGED <<handle, happened, since, told, calling, queue, got, missed>>

\* close drops the channel and the watcher.  A callback under way goes on.
CloseWatch(h) ==
  /\ handle[h] = "open"
  /\ asking = {}
  /\ handle' = [handle EXCEPT ![h] = "closed"]
  /\ queue' = [queue EXCEPT ![h] = <<>>]
  /\ told' = [told EXCEPT ![h] = <<>>]
  /\ UNCHANGED <<happened, since, calling, asking, got, missed>>

-----------------------------------------------------------------------------

WatchNext ==
  \/ \E paths \in 1..2 : Happen(paths)
  \/ \E h \in Handle :
       \/ Watch(h) \/ Overflow(h) \/ CallBack(h) \/ Send(h)
       \/ Ask(h) \/ TakeNext(h) \/ TimeOut(h) \/ CloseWatch(h)

WatchSpec == WatchInit /\ [][WatchNext]_watchVars

-----------------------------------------------------------------------------

WatchTypeOK ==
  /\ handle \in [Handle -> {"none", "open", "closed"}]
  /\ happened \in 0..MaxMessages
  /\ since \in [Handle -> 0..MaxMessages]
  /\ DOMAIN told = Handle /\ DOMAIN calling = Handle /\ DOMAIN queue = Handle /\ DOMAIN got = Handle
  /\ asking \subseteq Handle
  /\ missed \in [Handle -> BOOLEAN]

\* What next returned, what is in the channel, and what the callback is yet to send.
Arrived(h) == got[h] \o queue[h] \o calling[h]
NumbersIn(messages) == {messages[i] : i \in DOMAIN messages}

\* Each handle tells its script of everything that happened since it was made, once and in
\* the order it happened, however slow the script is, whatever other handles tell of the
\* same path, and whether or not next returned nil meanwhile; unless the operating system
\* lost some.
ToldInOrder ==
  \A h \in Handle :
    /\ \A i \in 1..Len(Arrived(h)) - 1 : Arrived(h)[i] < Arrived(h)[i + 1]
    /\ handle[h] = "open" /\ ~missed[h] =>
         NumbersIn(Arrived(h)) \cup UNION {NumbersIn(told[h][i]) : i \in DOMAIN told[h]}
           = since[h] + 1..happened
=============================================================================
