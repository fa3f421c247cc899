------------------------------ MODULE Channels ------------------------------
(***************************************************************************)
(* The WebSocket sessions of one server process (app/channels/base.py) on  *)
(* its messaging adapter.  Each message of a browser is a task of its own  *)
(* in the session's TaskGroup; subscribing holds the session's lock.       *)
(***************************************************************************)
EXTENDS Messaging

CONSTANTS
  Sessions,
  Length,     (* messages a browser sends at most (bound)                      *)
  Starts,     (* bounds: what the browsers send, how often Events happen       *)
  NULL

\* `lose`: the LISTEN connection breaks; `close`: a socket closes, times out or is
\* closed because the server stops; `reject`: a handler does not authorize.
Events == {"lose", "close", "reject", "broadcast"}

Message == [kind : {"subscribe", "unsubscribe", "say"}, topic : Topics]

Tasks == 0..Length  (* 0 is the message loop, which cleans up when it ends *)

ASSUME ChannelsAssumption ==
  /\ Length \in Nat
  /\ \A start \in Starts :
       /\ start.left \in [Events -> Nat]
       /\ start.script \in [Sessions -> Seq(Message)]
       /\ \A s \in Sessions : Len(start.script[s]) <= Length
  /\ Callbacks = Sessions \X (1..Length) /\ Waiters = Sessions \X Tasks
  /\ NULL \notin Callbacks /\ NULL \notin 1..Length

VARIABLES
  task,       (* where each task of each session is, and its subscription      *)
  subs,       (* WebSocketSession.subscriptions: the callback of each topic    *)
  lock,       (* the task that holds a session's _lock                         *)
  todo,       (* the subscriptions cleanup has still to stop                   *)
  events      (* what the browsers send, how many events are left, and history *)

vars == <<conn, wrappers, listens, queue, done, calls, task, subs, lock, todo, events>>

Occur(e) == events.left[e] > 0 /\ events' = [events EXCEPT !.left[e] = @ - 1]

Script(s) == events.script[s]
About(s, i) == Script(s)[i].topic
Listener(s, i, sub) == [topic |-> About(s, sub[2]), callback |-> sub]

Received(s) == {i \in DOMAIN Script(s) : task[s][i].at # "unsent"}

Over == {"confirmed", "rejected", "left", "heard"}
Running(s) == {i \in Received(s) : task[s][i].at \notin Over}

Goes(s, i, at) == task' = [task EXCEPT ![s][i].at = at]

\* handle() returns when the loop has cleaned up and every task is over.
Ended(s) == task[s][0].at = "over" /\ Running(s) = {}

\* A subscribe of the session waits for ever, with the lock.
Stuck(s) == \E i \in Running(s) : /\ Script(s)[i].kind = "subscribe" /\ task[s][i].at = "waiting"
                                  /\ Forgotten(<<s, i>>)

Leaving(s, t) == {i \in Running(s) : Script(s)[i] = [kind |-> "unsubscribe", topic |-> t]}

-----------------------------------------------------------------------------
(***************************************************************************)
(* _message_loop: a task per message, which runs up to its first await.    *)
(***************************************************************************)
First == [subscribe |-> "authorizing", unsubscribe |-> "leaving", say |-> "speaking"]

Receive(s) ==
  LET i == Cardinality(Received(s)) + 1
      message == Script(s)[i]
  IN
  /\ task[s][0].at = "loop" /\ i \in DOMAIN Script(s)
  /\ task' = [task EXCEPT ![s][i] =
                [at |-> First[message.kind],
                 sub |-> IF message.kind = "unsubscribe" THEN subs[s][message.topic] ELSE NULL]]
  /\ events' = IF message.kind # "say" /\ Leaving(s, message.topic) # {}
               THEN [events EXCEPT !.seen = @ \cup {"overlap"}] ELSE events
  /\ UNCHANGED <<adapter, subs, lock, todo>>

(***************************************************************************)
(* SubscribeMessage: the handler decides, subscribe_to registers and waits *)
(* under the lock, accept confirms.                                        *)
(***************************************************************************)
Authorize(s, i) ==
  /\ task[s][i].at = "authorizing"
  /\ \/ Goes(s, i, "accepting") /\ UNCHANGED events
     \/ Goes(s, i, "rejected") /\ Occur("reject")
  /\ UNCHANGED <<adapter, subs, lock, todo>>

SubscribeTo(s, i) ==
  LET t == About(s, i) IN
  /\ task[s][i].at = "accepting" /\ lock[s] = NULL
  /\ \/ /\ subs[s][t] # NULL
        /\ Goes(s, i, "confirmed")
        /\ UNCHANGED <<adapter, subs, lock, events>>
     \/ /\ subs[s][t] = NULL
        /\ Goes(s, i, "waiting")
        /\ subs' = [subs EXCEPT ![s][t] = <<s, i>>]
        /\ lock' = [lock EXCEPT ![s] = i]
        /\ Put("subscribe", [topic |-> t, callback |-> <<s, i>>], <<s, i>>)
        /\ events' = IF task[s][0].at \in {"loop", "closing"} THEN events
                     ELSE [events EXCEPT !.seen = @ \cup {"late"}]
        /\ UNCHANGED <<conn, wrappers, listens, done, calls>>
  /\ UNCHANGED todo

\* Variant: the lock is not released.
StartedLocked(s, i) ==
  /\ task[s][i].at = "waiting" /\ lock[s] = i
  /\ Resume(<<s, i>>)
  /\ Goes(s, i, "confirmed")
  /\ UNCHANGED <<conn, wrappers, listens, queue, calls, subs, lock, todo, events>>

Started(s, i) ==
  /\ task[s][i].at = "waiting" /\ lock[s] = i
  /\ Resume(<<s, i>>)
  /\ Goes(s, i, "confirmed")
  /\ lock' = [lock EXCEPT ![s] = NULL]
  /\ UNCHANGED <<conn, wrappers, listens, queue, calls, subs, todo, events>>

(***************************************************************************)
(* UnsubscribeMessage: the subscription was looked up without the lock;    *)
(* its handlers run, it is stopped, and its topic is removed.              *)
(***************************************************************************)
Unsubscribe(s, i) ==
  /\ task[s][i].at = "leaving"
  /\ IF task[s][i].sub = NULL
     THEN Goes(s, i, "left") /\ UNCHANGED queue
     ELSE /\ Put("unsubscribe", Listener(s, i, task[s][i].sub), <<s, i>>)
          /\ Goes(s, i, "waiting")
  /\ UNCHANGED <<conn, wrappers, listens, done, calls, subs, lock, todo, events>>

\* stop: _remove_subscription takes out whatever the topic has now.
Removed(s, i, at) ==
  /\ task[s][i].at = "waiting" /\ lock[s] = NULL /\ task[s][i].sub # NULL
  /\ Resume(<<s, i>>)
  /\ Goes(s, i, at)
  /\ subs' = [subs EXCEPT ![s][About(s, task[s][i].sub[2])] = NULL]
  /\ UNCHANGED <<conn, wrappers, listens, queue, calls, lock, todo, events>>

\* _route_client_message: under the lock, and only on a subscribed topic.
Speak(s, i) ==
  /\ task[s][i].at = "speaking" /\ lock[s] = NULL
  /\ Goes(s, i, "heard")
  /\ IF subs[s][About(s, i)] # NULL THEN Broadcast(About(s, i)) ELSE UNCHANGED adapter
  /\ UNCHANGED <<subs, lock, todo, events>>

-----------------------------------------------------------------------------
(***************************************************************************)
(* The end of a session.                                                   *)
(***************************************************************************)
Close(s) ==
  /\ task[s][0].at = "loop" /\ Occur("close")
  /\ Goes(s, 0, "closing")
  /\ UNCHANGED <<adapter, subs, lock, todo>>

\* Variant: a topic that was removed leaves an empty entry.
CleanupEveryTopic(s) ==
  /\ task[s][0].at = "closing" /\ lock[s] = NULL
  /\ Goes(s, 0, "stopping")
  /\ todo' = [todo EXCEPT ![s] = {subs[s][t] : t \in Topics}]
  /\ subs' = [subs EXCEPT ![s] = [t \in Topics |-> NULL]]
  /\ UNCHANGED <<adapter, lock, events>>

Cleanup(s) ==
  /\ task[s][0].at = "closing" /\ lock[s] = NULL
  /\ Goes(s, 0, "stopping")
  /\ todo' = [todo EXCEPT ![s] = {subs[s][t] : t \in Topics} \ {NULL}]
  /\ subs' = [subs EXCEPT ![s] = [t \in Topics |-> NULL]]
  /\ UNCHANGED <<adapter, lock, events>>

\* Variant: the last subscription is not stopped.
StopNextButOne(s) ==
  /\ task[s][0].at = "stopping"
  /\ \/ /\ Cardinality(todo[s]) <= 1
        /\ Goes(s, 0, "over")
        /\ todo' = [todo EXCEPT ![s] = {}]
        /\ UNCHANGED queue
     \/ \E sub \in todo[s] :
          /\ Cardinality(todo[s]) > 1
          /\ Put("unsubscribe", Listener(s, 0, sub), <<s, 0>>)
          /\ task' = [task EXCEPT ![s][0] = [at |-> "waiting", sub |-> sub]]
          /\ todo' = [todo EXCEPT ![s] = @ \ {sub}]
  /\ UNCHANGED <<conn, wrappers, listens, done, calls, subs, lock, events>>

StopNext(s) ==
  /\ task[s][0].at = "stopping"
  /\ \/ todo[s] = {} /\ Goes(s, 0, "over") /\ UNCHANGED <<queue, todo>>
     \/ \E sub \in todo[s] :
          /\ Put("unsubscribe", Listener(s, 0, sub), <<s, 0>>)
          /\ task' = [task EXCEPT ![s][0] = [at |-> "waiting", sub |-> sub]]
          /\ todo' = [todo EXCEPT ![s] = @ \ {sub}]
  /\ UNCHANGED <<conn, wrappers, listens, done, calls, subs, lock, events>>

-----------------------------------------------------------------------------
Init ==
  /\ AdapterInit
  /\ task = [s \in Sessions |-> [i \in Tasks |-> [at |-> IF i = 0 THEN "loop" ELSE "unsent",
                                                  sub |-> NULL]]]
  /\ subs = [s \in Sessions |-> [t \in Topics |-> NULL]]
  /\ lock = [s \in Sessions |-> NULL]
  /\ todo = [s \in Sessions |-> {}]
  /\ \E start \in Starts : events = [script |-> start.script, left |-> start.left, seen |-> {}]

Idle == UNCHANGED <<task, subs, lock, todo>>

Task(s, i) == \/ Authorize(s, i) \/ SubscribeTo(s, i) \/ Started(s, i)
              \/ Unsubscribe(s, i) \/ Removed(s, i, "left") \/ Speak(s, i)

Loop(s) == Receive(s) \/ Cleanup(s) \/ StopNext(s) \/ Removed(s, 0, "stopping")

Adapter == /\ \/ ProcessSubscribe \/ ProcessUnsubscribe \/ Reconnect \/ ListenAgain
              \/ \E w \in calls : Called(w)
           /\ Idle /\ UNCHANGED events

Next ==
  \/ Adapter
  \/ \E s \in Sessions : Loop(s) \/ Close(s) \/ \E i \in 1..Length : Task(s, i)
  \/ Break /\ Occur("lose") /\ Idle
  \/ \E t \in Topics : Broadcast(t) /\ Occur("broadcast") /\ Idle

Spec == Init /\ [][Next]_vars

\* The event loop runs every task that can go on, and the loop that reconnects.
Fairness == /\ WF_vars(Adapter)
            /\ \A s \in Sessions : /\ WF_vars(Loop(s))
                                   /\ \A i \in 1..Length : WF_vars(Task(s, i))

FairSpec == Spec /\ Fairness

-----------------------------------------------------------------------------
(***************************************************************************)
(* Properties                                                              *)
(***************************************************************************)
Places == {"loop", "closing", "stopping", "over", "unsent", "authorizing", "accepting",
           "leaving", "waiting", "speaking"} \cup Over

\* The shape of every variable.
TypeOK ==
  /\ AdapterTypeOK
  /\ task \in [Sessions -> [Tasks -> [at : Places, sub : Callbacks \cup {NULL}]]]
  /\ subs \in [Sessions -> [Topics -> Callbacks \cup {NULL}]]
  /\ lock \in [Sessions -> (1..Length) \cup {NULL}]
  /\ todo \in [Sessions -> SUBSET Callbacks]
  /\ events.left \in [Events -> Nat] /\ events.seen \subseteq {"overlap", "late"}

Without(kinds) == events.seen \cap kinds = {}

\* A callback that listens belongs to a subscription its session knows, or one that some
\* task is about to stop: unless browsers overlap an unsubscribe with another message of
\* the topic, or a subscription is registered after the session was cleaned up.
Owned(w) ==
  LET s == w.callback[1] IN
  \/ subs[s][w.topic] = w.callback \/ w.callback \in todo[s]
  \/ \E i \in Tasks : task[s][i].sub = w.callback /\ task[s][i].at \in {"leaving", "waiting"}

EveryListenerHasAnOwner == Without({"overlap", "late"}) => \A w \in wrappers : Owned(w)

\* A browser whose last word about a topic is a subscribe, and who was told it is
\* confirmed, is heard whenever the connection is up: the connection listens for its
\* callback, also one that was opened after a loss.  While the connection is lost, which
\* the loop notices at its next command, nobody is heard; and browsers may not overlap an
\* unsubscribe with another message of the topic.
ConfirmedIsHeard ==
  conn = "up" /\ Without({"overlap"}) =>
    \A s \in Sessions : \A i \in Received(s) :
      /\ task[s][0].at = "loop" /\ task[s][i].at = "confirmed"
      /\ \A j \in Received(s) : Script(s)[j].kind = "unsubscribe" /\ About(s, j) = About(s, i) => j < i
      => [topic |-> About(s, i), callback |-> subs[s][About(s, i)]] \in listens

\* Fail closed: every subscribe is answered, unless the connection broke under a
\* command of the same session.
SubscribeIsAnswered ==
  <>[](\A s \in Sessions : Stuck(s) \/ {i \in Running(s) : Script(s)[i].kind = "subscribe"} = {})

\* A session that is closed ends, and leaves no callback behind; unless one of its
\* subscribes waits for ever (Stuck), messages of a topic overlapped, or a subscribe was
\* registered after its session's clean-up (late).
SessionEnds ==
  <>[](\A s \in Sessions : \/ task[s][0].at = "loop"
                           \/ Ended(s) /\ \A w \in wrappers : w.callback[1] # s
                           \/ Stuck(s) \/ ~Without({"overlap", "late"}))

=============================================================================
