------------------------------ MODULE Messaging ------------------------------
(***************************************************************************)
(* The PostgreSQLSubscriptionAdapter of one server process                 *)
(* (infra/messaging.py): one LISTEN connection, a queue of commands that   *)
(* one loop works off, and the callback of every subscription.  Commands   *)
(* name who waits for them; Channels says who that is.                     *)
(***************************************************************************)
EXTENDS Naturals, Sequences, FiniteSets

CONSTANTS
  Topics,
  Callbacks,  (* the callbacks subscriptions may have                          *)
  Waiters     (* the tasks that subscribe and unsubscribe                      *)

VARIABLES
  conn,       (* the LISTEN connection: broken, until the loop notices it, then
                 down, and opening while its LISTENs are issued again          *)
  wrappers,   (* _callback_wrappers                                            *)
  listens,    (* the callbacks the connection has listeners for                *)
  queue,      (* _command_queue                                                *)
  done,       (* tasks whose command is done                                   *)
  calls       (* callbacks of notifications that came, not yet run             *)

adapter == <<conn, wrappers, listens, queue, done, calls>>

Wrapper == [topic : Topics, callback : Callbacks]
Command == [action : {"subscribe", "unsubscribe"}, of : Wrapper, by : Waiters]

AdapterTypeOK ==
  /\ conn \in {"up", "broken", "down", "opening"}
  /\ wrappers \subseteq Wrapper /\ listens \subseteq Wrapper
  /\ queue \in Seq(Command) /\ done \subseteq Waiters /\ calls \subseteq Wrapper

\* start(): the loop is listening before anybody subscribes.
AdapterInit == /\ conn = "up" /\ wrappers = {} /\ listens = {}
               /\ queue = <<>> /\ done = {} /\ calls = {}

\* _process_commands_loop takes the next command: it runs on an open connection, also
\* on one that has been lost since.
Takes(action) == queue # <<>> /\ conn \in {"up", "broken"} /\ Head(queue).action = action

\* subscribe and unsubscribe: queue the command, then wait for it.
Put(action, w, task) == queue' = Append(queue, [action |-> action, of |-> w, by |-> task])

\* A task that was waiting goes on.
Resume(task) == task \in done /\ done' = done \ {task}

\* Nobody will ever wake this task: its command left the queue and is not done.
Forgotten(task) == task \notin done /\ \A i \in DOMAIN queue : queue[i].by # task

(***************************************************************************)
(* _process_command.  On a broken connection add_listener raises when the  *)
(* wrapper is stored and the command taken: the loop reconnects, the task  *)
(* waits for ever.  remove_listener returns.                               *)
(***************************************************************************)
ProcessSubscribe ==
  /\ Takes("subscribe")
  /\ queue' = Tail(queue)
  /\ wrappers' = wrappers \cup {Head(queue).of}
  /\ \/ /\ conn = "up"
        /\ listens' = listens \cup {Head(queue).of}
        /\ done' = done \cup {Head(queue).by}
        /\ UNCHANGED conn
     \/ conn = "broken" /\ conn' = "down" /\ UNCHANGED <<listens, done>>
  /\ UNCHANGED calls

\* Variant: nobody is woken when the callback is not found.
ProcessUnsubscribeFoundOnly ==
  /\ Takes("unsubscribe")
  /\ queue' = Tail(queue)
  /\ wrappers' = wrappers \ {Head(queue).of}
  /\ listens' = listens \ {Head(queue).of}
  /\ done' = IF Head(queue).of \in wrappers THEN done \cup {Head(queue).by} ELSE done
  /\ UNCHANGED <<conn, calls>>

ProcessUnsubscribe ==
  /\ Takes("unsubscribe")
  /\ queue' = Tail(queue)
  /\ wrappers' = wrappers \ {Head(queue).of}
  /\ listens' = listens \ {Head(queue).of}
  /\ done' = done \cup {Head(queue).by}
  /\ UNCHANGED <<conn, calls>>

\* The next round of _listen_loop acquires a connection ...
Reconnect == conn = "down" /\ conn' = "opening" /\ UNCHANGED <<wrappers, listens, queue, done, calls>>

\* Variant: only the callbacks without another one of their topic are listened for again.
ListenOncePerTopic ==
  /\ conn = "opening"
  /\ \/ /\ \A w \in wrappers : \E v \in listens : v.topic = w.topic
        /\ conn' = "up" /\ UNCHANGED listens
     \/ \E w \in wrappers : /\ \A v \in listens : v.topic # w.topic
                            /\ listens' = listens \cup {w} /\ UNCHANGED conn
  /\ UNCHANGED <<wrappers, queue, done, calls>>

\* ... adds a listener for one wrapper after the other, then takes commands.
ListenAgain ==
  /\ conn = "opening"
  /\ \/ wrappers \subseteq listens /\ conn' = "up" /\ UNCHANGED listens
     \/ \E w \in wrappers \ listens : listens' = listens \cup {w} /\ UNCHANGED conn
  /\ UNCHANGED <<wrappers, queue, done, calls>>

\* The connection is lost, with all it listened for.  The loop waits at its queue and
\* does not see it; while it listens again, add_listener raises.
Break ==
  /\ \/ conn = "up" /\ conn' = "broken"
     \/ conn = "opening" /\ conn' = "down"
  /\ listens' = {}
  /\ UNCHANGED <<wrappers, queue, done, calls>>

\* NOTIFY: a task for each callback that listens; the others never hear of it.
Broadcast(t) ==
  /\ calls' = calls \cup {w \in listens : w.topic = t}
  /\ UNCHANGED <<conn, wrappers, listens, queue, done>>

\* The callback runs; or the cache lost the text of a large message.
Called(w) == /\ w \in calls /\ calls' = calls \ {w}
             /\ UNCHANGED <<conn, wrappers, listens, queue, done>>

=============================================================================
