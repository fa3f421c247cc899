--------------------------- MODULE Channels_proofs ---------------------------
(***************************************************************************)
(* Proofs about Channels and its messaging adapter for any sessions,       *)
(* topics and messages: the type invariant, that every callback which      *)
(* listens has an owner, and that a confirmed subscription is heard.       *)
(***************************************************************************)
EXTENDS Channels, FiniteSetTheorems, SequenceTheorems, TLAPS

Types ==
  /\ conn \in {"up", "broken", "down", "opening"} /\ wrappers \in SUBSET Wrapper
  /\ listens \in SUBSET Wrapper /\ queue \in Seq(Command)
  /\ done \in SUBSET Waiters /\ calls \in SUBSET Wrapper
  /\ task \in [Sessions -> [Tasks -> [at : Places, sub : Callbacks \cup {NULL}]]]
  /\ subs \in [Sessions -> [Topics -> Callbacks \cup {NULL}]]
  /\ lock \in [Sessions -> (1..Length) \cup {NULL}]
  /\ todo \in [Sessions -> SUBSET Callbacks]
  /\ events \in [script : [Sessions -> Seq(Message)], left : [Events -> Nat], seen : SUBSET {"overlap", "late"}]
  /\ \A s \in Sessions : Len(events.script[s]) <= Length

At(s, i) == task[s][i].at
Sub(s, i) == task[s][i].sub
Kind(s, i) == Script(s)[i].kind

(***************************************************************************)
(* Every task goes the way of its message.                                 *)
(***************************************************************************)
Way(s, i) ==
  \/ At(s, i) = "unsent" /\ Sub(s, i) = NULL
  \/ /\ Kind(s, i) = "subscribe" /\ Sub(s, i) = NULL
     /\ At(s, i) \in {"authorizing", "accepting", "waiting", "confirmed", "rejected"}
  \/ /\ Kind(s, i) = "unsubscribe" /\ At(s, i) \in {"leaving", "waiting", "left"}
     /\ At(s, i) = "waiting" => Sub(s, i) # NULL
  \/ Kind(s, i) = "say" /\ At(s, i) \in {"speaking", "heard"} /\ Sub(s, i) = NULL

Ways ==
  \A s \in Sessions :
    /\ At(s, 0) \in {"loop", "closing", "stopping", "waiting", "over"}
    /\ At(s, 0) = "waiting" => Sub(s, 0) # NULL
    /\ \A i \in 1..Length : Way(s, i)
    /\ \E k \in 0..Len(Script(s)) : \A i \in 1..Length : At(s, i) # "unsent" <=> i <= k

\* The task that holds a session's lock waits for its subscription to be registered.
Locks == \A s \in Sessions : \A i \in 1..Length : lock[s] = i <=> At(s, i) = "waiting" /\ Sub(s, i) = NULL

\* Until then nobody takes the subscription away.
Held == \A s \in Sessions : \A i \in 1..Length : lock[s] = i => subs[s][About(s, i)] = <<s, i>>

(***************************************************************************)
(* A subscription is that of a message of the session about its topic.     *)
(***************************************************************************)
Registered(s, t, cb) ==
  /\ cb[1] = s /\ cb[2] \in DOMAIN Script(s) /\ Kind(s, cb[2]) = "subscribe" /\ About(s, cb[2]) = t
  /\ At(s, cb[2]) \in {"waiting", "confirmed"}

Registers ==
  /\ \A s \in Sessions : \A t \in Topics : subs[s][t] # NULL => Registered(s, t, subs[s][t])
  /\ \A s \in Sessions : \A cb \in todo[s] : Registered(s, About(s, cb[2]), cb)
  /\ \A s \in Sessions : \A i \in Tasks : Sub(s, i) # NULL =>
       /\ Registered(s, About(s, Sub(s, i)[2]), Sub(s, i))
       /\ i # 0 => About(s, Sub(s, i)[2]) = About(s, i)
  /\ \A w \in wrappers : Registered(w.callback[1], w.topic, w.callback)

\* Cleanup finds nothing left to stop.
Empty == \A s \in Sessions : At(s, 0) \in {"loop", "closing"} => todo[s] = {}

(***************************************************************************)
(* A command is that of a task which waits, and which waits for one only.  *)
(***************************************************************************)
CommandOf(s, i) ==
  IF Sub(s, i) = NULL
  THEN [action |-> "subscribe", of |-> [topic |-> About(s, i), callback |-> <<s, i>>], by |-> <<s, i>>]
  ELSE [action |-> "unsubscribe", of |-> Listener(s, i, Sub(s, i)), by |-> <<s, i>>]

Commands ==
  /\ \A j \in 1..Len(queue) : \E s \in Sessions : \E i \in Tasks :
       At(s, i) = "waiting" /\ <<s, i>> \notin done /\ queue[j] = CommandOf(s, i)
  /\ \A j, k \in 1..Len(queue) : queue[j].by = queue[k].by => j = k
  /\ \A s \in Sessions : \A i \in Tasks : <<s, i>> \in done => At(s, i) = "waiting"

ToCome(w) == \E j \in 1..Len(queue) : queue[j].action = "subscribe" /\ queue[j].of = w

\* What is unsubscribed does not listen any more, nor will it.
Gone ==
  /\ \A s \in Sessions : \A i \in Tasks : <<s, i>> \in done /\ Sub(s, i) # NULL =>
       Listener(s, i, Sub(s, i)) \notin wrappers /\ ~ToCome(Listener(s, i, Sub(s, i)))
  /\ \A j, k \in 1..Len(queue) :
       j < k /\ queue[j].action = "unsubscribe" /\ queue[k].action = "subscribe" => queue[j].of # queue[k].of

(***************************************************************************)
(* Unless messages about a topic overlap an unsubscribe, that is the last  *)
(* one about its topic, and it stops the subscription that the topic has.  *)
(***************************************************************************)
Calm ==
  Without({"overlap"}) =>
    \A s \in Sessions : \A i, j \in 1..Length :
      /\ At(s, i) # "unsent" /\ Kind(s, i) # "say"
      /\ At(s, j) \in {"leaving", "waiting"} /\ Kind(s, j) = "unsubscribe"
      /\ About(s, i) = About(s, j)
      => i <= j

Current ==
  Without({"overlap"}) =>
    \A s \in Sessions : \A i \in 1..Length :
      At(s, 0) \in {"loop", "closing"} /\ At(s, i) \in {"leaving", "waiting"} /\ Sub(s, i) # NULL
        => subs[s][About(s, i)] = Sub(s, i)

\* Unless a subscription is late, a session that was cleaned up has none.
Cleaned ==
  Without({"late"}) =>
    \A s \in Sessions : At(s, 0) \notin {"loop", "closing"} => \A t \in Topics : subs[s][t] = NULL

\* What listens, or is about to, has an owner.
Owners == Without({"overlap", "late"}) => \A w \in Wrapper : w \in wrappers \/ ToCome(w) => Owned(w)

\* A subscription listens, is being registered, or is being stopped.
Heard ==
  Without({"overlap"}) =>
    \A s \in Sessions : \A t \in Topics : At(s, 0) = "loop" /\ subs[s][t] # NULL =>
      \/ [topic |-> t, callback |-> subs[s][t]] \in wrappers
      \/ lock[s] = subs[s][t][2] /\ subs[s][t] \notin done
      \/ \E j \in 1..Length : At(s, j) \in {"leaving", "waiting"} /\ Sub(s, j) = subs[s][t]

\* A topic whose subscription was confirmed has one that is registered, or an unsubscribe
\* came later.
Confirmed ==
  Without({"overlap"}) =>
    \A s \in Sessions : \A i \in 1..Length : At(s, 0) = "loop" /\ At(s, i) = "confirmed" =>
      \/ subs[s][About(s, i)] # NULL /\ lock[s] # subs[s][About(s, i)][2]
      \/ \E j \in 1..Length : /\ At(s, j) # "unsent" /\ Kind(s, j) = "unsubscribe"
                              /\ About(s, j) = About(s, i) /\ j > i

IInv == /\ Types /\ Ways /\ Locks /\ Held /\ Registers /\ Empty /\ Commands /\ Gone
        /\ Calm /\ Current /\ Cleaned /\ Owners /\ Heard /\ Confirmed

USE DEF At, Sub, Kind, Script, About, Tasks

-----------------------------------------------------------------------------
(***************************************************************************)
(* The data                                                                *)
(***************************************************************************)
LEMMA CallbackIs ==
  /\ Length \in Nat /\ NULL \notin 1..Length /\ NULL \notin Callbacks
  /\ Callbacks = Sessions \X (1..Length) /\ Waiters = Sessions \X (0..Length)
  /\ \A cb \in Callbacks : cb[1] \in Sessions /\ cb[2] \in 1..Length /\ cb = <<cb[1], cb[2]>> /\ cb # NULL
<1>1. Length \in Nat /\ NULL \notin 1..Length /\ NULL \notin Callbacks
      /\ Callbacks = Sessions \X (1..Length) /\ Waiters = Sessions \X (0..Length)
  BY ChannelsAssumption
<1>2. \A cb \in Callbacks : cb[1] \in Sessions /\ cb[2] \in 1..Length /\ cb = <<cb[1], cb[2]>> /\ cb # NULL
  BY <1>1
<1>3. QED
  BY <1>1, <1>2

\* A message that was received.
LEMMA MessageIs ==
  ASSUME Types, NEW s \in Sessions, NEW i \in 1..Len(Script(s))
  PROVE  /\ Script(s) \in Seq(Message) /\ DOMAIN Script(s) = 1..Len(Script(s)) /\ Len(Script(s)) \in 0..Length
         /\ i \in 1..Length /\ About(s, i) \in Topics /\ Kind(s, i) \in {"subscribe", "unsubscribe", "say"}
<1>1. Script(s) \in Seq(Message) /\ Len(Script(s)) <= Length
  BY DEF Types
<1>2. DOMAIN Script(s) = 1..Len(Script(s)) /\ Len(Script(s)) \in Nat /\ Script(s)[i] \in Message
  BY <1>1, LenProperties, ElementOfSeq
<1>3. QED
  BY <1>1, <1>2, CallbackIs DEF Message

LEMMA ReceivedIs ==
  ASSUME Types, Ways, NEW s \in Sessions, NEW i \in 1..Length, At(s, i) # "unsent"
  PROVE  i \in 1..Len(Script(s)) /\ i \in DOMAIN Script(s) /\ About(s, i) \in Topics
<1>1. PICK k \in 0..Len(Script(s)) : \A n \in 1..Length : At(s, n) # "unsent" <=> n <= k
  BY DEF Ways
<1>2. i <= k /\ Script(s) \in Seq(Message)
  BY <1>1 DEF Types
<1>3. i \in 1..Len(Script(s)) /\ i \in DOMAIN Script(s)
  BY <1>1, <1>2, CallbackIs, LenProperties
<1>4. QED
  BY <1>3, MessageIs

LEMMA TaskIs ==
  ASSUME Types, NEW s \in Sessions, NEW i \in Tasks
  PROVE  At(s, i) \in Places /\ Sub(s, i) \in Callbacks \cup {NULL}
<1>1. task[s][i] \in [at : Places, sub : Callbacks \cup {NULL}]
  <2>1. task \in [Sessions -> [Tasks -> [at : Places, sub : Callbacks \cup {NULL}]]]
    BY DEF Types
  <2>2. QED
    BY <2>1
<1>2. QED
  BY <1>1

\* A task goes on to another place.
LEMMA GoesIs ==
  ASSUME Types, NEW s \in Sessions, NEW i \in Tasks, NEW at \in Places, Goes(s, i, at)
  PROVE  /\ task' \in [Sessions -> [Tasks -> [at : Places, sub : Callbacks \cup {NULL}]]]
         /\ \A s2 \in Sessions : \A i2 \in Tasks :
              /\ At(s2, i2)' = IF s2 = s /\ i2 = i THEN at ELSE At(s2, i2)
              /\ Sub(s2, i2)' = Sub(s2, i2)
<1> DEFINE r == [task[s][i] EXCEPT !.at = at]
<1>1. task[s][i] \in [at : Places, sub : Callbacks \cup {NULL}]
  <2>1. task \in [Sessions -> [Tasks -> [at : Places, sub : Callbacks \cup {NULL}]]]
    BY DEF Types
  <2>2. QED
    BY <2>1
<1>2. r \in [at : Places, sub : Callbacks \cup {NULL}] /\ r.at = at /\ r.sub = task[s][i].sub
  BY <1>1
<1>3. task' = [task EXCEPT ![s][i] = r]
  BY DEF Goes, Types
<1> HIDE DEF r
<1>4. QED
  BY <1>2, <1>3 DEF Types

\* A task becomes another one.
Becomes(s, i, at, sub) == task' = [task EXCEPT ![s][i] = [at |-> at, sub |-> sub]]

LEMMA BecomesIs ==
  ASSUME Types, NEW s \in Sessions, NEW i \in Tasks, NEW at \in Places, NEW sub \in Callbacks \cup {NULL},
         Becomes(s, i, at, sub)
  PROVE  /\ task' \in [Sessions -> [Tasks -> [at : Places, sub : Callbacks \cup {NULL}]]]
         /\ \A s2 \in Sessions : \A i2 \in Tasks :
              /\ At(s2, i2)' = IF s2 = s /\ i2 = i THEN at ELSE At(s2, i2)
              /\ Sub(s2, i2)' = IF s2 = s /\ i2 = i THEN sub ELSE Sub(s2, i2)
BY DEF Types, Becomes

LEMMA OccurIs ==
  ASSUME Types, NEW e \in Events, Occur(e)
  PROVE  /\ events' \in [script : [Sessions -> Seq(Message)], left : [Events -> Nat],
                         seen : SUBSET {"overlap", "late"}]
         /\ UNCHANGED <<events.script, events.seen>>
<1> DEFINE left == [events.left EXCEPT ![e] = @ - 1]
<1>1. events.left \in [Events -> Nat] /\ events.left[e] > 0 /\ events' = [events EXCEPT !.left = left]
  BY DEF Types, Occur
<1>2. left \in [Events -> Nat]
  BY <1>1
<1> HIDE DEF left
<1>3. QED
  BY <1>1, <1>2 DEF Types

\* The queue after a command was put in, and after one was taken out.
LEMMA PutIs ==
  ASSUME Types, NEW a \in {"subscribe", "unsubscribe"}, NEW w \in Wrapper, NEW x \in Waiters, Put(a, w, x)
  PROVE  /\ queue' \in Seq(Command) /\ Len(queue) \in Nat /\ Len(queue') = Len(queue) + 1
         /\ \A j \in 1..Len(queue) : queue'[j] = queue[j]
         /\ queue'[Len(queue) + 1] = [action |-> a, of |-> w, by |-> x]
<1> DEFINE c == [action |-> a, of |-> w, by |-> x]
<1>1. c \in Command /\ queue \in Seq(Command) /\ queue' = Append(queue, c)
  BY DEF Types, Put, Command
<1> HIDE DEF c
<1>2. /\ Append(queue, c) \in Seq(Command) /\ Len(Append(queue, c)) = Len(queue) + 1
      /\ \A j \in 1..Len(queue) : Append(queue, c)[j] = queue[j]
      /\ Append(queue, c)[Len(queue) + 1] = c /\ Len(queue) \in Nat
  BY <1>1, AppendProperties, LenProperties
<1>3. QED
  BY <1>1, <1>2 DEF c

LEMMA TakeIs ==
  ASSUME Types, queue # <<>>, queue' = Tail(queue)
  PROVE  /\ queue' \in Seq(Command) /\ Len(queue) \in Nat \ {0} /\ Len(queue') = Len(queue) - 1
         /\ Head(queue) = queue[1] /\ queue[1] \in Command
         /\ \A j \in 1..Len(queue') : j + 1 \in 1..Len(queue) /\ queue'[j] = queue[j + 1]
<1>1. queue \in Seq(Command)
  BY DEF Types
<1>2. /\ Len(queue) \in Nat \ {0} /\ Tail(queue) \in Seq(Command) /\ Len(Tail(queue)) = Len(queue) - 1
      /\ \A j \in 1..Len(Tail(queue)) : Tail(queue)[j] = queue[j + 1]
      /\ Head(queue) \in Command
  BY <1>1, HeadTailProperties, EmptySeq, LenProperties
<1>3. Head(queue) = queue[1]
  BY <1>1, <1>2
<1>4. QED
  BY <1>2, <1>3

\* A subscription that is registered.
LEMMA RegisteredIs ==
  ASSUME IInv, NEW s \in Sessions, NEW t, NEW cb \in Callbacks, Registered(s, t, cb)
  PROVE  /\ cb = <<s, cb[2]>> /\ cb[2] \in 1..Len(Script(s)) /\ cb[2] \in 1..Length /\ t \in Topics
         /\ [topic |-> t, callback |-> cb] \in Wrapper /\ Listener(s, 0, cb) = [topic |-> t, callback |-> cb]
<1>1. Types
  BY DEF IInv
<1>2. Script(s) \in Seq(Message)
  BY <1>1 DEF Types
<1>3. cb[2] \in 1..Len(Script(s))
  BY <1>2, LenProperties DEF Registered
<1>4. About(s, cb[2]) \in Topics /\ cb[2] \in 1..Length
  BY <1>1, <1>3, MessageIs
<1>5. QED
  BY <1>3, <1>4, CallbackIs DEF Registered, Wrapper, Listener

-----------------------------------------------------------------------------
(***************************************************************************)
(* Steps that do not matter to what is subscribed                          *)
(***************************************************************************)
Same(s, i) ==
  /\ Sub(s, i)' = Sub(s, i)
  /\ \/ At(s, i)' = At(s, i)
     \/ i # 0 /\ {At(s, i), At(s, i)'} \cap {"unsent", "leaving", "waiting", "confirmed"} = {}
     \/ i # 0 /\ At(s, i) = "leaving" /\ At(s, i)' = "left" /\ Sub(s, i) = NULL
     \/ i = 0 /\ At(s, i) = "loop" /\ At(s, i)' = "closing"
     \/ i = 0 /\ At(s, i) = "stopping" /\ At(s, i)' = "over"

LEMMA QuietKeeps ==
  ASSUME IInv, Types', Ways', UNCHANGED <<wrappers, queue, done, subs, lock, todo, events.script, events.seen>>,
         \A s \in Sessions : \A i \in Tasks : Same(s, i)
  PROVE  IInv'
<1>1. Length \in Nat /\ 0 \in Tasks /\ 1..Length \subseteq Tasks
  BY CallbackIs
<1>2. \A s \in Sessions : \A i \in Tasks :
        /\ Sub(s, i)' = Sub(s, i) /\ (At(s, i)' = "waiting" <=> At(s, i) = "waiting")
        /\ At(s, i)' = "confirmed" <=> At(s, i) = "confirmed"
        /\ At(s, i)' = "unsent" <=> At(s, i) = "unsent"
        /\ At(s, i)' = "leaving" => At(s, i) = "leaving"
        /\ At(s, i) = "leaving" /\ Sub(s, i) # NULL => At(s, i)' = "leaving"
  BY DEF Same
<1>3. \A s \in Sessions : /\ At(s, 0)' = "loop" => At(s, 0) = "loop"
                          /\ At(s, 0)' \in {"loop", "closing"} <=> At(s, 0) \in {"loop", "closing"}
  BY <1>1 DEF Same
<1>4. Locks' /\ Held' /\ Gone'
  <2>1. Locks' /\ Held'
    <3>1. Locks /\ Held
      BY DEF IInv
    <3>2. Locks'
      BY <1>1, <1>2, <3>1 DEF Locks
    <3>3. Held'
      BY <3>1 DEF Held
    <3>4. QED
      BY <3>2, <3>3
  <2>2. Gone'
    <3>1. \A s \in Sessions : \A i \in Tasks : Listener(s, i, Sub(s, i))' = Listener(s, i, Sub(s, i))
      BY <1>2 DEF Listener
    <3>2. \A w : ToCome(w)' <=> ToCome(w)
      BY DEF ToCome
    <3>3. QED
      BY <1>2, <3>1, <3>2 DEF IInv, Gone
  <2>3. QED
    BY <2>1, <2>2
<1>5. ASSUME NEW s \in Sessions, NEW t, NEW cb \in Callbacks, Registered(s, t, cb)
      PROVE  Registered(s, t, cb)'
  <2>1. cb[2] \in Tasks
    BY <1>1, CallbackIs
  <2>2. QED
    BY <1>2, <1>5, <2>1 DEF Registered
<1>6. Registers'
  <2>1. Types
    BY DEF IInv
  <2>2. \A s \in Sessions : \A t \in Topics : (subs[s][t] # NULL => Registered(s, t, subs[s][t]))'
    BY <1>5, <2>1 DEF Types, IInv, Registers
  <2>3. \A s \in Sessions : \A cb \in todo[s] : Registered(s, About(s, cb[2]), cb)'
    BY <1>5, <2>1 DEF Types, IInv, Registers
  <2>4. \A s \in Sessions : \A i \in Tasks : Sub(s, i) # NULL =>
          /\ Registered(s, About(s, Sub(s, i)[2]), Sub(s, i))'
          /\ i # 0 => About(s, Sub(s, i)[2]) = About(s, i)
    BY <1>2, <1>5, <2>1, TaskIs DEF IInv, Registers
  <2>5. \A w \in wrappers : Registered(w.callback[1], w.topic, w.callback)'
    BY <1>5, <2>1, CallbackIs DEF Types, Wrapper, IInv, Registers
  <2>6. QED
    <3>1. UNCHANGED wrappers
      OBVIOUS
    <3>2. \A s \in Sessions : \A i \in Tasks : Sub(s, i)' = Sub(s, i)
      BY <1>2
    <3>3. QED
      BY <2>2, <2>3, <2>4, <2>5, <3>1, <3>2 DEF Registers
<1>7. Commands'
  <2>1. \A s \in Sessions : \A i \in Tasks : CommandOf(s, i)' = CommandOf(s, i)
    BY <1>2 DEF CommandOf, Listener
  <2>2. ASSUME NEW j \in 1..Len(queue)
        PROVE  \E s \in Sessions : \E i \in Tasks :
                 At(s, i)' = "waiting" /\ <<s, i>> \notin done /\ queue[j] = CommandOf(s, i)'
    <3>1. Commands
      BY DEF IInv
    <3>2. PICK s \in Sessions, i \in Tasks : At(s, i) = "waiting" /\ <<s, i>> \notin done /\ queue[j] = CommandOf(s, i)
      BY <3>1 DEF Commands
    <3>3. At(s, i)' = "waiting" /\ queue[j] = CommandOf(s, i)'
      BY <1>2, <2>1, <3>2
    <3>4. QED
      BY <3>2, <3>3
  <2>3. \A s \in Sessions : \A i \in Tasks : <<s, i>> \in done => At(s, i)' = "waiting"
    BY <1>2 DEF IInv, Commands
  <2>4. QED
    BY <2>2, <2>3 DEF IInv, Commands
<1>8. Calm' /\ Current' /\ Cleaned' /\ Empty'
  BY <1>1, <1>2, <1>3 DEF IInv, Calm, Current, Cleaned, Empty, Without
<1>9. Owners'
  <2>1. \A w \in Wrapper : Owned(w) => Owned(w)'
    BY <1>2, CallbackIs DEF Owned, Wrapper
  <2>2. QED
    BY <2>1 DEF IInv, Owners, ToCome, Without
<1>10. Heard' /\ Confirmed'
  <2>1. Heard /\ Confirmed
    BY DEF IInv
  <2>2. Heard'
    BY <1>1, <1>2, <1>3, <2>1 DEF Heard, Without
  <2>3. Confirmed'
    BY <1>1, <1>2, <1>3, <2>1 DEF Confirmed, Without
  <2>4. QED
    BY <2>2, <2>3
<1>11. QED
  BY <1>4, <1>6, <1>7, <1>8, <1>9, <1>10 DEF IInv

LEMMA WaysKeep ==
  ASSUME Ways, UNCHANGED events.script, NEW s \in Sessions, NEW i \in Tasks,
         \A s2 \in Sessions : \A i2 \in Tasks :
           s2 # s \/ i2 # i => At(s2, i2)' = At(s2, i2) /\ Sub(s2, i2)' = Sub(s2, i2),
         i = 0 => /\ At(s, 0)' \in {"loop", "closing", "stopping", "waiting", "over"}
                  /\ At(s, 0)' = "waiting" => Sub(s, 0)' # NULL,
         i # 0 => Way(s, i)' /\ At(s, i)' # "unsent" /\ At(s, i) # "unsent"
  PROVE  Ways'
<1>1. Length \in Nat /\ 0 \in Tasks /\ 1..Length \subseteq Tasks /\ 0 \notin 1..Length
  BY CallbackIs
<1>2. \A s2 \in Sessions : /\ At(s2, 0)' \in {"loop", "closing", "stopping", "waiting", "over"}
                           /\ At(s2, 0)' = "waiting" => Sub(s2, 0)' # NULL
  BY <1>1 DEF Ways
<1>3. ASSUME NEW s2 \in Sessions, NEW j \in 1..Length
      PROVE  Way(s2, j)' /\ (At(s2, j)' = "unsent" <=> At(s2, j) = "unsent")
  <2>1. CASE s2 = s /\ j = i
    BY <1>1, <2>1
  <2>2. CASE s2 # s \/ j # i
    <3>1. At(s2, j)' = At(s2, j) /\ Sub(s2, j)' = Sub(s2, j)
      BY <1>1, <2>2
    <3>2. Way(s2, j)
      BY DEF Ways
    <3>3. QED
      BY <3>1, <3>2 DEF Way
  <2>3. QED
    BY <2>1, <2>2
<1>4. ASSUME NEW s2 \in Sessions
      PROVE  \E k \in 0..Len(Script(s2)) : \A j \in 1..Length : At(s2, j)' # "unsent" <=> j <= k
  BY <1>3 DEF Ways
<1>5. QED
  BY <1>2, <1>3, <1>4 DEF Ways

\* Steps of the adapter that touch no command and no callback that listens.
LEMMA IdleKeeps ==
  ASSUME IInv, Types', UNCHANGED <<wrappers, queue, done, task, subs, lock, todo, events.script, events.seen>>
  PROVE  IInv'
<1>1. Ways'
  BY DEF IInv, Ways, Way
<1>2. \A s \in Sessions : \A i \in Tasks : Same(s, i)
  BY DEF Same
<1>3. QED
  BY <1>1, <1>2, QuietKeeps

LEMMA AdapterKeeps ==
  ASSUME IInv, Idle,
         \/ (Reconnect \/ ListenAgain \/ \E w \in calls : Called(w)) /\ UNCHANGED events
         \/ Break /\ Occur("lose")
         \/ \E t \in Topics : Broadcast(t) /\ Occur("broadcast")
  PROVE  IInv'
<1>1. Types
  BY DEF IInv
<1>2. UNCHANGED <<wrappers, queue, done, task, subs, lock, todo>>
  BY DEF Idle, Reconnect, ListenAgain, Called, Break, Broadcast
<1>3. /\ events' \in [script : [Sessions -> Seq(Message)], left : [Events -> Nat], seen : SUBSET {"overlap", "late"}]
      /\ UNCHANGED <<events.script, events.seen>>
  BY <1>1, OccurIs DEF Types, Events
<1>4. /\ conn' \in {"up", "broken", "down", "opening"} /\ calls' \in SUBSET Wrapper
      /\ listens' \in SUBSET Wrapper
  BY <1>1 DEF Types, Reconnect, ListenAgain, Called, Break, Broadcast
<1>5. Types'
  BY <1>1, <1>2, <1>3, <1>4 DEF Types
<1>6. QED
  BY <1>2, <1>3, <1>5, IdleKeeps

\* A task that goes on, and nothing else that matters.
LEMMA GoesKeeps ==
  ASSUME IInv, NEW s \in Sessions, NEW i \in Tasks, NEW at \in Places, Goes(s, i, at),
         UNCHANGED <<conn, wrappers, listens, queue, done, subs, lock, todo, events.script, events.seen>>,
         calls' \in SUBSET Wrapper,
         events' \in [script : [Sessions -> Seq(Message)], left : [Events -> Nat], seen : SUBSET {"overlap", "late"}],
         \/ i = 0 /\ At(s, 0) = "loop" /\ at = "closing"
         \/ i = 0 /\ At(s, 0) = "stopping" /\ at = "over"
         \/ i # 0 /\ At(s, i) = "authorizing" /\ at \in {"accepting", "rejected"}
         \/ i # 0 /\ At(s, i) = "speaking" /\ at = "heard"
         \/ i # 0 /\ At(s, i) = "leaving" /\ at = "left" /\ Sub(s, i) = NULL
  PROVE  IInv'
<1>1. Types /\ Ways
  BY DEF IInv
<1>2. /\ task' \in [Sessions -> [Tasks -> [at : Places, sub : Callbacks \cup {NULL}]]]
      /\ \A s2 \in Sessions : \A i2 \in Tasks :
           /\ At(s2, i2)' = IF s2 = s /\ i2 = i THEN at ELSE At(s2, i2)
           /\ Sub(s2, i2)' = Sub(s2, i2)
  BY <1>1, GoesIs
<1>3. Types'
  BY <1>1, <1>2 DEF Types
<1>4. i # 0 => Way(s, i)'
  <2>1. i # 0 => Way(s, i)
    BY <1>1 DEF Ways
  <2>2. QED
    BY <1>2, <2>1 DEF Way
<1>5. Ways'
  <2>1. At(s, i)' = at /\ at # "unsent" /\ At(s, i) # "unsent" /\ (i = 0 => at \in {"closing", "over"})
    BY <1>2
  <2>2. \A s2 \in Sessions : \A i2 \in Tasks :
          s2 # s \/ i2 # i => At(s2, i2)' = At(s2, i2) /\ Sub(s2, i2)' = Sub(s2, i2)
    BY <1>2
  <2>3. i = 0 => At(s, 0)' \in {"closing", "over"}
    BY <2>1
  <2> HIDE DEF At, Sub
  <2>4. QED
    BY <1>1, <1>4, <2>1, <2>2, <2>3, WaysKeep
<1>6. \A s2 \in Sessions : \A i2 \in Tasks : Same(s2, i2)
  BY <1>2 DEF Same
<1>7. QED
  BY <1>3, <1>5, <1>6, QuietKeeps

LEMMA AuthorizeKeeps ==
  ASSUME IInv, NEW s \in Sessions, NEW i \in 1..Length, Authorize(s, i)
  PROVE  IInv'
<1>1. Types /\ At(s, i) = "authorizing" /\ i \in Tasks /\ i # 0 /\ UNCHANGED <<adapter, subs, lock, todo>>
  BY CallbackIs DEF IInv, Authorize
<1>2. /\ events' \in [script : [Sessions -> Seq(Message)], left : [Events -> Nat], seen : SUBSET {"overlap", "late"}]
      /\ UNCHANGED <<events.script, events.seen>>
  BY <1>1, OccurIs DEF Authorize, Types, Events
<1>3. PICK at \in {"accepting", "rejected"} : Goes(s, i, at)
  BY DEF Authorize
<1>4. at \in Places
  BY DEF Places, Over
<1>5. QED
  BY <1>1, <1>2, <1>3, <1>4, GoesKeeps DEF adapter, Types

LEMMA SpeakKeeps ==
  ASSUME IInv, NEW s \in Sessions, NEW i \in 1..Length, Speak(s, i)
  PROVE  IInv'
<1>1. /\ Types /\ At(s, i) = "speaking" /\ i \in Tasks /\ i # 0 /\ Goes(s, i, "heard")
      /\ UNCHANGED <<subs, lock, todo, events>>
  BY CallbackIs DEF IInv, Speak
<1>2. UNCHANGED <<conn, wrappers, listens, queue, done>> /\ calls' \in SUBSET Wrapper
  BY <1>1 DEF Speak, Broadcast, adapter, Types
<1>3. "heard" \in Places
  BY DEF Places, Over
<1>4. QED
  BY <1>1, <1>2, <1>3, GoesKeeps DEF Types

LEMMA CloseKeeps ==
  ASSUME IInv, NEW s \in Sessions, Close(s)
  PROVE  IInv'
<1>1. /\ Types /\ At(s, 0) = "loop" /\ 0 \in Tasks /\ Goes(s, 0, "closing") /\ Occur("close")
      /\ UNCHANGED <<adapter, subs, lock, todo>>
  BY CallbackIs DEF IInv, Close
<1>2. /\ events' \in [script : [Sessions -> Seq(Message)], left : [Events -> Nat], seen : SUBSET {"overlap", "late"}]
      /\ UNCHANGED <<events.script, events.seen>>
  BY <1>1, OccurIs DEF Events
<1>3. "closing" \in Places
  BY DEF Places
<1>4. QED
  BY <1>1, <1>2, <1>3, GoesKeeps DEF adapter, Types

-----------------------------------------------------------------------------
(***************************************************************************)
(* What is registered stays so: callbacks only move on.                    *)
(***************************************************************************)
LEMMA RegistersKeep ==
  ASSUME IInv, Types', UNCHANGED events.script,
         \A s \in Sessions : \A i \in 1..Length :
           At(s, i) \in {"waiting", "confirmed"} /\ Kind(s, i) = "subscribe" => At(s, i)' \in {"waiting", "confirmed"},
         \A s \in Sessions : \A t \in Topics :
           subs'[s][t] = NULL \/ subs'[s][t] = subs[s][t] \/ Registered(s, t, subs[s][t])',
         \A s \in Sessions : \A cb \in todo'[s] :
           cb \in todo[s] \/ \E t \in Topics : cb = subs[s][t] /\ cb # NULL,
         \A s \in Sessions : \A i \in Tasks :
           \/ Sub(s, i)' = NULL \/ Sub(s, i)' = Sub(s, i)
           \/ i = 0 /\ Sub(s, i)' \in todo[s]
           \/ i # 0 /\ About(s, i) \in Topics /\ Sub(s, i)' = subs[s][About(s, i)],
         \A w \in wrappers' : w \in wrappers \/ Registered(w.callback[1], w.topic, w.callback)
  PROVE  Registers'
<1>1. Types /\ Registers
  BY DEF IInv
<1>2. ASSUME NEW s \in Sessions, NEW t, NEW cb \in Callbacks, Registered(s, t, cb)
      PROVE  Registered(s, t, cb)' /\ About(s, cb[2])' = t /\ About(s, cb[2]) = t
  BY <1>2, CallbackIs DEF Registered
<1>3. ASSUME NEW s \in Sessions, NEW t \in Topics, (subs[s][t] # NULL)'
      PROVE  Registered(s, t, subs[s][t])'
  <2>1. CASE subs'[s][t] = subs[s][t]
    <3>1. PICK cb \in Callbacks : cb = subs[s][t] /\ cb = subs'[s][t]
      BY <1>1, <1>3, <2>1 DEF Types
    <3>2. Registered(s, t, cb)
      BY <1>1, <3>1, CallbackIs DEF Registers
    <3>3. Registered(s, t, cb)'
      BY <1>2, <3>2
    <3>4. QED
      BY <3>1, <3>3
  <2>2. QED
    BY <1>3, <2>1
<1>4. ASSUME NEW s \in Sessions, NEW cb \in todo'[s]
      PROVE  Registered(s, About(s, cb[2]), cb)'
  <2>1. cb \in Callbacks
    BY DEF Types
  <2>2. \E t : Registered(s, t, cb)
    BY <1>1, <1>4 DEF Registers
  <2>3. PICK t : Registered(s, t, cb)
    BY <2>2
  <2>4. Registered(s, t, cb)' /\ About(s, cb[2])' = t
    BY <1>2, <2>1, <2>3
  <2>5. QED
    BY <2>4
<1>5. ASSUME NEW s \in Sessions, NEW i \in Tasks, (Sub(s, i) # NULL)'
      PROVE  (/\ Registered(s, About(s, Sub(s, i)[2]), Sub(s, i))
              /\ i # 0 => About(s, Sub(s, i)[2]) = About(s, i))'
  <2>1. Sub(s, i)' \in Callbacks
    <3>1. task' \in [Sessions -> [Tasks -> [at : Places, sub : Callbacks \cup {NULL}]]]
      BY DEF Types
    <3>2. task'[s][i] \in [at : Places, sub : Callbacks \cup {NULL}]
      BY <3>1
    <3>3. QED
      BY <1>5, <3>2
  <2>2. PICK cb \in Callbacks : cb = Sub(s, i)'
    BY <2>1
  <2>3. \E t : Registered(s, t, cb) /\ (i # 0 => t = About(s, i))
    <3>1. CASE cb = Sub(s, i)
      <4>1. Registered(s, About(s, cb[2]), cb) /\ (i # 0 => About(s, cb[2]) = About(s, i))
        <5>1. Sub(s, i) # NULL
          BY <2>2, <3>1, CallbackIs
        <5>2. QED
          BY <1>1, <3>1, <5>1 DEF Registers
      <4>2. QED
        BY <4>1
    <3>2. CASE i = 0 /\ cb \in todo[s]
      BY <1>1, <3>2 DEF Registers
    <3>3. CASE i # 0 /\ About(s, i) \in Topics /\ cb = subs[s][About(s, i)]
      BY <1>1, <2>2, <3>3, CallbackIs DEF Registers
    <3>4. QED
      BY <1>5, <2>2, <3>1, <3>2, <3>3
  <2>4. PICK t : Registered(s, t, cb) /\ (i # 0 => t = About(s, i))
    BY <2>3
  <2>5. Registered(s, t, cb)' /\ About(s, cb[2])' = t
    BY <1>2, <2>4
  <2>6. i # 0 => About(s, i)' = t
    BY <2>4
  <2>7. QED
    BY <2>2, <2>5, <2>6
<1>6. ASSUME NEW w \in wrappers'
      PROVE  Registered(w.callback[1], w.topic, w.callback)'
  <2>1. w \in Wrapper /\ w.callback \in Callbacks /\ w.callback[1] \in Sessions
    BY CallbackIs DEF Types, Wrapper
  <2>2. Registered(w.callback[1], w.topic, w.callback)
    BY <1>1 DEF Registers
  <2>3. QED
    BY <1>2, <2>1, <2>2
<1>7. QED
  BY <1>3, <1>4, <1>5, <1>6 DEF Registers

\* Commands that wait go on waiting, until their tasks go on.
LEMMA AnswersKeep ==
  ASSUME IInv, UNCHANGED <<queue, wrappers, events.script>>, done' \subseteq done,
         \A s \in Sessions : \A i \in Tasks :
           At(s, i) = "waiting" /\ (<<s, i>> \in done => <<s, i>> \in done')
             => At(s, i)' = "waiting" /\ Sub(s, i)' = Sub(s, i)
  PROVE  Commands' /\ Gone'
<1>1. Commands /\ Gone
  BY DEF IInv
<1>2. ASSUME NEW s \in Sessions, NEW i \in Tasks, At(s, i) = "waiting", <<s, i>> \in done => <<s, i>> \in done'
      PROVE  /\ At(s, i)' = "waiting" /\ Sub(s, i)' = Sub(s, i) /\ CommandOf(s, i)' = CommandOf(s, i)
             /\ Listener(s, i, Sub(s, i))' = Listener(s, i, Sub(s, i))
  BY <1>2 DEF CommandOf, Listener
<1>3. \A j \in 1..Len(queue) : \E s \in Sessions : \E i \in Tasks :
        At(s, i)' = "waiting" /\ <<s, i>> \notin done' /\ queue[j] = CommandOf(s, i)'
  BY <1>1, <1>2 DEF Commands
<1>4. \A s \in Sessions : \A i \in Tasks : <<s, i>> \in done' => <<s, i>> \in done /\ At(s, i)' = "waiting"
  BY <1>1, <1>2 DEF Commands
<1>5. Commands'
  BY <1>1, <1>3, <1>4 DEF Commands
<1>6. \A w : ToCome(w)' <=> ToCome(w)
  BY DEF ToCome
<1>7. \A s \in Sessions : \A i \in Tasks : <<s, i>> \in done' =>
        Sub(s, i)' = Sub(s, i) /\ Listener(s, i, Sub(s, i))' = Listener(s, i, Sub(s, i))
  BY <1>1, <1>2 DEF Commands
<1>8. Gone'
  BY <1>1, <1>4, <1>6, <1>7 DEF Gone
<1>9. QED
  BY <1>5, <1>8

\* What a command is about.
LEMMA CommandIs ==
  ASSUME IInv, NEW j \in 1..Len(queue)
  PROVE  \E s \in Sessions : \E i \in Tasks :
           /\ queue[j] = CommandOf(s, i) /\ queue[j].by = <<s, i>> /\ At(s, i) = "waiting" /\ <<s, i>> \notin done
           /\ queue[j].of \in Wrapper /\ Registered(s, queue[j].of.topic, queue[j].of.callback)
           /\ \/ /\ queue[j].action = "subscribe" /\ i # 0 /\ Sub(s, i) = NULL
                 /\ queue[j].of = [topic |-> About(s, i), callback |-> <<s, i>>]
              \/ /\ queue[j].action = "unsubscribe" /\ Sub(s, i) \in Callbacks
                 /\ queue[j].of = Listener(s, i, Sub(s, i))
<1>1. Types /\ Ways /\ Registers /\ Commands
  BY DEF IInv
<1>2. PICK s \in Sessions, i \in Tasks :
        At(s, i) = "waiting" /\ <<s, i>> \notin done /\ queue[j] = CommandOf(s, i)
  BY <1>1 DEF Commands
<1>3. Sub(s, i) \in Callbacks \cup {NULL} /\ queue[j].by = <<s, i>>
  BY <1>1, <1>2, TaskIs DEF CommandOf
<1>4. CASE Sub(s, i) = NULL
  <2>1. i # 0
    BY <1>1, <1>2, <1>4 DEF Ways
  <2>2. i \in 1..Length
    BY <2>1, CallbackIs
  <2>3. At(s, i) # "unsent"
    BY <1>2
  <2>6. i \in DOMAIN Script(s)
    BY <1>1, <2>2, <2>3, ReceivedIs
  <2>7. About(s, i) \in Topics
    BY <1>1, <2>2, <2>3, ReceivedIs
  <2>8. Way(s, i)
    BY <1>1, <2>2 DEF Ways
  <2>9. Kind(s, i) = "subscribe"
    BY <1>2, <1>4, <2>8 DEF Way
  <2> DEFINE w == [topic |-> About(s, i), callback |-> <<s, i>>]
  <2>10. w \in Wrapper
    BY <2>2, <2>7, CallbackIs DEF Wrapper
  <2>11. Registered(s, w.topic, w.callback)
    BY <1>2, <2>6, <2>9 DEF Registered
  <2>12. queue[j].action = "subscribe" /\ queue[j].of = w
    BY <1>2, <1>4 DEF CommandOf
  <2> HIDE DEF w
  <2>13. QED
    BY <1>2, <1>3, <1>4, <2>1, <2>10, <2>11, <2>12 DEF w
<1>5. CASE Sub(s, i) # NULL
  <2>1. PICK cb \in Callbacks : cb = Sub(s, i)
    BY <1>3, <1>5
  <2>2. Registered(s, About(s, cb[2]), cb)
    BY <1>1, <1>5, <2>1 DEF Registers
  <2> DEFINE w == Listener(s, i, cb)
  <2>3. w \in Wrapper /\ w = [topic |-> About(s, cb[2]), callback |-> cb]
    BY <2>2, RegisteredIs DEF Listener
  <2>4. queue[j].action = "unsubscribe" /\ queue[j].of = w
    BY <1>2, <1>5, <2>1 DEF CommandOf
  <2>5. Registered(s, w.topic, w.callback)
    BY <2>2, <2>3
  <2> HIDE DEF w
  <2>6. QED
    BY <1>2, <1>3, <2>1, <2>3, <2>4, <2>5, Zenon DEF w
<1>6. QED
  BY <1>4, <1>5

\* A task puts a command in the queue and waits: an unsubscribe, or the subscribe of a
\* callback that nobody knows yet.
LEMMA PutKeeps ==
  ASSUME IInv, UNCHANGED <<wrappers, done, events.script>>, NEW s \in Sessions, NEW i \in Tasks,
         NEW a \in {"subscribe", "unsubscribe"}, NEW w \in Wrapper, Put(a, w, <<s, i>>),
         CommandOf(s, i)' = [action |-> a, of |-> w, by |-> <<s, i>>],
         At(s, i) # "waiting", At(s, i)' = "waiting",
         \A s2 \in Sessions : \A i2 \in Tasks :
           s2 # s \/ i2 # i => At(s2, i2)' = At(s2, i2) /\ Sub(s2, i2)' = Sub(s2, i2),
         a = "subscribe" => /\ At(s, w.callback[2]) \notin {"waiting", "confirmed"} /\ w.callback[1] = s
  PROVE  /\ Commands' /\ Gone'
         /\ \A v : ToCome(v)' <=> ToCome(v) \/ (a = "subscribe" /\ v = w)
<1>1. Types /\ Commands /\ Gone /\ <<s, i>> \in Waiters /\ <<s, i>> \notin done
  <2>1. <<s, i>> \in Waiters
    BY CallbackIs
  <2>2. QED
    BY <2>1 DEF IInv, Commands
<1>2. /\ Len(queue) \in Nat /\ Len(queue') = Len(queue) + 1
      /\ \A j \in 1..Len(queue) : queue'[j] = queue[j]
      /\ queue'[Len(queue) + 1] = [action |-> a, of |-> w, by |-> <<s, i>>]
  BY <1>1, PutIs
<1>3. ASSUME NEW s2 \in Sessions, NEW i2 \in Tasks, At(s2, i2) = "waiting"
      PROVE  /\ At(s2, i2)' = "waiting" /\ Sub(s2, i2)' = Sub(s2, i2) /\ CommandOf(s2, i2)' = CommandOf(s2, i2)
             /\ <<s2, i2>> # <<s, i>>
  <2>1. s2 # s \/ i2 # i
    BY <1>3
  <2>2. QED
    BY <1>3, <2>1 DEF CommandOf, Listener
<1>4. \A j \in 1..Len(queue') : j \in 1..Len(queue) \/ j = Len(queue) + 1
  BY <1>2
<1>5. Commands'
  <2>1. ASSUME NEW j \in 1..Len(queue')
        PROVE  \E s2 \in Sessions : \E i2 \in Tasks :
                 At(s2, i2)' = "waiting" /\ <<s2, i2>> \notin done /\ queue'[j] = CommandOf(s2, i2)'
    <3>1. CASE j \in 1..Len(queue)
      <4>1. PICK s2 \in Sessions, i2 \in Tasks :
              At(s2, i2) = "waiting" /\ <<s2, i2>> \notin done /\ queue[j] = CommandOf(s2, i2)
        <5>1. Commands
          BY <1>1
        <5>2. QED
          BY <3>1, <5>1 DEF Commands
      <4>2. CommandOf(s2, i2)' = queue[j] /\ At(s2, i2)' = "waiting" /\ queue'[j] = queue[j]
        BY <1>2, <1>3, <3>1, <4>1
      <4>3. QED
        BY <4>1, <4>2
    <3>2. CASE j = Len(queue) + 1
      BY <1>1, <1>2, <3>2
    <3>3. QED
      BY <1>4, <3>1, <3>2
  <2>2. \A j \in 1..Len(queue) : queue[j].by # <<s, i>>
    <3>1. ASSUME NEW j \in 1..Len(queue)
          PROVE  queue[j].by # <<s, i>>
      <4>1. PICK s2 \in Sessions, i2 \in Tasks : At(s2, i2) = "waiting" /\ queue[j] = CommandOf(s2, i2)
        <5>1. Commands
          BY <1>1
        <5>2. QED
          BY <5>1 DEF Commands
      <4>2. queue[j].by = <<s2, i2>>
        BY <4>1 DEF CommandOf
      <4>3. QED
        BY <1>3, <4>1, <4>2
    <3>2. QED
      BY <3>1
  <2>3. ASSUME NEW j \in 1..Len(queue'), NEW k \in 1..Len(queue'), queue'[j].by = queue'[k].by
        PROVE  j = k
    <3>1. queue'[Len(queue) + 1].by = <<s, i>>
      BY <1>2
    <3>2. ASSUME NEW n \in 1..Len(queue)
          PROVE  queue'[n].by = queue[n].by /\ queue'[n].by # <<s, i>>
      BY <1>2, <2>2
    <3>3. CASE j \in 1..Len(queue) /\ k \in 1..Len(queue)
      <4>1. queue[j].by = queue[k].by
        BY <2>3, <3>2, <3>3
      <4>2. Commands
        BY <1>1
      <4>3. QED
        BY <3>3, <4>1, <4>2 DEF Commands
    <3>4. QED
      BY <1>4, <2>3, <3>1, <3>2, <3>3
  <2>4. \A s2 \in Sessions : \A i2 \in Tasks : <<s2, i2>> \in done => At(s2, i2)' = "waiting"
    BY <1>1, <1>3 DEF Commands
  <2>5. QED
    BY <2>1, <2>3, <2>4 DEF Commands
<1>6. \A v : ToCome(v)' <=> ToCome(v) \/ (a = "subscribe" /\ v = w)
  BY <1>2, <1>4 DEF ToCome
<1>7. a = "subscribe" => \A j \in 1..Len(queue) : queue[j].of # w
  <2>1. ASSUME a = "subscribe", NEW j \in 1..Len(queue), queue[j].of = w
        PROVE  FALSE
    <3>1. PICK s2 \in Sessions : Registered(s2, w.topic, w.callback)
      BY <2>1, CommandIs
    <3>2. QED
      BY <2>1, <3>1 DEF Registered
  <2>2. QED
    BY <2>1
<1>8. ASSUME a = "subscribe", NEW s2 \in Sessions, NEW i2 \in Tasks, Sub(s2, i2) # NULL
      PROVE  Listener(s2, i2, Sub(s2, i2)) # w
  <2>1. Registered(s2, About(s2, Sub(s2, i2)[2]), Sub(s2, i2))
    BY <1>8 DEF IInv, Registers
  <2>2. Sub(s2, i2) # w.callback
    BY <1>8, <2>1 DEF Registered
  <2>3. QED
    BY <2>2 DEF Listener
<1>9. Gone'
  <2>1. ASSUME NEW s2 \in Sessions, NEW i2 \in Tasks, <<s2, i2>> \in done, Sub(s2, i2)' # NULL
        PROVE  Listener(s2, i2, Sub(s2, i2))' \notin wrappers /\ ~ToCome(Listener(s2, i2, Sub(s2, i2)))'
    <3>1. At(s2, i2) = "waiting"
      BY <1>1, <2>1 DEF Commands
    <3>2. Sub(s2, i2)' = Sub(s2, i2)
      BY <1>3, <3>1
    <3>3. PICK v : v = Listener(s2, i2, Sub(s2, i2)) /\ v = Listener(s2, i2, Sub(s2, i2))'
      BY <3>2 DEF Listener
    <3>4. v \notin wrappers /\ ~ToCome(v)
      <4>1. Gone /\ Sub(s2, i2) # NULL
        BY <1>1, <2>1, <3>2
      <4>2. QED
        BY <2>1, <3>3, <4>1 DEF Gone
    <3>5. a = "subscribe" => v # w
      BY <1>8, <2>1, <3>2, <3>3
    <3>6. ~ToCome(v)'
      BY <1>6, <3>4, <3>5
    <3>7. QED
      BY <3>3, <3>4, <3>6 DEF ToCome
  <2>2. ASSUME NEW j \in 1..Len(queue'), NEW k \in 1..Len(queue'), j < k,
               queue'[j].action = "unsubscribe", queue'[k].action = "subscribe"
        PROVE  queue'[j].of # queue'[k].of
    <3>1. j \in 1..Len(queue)
      BY <1>2, <1>4, <2>2
    <3>2. CASE k \in 1..Len(queue)
      BY <1>1, <1>2, <2>2, <3>1, <3>2 DEF Gone
    <3>3. CASE k = Len(queue) + 1
      BY <1>2, <1>7, <2>2, <3>1, <3>3
    <3>4. QED
      BY <1>4, <3>2, <3>3
  <2>3. QED
    BY <2>1, <2>2 DEF Gone
<1>10. QED
  BY <1>5, <1>6, <1>9

-----------------------------------------------------------------------------
(***************************************************************************)
(* The end of a session                                                    *)
(***************************************************************************)
LEMMA CleanupKeeps ==
  ASSUME IInv, NEW s \in Sessions, Cleanup(s)
  PROVE  IInv'
<1>1. /\ Types /\ Ways /\ At(s, 0) = "closing" /\ 0 \in Tasks /\ Goes(s, 0, "stopping")
      /\ todo' = [todo EXCEPT ![s] = {subs[s][t] : t \in Topics} \ {NULL}]
      /\ subs' = [subs EXCEPT ![s] = [t \in Topics |-> NULL]]
      /\ UNCHANGED <<conn, wrappers, listens, queue, done, calls, lock, events>>
  BY CallbackIs DEF IInv, Cleanup, adapter
<1>2. /\ task' \in [Sessions -> [Tasks -> [at : Places, sub : Callbacks \cup {NULL}]]]
      /\ \A s2 \in Sessions : \A i \in Tasks :
           /\ At(s2, i)' = IF s2 = s /\ i = 0 THEN "stopping" ELSE At(s2, i)
           /\ Sub(s2, i)' = Sub(s2, i)
  <2>1. "stopping" \in Places
    BY DEF Places
  <2>2. QED
    BY <1>1, <2>1, GoesIs
<1>3. /\ subs' \in [Sessions -> [Topics -> Callbacks \cup {NULL}]]
      /\ \A s2 \in Sessions : \A t \in Topics : subs'[s2][t] = IF s2 = s THEN NULL ELSE subs[s2][t]
  BY <1>1 DEF Types
<1>4. /\ todo' \in [Sessions -> SUBSET Callbacks]
      /\ \A s2 \in Sessions : s2 # s => todo'[s2] = todo[s2]
      /\ \A cb : cb \in todo'[s] <=> cb # NULL /\ \E t \in Topics : cb = subs[s][t]
  BY <1>1 DEF Types
<1>5. Types'
  BY <1>1, <1>2, <1>3, <1>4 DEF Types
<1>6. /\ Length \in Nat /\ 1..Length \subseteq Tasks /\ 0 \notin 1..Length
      /\ \A s2 \in Sessions : \A i \in 1..Length : At(s2, i)' = At(s2, i) /\ Sub(s2, i)' = Sub(s2, i)
      /\ \A s2 \in Sessions : s2 # s => At(s2, 0)' = At(s2, 0)
      /\ At(s, 0)' = "stopping"
  <2>1. Length \in Nat /\ 1..Length \subseteq Tasks /\ 0 \notin 1..Length
    BY CallbackIs
  <2>2. QED
    BY <1>1, <1>2, <2>1
<1>7. Ways'
  <2>1. \A s2 \in Sessions : \A i2 \in Tasks :
          s2 # s \/ i2 # 0 => At(s2, i2)' = At(s2, i2) /\ Sub(s2, i2)' = Sub(s2, i2)
    BY <1>2
  <2> HIDE DEF At, Sub
  <2>2. QED
    BY <1>1, <1>6, <2>1, WaysKeep
<1>8. Locks' /\ Held'
  <2>1. Locks /\ Held /\ lock[s] = NULL /\ NULL \notin 1..Length
    BY CallbackIs DEF IInv, Cleanup
  <2>2. Locks'
    BY <1>1, <1>6, <2>1 DEF Locks
  <2>3. Held'
    <3>1. \A s2 \in Sessions : s2 # s => subs'[s2] = subs[s2]
      BY <1>1 DEF Types
    <3>2. \A i \in 1..Length : lock[s] # i
      BY <2>1
    <3>3. UNCHANGED <<lock, events>>
      BY <1>1
    <3>4. QED
      BY <2>1, <3>1, <3>2, <3>3 DEF Held
  <2>4. QED
    BY <2>2, <2>3
<1>9. \A s2 \in Sessions : \A t : \A cb \in Callbacks : Registered(s2, t, cb) => Registered(s2, t, cb)'
  BY <1>1, <1>6, CallbackIs DEF Registered
<1>10. Registers'
  <2>1. \A s2 \in Sessions : \A t \in Topics : subs'[s2][t] = NULL \/ subs'[s2][t] = subs[s2][t]
    BY <1>3
  <2>2. \A s2 \in Sessions : \A cb \in todo'[s2] :
          cb \in todo[s2] \/ \E t \in Topics : cb = subs[s2][t] /\ cb # NULL
    BY <1>4
  <2>3. \A s2 \in Sessions : \A i \in Tasks : Sub(s2, i)' = Sub(s2, i)
    BY <1>2
  <2>4. QED
    BY <1>1, <1>5, <1>6, <2>1, <2>2, <2>3, RegistersKeep
<1>11. Empty'
  BY <1>4, <1>6 DEF IInv, Empty
<1>12. Commands' /\ Gone'
  <2>1. \A s2 \in Sessions : \A i \in Tasks : At(s2, i) = "waiting" => At(s2, i)' = "waiting" /\ Sub(s2, i)' = Sub(s2, i)
    BY <1>1, <1>2
  <2>2. QED
    BY <1>1, <2>1, AnswersKeep
<1>13. Calm' /\ Current' /\ Cleaned'
  <2>1. Calm'
    <3>1. Calm
      BY DEF IInv
    <3>2. QED
      BY <1>1, <1>6, <3>1 DEF Calm, Without
  <2>2. Current'
    <3>1. Current
      BY DEF IInv
    <3>2. \A s2 \in Sessions : At(s2, 0)' \in {"loop", "closing"} => s2 # s /\ At(s2, 0) \in {"loop", "closing"}
      BY <1>6
    <3>3. QED
      BY <1>1, <1>6, <3>1, <3>2 DEF Current, Without
  <2>3. Cleaned'
    BY <1>1, <1>3, <1>6 DEF IInv, Cleaned, Without
  <2>4. QED
    BY <2>1, <2>2, <2>3
<1>14. Owners'
  <2>1. ASSUME NEW w \in Wrapper, Owned(w)
        PROVE  Owned(w)'
    <3>1. w.callback \in Callbacks /\ w.callback[1] \in Sessions /\ w.topic \in Topics /\ w.callback # NULL
      BY CallbackIs DEF Wrapper
    <3>2. CASE w.callback[1] # s
      <4>1. /\ subs'[w.callback[1]][w.topic] = subs[w.callback[1]][w.topic]
            /\ todo'[w.callback[1]] = todo[w.callback[1]]
        BY <1>3, <1>4, <3>1, <3>2
      <4>2. \A i \in Tasks : At(w.callback[1], i)' = At(w.callback[1], i) /\ Sub(w.callback[1], i)' = Sub(w.callback[1], i)
        BY <1>2, <3>1, <3>2
      <4>3. QED
        BY <2>1, <4>1, <4>2 DEF Owned
    <3>3. CASE w.callback[1] = s
      <4>1. todo[s] = {}
        BY <1>1 DEF IInv, Empty
      <4>2. CASE subs[s][w.topic] = w.callback
        <5>1. w.callback \in todo'[s]
          BY <1>4, <3>1, <4>2
        <5>2. QED
          BY <3>3, <5>1 DEF Owned
      <4>3. CASE \E i \in Tasks : Sub(s, i) = w.callback /\ At(s, i) \in {"leaving", "waiting"}
        <5>1. PICK i \in Tasks : Sub(s, i) = w.callback /\ At(s, i) \in {"leaving", "waiting"}
          BY <4>3
        <5>2. Sub(s, i)' = w.callback /\ At(s, i)' \in {"leaving", "waiting"}
          BY <1>1, <1>2, <5>1
        <5>3. QED
          BY <3>3, <5>2 DEF Owned
      <4>4. QED
        BY <2>1, <3>3, <4>1, <4>2, <4>3 DEF Owned
    <3>4. QED
      BY <3>2, <3>3
  <2>2. QED
    BY <1>1, <2>1 DEF IInv, Owners, ToCome, Without
<1>15. Heard' /\ Confirmed'
  <2>1. \A s2 \in Sessions : At(s2, 0)' = "loop" => s2 # s /\ At(s2, 0) = "loop"
    BY <1>6
  <2>2. Heard'
    <3>1. Heard
      BY DEF IInv
    <3>2. QED
      BY <1>1, <1>3, <1>6, <2>1, <3>1 DEF Heard, Without
  <2>3. Confirmed'
    <3>1. Confirmed /\ UNCHANGED <<lock, events>>
      BY <1>1 DEF IInv
    <3>2. \A s2 \in Sessions : s2 # s => subs'[s2] = subs[s2]
      BY <1>1 DEF Types
    <3>3. \A s2 \in Sessions : \A i \in 1..Length : At(s2, i)' = At(s2, i)
      BY <1>6
    <3>4. QED
      BY <2>1, <3>1, <3>2, <3>3 DEF Confirmed, Without
  <2>4. QED
    BY <2>2, <2>3
<1>20. QED
  BY <1>5, <1>7, <1>8, <1>10, <1>11, <1>12, <1>13, <1>14, <1>15 DEF IInv

LEMMA StopNextKeeps ==
  ASSUME IInv, NEW s \in Sessions, StopNext(s)
  PROVE  IInv'
<1>1. /\ Types /\ Ways /\ At(s, 0) = "stopping" /\ 0 \in Tasks
      /\ UNCHANGED <<conn, wrappers, listens, done, calls, subs, lock, events>>
  BY CallbackIs DEF IInv, StopNext
<1>2. CASE todo[s] = {} /\ Goes(s, 0, "over") /\ UNCHANGED <<queue, todo>>
  <2>1. "over" \in Places
    BY DEF Places
  <2>2. QED
    BY <1>1, <1>2, <2>1, GoesKeeps DEF Types
<1>3. ASSUME NEW cb \in todo[s], Put("unsubscribe", Listener(s, 0, cb), <<s, 0>>),
             task' = [task EXCEPT ![s][0] = [at |-> "waiting", sub |-> cb]],
             todo' = [todo EXCEPT ![s] = @ \ {cb}]
      PROVE  IInv'
  <2>1. cb \in Callbacks /\ Registered(s, About(s, cb[2]), cb)
    BY <1>1 DEF Types, IInv, Registers
  <2>2. /\ task' \in [Sessions -> [Tasks -> [at : Places, sub : Callbacks \cup {NULL}]]]
        /\ \A s2 \in Sessions : \A i2 \in Tasks :
             /\ At(s2, i2)' = IF s2 = s /\ i2 = 0 THEN "waiting" ELSE At(s2, i2)
             /\ Sub(s2, i2)' = IF s2 = s /\ i2 = 0 THEN cb ELSE Sub(s2, i2)
    <3>1. "waiting" \in Places
      BY DEF Places
    <3>2. Becomes(s, 0, "waiting", cb)
      BY <1>3 DEF Becomes
    <3>3. QED
      BY <1>1, <2>1, <3>1, <3>2, BecomesIs
  <2>3. /\ todo' \in [Sessions -> SUBSET Callbacks] /\ \A s2 \in Sessions : todo'[s2] \subseteq todo[s2]
        /\ \A s2 \in Sessions : \A x \in todo[s2] : x \in todo'[s2] \/ (s2 = s /\ x = cb)
    BY <1>1, <1>3 DEF Types
  <2>4. PICK w \in Wrapper : w = Listener(s, 0, cb)
    BY <2>1, RegisteredIs
  <2>5. Put("unsubscribe", w, <<s, 0>>) /\ <<s, 0>> \in Waiters
    BY <1>1, <1>3, <2>4, CallbackIs
  <2>6. queue' \in Seq(Command)
    BY <1>1, <2>5, PutIs
  <2>7. Types'
    BY <1>1, <2>2, <2>3, <2>6 DEF Types
  <2>8. /\ Length \in Nat /\ 1..Length \subseteq Tasks /\ 0 \notin 1..Length /\ cb # NULL
        /\ At(s, 0)' = "waiting" /\ Sub(s, 0)' = cb
        /\ \A s2 \in Sessions : s2 # s => At(s2, 0)' = At(s2, 0) /\ Sub(s2, 0)' = Sub(s2, 0)
    <3>1. Length \in Nat /\ 1..Length \subseteq Tasks /\ 0 \notin 1..Length /\ cb # NULL
      BY <2>1, CallbackIs
    <3>2. QED
      BY <1>1, <2>2, <3>1
  <2>9. \A s2 \in Sessions : \A i \in 1..Length : At(s2, i)' = At(s2, i) /\ Sub(s2, i)' = Sub(s2, i)
    BY <2>2, <2>8
  <2>10. \A s2 \in Sessions : \A i2 \in Tasks :
           s2 # s \/ i2 # 0 => At(s2, i2)' = At(s2, i2) /\ Sub(s2, i2)' = Sub(s2, i2)
    BY <2>2
  <2>11. Ways'
    <3> HIDE DEF At, Sub
    <3>1. QED
      BY <1>1, <2>8, <2>10, WaysKeep
  <2>12. Locks' /\ Held'
    <3>1. Locks /\ Held
      BY DEF IInv
    <3>2. Locks'
      BY <1>1, <2>9, <3>1 DEF Locks
    <3>3. Held'
      BY <1>1, <3>1 DEF Held
    <3>4. QED
      BY <3>2, <3>3
  <2>13. Registers'
    <3>1. \A s2 \in Sessions : \A i \in Tasks : Sub(s2, i)' = Sub(s2, i) \/ (i = 0 /\ Sub(s2, i)' \in todo[s2])
      BY <1>3, <2>8, <2>10
    <3>2. QED
      BY <1>1, <2>3, <2>7, <2>9, <3>1, RegistersKeep
  <2>14. Empty'
    <3>1. Empty
      BY DEF IInv
    <3>2. \A s2 \in Sessions : At(s2, 0)' \in {"loop", "closing"} => todo'[s2] = {}
      BY <2>3, <2>8, <3>1 DEF Empty
    <3>3. QED
      BY <3>2 DEF Empty
  <2>15. Commands' /\ Gone' /\ \A v : ToCome(v)' <=> ToCome(v)
    <3>1. CommandOf(s, 0)' = [action |-> "unsubscribe", of |-> w, by |-> <<s, 0>>]
      BY <1>1, <2>4, <2>8 DEF CommandOf, Listener
    <3>2. At(s, 0) # "waiting"
      BY <1>1
    <3> HIDE DEF At, Sub
    <3>3. QED
      BY <1>1, <2>5, <2>8, <2>10, <3>1, <3>2, PutKeeps
  <2>16. \A s2 \in Sessions : /\ At(s2, 0)' = "loop" => At(s2, 0) = "loop"
                              /\ At(s2, 0)' \in {"loop", "closing"} <=> At(s2, 0) \in {"loop", "closing"}
    BY <1>1, <2>8
  <2>17. Calm' /\ Current' /\ Cleaned'
    <3>1. Calm /\ Current /\ Cleaned
      BY DEF IInv
    <3>2. Calm'
      BY <1>1, <2>9, <3>1 DEF Calm, Without
    <3>3. Current'
      BY <1>1, <2>9, <2>16, <3>1 DEF Current, Without
    <3>4. Cleaned'
      BY <1>1, <2>16, <3>1 DEF Cleaned, Without
    <3>5. QED
      BY <3>2, <3>3, <3>4
  <2>18. Owners'
    <3>1. ASSUME NEW v \in Wrapper, Owned(v)
          PROVE  Owned(v)'
      <4>1. v.callback \in Callbacks /\ v.callback[1] \in Sessions
        BY CallbackIs DEF Wrapper
      <4>2. CASE \E i \in Tasks : Sub(v.callback[1], i) = v.callback /\ At(v.callback[1], i) \in {"leaving", "waiting"}
        <5>1. PICK i \in Tasks : Sub(v.callback[1], i) = v.callback /\ At(v.callback[1], i) \in {"leaving", "waiting"}
          BY <4>2
        <5>2. v.callback[1] # s \/ i # 0
          BY <1>1, <5>1
        <5>3. Sub(v.callback[1], i)' = v.callback /\ At(v.callback[1], i)' \in {"leaving", "waiting"}
          BY <2>10, <4>1, <5>1, <5>2
        <5>4. QED
          BY <5>3 DEF Owned
      <4>3. CASE v.callback \in todo[v.callback[1]]
        <5>1. CASE v.callback \in todo'[v.callback[1]]
          BY <5>1 DEF Owned
        <5>2. CASE v.callback[1] = s /\ v.callback = cb
          BY <1>1, <2>8, <5>2 DEF Owned
        <5>3. QED
          BY <2>3, <4>1, <4>3, <5>1, <5>2
      <4>4. QED
        BY <1>1, <3>1, <4>2, <4>3 DEF Owned
    <3>2. Owners
      BY DEF IInv
    <3>3. QED
      BY <1>1, <2>15, <3>1, <3>2 DEF Owners, Without
  <2>19. Heard' /\ Confirmed'
    <3>1. Heard /\ Confirmed
      BY DEF IInv
    <3>2. Heard'
      BY <1>1, <2>9, <2>16, <3>1 DEF Heard, Without
    <3>3. Confirmed'
      BY <1>1, <2>9, <2>16, <3>1 DEF Confirmed, Without
    <3>4. QED
      BY <3>2, <3>3
  <2>20. QED
    BY <2>7, <2>11, <2>12, <2>13, <2>14, <2>15, <2>17, <2>18, <2>19 DEF IInv
<1>4. QED
  BY <1>2, <1>3 DEF StopNext

LEMMA UnsubscribeKeeps ==
  ASSUME IInv, NEW s \in Sessions, NEW i \in 1..Length, Unsubscribe(s, i)
  PROVE  IInv'
<1>1. /\ Types /\ Ways /\ At(s, i) = "leaving" /\ i \in Tasks /\ i # 0
      /\ UNCHANGED <<conn, wrappers, listens, done, calls, subs, lock, todo, events>>
  BY CallbackIs DEF IInv, Unsubscribe
<1>2. CASE Sub(s, i) = NULL
  <2>1. "left" \in Places /\ Goes(s, i, "left") /\ UNCHANGED queue
    BY <1>2 DEF Places, Over, Unsubscribe
  <2>2. QED
    BY <1>1, <1>2, <2>1, GoesKeeps DEF Types
<1>3. CASE Sub(s, i) # NULL
  <2>1. PICK cb \in Callbacks : cb = Sub(s, i)
    BY <1>1, <1>3, TaskIs
  <2>2. Put("unsubscribe", Listener(s, i, cb), <<s, i>>) /\ Goes(s, i, "waiting")
    BY <1>3, <2>1 DEF Unsubscribe
  <2>3. /\ task' \in [Sessions -> [Tasks -> [at : Places, sub : Callbacks \cup {NULL}]]]
        /\ \A s2 \in Sessions : \A i2 \in Tasks :
             /\ At(s2, i2)' = IF s2 = s /\ i2 = i THEN "waiting" ELSE At(s2, i2)
             /\ Sub(s2, i2)' = Sub(s2, i2)
    <3>1. "waiting" \in Places
      BY DEF Places
    <3>2. QED
      BY <1>1, <2>2, <3>1, GoesIs
  <2>4. Registered(s, About(s, cb[2]), cb)
    BY <1>1, <1>3, <2>1 DEF IInv, Registers
  <2>5. PICK w \in Wrapper : w = Listener(s, i, cb)
    BY <2>4, RegisteredIs DEF Listener
  <2>6. Put("unsubscribe", w, <<s, i>>) /\ <<s, i>> \in Waiters
    BY <1>1, <2>2, <2>5, CallbackIs
  <2>7. queue' \in Seq(Command)
    BY <1>1, <2>6, PutIs
  <2>8. Types'
    BY <1>1, <2>3, <2>7 DEF Types
  <2>9. /\ Length \in Nat /\ 1..Length \subseteq Tasks /\ 0 \in Tasks /\ 0 \notin 1..Length
        /\ At(s, i)' = "waiting" /\ Sub(s, i)' = cb
    <3>1. Length \in Nat /\ 1..Length \subseteq Tasks /\ 0 \in Tasks /\ 0 \notin 1..Length
      BY CallbackIs
    <3>2. QED
      BY <1>1, <2>1, <2>3, <3>1
  <2>10. \A s2 \in Sessions : At(s2, 0)' = At(s2, 0) /\ Sub(s2, 0)' = Sub(s2, 0)
    BY <1>1, <2>3, <2>9
  <2>11. \A s2 \in Sessions : \A j \in 1..Length :
           /\ Sub(s2, j)' = Sub(s2, j)
           /\ At(s2, j)' \in {"leaving", "waiting"} <=> At(s2, j) \in {"leaving", "waiting"}
           /\ At(s2, j)' = "unsent" <=> At(s2, j) = "unsent"
           /\ At(s2, j)' = "confirmed" <=> At(s2, j) = "confirmed"
           /\ At(s2, j) = "waiting" => At(s2, j)' = "waiting"
           /\ At(s2, j)' = "waiting" /\ Sub(s2, j) = NULL => At(s2, j) = "waiting"
    BY <1>1, <1>3, <2>3, <2>9
  <2>12. \A s2 \in Sessions : \A i2 \in Tasks :
           s2 # s \/ i2 # i => At(s2, i2)' = At(s2, i2) /\ Sub(s2, i2)' = Sub(s2, i2)
    BY <2>3
  <2>13. Way(s, i)
    BY <1>1 DEF Ways
  <2>14. Way(s, i)'
    BY <1>1, <1>3, <2>1, <2>9, <2>13 DEF Way
  <2>15. Ways'
    <3>1. At(s, i)' # "unsent" /\ At(s, i) # "unsent"
      BY <1>1, <2>9
    <3> HIDE DEF At, Sub
    <3>2. QED
      BY <1>1, <2>12, <2>14, <3>1, WaysKeep
  <2>16. Locks' /\ Held'
    <3>1. Locks /\ Held
      BY DEF IInv
    <3>2. Locks'
      BY <1>1, <2>11, <3>1 DEF Locks
    <3>3. Held'
      BY <1>1, <3>1 DEF Held
    <3>4. QED
      BY <3>2, <3>3
  <2>17. Registers'
    <3>1. \A s2 \in Sessions : \A j \in 1..Length :
            At(s2, j) \in {"waiting", "confirmed"} /\ Kind(s2, j) = "subscribe" => At(s2, j)' \in {"waiting", "confirmed"}
      BY <2>11
    <3>2. QED
      BY <1>1, <2>3, <2>8, <3>1, RegistersKeep
  <2>18. Empty'
    <3>1. Empty
      BY DEF IInv
    <3>2. QED
      BY <1>1, <2>10, <3>1 DEF Empty
  <2>19. Commands' /\ Gone' /\ \A v : ToCome(v)' <=> ToCome(v)
    <3>1. CommandOf(s, i)' = [action |-> "unsubscribe", of |-> w, by |-> <<s, i>>]
      BY <1>1, <1>3, <2>1, <2>5, <2>9 DEF CommandOf, Listener
    <3>2. At(s, i) # "waiting"
      BY <1>1
    <3> HIDE DEF At, Sub
    <3>3. QED
      BY <1>1, <2>6, <2>9, <2>12, <3>1, <3>2, PutKeeps
  <2>20. Calm' /\ Current' /\ Cleaned'
    <3>1. Calm /\ Current /\ Cleaned
      BY DEF IInv
    <3>2. Calm'
      BY <1>1, <2>11, <3>1 DEF Calm, Without
    <3>3. Current'
      BY <1>1, <2>10, <2>11, <3>1 DEF Current, Without
    <3>4. Cleaned'
      BY <1>1, <2>10, <3>1 DEF Cleaned, Without
    <3>5. QED
      BY <3>2, <3>3, <3>4
  <2>21. Owners'
    <3>1. ASSUME NEW v \in Wrapper, Owned(v)
          PROVE  Owned(v)'
      <4>1. v.callback \in Callbacks /\ v.callback[1] \in Sessions
        BY CallbackIs DEF Wrapper
      <4>2. \A j \in Tasks : Sub(v.callback[1], j) = v.callback /\ At(v.callback[1], j) \in {"leaving", "waiting"}
              => Sub(v.callback[1], j)' = v.callback /\ At(v.callback[1], j)' \in {"leaving", "waiting"}
        BY <2>3, <4>1
      <4>3. QED
        BY <1>1, <3>1, <4>2 DEF Owned
    <3>2. Owners
      BY DEF IInv
    <3>3. QED
      BY <1>1, <2>19, <3>1, <3>2 DEF Owners, Without
  <2>22. Heard' /\ Confirmed'
    <3>1. Heard /\ Confirmed
      BY DEF IInv
    <3>2. Heard'
      BY <1>1, <2>10, <2>11, <3>1 DEF Heard, Without
    <3>3. Confirmed'
      BY <1>1, <2>10, <2>11, <3>1 DEF Confirmed, Without
    <3>4. QED
      BY <3>2, <3>3
  <2>23. QED
    BY <2>8, <2>15, <2>16, <2>17, <2>18, <2>19, <2>20, <2>21, <2>22 DEF IInv
<1>4. QED
  BY <1>2, <1>3

-----------------------------------------------------------------------------
(***************************************************************************)
(* A command is done                                                       *)
(***************************************************************************)
LEMMA StartedKeeps ==
  ASSUME IInv, NEW s \in Sessions, NEW i \in 1..Length, Started(s, i)
  PROVE  IInv'
<1>1. /\ Types /\ Ways /\ At(s, i) = "waiting" /\ lock[s] = i /\ i \in Tasks /\ i # 0
      /\ <<s, i>> \in done /\ done' = done \ {<<s, i>>} /\ Goes(s, i, "confirmed")
      /\ lock' = [lock EXCEPT ![s] = NULL]
      /\ UNCHANGED <<conn, wrappers, listens, queue, calls, subs, todo, events>>
  BY CallbackIs DEF IInv, Started, Resume
<1>2. Sub(s, i) = NULL /\ subs[s][About(s, i)] = <<s, i>>
  BY <1>1 DEF IInv, Locks, Held
<1>3. /\ task' \in [Sessions -> [Tasks -> [at : Places, sub : Callbacks \cup {NULL}]]]
      /\ \A s2 \in Sessions : \A i2 \in Tasks :
           /\ At(s2, i2)' = IF s2 = s /\ i2 = i THEN "confirmed" ELSE At(s2, i2)
           /\ Sub(s2, i2)' = Sub(s2, i2)
  <2>1. "confirmed" \in Places
    BY DEF Places, Over
  <2>2. QED
    BY <1>1, <2>1, GoesIs
<1>4. /\ lock' \in [Sessions -> (1..Length) \cup {NULL}]
      /\ \A s2 \in Sessions : lock'[s2] = IF s2 = s THEN NULL ELSE lock[s2]
  BY <1>1 DEF Types
<1>5. done' \in SUBSET Waiters
  BY <1>1 DEF Types
<1>6. Types'
  BY <1>1, <1>3, <1>4, <1>5 DEF Types
<1>7. /\ Length \in Nat /\ 1..Length \subseteq Tasks /\ 0 \in Tasks /\ 0 \notin 1..Length /\ NULL \notin 1..Length
      /\ At(s, i)' = "confirmed" /\ Sub(s, i)' = NULL
  <2>1. Length \in Nat /\ 1..Length \subseteq Tasks /\ 0 \in Tasks /\ 0 \notin 1..Length /\ NULL \notin 1..Length
    BY CallbackIs
  <2>2. QED
    BY <1>1, <1>2, <1>3, <2>1
<1>8. \A s2 \in Sessions : At(s2, 0)' = At(s2, 0)
  BY <1>1, <1>3, <1>7
<1>9. \A s2 \in Sessions : \A j \in 1..Length :
        /\ Sub(s2, j)' = Sub(s2, j)
        /\ s2 # s \/ j # i => At(s2, j)' = At(s2, j)
  BY <1>3, <1>7
<1>10. \A s2 \in Sessions : \A j \in 1..Length :
         /\ At(s2, j)' \in {"leaving", "waiting"} => At(s2, j) \in {"leaving", "waiting"}
         /\ At(s2, j) \in {"leaving", "waiting"} /\ Sub(s2, j) # NULL => At(s2, j)' \in {"leaving", "waiting"}
         /\ At(s2, j)' = "unsent" <=> At(s2, j) = "unsent"
         /\ At(s2, j)' = "confirmed" => At(s2, j) = "confirmed" \/ (s2 = s /\ j = i)
  BY <1>1, <1>2, <1>7, <1>9
<1>11. \A s2 \in Sessions : \A i2 \in Tasks :
         s2 # s \/ i2 # i => At(s2, i2)' = At(s2, i2) /\ Sub(s2, i2)' = Sub(s2, i2)
  BY <1>3
<1>12. Kind(s, i) = "subscribe" /\ Way(s, i)'
  <2>1. Way(s, i)
    BY <1>1 DEF Ways
  <2>2. QED
    BY <1>1, <1>2, <1>7, <2>1 DEF Way
<1>13. Ways'
  <2>1. At(s, i)' # "unsent" /\ At(s, i) # "unsent"
    BY <1>1, <1>7
  <2> HIDE DEF At, Sub
  <2>2. QED
    BY <1>1, <1>11, <1>12, <2>1, WaysKeep
<1>14. Locks' /\ Held'
  <2>1. Locks /\ Held
    BY DEF IInv
  <2>2. Locks'
    <3>1. ASSUME NEW s2 \in Sessions, NEW j \in 1..Length
          PROVE  lock'[s2] = j <=> At(s2, j)' = "waiting" /\ Sub(s2, j)' = NULL
      <4>1. CASE s2 # s
        BY <1>4, <1>9, <2>1, <4>1 DEF Locks
      <4>2. CASE s2 = s /\ j = i
        BY <1>4, <1>7, <4>2
      <4>3. CASE s2 = s /\ j # i
        BY <1>1, <1>4, <1>7, <1>9, <2>1, <4>3 DEF Locks
      <4>4. QED
        BY <4>1, <4>2, <4>3
    <3>2. QED
      BY <3>1 DEF Locks
  <2>3. Held'
    BY <1>1, <1>4, <1>7, <2>1 DEF Held
  <2>4. QED
    BY <2>2, <2>3
<1>15. Registers'
  <2>1. \A s2 \in Sessions : \A j \in 1..Length :
          At(s2, j) \in {"waiting", "confirmed"} /\ Kind(s2, j) = "subscribe" => At(s2, j)' \in {"waiting", "confirmed"}
    BY <1>7, <1>9
  <2>2. QED
    BY <1>1, <1>3, <1>6, <2>1, RegistersKeep
<1>16. Empty'
  <2>1. Empty
    BY DEF IInv
  <2>2. QED
    BY <1>1, <1>8, <2>1 DEF Empty
<1>17. Commands' /\ Gone'
  <2>1. done' \subseteq done /\ <<s, i>> \in done /\ <<s, i>> \notin done'
    BY <1>1
  <2>2. \A s2 \in Sessions : \A i2 \in Tasks :
          At(s2, i2) = "waiting" /\ (<<s2, i2>> \in done => <<s2, i2>> \in done')
            => At(s2, i2)' = "waiting" /\ Sub(s2, i2)' = Sub(s2, i2)
    BY <1>11, <2>1
  <2>3. QED
    BY <1>1, <2>1, <2>2, AnswersKeep
<1>18. Calm' /\ Current' /\ Cleaned'
  <2>1. Calm /\ Current /\ Cleaned
    BY DEF IInv
  <2>2. Calm'
    BY <1>1, <1>10, <2>1 DEF Calm, Without
  <2>3. Current'
    BY <1>1, <1>8, <1>9, <1>10, <2>1 DEF Current, Without
  <2>4. Cleaned'
    BY <1>1, <1>8, <2>1 DEF Cleaned, Without
  <2>5. QED
    BY <2>2, <2>3, <2>4
<1>19. Owners'
  <2>1. ASSUME NEW v \in Wrapper, Owned(v)
        PROVE  Owned(v)'
    <3>1. v.callback \in Callbacks /\ v.callback[1] \in Sessions /\ v.callback # NULL
      BY CallbackIs DEF Wrapper
    <3>2. \A j \in Tasks : Sub(v.callback[1], j) = v.callback /\ At(v.callback[1], j) \in {"leaving", "waiting"}
            => Sub(v.callback[1], j)' = v.callback /\ At(v.callback[1], j)' \in {"leaving", "waiting"}
      BY <1>2, <1>3, <3>1
    <3>3. QED
      BY <1>1, <2>1, <3>2 DEF Owned
  <2>2. Owners
    BY DEF IInv
  <2>3. QED
    BY <1>1, <2>1, <2>2 DEF Owners, ToCome, Without
<1>20. Heard'
  <2>1. Heard
    BY DEF IInv
  <2>2. SUFFICES ASSUME Without({"overlap"}), NEW s2 \in Sessions, NEW t \in Topics, At(s2, 0) = "loop", subs[s2][t] # NULL
                 PROVE  (\/ [topic |-> t, callback |-> subs[s2][t]] \in wrappers
                         \/ lock[s2] = subs[s2][t][2] /\ subs[s2][t] \notin done
                         \/ \E j \in 1..Length : At(s2, j) \in {"leaving", "waiting"} /\ Sub(s2, j) = subs[s2][t])'
    BY <1>1, <1>8 DEF Heard, Without
  <2>3. PICK cb \in Callbacks : cb = subs[s2][t]
    BY <1>1, <2>2 DEF Types
  <2>4. CASE [topic |-> t, callback |-> cb] \in wrappers
    BY <1>1, <2>3, <2>4
  <2>5. CASE \E j \in 1..Length : At(s2, j) \in {"leaving", "waiting"} /\ Sub(s2, j) = cb
    BY <1>1, <1>9, <1>10, <2>2, <2>3, <2>5
  <2>6. CASE lock[s2] = cb[2] /\ cb \notin done
    <3>1. Registered(s2, t, cb)
      BY <2>2, <2>3 DEF IInv, Registers
    <3>2. cb = <<s2, cb[2]>>
      BY <3>1, RegisteredIs
    <3>3. s2 # s
      BY <1>1, <2>6, <3>2
    <3>4. QED
      BY <1>1, <1>4, <2>3, <2>6, <3>3
  <2>7. QED
    BY <2>1, <2>2, <2>3, <2>4, <2>5, <2>6 DEF Heard
<1>21. Confirmed'
  <2>1. Confirmed
    BY DEF IInv
  <2>2. SUFFICES ASSUME Without({"overlap"}), NEW s2 \in Sessions, NEW j \in 1..Length,
                        At(s2, 0) = "loop", At(s2, j)' = "confirmed"
                 PROVE  (\/ subs[s2][About(s2, j)] # NULL /\ lock[s2] # subs[s2][About(s2, j)][2]
                         \/ \E k \in 1..Length : /\ At(s2, k) # "unsent" /\ Kind(s2, k) = "unsubscribe"
                                                 /\ About(s2, k) = About(s2, j) /\ k > j)'
    BY <1>1, <1>8 DEF Confirmed, Without
  <2>3. CASE s2 = s /\ j = i
    <3>1. <<s, i>> \in Callbacks /\ <<s, i>> # NULL
      BY CallbackIs
    <3>2. subs'[s][About(s, i)] = <<s, i>> /\ About(s, i)' = About(s, i)
      BY <1>1, <1>2, <1>4
    <3>3. lock'[s] # i
      BY <1>4, <1>7
    <3>4. QED
      BY <2>3, <3>1, <3>2, <3>3
  <2>4. CASE s2 # s \/ j # i
    <3>1. At(s2, j) = "confirmed"
      BY <1>9, <2>2, <2>4
    <3>2. CASE \E k \in 1..Length : At(s2, k) # "unsent" /\ Kind(s2, k) = "unsubscribe" /\ About(s2, k) = About(s2, j) /\ k > j
      BY <1>1, <1>10, <3>2
    <3>3. CASE subs[s2][About(s2, j)] # NULL /\ lock[s2] # subs[s2][About(s2, j)][2]
      <4>1. CASE s2 # s
        BY <1>1, <1>4, <3>3, <4>1
      <4>2. CASE s2 = s
        <5>1. About(s, j) \in Topics
          BY <1>1, <3>1, <4>2, ReceivedIs
        <5>2. subs[s][About(s, j)] \in Callbacks
          BY <1>1, <3>3, <4>2, <5>1 DEF Types
        <5>3. subs[s][About(s, j)][2] \in 1..Length
          BY <5>2, CallbackIs
        <5>4. QED
          BY <1>1, <1>4, <1>7, <3>3, <4>2, <5>3
      <4>3. QED
        BY <4>1, <4>2
    <3>4. QED
      BY <2>1, <2>2, <3>1, <3>2, <3>3 DEF Confirmed
  <2>5. QED
    BY <2>3, <2>4
<1>22. QED
  BY <1>6, <1>13, <1>14, <1>15, <1>16, <1>17, <1>18, <1>19, <1>20, <1>21 DEF IInv

LEMMA RemovedKeeps ==
  ASSUME IInv, NEW s \in Sessions, NEW i \in Tasks, NEW at, Removed(s, i, at),
         (i = 0 /\ at = "stopping") \/ (i # 0 /\ at = "left")
  PROVE  IInv'
<1>1. /\ Types /\ Ways /\ At(s, i) = "waiting" /\ lock[s] = NULL /\ Sub(s, i) # NULL
      /\ <<s, i>> \in done /\ done' = done \ {<<s, i>>} /\ Goes(s, i, at)
      /\ subs' = [subs EXCEPT ![s][About(s, Sub(s, i)[2])] = NULL]
      /\ UNCHANGED <<conn, wrappers, listens, queue, calls, lock, todo, events>>
  BY DEF IInv, Removed, Resume
<1>2. /\ Length \in Nat /\ 1..Length \subseteq Tasks /\ 0 \in Tasks /\ 0 \notin 1..Length /\ NULL \notin 1..Length
      /\ i # 0 => i \in 1..Length
  BY CallbackIs
<1>3. PICK cb \in Callbacks : cb = Sub(s, i)
  BY <1>1, TaskIs
<1>4. PICK t0 : t0 = About(s, cb[2])
  OBVIOUS
<1>5. /\ Registered(s, t0, cb) /\ (i # 0 => About(s, i) = t0) /\ t0 \in Topics
  <2>1. Registered(s, t0, cb) /\ (i # 0 => About(s, i) = t0)
    BY <1>1, <1>3, <1>4, Zenon DEF IInv, Registers
  <2>2. QED
    BY <2>1, RegisteredIs, Zenon
<1>6. /\ task' \in [Sessions -> [Tasks -> [at : Places, sub : Callbacks \cup {NULL}]]]
      /\ \A s2 \in Sessions : \A i2 \in Tasks :
           /\ At(s2, i2)' = IF s2 = s /\ i2 = i THEN at ELSE At(s2, i2)
           /\ Sub(s2, i2)' = Sub(s2, i2)
  <2>1. at \in Places
    BY DEF Places, Over
  <2>2. Types /\ Goes(s, i, at)
    BY <1>1
  <2> HIDE DEF At, Sub
  <2>3. QED
    BY <2>1, <2>2, GoesIs
<1>7. /\ subs' \in [Sessions -> [Topics -> Callbacks \cup {NULL}]]
      /\ \A s2 \in Sessions : \A t \in Topics : subs'[s2][t] = IF s2 = s /\ t = t0 THEN NULL ELSE subs[s2][t]
      /\ \A s2 \in Sessions : s2 # s => subs'[s2] = subs[s2]
  <2>1. subs' = [subs EXCEPT ![s][t0] = NULL]
    BY <1>1, <1>3, <1>4
  <2>2. subs \in [Sessions -> [Topics -> Callbacks \cup {NULL}]] /\ t0 \in Topics
    BY <1>1, <1>5 DEF Types
  <2>3. QED
    BY <2>1, <2>2
<1>8. Types'
  <2>1. done' \in SUBSET Waiters
    BY <1>1 DEF Types
  <2>2. QED
    BY <1>1, <1>6, <1>7, <2>1, Zenon DEF Types
<1>9. At(s, i)' = at /\ at \notin {"unsent", "leaving", "waiting", "confirmed", "loop", "closing"}
  BY <1>1, <1>6
<1>10. \A s2 \in Sessions : \A i2 \in Tasks :
         s2 # s \/ i2 # i => At(s2, i2)' = At(s2, i2) /\ Sub(s2, i2)' = Sub(s2, i2)
  BY <1>6
<1>11. \A s2 \in Sessions : \A j \in 1..Length :
         /\ Sub(s2, j)' = Sub(s2, j)
         /\ At(s2, j)' \in {"leaving", "waiting"} => At(s2, j) = At(s2, j)' /\ (s2 # s \/ j # i)
         /\ At(s2, j) \in {"leaving", "waiting"} /\ (s2 # s \/ j # i) => At(s2, j)' \in {"leaving", "waiting"}
         /\ At(s2, j)' = "unsent" <=> At(s2, j) = "unsent"
         /\ At(s2, j)' = "confirmed" <=> At(s2, j) = "confirmed"
  BY <1>1, <1>2, <1>6, <1>9
<1>12. \A s2 \in Sessions : /\ At(s2, 0)' = "loop" <=> At(s2, 0) = "loop"
                            /\ At(s2, 0)' \in {"loop", "closing"} <=> At(s2, 0) \in {"loop", "closing"}
  BY <1>1, <1>2, <1>6
<1>13. i # 0 => Kind(s, i) = "unsubscribe" /\ Way(s, i)'
  <2>1. i # 0 => Way(s, i)
    BY <1>1, <1>2 DEF Ways
  <2>2. QED
    BY <1>1, <1>9, <2>1 DEF Way
<1>14. Ways'
  <2>1. At(s, i)' # "unsent" /\ At(s, i) # "unsent"
    BY <1>1, <1>9
  <2>2. i = 0 => At(s, 0)' = "stopping"
    BY <1>9
  <2> HIDE DEF At, Sub
  <2>3. QED
    BY <1>1, <1>10, <1>13, <2>1, <2>2, WaysKeep
<1>15. Locks' /\ Held'
  <2>1. Locks /\ Held
    BY DEF IInv
  <2>2. Locks'
    <3>1. ASSUME NEW s2 \in Sessions, NEW j \in 1..Length
          PROVE  lock[s2] = j <=> At(s2, j)' = "waiting" /\ Sub(s2, j)' = NULL
      <4>1. CASE s2 = s /\ j = i
        BY <1>1, <1>2, <1>9, <4>1
      <4>2. CASE s2 # s \/ j # i
        BY <1>2, <1>10, <2>1, <4>2 DEF Locks
      <4>3. QED
        BY <4>1, <4>2
    <3>2. QED
      BY <1>1, <3>1 DEF Locks
  <2>3. Held'
    <3>1. \A j \in 1..Length : lock[s] # j
      BY <1>1, <1>2
    <3>2. QED
      <4>1. \A s2 \in Sessions : s2 # s => subs'[s2] = subs[s2]
        BY <1>7
      <4>2. UNCHANGED <<lock, events>>
        BY <1>1
      <4>3. QED
        BY <2>1, <3>1, <4>1, <4>2 DEF Held
  <2>4. QED
    BY <2>2, <2>3
<1>16. Registers'
  <2>1. \A s2 \in Sessions : \A j \in 1..Length :
          At(s2, j) \in {"waiting", "confirmed"} /\ Kind(s2, j) = "subscribe" => At(s2, j)' \in {"waiting", "confirmed"}
    BY <1>11, <1>13
  <2>2. \A s2 \in Sessions : \A t \in Topics : subs'[s2][t] = NULL \/ subs'[s2][t] = subs[s2][t]
    BY <1>7
  <2>3. QED
    BY <1>1, <1>6, <1>8, <2>1, <2>2, RegistersKeep, Zenon
<1>17. Empty'
  <2>1. Empty
    BY DEF IInv
  <2>2. QED
    BY <1>1, <1>12, <2>1 DEF Empty
<1>18. Commands' /\ Gone'
  <2>1. done' \subseteq done /\ <<s, i>> \in done /\ <<s, i>> \notin done'
    BY <1>1
  <2>2. \A s2 \in Sessions : \A i2 \in Tasks :
          At(s2, i2) = "waiting" /\ (<<s2, i2>> \in done => <<s2, i2>> \in done')
            => At(s2, i2)' = "waiting" /\ Sub(s2, i2)' = Sub(s2, i2)
    BY <1>10, <2>1
  <2>3. QED
    BY <1>1, <2>1, <2>2, AnswersKeep
<1>19. Calm' /\ Cleaned'
  <2>1. Calm /\ Cleaned
    BY DEF IInv
  <2>2. Calm'
    <3>1. UNCHANGED events
      BY <1>1
    <3>2. QED
      BY <1>11, <2>1, <3>1 DEF Calm, Without
  <2>3. Cleaned'
    <3>1. \A s2 \in Sessions : \A t \in Topics : subs[s2][t] = NULL => subs'[s2][t] = NULL
      BY <1>7
    <3>2. UNCHANGED events
      BY <1>1
    <3>3. QED
      BY <1>12, <2>1, <3>1, <3>2 DEF Cleaned, Without
  <2>4. QED
    BY <2>2, <2>3
\* Another message of the topic came before the unsubscribe that is done.
<1>20. ASSUME Without({"overlap"}), i # 0, NEW j \in 1..Length, j # i,
              At(s, j) # "unsent", Kind(s, j) # "say", About(s, j) = t0
       PROVE  j < i
  <2>1. Calm /\ i \in 1..Length /\ At(s, i) \in {"leaving", "waiting"} /\ Kind(s, i) = "unsubscribe" /\ About(s, i) = t0
    BY <1>1, <1>2, <1>5, <1>13, <1>20 DEF IInv
  <2>2. j <= i
    BY <1>20, <2>1 DEF Calm
  <2>3. QED
    BY <1>2, <1>20, <2>1, <2>2
<1>21. Current'
  <2>1. Current /\ Calm
    BY DEF IInv
  <2>2. SUFFICES ASSUME Without({"overlap"}), NEW s2 \in Sessions, NEW j \in 1..Length,
                        At(s2, 0) \in {"loop", "closing"}, At(s2, j) \in {"leaving", "waiting"},
                        s2 # s \/ j # i, Sub(s2, j) # NULL
                 PROVE  subs'[s2][About(s2, j)] = Sub(s2, j)
    <3>1. UNCHANGED events
      BY <1>1, Zenon
    <3>2. ASSUME Without({"overlap"}), NEW s2 \in Sessions, NEW j \in 1..Length,
                 At(s2, 0)' \in {"loop", "closing"}, At(s2, j)' \in {"leaving", "waiting"}, Sub(s2, j)' # NULL
          PROVE  subs'[s2][About(s2, j)] = Sub(s2, j)'
      BY <1>11, <1>12, <2>2, <3>2
    <3>3. QED
      BY <3>1, <3>2 DEF Current, Without
  <2>3. subs[s2][About(s2, j)] = Sub(s2, j)
    BY <2>1, <2>2 DEF Current
  <2>4. CASE s2 = s
    <3>1. i # 0 /\ i \in 1..Length
      BY <1>1, <1>2, <2>2, <2>4
    <3>2. At(s, j) # "unsent" /\ About(s, j) \in Topics
      BY <1>1, <2>2, <2>4, ReceivedIs
    <3>3. Kind(s, j) = "unsubscribe"
      <4>1. Way(s, j)
        BY <1>1 DEF Ways
      <4>2. QED
        BY <2>2, <2>4, <4>1 DEF Way
    <3>4. About(s, j) # t0
      <4>1. ASSUME About(s, j) = t0
            PROVE  FALSE
        <5>1. j < i
          BY <1>20, <2>2, <2>4, <3>1, <3>2, <3>3, <4>1
        <5>2. i <= j
          BY <1>1, <1>5, <1>13, <2>1, <2>2, <2>4, <3>1, <3>3, <4>1 DEF Calm
        <5>3. QED
          BY <1>2, <3>1, <5>1, <5>2
      <4>2. QED
        BY <4>1
    <3>5. QED
      BY <1>7, <2>3, <2>4, <3>2, <3>4
  <2>5. CASE s2 # s
    BY <1>7, <2>3, <2>5
  <2>6. QED
    BY <2>4, <2>5
<1>22. Owners'
  <2>1. SUFFICES ASSUME Without({"overlap", "late"}), NEW v \in Wrapper, v \in wrappers \/ ToCome(v)
                 PROVE  Owned(v)'
    BY <1>1 DEF Owners, ToCome, Without
  <2>2. Owned(v)
    BY <2>1 DEF IInv, Owners
  <2>3. v.callback \in Callbacks /\ v.callback[1] \in Sessions /\ v.callback # NULL /\ v.topic \in Topics
    BY CallbackIs DEF Wrapper
  <2>4. \E s2 \in Sessions : Registered(s2, v.topic, v.callback)
    <3>1. CASE v \in wrappers
      BY <2>3, <3>1 DEF IInv, Registers
    <3>2. CASE ToCome(v)
      BY <3>2, CommandIs DEF ToCome
    <3>3. QED
      BY <2>1, <3>1, <3>2
  <2>5. v.callback # cb
    <3>1. ASSUME v.callback = cb
          PROVE  FALSE
      <4>1. v = Listener(s, i, cb)
        <5>1. v = [topic |-> v.topic, callback |-> v.callback]
          BY DEF Wrapper
        <5>2. PICK s2 \in Sessions : Registered(s2, v.topic, cb)
          BY <2>4, <3>1
        <5>3. v.topic = t0
          BY <1>4, <1>5, <5>2 DEF Registered
        <5>4. QED
          BY <1>4, <3>1, <5>1, <5>3 DEF Listener
      <4>2. v \notin wrappers /\ ~ToCome(v)
        BY <1>1, <1>3, <4>1 DEF IInv, Gone
      <4>3. QED
        BY <2>1, <4>2
    <3>2. QED
      BY <3>1
  <2>6. CASE v.callback \in todo[v.callback[1]]
    BY <1>1, <2>6 DEF Owned
  <2>7. CASE \E j \in Tasks : Sub(v.callback[1], j) = v.callback /\ At(v.callback[1], j) \in {"leaving", "waiting"}
    <3>1. PICK j \in Tasks : Sub(v.callback[1], j) = v.callback /\ At(v.callback[1], j) \in {"leaving", "waiting"}
      BY <2>7
    <3>2. v.callback[1] # s \/ j # i
      BY <1>3, <2>5, <3>1
    <3>3. Sub(v.callback[1], j)' = v.callback /\ At(v.callback[1], j)' \in {"leaving", "waiting"}
      BY <1>10, <2>3, <3>1, <3>2
    <3>4. QED
      BY <3>3 DEF Owned
  <2>8. CASE subs[v.callback[1]][v.topic] = v.callback
    <3>1. ~(v.callback[1] = s /\ v.topic = t0)
      <4>1. ASSUME v.callback[1] = s, v.topic = t0
            PROVE  FALSE
        <5>1. At(s, 0) \in {"loop", "closing"}
          BY <2>1, <2>3, <2>8, <4>1 DEF IInv, Cleaned, Without
        <5>2. i # 0 /\ i \in 1..Length
          BY <1>1, <1>2, <5>1
        <5>3. subs[s][About(s, i)] = cb
          BY <1>1, <1>3, <2>1, <5>1, <5>2 DEF IInv, Current, Without
        <5>4. QED
          BY <1>5, <2>5, <2>8, <4>1, <5>2, <5>3
      <4>2. QED
        BY <4>1
    <3>2. subs'[v.callback[1]][v.topic] = v.callback
      BY <1>7, <2>3, <2>8, <3>1
    <3>3. QED
      BY <3>2 DEF Owned
  <2>9. QED
    BY <2>2, <2>6, <2>7, <2>8 DEF Owned
<1>23. Heard'
  <2>1. SUFFICES ASSUME Without({"overlap"}), NEW s2 \in Sessions, NEW t \in Topics, At(s2, 0) = "loop", subs'[s2][t] # NULL
                 PROVE  (\/ [topic |-> t, callback |-> subs[s2][t]] \in wrappers
                         \/ lock[s2] = subs[s2][t][2] /\ subs[s2][t] \notin done
                         \/ \E j \in 1..Length : At(s2, j) \in {"leaving", "waiting"} /\ Sub(s2, j) = subs[s2][t])'
    BY <1>1, <1>12, Zenon DEF Heard, Without
  <2>2. ~(s2 = s /\ t = t0) /\ subs'[s2][t] = subs[s2][t] /\ UNCHANGED <<wrappers, lock>> /\ done' \subseteq done
    BY <1>1, <1>7, <2>1, Zenon
  <2>3. CASE [topic |-> t, callback |-> subs[s2][t]] \in wrappers
    BY <2>2, <2>3
  <2>4. CASE lock[s2] = subs[s2][t][2] /\ subs[s2][t] \notin done
    BY <2>2, <2>4
  <2>5. CASE \E j \in 1..Length : At(s2, j) \in {"leaving", "waiting"} /\ Sub(s2, j) = subs[s2][t]
    <3>1. PICK j \in 1..Length : At(s2, j) \in {"leaving", "waiting"} /\ Sub(s2, j) = subs[s2][t]
      BY <2>5
    <3>2. Registered(s2, t, subs[s2][t])
      BY <2>1, <2>2 DEF IInv, Registers
    <3>3. s2 # s \/ j # i
      <4>1. ASSUME s2 = s, j = i
            PROVE  FALSE
        <5>1. Registered(s, t, cb)
          BY <1>3, <3>1, <3>2, <4>1
        <5>2. t = t0
          BY <1>4, <5>1 DEF Registered
        <5>3. QED
          BY <2>2, <4>1, <5>2
      <4>2. QED
        BY <4>1
    <3>4. At(s2, j)' \in {"leaving", "waiting"} /\ Sub(s2, j)' = subs'[s2][t]
      BY <1>11, <2>2, <3>1, <3>3
    <3>5. QED
      BY <3>4
  <2>6. QED
    BY <2>1, <2>2, <2>3, <2>4, <2>5 DEF IInv, Heard
<1>24. Confirmed'
  <2>1. SUFFICES ASSUME Without({"overlap"}), NEW s2 \in Sessions, NEW j \in 1..Length,
                        At(s2, 0) = "loop", At(s2, j) = "confirmed"
                 PROVE  (\/ subs[s2][About(s2, j)] # NULL /\ lock[s2] # subs[s2][About(s2, j)][2]
                         \/ \E k \in 1..Length : /\ At(s2, k) # "unsent" /\ Kind(s2, k) = "unsubscribe"
                                                 /\ About(s2, k) = About(s2, j) /\ k > j)'
    <3>1. UNCHANGED events
      BY <1>1
    <3>2. ASSUME Without({"overlap"}), NEW s2 \in Sessions, NEW j \in 1..Length,
                 At(s2, 0)' = "loop", At(s2, j)' = "confirmed"
          PROVE  (\/ subs[s2][About(s2, j)] # NULL /\ lock[s2] # subs[s2][About(s2, j)][2]
                  \/ \E k \in 1..Length : /\ At(s2, k) # "unsent" /\ Kind(s2, k) = "unsubscribe"
                                          /\ About(s2, k) = About(s2, j) /\ k > j)'
      BY <1>11, <1>12, <2>1, <3>2, Zenon
    <3>3. QED
      BY <3>1, <3>2 DEF Confirmed, Without
  <2>2. CASE \E k \in 1..Length : At(s2, k) # "unsent" /\ Kind(s2, k) = "unsubscribe" /\ About(s2, k) = About(s2, j) /\ k > j
    BY <1>1, <1>11, <2>2, Zenon
  <2>3. CASE s2 = s /\ About(s, j) = t0
    <3>1. i # 0 /\ i \in 1..Length
      BY <1>1, <1>2, <2>1, <2>3
    <3>2. Kind(s, j) = "subscribe"
      <4>1. Way(s, j)
        BY <1>1 DEF Ways
      <4>2. QED
        BY <2>1, <2>3, <4>1 DEF Way
    <3>3. j < i
      BY <1>13, <1>20, <2>1, <2>3, <3>1, <3>2
    <3>4. QED
      BY <1>1, <1>2, <1>5, <1>9, <1>13, <2>3, <3>1, <3>3, Zenon
  <2>4. CASE /\ subs[s2][About(s2, j)] # NULL /\ lock[s2] # subs[s2][About(s2, j)][2]
             /\ ~(s2 = s /\ About(s, j) = t0)
    <3>1. About(s2, j) \in Topics
      BY <1>1, <2>1, ReceivedIs
    <3>2. subs'[s2][About(s2, j)] = subs[s2][About(s2, j)]
      BY <1>7, <2>4, <3>1
    <3>3. QED
      BY <1>1, <2>4, <3>2, Zenon
  <2>5. QED
    BY <2>1, <2>2, <2>3, <2>4 DEF IInv, Confirmed
<1>25. QED
  BY <1>8, <1>14, <1>15, <1>16, <1>17, <1>18, <1>19, <1>21, <1>22, <1>23, <1>24 DEF IInv

-----------------------------------------------------------------------------
(***************************************************************************)
(* Messages are received and subscriptions registered                      *)
(***************************************************************************)
\* The topic has a subscription, which is confirmed again.
LEMMA AgainKeeps ==
  ASSUME IInv, NEW s \in Sessions, NEW i \in 1..Length, At(s, i) = "accepting", lock[s] = NULL,
         subs[s][About(s, i)] # NULL, Goes(s, i, "confirmed"),
         UNCHANGED <<adapter, subs, lock, todo, events>>
  PROVE  IInv'
<1>1. /\ Types /\ Ways /\ i \in Tasks /\ i # 0
      /\ UNCHANGED <<conn, wrappers, listens, queue, done, calls, subs, lock, todo, events>>
  BY CallbackIs DEF IInv, adapter
<1>2. /\ Length \in Nat /\ 1..Length \subseteq Tasks /\ 0 \in Tasks /\ 0 \notin 1..Length /\ NULL \notin 1..Length
  BY CallbackIs
<1>3. /\ task' \in [Sessions -> [Tasks -> [at : Places, sub : Callbacks \cup {NULL}]]]
      /\ \A s2 \in Sessions : \A i2 \in Tasks :
           /\ At(s2, i2)' = IF s2 = s /\ i2 = i THEN "confirmed" ELSE At(s2, i2)
           /\ Sub(s2, i2)' = Sub(s2, i2)
  <2>1. "confirmed" \in Places
    BY DEF Places, Over
  <2>2. QED
    BY <1>1, <2>1, GoesIs
<1>4. Types'
  BY <1>1, <1>3 DEF Types
<1>5. Kind(s, i) = "subscribe" /\ Sub(s, i) = NULL /\ About(s, i) \in Topics
  <2>1. Way(s, i)
    BY <1>1 DEF Ways
  <2>2. Kind(s, i) = "subscribe" /\ Sub(s, i) = NULL
    BY <2>1 DEF Way
  <2>3. QED
    BY <1>1, <2>2, ReceivedIs
<1>6. At(s, i)' = "confirmed" /\ Sub(s, i)' = NULL
  BY <1>1, <1>3, <1>5
<1>7. \A s2 \in Sessions : \A i2 \in Tasks :
        s2 # s \/ i2 # i => At(s2, i2)' = At(s2, i2) /\ Sub(s2, i2)' = Sub(s2, i2)
  BY <1>3
<1>8. \A s2 \in Sessions : At(s2, 0)' = At(s2, 0)
  BY <1>1, <1>2, <1>3
<1>9. \A s2 \in Sessions : \A j \in 1..Length :
        /\ Sub(s2, j)' = Sub(s2, j)
        /\ At(s2, j)' \in {"leaving", "waiting"} <=> At(s2, j) \in {"leaving", "waiting"}
        /\ At(s2, j)' = "waiting" <=> At(s2, j) = "waiting"
        /\ At(s2, j)' = "unsent" <=> At(s2, j) = "unsent"
        /\ At(s2, j) = "confirmed" => At(s2, j)' = "confirmed"
        /\ At(s2, j)' = "confirmed" => At(s2, j) = "confirmed" \/ (s2 = s /\ j = i)
  BY <1>2, <1>3
<1>10. Ways'
  <2>1. Way(s, i)' /\ At(s, i)' # "unsent" /\ At(s, i) # "unsent"
    BY <1>1, <1>5, <1>6 DEF Way
  <2> HIDE DEF At, Sub
  <2>2. QED
    BY <1>1, <1>7, <2>1, WaysKeep
<1>11. Locks' /\ Held' /\ Empty'
  <2>1. Locks /\ Held /\ Empty
    BY DEF IInv
  <2>2. Locks'
    BY <1>1, <1>9, <2>1 DEF Locks
  <2>3. Held'
    BY <1>1, <2>1 DEF Held
  <2>4. Empty'
    BY <1>1, <1>8, <2>1 DEF Empty
  <2>5. QED
    BY <2>2, <2>3, <2>4
<1>12. Registers'
  <2>1. \A s2 \in Sessions : \A j \in 1..Length :
          At(s2, j) \in {"waiting", "confirmed"} /\ Kind(s2, j) = "subscribe" => At(s2, j)' \in {"waiting", "confirmed"}
    BY <1>9
  <2>2. QED
    BY <1>1, <1>3, <1>4, <2>1, RegistersKeep
<1>13. Commands' /\ Gone'
  <2>1. \A s2 \in Sessions : \A i2 \in Tasks : At(s2, i2) = "waiting" => At(s2, i2)' = "waiting" /\ Sub(s2, i2)' = Sub(s2, i2)
    BY <1>3
  <2>2. QED
    BY <1>1, <2>1, AnswersKeep
<1>14. Calm' /\ Current' /\ Cleaned'
  <2>1. Calm /\ Current /\ Cleaned
    BY DEF IInv
  <2>2. Calm'
    BY <1>1, <1>9, <2>1 DEF Calm, Without
  <2>3. Current'
    BY <1>1, <1>8, <1>9, <2>1 DEF Current, Without
  <2>4. Cleaned'
    BY <1>1, <1>8, <2>1 DEF Cleaned, Without
  <2>5. QED
    BY <2>2, <2>3, <2>4
<1>15. Owners'
  <2>1. ASSUME NEW v \in Wrapper, Owned(v)
        PROVE  Owned(v)'
    <3>1. v.callback \in Callbacks /\ v.callback[1] \in Sessions /\ v.callback # NULL
      BY CallbackIs DEF Wrapper
    <3>2. \A j \in Tasks : Sub(v.callback[1], j) = v.callback /\ At(v.callback[1], j) \in {"leaving", "waiting"}
            => Sub(v.callback[1], j)' = v.callback /\ At(v.callback[1], j)' \in {"leaving", "waiting"}
      BY <1>3, <3>1
    <3>3. QED
      BY <1>1, <2>1, <3>2 DEF Owned
  <2>2. Owners
    BY DEF IInv
  <2>3. QED
    BY <1>1, <2>1, <2>2 DEF Owners, ToCome, Without
<1>16. Heard' /\ Confirmed'
  <2>1. Heard /\ Confirmed
    BY DEF IInv
  <2>2. Heard'
    BY <1>1, <1>8, <1>9, <2>1 DEF Heard, Without
  <2>3. subs[s][About(s, i)][2] # NULL
    <3>1. subs[s][About(s, i)] \in Callbacks
      BY <1>1, <1>5 DEF Types
    <3>2. QED
      BY <1>2, <3>1, CallbackIs
  <2>4. Confirmed'
    <3>1. SUFFICES ASSUME Without({"overlap"}), NEW s2 \in Sessions, NEW j \in 1..Length,
                          At(s2, 0) = "loop", At(s2, j)' = "confirmed"
                   PROVE  (\/ subs[s2][About(s2, j)] # NULL /\ lock[s2] # subs[s2][About(s2, j)][2]
                           \/ \E k \in 1..Length : /\ At(s2, k) # "unsent" /\ Kind(s2, k) = "unsubscribe"
                                                   /\ About(s2, k) = About(s2, j) /\ k > j)'
      BY <1>1, <1>8 DEF Confirmed, Without
    <3>2. CASE s2 = s /\ j = i
      BY <1>1, <2>3, <3>2
    <3>3. CASE At(s2, j) = "confirmed"
      <4>1. UNCHANGED <<subs, lock, events>>
        BY <1>1
      <4>2. QED
        BY <1>9, <2>1, <3>1, <3>3, <4>1 DEF Confirmed
    <3>4. QED
      BY <1>9, <3>1, <3>2, <3>3
  <2>5. QED
    BY <2>2, <2>4
<1>17. QED
  BY <1>4, <1>10, <1>11, <1>12, <1>13, <1>14, <1>15, <1>16 DEF IInv

\* The topic has none: one is registered, under the lock.
LEMMA NewKeeps ==
  ASSUME IInv, NEW s \in Sessions, NEW i \in 1..Length, At(s, i) = "accepting", lock[s] = NULL,
         subs[s][About(s, i)] = NULL, Goes(s, i, "waiting"),
         subs' = [subs EXCEPT ![s][About(s, i)] = <<s, i>>], lock' = [lock EXCEPT ![s] = i],
         Put("subscribe", [topic |-> About(s, i), callback |-> <<s, i>>], <<s, i>>),
         events' = IF At(s, 0) \in {"loop", "closing"} THEN events ELSE [events EXCEPT !.seen = @ \cup {"late"}],
         UNCHANGED <<conn, wrappers, listens, done, calls, todo>>
  PROVE  IInv'
<1>1. /\ Types /\ Ways /\ i \in Tasks /\ i # 0 /\ <<s, i>> \in Callbacks /\ <<s, i>> # NULL
      /\ Length \in Nat /\ 1..Length \subseteq Tasks /\ 0 \in Tasks /\ 0 \notin 1..Length /\ NULL \notin 1..Length
      /\ <<s, i>> \in Waiters
  BY CallbackIs DEF IInv
<1>2. Kind(s, i) = "subscribe" /\ Sub(s, i) = NULL /\ About(s, i) \in Topics /\ i \in DOMAIN Script(s)
  <2>1. Way(s, i)
    BY <1>1 DEF Ways
  <2>2. Kind(s, i) = "subscribe" /\ Sub(s, i) = NULL
    BY <2>1 DEF Way
  <2>3. QED
    BY <1>1, <2>2, ReceivedIs
<1>3. PICK t0 \in Topics : t0 = About(s, i)
  BY <1>2
<1>4. /\ task' \in [Sessions -> [Tasks -> [at : Places, sub : Callbacks \cup {NULL}]]]
      /\ \A s2 \in Sessions : \A i2 \in Tasks :
           /\ At(s2, i2)' = IF s2 = s /\ i2 = i THEN "waiting" ELSE At(s2, i2)
           /\ Sub(s2, i2)' = Sub(s2, i2)
  <2>1. "waiting" \in Places
    BY DEF Places
  <2>2. QED
    BY <1>1, <2>1, GoesIs
<1>5. /\ subs' \in [Sessions -> [Topics -> Callbacks \cup {NULL}]]
      /\ \A s2 \in Sessions : \A t \in Topics : subs'[s2][t] = IF s2 = s /\ t = t0 THEN <<s, i>> ELSE subs[s2][t]
      /\ \A s2 \in Sessions : s2 # s => subs'[s2] = subs[s2]
  <2>1. subs' = [subs EXCEPT ![s][t0] = <<s, i>>]
    BY <1>3
  <2>2. subs \in [Sessions -> [Topics -> Callbacks \cup {NULL}]]
    BY <1>1 DEF Types
  <2>3. PICK cb \in Callbacks : cb = <<s, i>>
    BY <1>1
  <2>4. subs' = [subs EXCEPT ![s][t0] = cb]
    BY <2>1, <2>3
  <2>5. /\ subs' \in [Sessions -> [Topics -> Callbacks \cup {NULL}]]
        /\ \A s2 \in Sessions : \A t \in Topics : subs'[s2][t] = IF s2 = s /\ t = t0 THEN cb ELSE subs[s2][t]
        /\ \A s2 \in Sessions : s2 # s => subs'[s2] = subs[s2]
    <3>1. subs[s] \in [Topics -> Callbacks \cup {NULL}]
      BY <2>2
    <3>2. PICK row \in [Topics -> Callbacks \cup {NULL}] : row = [subs[s] EXCEPT ![t0] = cb]
      BY <3>1
    <3>3. \A t \in Topics : row[t] = IF t = t0 THEN cb ELSE subs[s][t]
      BY <3>1, <3>2
    <3>4. subs' = [subs EXCEPT ![s] = row]
      BY <2>2, <2>4, <3>2
    <3>5. QED
      BY <2>2, <3>3, <3>4
  <2>6. QED
    BY <2>3, <2>5
<1>6. /\ lock' \in [Sessions -> (1..Length) \cup {NULL}]
      /\ \A s2 \in Sessions : lock'[s2] = IF s2 = s THEN i ELSE lock[s2]
  BY <1>1 DEF Types
<1>7. /\ events' \in [script : [Sessions -> Seq(Message)], left : [Events -> Nat], seen : SUBSET {"overlap", "late"}]
      /\ events'.script = events.script /\ events.seen \subseteq events'.seen
      /\ At(s, 0) \notin {"loop", "closing"} => "late" \in events'.seen
  BY <1>1 DEF Types
<1>8. PICK w \in Wrapper : w = [topic |-> t0, callback |-> <<s, i>>]
  BY <1>1 DEF Wrapper
<1>9. Put("subscribe", w, <<s, i>>)
  BY <1>3, <1>8
<1>10. queue' \in Seq(Command)
  BY <1>1, <1>9, PutIs
<1>11. Types'
  BY <1>1, <1>4, <1>5, <1>6, <1>7, <1>10 DEF Types
<1>12. At(s, i)' = "waiting" /\ Sub(s, i)' = NULL
  BY <1>1, <1>2, <1>4
<1>13. \A s2 \in Sessions : \A i2 \in Tasks :
         s2 # s \/ i2 # i => At(s2, i2)' = At(s2, i2) /\ Sub(s2, i2)' = Sub(s2, i2)
  BY <1>4
<1>14. \A s2 \in Sessions : At(s2, 0)' = At(s2, 0)
  BY <1>1, <1>4
<1>15. \A s2 \in Sessions : \A j \in 1..Length :
         /\ Sub(s2, j)' = Sub(s2, j)
         /\ At(s2, j)' \in {"leaving", "waiting"} => At(s2, j) \in {"leaving", "waiting"} \/ (s2 = s /\ j = i)
         /\ At(s2, j) \in {"leaving", "waiting"} => At(s2, j)' \in {"leaving", "waiting"}
         /\ At(s2, j)' = "unsent" <=> At(s2, j) = "unsent"
         /\ At(s2, j)' = "confirmed" <=> At(s2, j) = "confirmed"
  BY <1>1, <1>4
<1>16. Ways'
  <2>1. Way(s, i)' /\ At(s, i)' # "unsent" /\ At(s, i) # "unsent"
    BY <1>2, <1>7, <1>12 DEF Way
  <2> HIDE DEF At, Sub
  <2>2. QED
    BY <1>1, <1>7, <1>13, <2>1, WaysKeep
<1>17. Locks' /\ Held' /\ Empty'
  <2>1. Locks /\ Held /\ Empty
    BY DEF IInv
  <2>2. Locks'
    <3>1. ASSUME NEW s2 \in Sessions, NEW j \in 1..Length
          PROVE  lock'[s2] = j <=> At(s2, j)' = "waiting" /\ Sub(s2, j)' = NULL
      <4>1. CASE s2 = s /\ j = i
        BY <1>6, <1>12, <4>1
      <4>2. CASE s2 = s /\ j # i
        <5>1. lock[s] # j /\ lock'[s] # j
          BY <1>1, <1>6, <4>2
        <5>2. QED
          BY <1>1, <1>13, <2>1, <4>2, <5>1 DEF Locks
      <4>3. CASE s2 # s
        BY <1>1, <1>6, <1>13, <2>1, <4>3 DEF Locks
      <4>4. QED
        BY <4>1, <4>2, <4>3
    <3>2. QED
      BY <3>1 DEF Locks
  <2>3. Held'
    <3>1. ASSUME NEW s2 \in Sessions, NEW j \in 1..Length, lock'[s2] = j
          PROVE  subs'[s2][About(s2, j)] = <<s2, j>>
      <4>1. CASE s2 = s
        <5>1. j = i
          BY <1>6, <3>1, <4>1
        <5>2. subs'[s][t0] = <<s, i>>
          BY <1>5
        <5>3. QED
          BY <1>3, <4>1, <5>1, <5>2
      <4>2. CASE s2 # s
        <5>1. subs'[s2] = subs[s2] /\ lock[s2] = j
          BY <1>5, <1>6, <3>1, <4>2
        <5>2. subs[s2][About(s2, j)] = <<s2, j>>
          BY <2>1, <5>1 DEF Held
        <5>3. QED
          BY <5>1, <5>2, Zenon
      <4>3. QED
        BY <4>1, <4>2, Zenon
    <3>2. events'.script = events.script
      BY <1>7
    <3>3. QED
      BY <3>1, <3>2, Zenon DEF Held
  <2>4. Empty'
    BY <1>14, <2>1 DEF Empty
  <2>5. QED
    BY <2>2, <2>3, <2>4
<1>18. Registers'
  <2>1. \A s2 \in Sessions : \A j \in 1..Length :
          At(s2, j) \in {"waiting", "confirmed"} /\ Kind(s2, j) = "subscribe" => At(s2, j)' \in {"waiting", "confirmed"}
    BY <1>12, <1>13, <1>1
  <2>2. ASSUME NEW s2 \in Sessions, NEW t \in Topics
        PROVE  subs'[s2][t] = NULL \/ subs'[s2][t] = subs[s2][t] \/ Registered(s2, t, subs[s2][t])'
    <3>1. PICK cb \in Callbacks : cb = <<s, i>>
      BY <1>1
    <3>2. Registered(s, t0, cb)'
      BY <1>2, <1>3, <1>7, <1>12, <3>1 DEF Registered
    <3>3. CASE s2 = s /\ t = t0
      <4>1. subs'[s2][t] = cb
        BY <1>5, <3>1, <3>3
      <4>2. QED
        BY <3>2, <3>3, <4>1
    <3>4. CASE ~(s2 = s /\ t = t0)
      BY <1>5, <3>4
    <3>5. QED
      BY <3>3, <3>4
  <2>3. /\ \A s2 \in Sessions : \A cb \in todo'[s2] : cb \in todo[s2]
        /\ \A s2 \in Sessions : \A j \in Tasks : Sub(s2, j)' = Sub(s2, j)
        /\ \A v \in wrappers' : v \in wrappers
    BY <1>4
  <2> HIDE DEF At, Sub
  <2>4. QED
    BY <1>7, <1>11, <2>1, <2>2, <2>3, RegistersKeep
<1>19. Commands' /\ Gone' /\ \A v : ToCome(v)' <=> ToCome(v) \/ v = w
  <2>1. CommandOf(s, i)' = [action |-> "subscribe", of |-> w, by |-> <<s, i>>]
    BY <1>3, <1>7, <1>8, <1>12 DEF CommandOf
  <2>2. At(s, i) # "waiting" /\ At(s, w.callback[2]) \notin {"waiting", "confirmed"} /\ w.callback[1] = s
    BY <1>8
  <2> HIDE DEF At, Sub
  <2>3. QED
    BY <1>1, <1>7, <1>9, <1>12, <1>13, <2>1, <2>2, PutKeeps
\* No subscription is of this message yet.
<1>20. ASSUME NEW s2 \in Sessions, NEW t \in Topics
       PROVE  subs[s2][t] # <<s, i>>
  <2>1. ASSUME subs[s2][t] = <<s, i>>
        PROVE  FALSE
    <3>1. Registered(s2, t, <<s, i>>)
      BY <1>1, <2>1 DEF IInv, Registers
    <3>2. QED
      BY <3>1 DEF Registered
  <2>2. QED
    BY <2>1
<1>21. Calm' /\ Current' /\ Cleaned'
  <2>1. Calm /\ Current /\ Cleaned
    BY DEF IInv
  <2>2. Calm'
    <3>1. Kind(s, i) # "unsubscribe"
      BY <1>2
    <3>2. Without({"overlap"})' => Without({"overlap"})
      BY <1>7 DEF Without
    <3>3. ASSUME Without({"overlap"}), NEW s2 \in Sessions, NEW k \in 1..Length, NEW j \in 1..Length,
                 At(s2, k)' # "unsent", Kind(s2, k) # "say", At(s2, j)' \in {"leaving", "waiting"},
                 Kind(s2, j) = "unsubscribe", About(s2, k) = About(s2, j)
          PROVE  k <= j
      <4>1. At(s2, k) # "unsent" /\ At(s2, j) \in {"leaving", "waiting"}
        BY <1>15, <3>1, <3>3
      <4>2. QED
        BY <2>1, <3>3, <4>1 DEF Calm
    <3>4. QED
      BY <1>7, <3>2, <3>3 DEF Calm
  <2>3. Current'
    <3>7. Without({"overlap"})' => Without({"overlap"})
      BY <1>7 DEF Without
    <3>1. SUFFICES ASSUME Without({"overlap"}), NEW s2 \in Sessions, NEW j \in 1..Length,
                          At(s2, 0) \in {"loop", "closing"}, At(s2, j)' \in {"leaving", "waiting"}, Sub(s2, j) # NULL
                   PROVE  subs'[s2][About(s2, j)] = Sub(s2, j)
      <4>1. ASSUME Without({"overlap"}), NEW s2 \in Sessions, NEW j \in 1..Length,
                   At(s2, 0)' \in {"loop", "closing"}, At(s2, j)' \in {"leaving", "waiting"}, Sub(s2, j)' # NULL
            PROVE  subs'[s2][About(s2, j)] = Sub(s2, j)'
        <5>1. At(s2, 0)' = At(s2, 0) /\ Sub(s2, j)' = Sub(s2, j)
          BY <1>14, <1>15
        <5>2. QED
          BY <3>1, <4>1, <5>1
      <4>2. QED
        <5>1. events'.script = events.script
          BY <1>7
        <5>2. QED
          BY <3>7, <4>1, <5>1 DEF Current
    <3>2. At(s2, j) \in {"leaving", "waiting"}
      BY <1>2, <1>15, <3>1
    <3>3. subs[s2][About(s2, j)] = Sub(s2, j)
      BY <2>1, <3>1, <3>2 DEF Current
    <3>4. About(s2, j) \in Topics
      BY <1>1, <3>2, ReceivedIs
    <3>5. ~(s2 = s /\ About(s2, j) = t0)
      BY <1>3, <3>1, <3>3
    <3>6. QED
      BY <1>5, <3>3, <3>4, <3>5
  <2>4. Cleaned'
    <3>1. SUFFICES ASSUME "late" \notin events'.seen, NEW s2 \in Sessions, At(s2, 0) \notin {"loop", "closing"}, NEW t \in Topics
                   PROVE  subs'[s2][t] = NULL
      BY <1>14 DEF Cleaned, Without
    <3>2. s2 # s
      BY <1>7, <3>1
    <3>3. subs[s2][t] = NULL
      BY <1>7, <2>1, <3>1 DEF Cleaned, Without
    <3>4. QED
      BY <1>5, <3>2, <3>3
  <2>5. QED
    BY <2>2, <2>3, <2>4
<1>22. Owners'
  <2>1. SUFFICES ASSUME Without({"overlap", "late"}), NEW v \in Wrapper, v \in wrappers \/ ToCome(v) \/ v = w
                 PROVE  Owned(v)'
    BY <1>7, <1>19 DEF Owners, Without
  <2>2. CASE v = w
    <3>1. subs'[s][t0] = <<s, i>>
      BY <1>5
    <3>2. QED
      BY <1>8, <2>2, <3>1 DEF Owned
  <2>3. CASE v \in wrappers \/ ToCome(v)
    <3>1. Owned(v)
      BY <2>1, <2>3 DEF IInv, Owners
    <3>2. v.callback \in Callbacks /\ v.callback[1] \in Sessions /\ v.callback # NULL /\ v.topic \in Topics
      BY CallbackIs DEF Wrapper
    <3>3. \A j \in Tasks : Sub(v.callback[1], j) = v.callback /\ At(v.callback[1], j) \in {"leaving", "waiting"}
            => Sub(v.callback[1], j)' = v.callback /\ At(v.callback[1], j)' \in {"leaving", "waiting"}
      BY <1>4, <3>2
    <3>4. subs[v.callback[1]][v.topic] = v.callback => subs'[v.callback[1]][v.topic] = v.callback
      BY <1>3, <1>5, <3>2
    <3>5. QED
      BY <3>1, <3>3, <3>4, Zenon DEF Owned
  <2>4. QED
    BY <2>1, <2>2, <2>3
<1>23. Heard'
  <2>1. SUFFICES ASSUME Without({"overlap"}), NEW s2 \in Sessions, NEW t \in Topics, At(s2, 0) = "loop", subs'[s2][t] # NULL
                 PROVE  (\/ [topic |-> t, callback |-> subs[s2][t]] \in wrappers
                         \/ lock[s2] = subs[s2][t][2] /\ subs[s2][t] \notin done
                         \/ \E j \in 1..Length : At(s2, j) \in {"leaving", "waiting"} /\ Sub(s2, j) = subs[s2][t])'
    <3>1. Without({"overlap"})' => Without({"overlap"})
      BY <1>7 DEF Without
    <3>2. QED
      BY <1>14, <2>1, <3>1 DEF Heard
  <2>2. CASE s2 = s /\ t = t0
    <3>1. <<s, i>> \notin done
      BY <1>1 DEF IInv, Commands
    <3>2. subs'[s2][t] = <<s, i>> /\ lock'[s2] = i
      BY <1>5, <1>6, <2>2
    <3>3. QED
      BY <3>1, <3>2
  <2>3. CASE ~(s2 = s /\ t = t0)
    <3>1. subs'[s2][t] = subs[s2][t] /\ UNCHANGED <<wrappers, done>>
      BY <1>5, <2>3
    <3>2. s2 = s => lock[s2] # subs[s2][t][2]
      <4>1. subs[s2][t] \in Callbacks
        BY <1>1, <2>1, <3>1 DEF Types
      <4>2. QED
        BY <1>1, <4>1, CallbackIs
    <3>3. s2 # s => lock'[s2] = lock[s2]
      BY <1>6
    <3>4. CASE [topic |-> t, callback |-> subs[s2][t]] \in wrappers
      BY <3>1, <3>4
    <3>5. CASE lock[s2] = subs[s2][t][2] /\ subs[s2][t] \notin done
      BY <3>1, <3>2, <3>3, <3>5
    <3>6. CASE \E j \in 1..Length : At(s2, j) \in {"leaving", "waiting"} /\ Sub(s2, j) = subs[s2][t]
      BY <1>15, <3>1, <3>6
    <3>7. QED
      BY <2>1, <3>1, <3>4, <3>5, <3>6 DEF IInv, Heard
  <2>4. QED
    BY <2>2, <2>3
<1>24. Confirmed'
  <2>5. SUFFICES ASSUME Without({"overlap"}), NEW s2 \in Sessions, NEW j \in 1..Length,
                        At(s2, 0)' = "loop", At(s2, j)' = "confirmed"
                 PROVE  (\/ subs[s2][About(s2, j)] # NULL /\ lock[s2] # subs[s2][About(s2, j)][2]
                         \/ \E k \in 1..Length : /\ At(s2, k) # "unsent" /\ Kind(s2, k) = "unsubscribe"
                                                 /\ About(s2, k) = About(s2, j) /\ k > j)'
    <3>1. Without({"overlap"})' => Without({"overlap"})
      BY <1>7 DEF Without
    <3>2. QED
      BY <3>1 DEF Confirmed
  <2>1. Without({"overlap"}) /\ At(s2, 0) = "loop" /\ At(s2, j) = "confirmed"
    BY <1>14, <1>15, <2>5
  <2>2. CASE \E k \in 1..Length : At(s2, k) # "unsent" /\ Kind(s2, k) = "unsubscribe" /\ About(s2, k) = About(s2, j) /\ k > j
    BY <1>7, <1>15, <2>2, Zenon
  <2>3. CASE subs[s2][About(s2, j)] # NULL /\ lock[s2] # subs[s2][About(s2, j)][2]
    <3>1. About(s2, j) \in Topics
      BY <1>1, <2>1, ReceivedIs
    <3>2. subs'[s2][About(s2, j)] = subs[s2][About(s2, j)]
      BY <1>3, <1>5, <2>3, <3>1
    <3>3. PICK cb \in Callbacks : cb = subs[s2][About(s2, j)]
      BY <1>1, <2>3, <3>1 DEF Types
    <3>4. lock'[s2] # cb[2]
      <4>1. CASE s2 = s
        <5>1. cb # <<s, i>>
          BY <1>20, <3>1, <3>3
        <5>2. Registered(s2, About(s2, j), cb)
          BY <2>3, <3>1, <3>3, Zenon DEF IInv, Registers
        <5>3. cb = <<s, cb[2]>>
          BY <4>1, <5>2, RegisteredIs
        <5>4. QED
          BY <1>6, <4>1, <5>1, <5>3
      <4>2. CASE s2 # s
        BY <1>6, <2>3, <3>3, <4>2
      <4>3. QED
        BY <4>1, <4>2
    <3>5. QED
      BY <1>7, <2>3, <3>2, <3>3, <3>4, Zenon
  <2>4. QED
    BY <2>1, <2>2, <2>3, Zenon DEF IInv, Confirmed
<1>25. QED
  BY <1>11, <1>16, <1>17, <1>18, <1>19, <1>21, <1>22, <1>23, <1>24 DEF IInv

LEMMA SubscribeToKeeps ==
  ASSUME IInv, NEW s \in Sessions, NEW i \in 1..Length, SubscribeTo(s, i)
  PROVE  IInv'
<1>1. At(s, i) = "accepting" /\ lock[s] = NULL /\ UNCHANGED todo
  BY DEF SubscribeTo
<1>2. CASE /\ subs[s][About(s, i)] # NULL /\ Goes(s, i, "confirmed")
           /\ UNCHANGED <<adapter, subs, lock, events>>
  BY <1>1, <1>2, AgainKeeps
<1>3. CASE /\ subs[s][About(s, i)] = NULL /\ Goes(s, i, "waiting")
           /\ subs' = [subs EXCEPT ![s][About(s, i)] = <<s, i>>]
           /\ lock' = [lock EXCEPT ![s] = i]
           /\ Put("subscribe", [topic |-> About(s, i), callback |-> <<s, i>>], <<s, i>>)
           /\ events' = IF At(s, 0) \in {"loop", "closing"} THEN events
                        ELSE [events EXCEPT !.seen = @ \cup {"late"}]
           /\ UNCHANGED <<conn, wrappers, listens, done, calls>>
  BY <1>1, <1>3, NewKeeps, Zenon
<1>4. QED
  BY <1>2, <1>3 DEF SubscribeTo

\* What the message loop does with the next message.
LEMMA ReceiveIs ==
  ASSUME IInv, NEW s \in Sessions, Receive(s)
  PROVE  \E i \in 1..Length : \E sub \in Callbacks \cup {NULL} :
           /\ At(s, 0) = "loop" /\ At(s, i) = "unsent" /\ i \in DOMAIN Script(s) /\ About(s, i) \in Topics
           /\ Kind(s, i) \in {"subscribe", "unsubscribe", "say"}
           /\ i <= Len(Script(s)) /\ \A j \in 1..Length : At(s, j) # "unsent" <=> j < i
           /\ Becomes(s, i, First[Kind(s, i)], sub)
           /\ sub = IF Kind(s, i) = "unsubscribe" THEN subs[s][About(s, i)] ELSE NULL
           /\ events' = IF Kind(s, i) # "say" /\ Leaving(s, About(s, i)) # {}
                        THEN [events EXCEPT !.seen = @ \cup {"overlap"}] ELSE events
<1>1. Types /\ Ways /\ Script(s) \in Seq(Message) /\ Length \in Nat
  BY CallbackIs DEF IInv, Types
<1>2. PICK k \in 0..Len(Script(s)) : \A j \in 1..Length : At(s, j) # "unsent" <=> j <= k
  BY <1>1 DEF Ways
<1>3. DOMAIN Script(s) = 1..Len(Script(s)) /\ Len(Script(s)) \in 0..Length /\ k \in Nat
  BY <1>1, <1>2, LenProperties DEF Types
<1>4. Received(s) = 1..k
  <2>1. \A x : x \in Received(s) <=> x \in 1..Len(Script(s)) /\ At(s, x) # "unsent"
    BY <1>3 DEF Received
  <2>2. \A x : x \in 1..Len(Script(s)) => x \in 1..Length
    BY <1>1, <1>3
  <2>3. \A x : x \in 1..k => x \in 1..Len(Script(s)) /\ x <= k
    BY <1>2, <1>3
  <2>4. \A x : x \in 1..Length /\ x <= k => x \in 1..k
    BY <1>1, <1>3
  <2> HIDE DEF At, Script
  <2>5. QED
    BY <1>2, <2>1, <2>2, <2>3, <2>4
<1>5. Cardinality(Received(s)) = k
  BY <1>3, <1>4, FS_Interval
<1>6. PICK i : i = k + 1
  OBVIOUS
<1>7. /\ At(s, 0) = "loop" /\ i \in DOMAIN Script(s)
      /\ task' = [task EXCEPT ![s][i] =
                    [at |-> First[Kind(s, i)],
                     sub |-> IF Kind(s, i) = "unsubscribe" THEN subs[s][About(s, i)] ELSE NULL]]
      /\ events' = IF Kind(s, i) # "say" /\ Leaving(s, About(s, i)) # {}
                   THEN [events EXCEPT !.seen = @ \cup {"overlap"}] ELSE events
  BY <1>5, <1>6 DEF Receive
<1>8. i \in 1..Len(Script(s)) /\ i \in 1..Length /\ i <= Len(Script(s))
  <2>1. i \in DOMAIN Script(s)
    BY <1>7
  <2>2. i \in 1..Len(Script(s))
    BY <1>3, <2>1
  <2>3. QED
    BY <1>1, <1>3, <2>2
<1>9. /\ About(s, i) \in Topics /\ Kind(s, i) \in {"subscribe", "unsubscribe", "say"}
  BY <1>1, <1>8, MessageIs
<1>10. PICK sub : sub = IF Kind(s, i) = "unsubscribe" THEN subs[s][About(s, i)] ELSE NULL
  OBVIOUS
<1>11. sub \in Callbacks \cup {NULL}
  BY <1>1, <1>9, <1>10 DEF Types
<1>12. Becomes(s, i, First[Kind(s, i)], sub)
  BY <1>7, <1>10 DEF Becomes
<1>13. \A j \in 1..Length : At(s, j) # "unsent" <=> j < i
  BY <1>1, <1>2, <1>3, <1>6
<1>14. At(s, i) = "unsent"
  BY <1>8, <1>13
<1>15. QED
  BY <1>7, <1>8, <1>9, <1>10, <1>11, <1>12, <1>13, <1>14, Zenon

LEMMA ReceiveKeeps ==
  ASSUME IInv, NEW s \in Sessions, Receive(s)
  PROVE  IInv'
<1>1. /\ Types /\ Ways /\ Length \in Nat /\ 1..Length \subseteq Tasks /\ 0 \in Tasks /\ 0 \notin 1..Length
      /\ UNCHANGED <<conn, wrappers, listens, queue, done, calls, subs, lock, todo>>
  BY CallbackIs DEF IInv, Receive, adapter
<1>2. PICK i \in 1..Length, sub \in Callbacks \cup {NULL} :
        /\ At(s, 0) = "loop" /\ At(s, i) = "unsent" /\ i \in DOMAIN Script(s) /\ About(s, i) \in Topics
        /\ Kind(s, i) \in {"subscribe", "unsubscribe", "say"}
        /\ i <= Len(Script(s)) /\ \A j \in 1..Length : At(s, j) # "unsent" <=> j < i
        /\ Becomes(s, i, First[Kind(s, i)], sub)
        /\ sub = IF Kind(s, i) = "unsubscribe" THEN subs[s][About(s, i)] ELSE NULL
        /\ events' = IF Kind(s, i) # "say" /\ Leaving(s, About(s, i)) # {}
                     THEN [events EXCEPT !.seen = @ \cup {"overlap"}] ELSE events
  <2> HIDE DEF At, Kind, About, Script
  <2>1. QED
    BY ReceiveIs
<1>3. PICK at : at = First[Kind(s, i)]
  OBVIOUS
<1>4. \/ Kind(s, i) = "subscribe" /\ at = "authorizing" /\ sub = NULL
      \/ Kind(s, i) = "unsubscribe" /\ at = "leaving" /\ sub = subs[s][About(s, i)]
      \/ Kind(s, i) = "say" /\ at = "speaking" /\ sub = NULL
  <2>1. First["subscribe"] = "authorizing" /\ First["unsubscribe"] = "leaving" /\ First["say"] = "speaking"
    BY DEF First
  <2>2. Kind(s, i) \in {"subscribe", "unsubscribe", "say"}
        /\ sub = IF Kind(s, i) = "unsubscribe" THEN subs[s][About(s, i)] ELSE NULL
    BY <1>2
  <2> HIDE DEF Kind, About
  <2>3. QED
    BY <1>3, <2>1, <2>2
<1>5. at \in Places /\ at \notin {"unsent", "waiting", "confirmed"}
  BY <1>4 DEF Places
<1>6. /\ task' \in [Sessions -> [Tasks -> [at : Places, sub : Callbacks \cup {NULL}]]]
      /\ \A s2 \in Sessions : \A i2 \in Tasks :
           /\ At(s2, i2)' = IF s2 = s /\ i2 = i THEN at ELSE At(s2, i2)
           /\ Sub(s2, i2)' = IF s2 = s /\ i2 = i THEN sub ELSE Sub(s2, i2)
  <2>1. Becomes(s, i, at, sub) /\ i \in Tasks
    BY <1>1, <1>2, <1>3
  <2>2. QED
    BY <1>1, <1>5, <2>1, BecomesIs
<1>7. /\ events' \in [script : [Sessions -> Seq(Message)], left : [Events -> Nat], seen : SUBSET {"overlap", "late"}]
      /\ events'.script = events.script /\ events.seen \subseteq events'.seen
      /\ Kind(s, i) # "say" /\ Leaving(s, About(s, i)) # {} => "overlap" \in events'.seen
  <2>1. events \in [script : [Sessions -> Seq(Message)], left : [Events -> Nat], seen : SUBSET {"overlap", "late"}]
    BY <1>1 DEF Types
  <2>2. QED
    BY <1>2, <2>1
<1>8. events'.script = events.script
  BY <1>7
<1>9. /\ Without({"overlap"})' => Without({"overlap"})
      /\ Without({"late"})' => Without({"late"})
      /\ Without({"overlap", "late"})' => Without({"overlap", "late"})
  BY <1>7 DEF Without
<1>10. Types'
  BY <1>1, <1>6, <1>7 DEF Types
<1>11. At(s, i)' = at /\ Sub(s, i)' = sub /\ i # 0
  BY <1>1, <1>6
<1>12. \A s2 \in Sessions : \A i2 \in Tasks :
         s2 # s \/ i2 # i => At(s2, i2)' = At(s2, i2) /\ Sub(s2, i2)' = Sub(s2, i2)
  BY <1>6
<1>13. \A s2 \in Sessions : At(s2, 0)' = At(s2, 0) /\ Sub(s2, 0)' = Sub(s2, 0)
  BY <1>1, <1>6
<1>14. \A s2 \in Sessions : \A j \in 1..Length :
         /\ At(s2, j) \in {"leaving", "waiting"} => At(s2, j)' \in {"leaving", "waiting"} /\ Sub(s2, j)' = Sub(s2, j)
         /\ At(s2, j)' = "waiting" <=> At(s2, j) = "waiting"
         /\ At(s2, j)' = "confirmed" <=> At(s2, j) = "confirmed"
         /\ At(s2, j) # "unsent" => At(s2, j)' = At(s2, j) /\ Sub(s2, j)' = Sub(s2, j)
  BY <1>1, <1>2, <1>5, <1>6, Zenon
<1>15. Ways'
  <2>1. ASSUME NEW s2 \in Sessions, NEW j \in 1..Length
        PROVE  Way(s2, j)'
    <3>1. CASE s2 = s /\ j = i
      <4>1. Way(s, i)'
        BY <1>4, <1>8, <1>11 DEF Way
      <4>2. QED
        BY <3>1, <4>1
    <3>2. CASE s2 # s \/ j # i
      <4>1. At(s2, j)' = At(s2, j) /\ Sub(s2, j)' = Sub(s2, j)
        BY <1>1, <1>12, <3>2
      <4>2. Way(s2, j)
        BY <1>1 DEF Ways
      <4>3. QED
        BY <1>8, <4>1, <4>2 DEF Way
    <3>3. QED
      BY <3>1, <3>2
  <2>2. ASSUME NEW s2 \in Sessions
        PROVE  \E k \in 0..Len(Script(s2)) : \A j \in 1..Length : At(s2, j)' # "unsent" <=> j <= k
    <3>1. CASE s2 = s
      <4>1. Len(Script(s)) \in Nat /\ i \in 0..Len(Script(s))
        <5>1. Script(s) \in Seq(Message)
          BY <1>1 DEF Types
        <5>2. i <= Len(Script(s)) /\ i \in Nat
          <6>1. i <= Len(Script(s))
            BY <1>2
          <6>2. QED
            BY <1>1, <6>1
        <5>3. QED
          BY <5>1, <5>2, LenProperties
      <4>2. \A j \in 1..Length : At(s, j)' # "unsent" <=> j <= i
        <5>1. \A j \in 1..Length : At(s, j) # "unsent" <=> j < i
          BY <1>2
        <5>2. At(s, i)' # "unsent"
          BY <1>5, <1>11
        <5>3. \A j \in 1..Length : j # i => At(s, j)' = At(s, j)
          BY <1>1, <1>12
        <5>4. \A j \in 1..Length : j <= i <=> j < i \/ j = i
          BY <1>1
        <5>5. QED
          BY <5>1, <5>2, <5>3, <5>4
      <4>3. QED
        BY <3>1, <4>1, <4>2
    <3>2. CASE s2 # s
      <4>1. \A j \in 1..Length : At(s2, j)' = At(s2, j)
        BY <1>1, <1>12, <3>2
      <4>2. QED
        <5>1. PICK k \in 0..Len(Script(s2)) : \A j \in 1..Length : At(s2, j) # "unsent" <=> j <= k
          BY <1>1 DEF Ways
        <5>2. QED
          BY <4>1, <5>1
    <3>3. QED
      BY <3>1, <3>2
  <2>3. QED
    BY <1>1, <1>8, <1>13, <2>1, <2>2 DEF Ways
<1>16. Locks' /\ Held' /\ Empty'
  <2>1. Locks /\ Held /\ Empty
    BY DEF IInv
  <2>2. Locks'
    BY <1>1, <1>14, <2>1 DEF Locks
  <2>3. Held'
    <3>1. UNCHANGED <<lock, subs>>
      BY <1>1
    <3>2. QED
      BY <1>8, <2>1, <3>1 DEF Held
  <2>4. Empty'
    BY <1>1, <1>13, <2>1 DEF Empty
  <2>5. QED
    BY <2>2, <2>3, <2>4
<1>17. Registers'
  <2>1. \A s2 \in Sessions : \A j \in 1..Length :
          At(s2, j) \in {"waiting", "confirmed"} /\ Kind(s2, j) = "subscribe" => At(s2, j)' \in {"waiting", "confirmed"}
    BY <1>14
  <2>2. \A s2 \in Sessions : \A j \in Tasks :
          \/ Sub(s2, j)' = NULL \/ Sub(s2, j)' = Sub(s2, j)
          \/ j # 0 /\ About(s2, j) \in Topics /\ Sub(s2, j)' = subs[s2][About(s2, j)]
    BY <1>2, <1>4, <1>6, <1>11, Zenon
  <2>3. /\ \A s2 \in Sessions : \A cb \in todo'[s2] : cb \in todo[s2]
        /\ \A s2 \in Sessions : \A t \in Topics : subs'[s2][t] = subs[s2][t]
        /\ \A v \in wrappers' : v \in wrappers
    BY <1>1
  <2> HIDE DEF At, Sub
  <2>4. QED
    BY <1>8, <1>10, <2>1, <2>2, <2>3, RegistersKeep
<1>18. Commands' /\ Gone'
  <2>1. \A s2 \in Sessions : \A i2 \in Tasks : At(s2, i2) = "waiting" => At(s2, i2)' = "waiting" /\ Sub(s2, i2)' = Sub(s2, i2)
    BY <1>2, <1>12
  <2>2. UNCHANGED <<queue, wrappers, done>>
    BY <1>1
  <2>3. QED
    BY <1>8, <2>1, <2>2, AnswersKeep
<1>19. Calm'
  <2>1. Calm
    BY DEF IInv
  <2>2. ASSUME Without({"overlap"})', NEW s2 \in Sessions, NEW k \in 1..Length, NEW j \in 1..Length,
               At(s2, k)' # "unsent", Kind(s2, k) # "say", At(s2, j)' \in {"leaving", "waiting"},
               Kind(s2, j) = "unsubscribe", About(s2, k) = About(s2, j)
        PROVE  k <= j
    <3>1. CASE s2 # s \/ (k # i /\ j # i)
      <4>1. At(s2, k) # "unsent" /\ At(s2, j) \in {"leaving", "waiting"}
        BY <1>1, <1>12, <2>2, <3>1
      <4>2. Without({"overlap"})
        BY <1>9, <2>2
      <4>3. QED
        BY <2>1, <2>2, <4>1, <4>2 DEF Calm
    <3>2. CASE s2 = s /\ k = i /\ j # i
      <4>1. At(s, j) \in {"leaving", "waiting"}
        BY <1>1, <1>12, <2>2, <3>2
      <4>2. j \in 1..Len(Script(s)) /\ j \in DOMAIN Script(s)
        BY <1>1, <4>1, ReceivedIs
      <4>3. Script(s)[j] \in Message
        <5>1. Script(s) \in Seq(Message)
          BY <1>1 DEF Types
        <5>2. QED
          BY <4>2, <5>1, ElementOfSeq
      <4>4. Script(s)[j] = [kind |-> "unsubscribe", topic |-> About(s, i)]
        BY <2>2, <3>2, <4>3 DEF Message
      <4>5. j \in Leaving(s, About(s, i))
        BY <4>1, <4>2, <4>4 DEF Leaving, Running, Received, Over
      <4>6. QED
        BY <1>7, <2>2, <3>2, <4>5 DEF Without
    <3>3. CASE s2 = s /\ j = i
      <4>1. k # i => k < i
        BY <1>1, <1>2, <1>12, <2>2, <3>3
      <4>2. QED
        BY <1>1, <3>3, <4>1
    <3>4. QED
      BY <3>1, <3>2, <3>3
  <2>3. QED
    BY <1>8, <2>2 DEF Calm
<1>20. Current' /\ Cleaned'
  <2>1. Current /\ Cleaned
    BY DEF IInv
  <2>2. Current'
    <3>1. ASSUME Without({"overlap"}), NEW s2 \in Sessions, NEW j \in 1..Length,
                 At(s2, 0) \in {"loop", "closing"}, At(s2, j)' \in {"leaving", "waiting"}, Sub(s2, j)' # NULL
          PROVE  subs[s2][About(s2, j)] = Sub(s2, j)'
      <4>1. CASE s2 = s /\ j = i
        BY <1>4, <1>11, <3>1, <4>1
      <4>2. CASE s2 # s \/ j # i
        <5>1. At(s2, j)' = At(s2, j) /\ Sub(s2, j)' = Sub(s2, j)
          BY <1>1, <1>12, <4>2
        <5>2. QED
          BY <2>1, <3>1, <5>1 DEF Current
      <4>3. QED
        BY <4>1, <4>2
    <3>2. UNCHANGED subs
      BY <1>1
    <3>3. QED
      BY <1>8, <1>9, <1>13, <3>1, <3>2 DEF Current
  <2>3. Cleaned'
    <3>1. UNCHANGED subs
      BY <1>1
    <3>2. QED
      BY <1>9, <1>13, <2>1, <3>1 DEF Cleaned
  <2>4. QED
    BY <2>2, <2>3
<1>21. Owners'
  <2>1. ASSUME NEW v \in Wrapper, Owned(v)
        PROVE  Owned(v)'
    <3>1. v.callback \in Callbacks /\ v.callback[1] \in Sessions /\ v.callback # NULL
      BY CallbackIs DEF Wrapper
    <3>2. \A j \in Tasks : Sub(v.callback[1], j) = v.callback /\ At(v.callback[1], j) \in {"leaving", "waiting"}
            => Sub(v.callback[1], j)' = v.callback /\ At(v.callback[1], j)' \in {"leaving", "waiting"}
      BY <1>2, <1>12, <3>1
    <3>3. QED
      BY <1>1, <2>1, <3>2 DEF Owned
  <2>2. Owners
    BY DEF IInv
  <2>3. UNCHANGED <<wrappers, queue>>
    BY <1>1
  <2>4. QED
    BY <1>9, <2>1, <2>2, <2>3 DEF Owners, ToCome
<1>22. Heard' /\ Confirmed'
  <2>1. Heard /\ Confirmed /\ UNCHANGED <<subs, lock, wrappers, done>>
    BY <1>1 DEF IInv
  <2>2. Heard'
    BY <1>9, <1>13, <1>14, <2>1 DEF Heard
  <2>3. Confirmed'
    BY <1>8, <1>9, <1>13, <1>14, <2>1 DEF Confirmed
  <2>4. QED
    BY <2>2, <2>3
<1>23. QED
  BY <1>10, <1>15, <1>16, <1>17, <1>18, <1>19, <1>20, <1>21, <1>22 DEF IInv

-----------------------------------------------------------------------------
(***************************************************************************)
(* The loop of the adapter works off the first command                     *)
(***************************************************************************)
LEMMA ProcessKeeps ==
  ASSUME IInv, queue # <<>>, queue' = Tail(queue),
         conn' \in {"up", "broken", "down", "opening"}, listens' \in SUBSET Wrapper,
         done \subseteq done', done' \subseteq done \cup {queue[1].by},
         UNCHANGED <<calls, task, subs, lock, todo, events>>,
         \/ queue[1].action = "subscribe" /\ wrappers' = wrappers \cup {queue[1].of}
         \/ queue[1].action = "unsubscribe" /\ wrappers' = wrappers \ {queue[1].of}
  PROVE  IInv'
<1>1. Types /\ Ways /\ Commands /\ Gone /\ Registers /\ 1..Length \subseteq Tasks /\ 0 \notin 1..Length
  BY CallbackIs DEF IInv
<1>2. /\ queue' \in Seq(Command) /\ Len(queue) \in Nat \ {0} /\ Len(queue') = Len(queue) - 1
      /\ queue[1] \in Command
      /\ \A j \in 1..Len(queue') : j + 1 \in 1..Len(queue) /\ queue'[j] = queue[j + 1]
  BY <1>1, TakeIs
<1>3. 1 \in 1..Len(queue) /\ \A j \in 1..Len(queue) : j = 1 \/ (j - 1 \in 1..Len(queue') /\ queue'[j - 1] = queue[j])
  <2>1. 1 \in 1..Len(queue)
    BY <1>2
  <2>2. ASSUME NEW j \in 1..Len(queue), j # 1
        PROVE  j - 1 \in 1..Len(queue') /\ queue'[j - 1] = queue[j]
    <3>1. j - 1 \in 1..Len(queue')
      BY <1>2, <2>2
    <3>2. queue'[j - 1] = queue[(j - 1) + 1] /\ (j - 1) + 1 = j
      BY <1>2, <3>1
    <3>3. QED
      BY <3>1, <3>2
  <2>3. QED
    BY <2>1, <2>2
<1>4. PICK of : of = queue[1].of
  OBVIOUS
<1>5. PICK s \in Sessions, i \in Tasks :
        /\ queue[1].by = <<s, i>> /\ At(s, i) = "waiting" /\ <<s, i>> \notin done
        /\ of \in Wrapper /\ Registered(s, of.topic, of.callback)
        /\ \/ /\ queue[1].action = "subscribe" /\ i # 0 /\ Sub(s, i) = NULL
              /\ of = [topic |-> About(s, i), callback |-> <<s, i>>]
           \/ /\ queue[1].action = "unsubscribe" /\ Sub(s, i) \in Callbacks
              /\ of = Listener(s, i, Sub(s, i))
  <2> HIDE DEF At, Sub, About
  <2>1. QED
    BY <1>3, <1>4, CommandIs
<1>6. of.callback \in Callbacks /\ of.callback[1] = s /\ of.topic \in Topics
  BY <1>5 DEF Wrapper, Registered
<1>7. /\ \A w : ToCome(w)' => ToCome(w)
      /\ \A w : ToCome(w) => ToCome(w)' \/ (queue[1].action = "subscribe" /\ w = of)
  <2>1. ASSUME NEW w, ToCome(w)'
        PROVE  ToCome(w)
    BY <1>2, <2>1 DEF ToCome
  <2>2. ASSUME NEW w, ToCome(w)
        PROVE  ToCome(w)' \/ (queue[1].action = "subscribe" /\ w = of)
    BY <1>3, <1>4, <2>2 DEF ToCome
  <2>3. QED
    BY <2>1, <2>2
<1>8. \/ queue[1].action = "subscribe" /\ wrappers' = wrappers \cup {of} /\ ToCome(of)
      \/ queue[1].action = "unsubscribe" /\ wrappers' = wrappers \ {of} /\ ~ToCome(of)'
  <2>1. CASE queue[1].action = "subscribe"
    BY <1>3, <1>4, <2>1 DEF ToCome
  <2>2. CASE queue[1].action = "unsubscribe"
    <3>1. ASSUME ToCome(of)'
          PROVE  FALSE
      <4>1. PICK j \in 1..Len(queue') : queue'[j].action = "subscribe" /\ queue'[j].of = of
        BY <3>1 DEF ToCome
      <4>2. PICK k \in 1..Len(queue) : k = j + 1 /\ queue[k].action = "subscribe" /\ queue[k].of = of
        BY <1>2, <4>1
      <4>3. 1 < k
        BY <1>2, <4>1, <4>2
      <4>4. QED
        BY <1>1, <1>3, <1>4, <2>2, <4>2, <4>3 DEF Gone
    <3>2. QED
      BY <1>4, <2>2, <3>1
  <2>3. QED
    BY <1>5, <2>1, <2>2
<1>9. Types'
  <2>1. wrappers' \in SUBSET Wrapper /\ done' \in SUBSET Waiters
    <3>1. queue[1].by \in Waiters
      BY <1>2 DEF Command
    <3>2. QED
      BY <1>1, <1>5, <1>8, <3>1 DEF Types
  <2>2. QED
    BY <1>1, <1>2, <2>1 DEF Types
<1>10. Ways' /\ Locks' /\ Held' /\ Empty' /\ Calm' /\ Current' /\ Cleaned' /\ Confirmed'
  <2>1. Ways /\ Locks /\ Held /\ Empty /\ Calm /\ Current /\ Cleaned /\ Confirmed
    BY DEF IInv
  <2>2. Ways'
    BY <2>1 DEF Ways, Way
  <2>3. Locks' /\ Held' /\ Empty'
    <3>1. Locks'
      BY <2>1 DEF Locks
    <3>2. Held'
      BY <2>1 DEF Held
    <3>3. Empty'
      BY <2>1 DEF Empty
    <3>4. QED
      BY <3>1, <3>2, <3>3
  <2>4. Calm' /\ Current' /\ Cleaned' /\ Confirmed'
    <3>1. Calm'
      BY <2>1 DEF Calm, Without
    <3>2. Current'
      BY <2>1 DEF Current, Without
    <3>3. Cleaned'
      BY <2>1 DEF Cleaned, Without
    <3>4. Confirmed'
      BY <2>1 DEF Confirmed, Without
    <3>5. QED
      BY <3>1, <3>2, <3>3, <3>4
  <2>5. QED
    BY <2>2, <2>3, <2>4
<1>11. Registers'
  <2>1. \A w \in wrappers' : w \in wrappers \/ Registered(w.callback[1], w.topic, w.callback)
    BY <1>5, <1>6, <1>8
  <2>2. QED
    BY <1>9, <2>1, RegistersKeep
<1>12. Commands'
  <2>1. ASSUME NEW j \in 1..Len(queue')
        PROVE  \E s2 \in Sessions : \E i2 \in Tasks :
                 At(s2, i2) = "waiting" /\ <<s2, i2>> \notin done' /\ queue'[j] = CommandOf(s2, i2)
    <3>1. PICK k \in 1..Len(queue) : k = j + 1 /\ queue'[j] = queue[k]
      BY <1>2
    <3>2. PICK s2 \in Sessions, i2 \in Tasks :
            At(s2, i2) = "waiting" /\ <<s2, i2>> \notin done /\ queue[k] = CommandOf(s2, i2)
      BY <1>1 DEF Commands
    <3>3. queue[k].by = <<s2, i2>>
      BY <3>2 DEF CommandOf
    <3>4. queue[k].by # queue[1].by
      <4>1. k # 1
        BY <1>2, <3>1
      <4>2. QED
        BY <1>1, <1>3, <4>1 DEF Commands
    <3>5. <<s2, i2>> \notin done'
      BY <3>2, <3>3, <3>4
    <3>6. QED
      BY <3>1, <3>2, <3>5
  <2>2. ASSUME NEW j \in 1..Len(queue'), NEW k \in 1..Len(queue'), queue'[j].by = queue'[k].by
        PROVE  j = k
    <3>1. queue[j + 1].by = queue[k + 1].by /\ j + 1 \in 1..Len(queue) /\ k + 1 \in 1..Len(queue)
      BY <1>2, <2>2
    <3>2. j + 1 = k + 1
      BY <1>1, <3>1 DEF Commands
    <3>3. QED
      BY <1>2, <3>2
  <2>3. \A s2 \in Sessions : \A i2 \in Tasks : <<s2, i2>> \in done' => At(s2, i2) = "waiting"
    BY <1>1, <1>5 DEF Commands
  <2>4. \A s2 \in Sessions : \A i2 \in Tasks : CommandOf(s2, i2)' = CommandOf(s2, i2) /\ At(s2, i2)' = At(s2, i2)
    BY DEF CommandOf, Listener
  <2>5. \A j \in 1..Len(queue') : \E s2 \in Sessions : \E i2 \in Tasks :
          At(s2, i2)' = "waiting" /\ <<s2, i2>> \notin done' /\ queue'[j] = CommandOf(s2, i2)'
    <3>1. ASSUME NEW j \in 1..Len(queue')
          PROVE  \E s2 \in Sessions : \E i2 \in Tasks :
                   At(s2, i2)' = "waiting" /\ <<s2, i2>> \notin done' /\ queue'[j] = CommandOf(s2, i2)'
      <4>1. PICK s2 \in Sessions, i2 \in Tasks :
              At(s2, i2) = "waiting" /\ <<s2, i2>> \notin done' /\ queue'[j] = CommandOf(s2, i2)
        BY <2>1
      <4>2. QED
        BY <2>4, <4>1
    <3>2. QED
      BY <3>1
  <2>6. \A s2 \in Sessions : \A i2 \in Tasks : <<s2, i2>> \in done' => At(s2, i2)' = "waiting"
    BY <2>3, <2>4
  <2> HIDE DEF At
  <2>7. QED
    BY <2>2, <2>5, <2>6 DEF Commands
<1>13. Gone'
  <2>1. ASSUME NEW s2 \in Sessions, NEW i2 \in Tasks, <<s2, i2>> \in done', Sub(s2, i2) # NULL
        PROVE  Listener(s2, i2, Sub(s2, i2)) \notin wrappers' /\ ~ToCome(Listener(s2, i2, Sub(s2, i2)))'
    <3>1. PICK v : v = Listener(s2, i2, Sub(s2, i2))
      OBVIOUS
    <3>2. v = Listener(s2, i2, Sub(s2, i2))'
      BY <3>1 DEF Listener
    <3>3. CASE <<s2, i2>> \in done
      <4>1. v \notin wrappers /\ ~ToCome(v)
        BY <1>1, <2>1, <3>1, <3>3 DEF Gone
      <4>2. v \notin wrappers' /\ ~ToCome(v)'
        BY <1>7, <1>8, <4>1
      <4>3. QED
        BY <3>1, <3>2, <4>2 DEF ToCome
    <3>4. CASE <<s2, i2>> = <<s, i>>
      <4>1. queue[1].action = "unsubscribe" /\ of = v
        BY <1>5, <2>1, <3>1, <3>4
      <4>2. v \notin wrappers' /\ ~ToCome(v)'
        BY <1>8, <4>1
      <4>3. QED
        BY <3>1, <3>2, <4>2 DEF ToCome
    <3>5. QED
      BY <1>5, <2>1, <3>3, <3>4
  <2>2. ASSUME NEW j \in 1..Len(queue'), NEW k \in 1..Len(queue'), j < k,
               queue'[j].action = "unsubscribe", queue'[k].action = "subscribe"
        PROVE  queue'[j].of # queue'[k].of
    <3>1. j + 1 \in 1..Len(queue) /\ k + 1 \in 1..Len(queue) /\ queue'[j] = queue[j + 1] /\ queue'[k] = queue[k + 1]
      BY <1>2
    <3>2. j + 1 < k + 1
      BY <1>2, <2>2
    <3>3. QED
      BY <1>1, <2>2, <3>1, <3>2 DEF Gone
  <2>3. UNCHANGED <<task, events>>
    OBVIOUS
  <2>4. \A s2 \in Sessions : \A i2 \in Tasks : Listener(s2, i2, Sub(s2, i2))' = Listener(s2, i2, Sub(s2, i2)) /\ Sub(s2, i2)' = Sub(s2, i2)
    BY <2>3 DEF Listener
  <2>5. ASSUME NEW s2 \in Sessions, NEW i2 \in Tasks, <<s2, i2>> \in done', Sub(s2, i2)' # NULL
        PROVE  (Listener(s2, i2, Sub(s2, i2)) \notin wrappers /\ ~ToCome(Listener(s2, i2, Sub(s2, i2))))'
    <3>1. PICK v : v = Listener(s2, i2, Sub(s2, i2)) /\ v = Listener(s2, i2, Sub(s2, i2))'
      BY <2>4
    <3>2. v \notin wrappers' /\ ~ToCome(v)'
      BY <2>1, <2>4, <2>5, <3>1 DEF ToCome
    <3>3. QED
      BY <3>1, <3>2 DEF ToCome
  <2>6. QED
    BY <2>2, <2>5 DEF Gone
<1>14. Owners'
  <2>1. Owners
    BY DEF IInv
  <2>2. \A w : w \in wrappers' \/ ToCome(w)' => w \in wrappers \/ ToCome(w)
    BY <1>7, <1>8
  <2>3. \A w : Owned(w) => Owned(w)'
    BY DEF Owned
  <2>4. QED
    BY <2>1, <2>2, <2>3 DEF Owners, Without
<1>15. Heard'
  <2>1. SUFFICES ASSUME Without({"overlap"}), NEW s2 \in Sessions, NEW t \in Topics, At(s2, 0) = "loop", subs[s2][t] # NULL
                 PROVE  (\/ [topic |-> t, callback |-> subs[s2][t]] \in wrappers
                         \/ lock[s2] = subs[s2][t][2] /\ subs[s2][t] \notin done
                         \/ \E j \in 1..Length : At(s2, j) \in {"leaving", "waiting"} /\ Sub(s2, j) = subs[s2][t])'
    BY DEF Heard, Without
  <2>2. PICK cb \in Callbacks : cb = subs[s2][t]
    BY <1>1, <2>1 DEF Types
  <2>3. Registered(s2, t, cb) /\ cb = <<s2, cb[2]>> /\ cb[2] \in 1..Length
    <3>1. Registered(s2, t, cb)
      BY <1>1, <2>1, <2>2 DEF Registers
    <3>2. QED
      BY <3>1, RegisteredIs
  <2>4. PICK v : v = [topic |-> t, callback |-> cb]
    OBVIOUS
  <2>5. CASE v \in wrappers
    <3>1. CASE v \in wrappers'
      BY <2>2, <2>4, <3>1
    <3>2. CASE v \notin wrappers'
      <4>1. v = of /\ queue[1].action = "unsubscribe"
        BY <1>8, <2>5, <3>2
      <4>2. cb = Sub(s, i) /\ s2 = s
        BY <1>5, <1>6, <2>3, <2>4, <4>1 DEF Listener, Registered
      <4>3. i \in 1..Length
        <5>1. i # 0
          BY <1>5, <2>1, <4>2
        <5>2. QED
          BY <5>1, CallbackIs
      <4>4. QED
        BY <1>5, <2>2, <4>2, <4>3
    <3>3. QED
      BY <3>1, <3>2
  <2>6. CASE lock[s2] = cb[2] /\ cb \notin done
    <3>1. CASE cb \notin done'
      BY <2>2, <2>6, <3>1
    <3>2. CASE cb \in done'
      <4>1. cb = <<s, i>>
        BY <1>5, <2>6, <3>2
      <4>2. s2 = s /\ i = cb[2] /\ i # 0 /\ i \in 1..Length
        BY <1>1, <2>3, <4>1
      <4>3. Kind(s, i) = "subscribe" /\ t = About(s, i)
        BY <2>3, <4>2 DEF Registered
      <4>4. Sub(s, i) = NULL
        <5>1. Way(s, i)
          BY <1>1, <4>2 DEF Ways
        <5>2. QED
          BY <1>5, <4>3, <5>1 DEF Way
      <4>5. of = v
        BY <1>5, <2>4, <4>1, <4>3, <4>4, CallbackIs
      <4>6. v \in wrappers'
        BY <1>5, <1>8, <4>4, <4>5, CallbackIs
      <4>7. QED
        BY <2>2, <2>4, <4>6
    <3>3. QED
      BY <3>1, <3>2
  <2>7. CASE \E j \in 1..Length : At(s2, j) \in {"leaving", "waiting"} /\ Sub(s2, j) = cb
    BY <2>2, <2>7
  <2>8. Heard
    BY DEF IInv
  <2>9. v \in wrappers \/ (lock[s2] = cb[2] /\ cb \notin done)
        \/ \E j \in 1..Length : At(s2, j) \in {"leaving", "waiting"} /\ Sub(s2, j) = cb
    BY <2>1, <2>2, <2>4, <2>8 DEF Heard
  <2>10. QED
    BY <2>5, <2>6, <2>7, <2>9
<1>16. QED
  BY <1>9, <1>10, <1>11, <1>12, <1>13, <1>14, <1>15 DEF IInv

-----------------------------------------------------------------------------
(***************************************************************************)
(* The invariant                                                           *)
(***************************************************************************)
LEMMA InitHolds == Init => IInv
<1>1. SUFFICES ASSUME Init
               PROVE  IInv
  OBVIOUS
<1>2. /\ conn = "up" /\ wrappers = {} /\ listens = {} /\ queue = <<>> /\ done = {} /\ calls = {}
      /\ subs = [s \in Sessions |-> [t \in Topics |-> NULL]] /\ lock = [s \in Sessions |-> NULL]
      /\ todo = [s \in Sessions |-> {}]
      /\ task = [s \in Sessions |-> [i \in Tasks |-> [at |-> IF i = 0 THEN "loop" ELSE "unsent", sub |-> NULL]]]
  BY <1>1 DEF Init, AdapterInit
<1>3. Length \in Nat /\ 0 \in Tasks /\ 1..Length \subseteq Tasks /\ 0 \notin 1..Length /\ NULL \notin 1..Length
  BY CallbackIs
<1>4. \A s \in Sessions : /\ At(s, 0) = "loop" /\ Sub(s, 0) = NULL
                          /\ \A i \in 1..Length : At(s, i) = "unsent" /\ Sub(s, i) = NULL
  BY <1>2, <1>3
<1>5. /\ events \in [script : [Sessions -> Seq(Message)], left : [Events -> Nat], seen : SUBSET {"overlap", "late"}]
      /\ \A s \in Sessions : Len(events.script[s]) <= Length
  <2>1. PICK start \in Starts : events = [script |-> start.script, left |-> start.left, seen |-> {}]
    BY <1>1 DEF Init
  <2>2. /\ start.left \in [Events -> Nat] /\ start.script \in [Sessions -> Seq(Message)]
        /\ \A s \in Sessions : Len(start.script[s]) <= Length
    BY <2>1, ChannelsAssumption
  <2>3. QED
    BY <2>1, <2>2
<1>6. Types
  <2>1. task \in [Sessions -> [Tasks -> [at : Places, sub : Callbacks \cup {NULL}]]]
    BY <1>2 DEF Places
  <2>2. queue \in Seq(Command) /\ {wrappers, listens} \subseteq SUBSET Wrapper /\ done \in SUBSET Waiters /\ calls \in SUBSET Wrapper
    BY <1>2
  <2>3. subs \in [Sessions -> [Topics -> Callbacks \cup {NULL}]] /\ lock \in [Sessions -> (1..Length) \cup {NULL}]
        /\ todo \in [Sessions -> SUBSET Callbacks]
    BY <1>2
  <2>4. QED
    BY <1>2, <1>5, <2>1, <2>2, <2>3 DEF Types
<1>7. Ways
  <2>1. ASSUME NEW s \in Sessions
        PROVE  \E k \in 0..Len(Script(s)) : \A i \in 1..Length : At(s, i) # "unsent" <=> i <= k
    <3>1. 0 \in 0..Len(Script(s))
      <4>1. Script(s) \in Seq(Message)
        BY <1>5
      <4>2. QED
        BY <4>1, LenProperties
    <3>2. \A i \in 1..Length : ~(i <= 0)
      BY <1>3
    <3>3. QED
      BY <1>4, <3>1, <3>2
  <2>2. QED
    BY <1>4, <2>1 DEF Ways, Way
<1>8. Locks /\ Held /\ Registers /\ Empty
  BY <1>2, <1>3, <1>4 DEF Locks, Held, Registers, Empty
<1>9. Commands /\ Gone
  BY <1>2, <1>3 DEF Commands, Gone
<1>10. Calm /\ Current /\ Cleaned /\ Heard /\ Confirmed
  BY <1>2, <1>4 DEF Calm, Current, Cleaned, Heard, Confirmed
<1>11. Owners
  BY <1>2 DEF Owners, ToCome
<1>12. QED
  BY <1>6, <1>7, <1>8, <1>9, <1>10, <1>11 DEF IInv

LEMMA NextKeeps == IInv /\ [Next]_vars => IInv'
<1>1. SUFFICES ASSUME IInv, [Next]_vars
               PROVE  IInv'
  OBVIOUS
<1>2. Types
  BY <1>1 DEF IInv
<1>3. CASE ProcessSubscribe /\ Idle /\ UNCHANGED events
  <2>1. queue # <<>> /\ Head(queue) = queue[1]
    BY <1>3 DEF ProcessSubscribe, Takes
  <2>2. queue[1] \in Command
    BY <1>2, <2>1, TakeIs DEF Types
  <2>3. /\ conn' \in {"up", "broken", "down", "opening"}
        /\ listens' \in SUBSET Wrapper
    BY <1>2, <1>3, <2>1, <2>2 DEF ProcessSubscribe, Types, Command
  <2>4. QED
    BY <1>1, <1>3, <2>1, <2>3, ProcessKeeps DEF ProcessSubscribe, Takes, Idle
<1>4. CASE ProcessUnsubscribe /\ Idle /\ UNCHANGED events
  <2>1. queue # <<>> /\ Head(queue) = queue[1]
    BY <1>4 DEF ProcessUnsubscribe, Takes
  <2>2. queue[1] \in Command
    BY <1>2, <2>1, TakeIs DEF Types
  <2>3. /\ conn' \in {"up", "broken", "down", "opening"}
        /\ listens' \in SUBSET Wrapper
    BY <1>2, <1>4, <2>1, <2>2 DEF ProcessUnsubscribe, Types, Command
  <2>4. QED
    BY <1>1, <1>4, <2>1, <2>3, ProcessKeeps DEF ProcessUnsubscribe, Takes, Idle
<1>5. CASE \/ Idle /\ (Reconnect \/ ListenAgain \/ \E w \in calls : Called(w)) /\ UNCHANGED events
           \/ Idle /\ Break /\ Occur("lose")
           \/ Idle /\ \E t \in Topics : Broadcast(t) /\ Occur("broadcast")
  BY <1>1, <1>5, AdapterKeeps
<1>6. ASSUME NEW s \in Sessions, Loop(s) \/ Close(s)
      PROVE  IInv'
  <2>1. CASE Receive(s)
    BY <1>1, <2>1, ReceiveKeeps
  <2>2. CASE Cleanup(s)
    BY <1>1, <2>2, CleanupKeeps
  <2>3. CASE StopNext(s)
    BY <1>1, <2>3, StopNextKeeps
  <2>4. CASE Removed(s, 0, "stopping")
    <3>1. PICK i \in Tasks : i = 0
      BY CallbackIs
    <3>2. Removed(s, i, "stopping")
      BY <2>4, <3>1
    <3>3. PICK at : at = "stopping"
      OBVIOUS
    <3>4. Removed(s, i, at) /\ i = 0
      BY <3>1, <3>2, <3>3
    <3> HIDE DEF Tasks
    <3>5. QED
      BY <1>1, <3>3, <3>4, RemovedKeeps
  <2>5. CASE Close(s)
    BY <1>1, <2>5, CloseKeeps
  <2>6. QED
    BY <1>6, <2>1, <2>2, <2>3, <2>4, <2>5 DEF Loop
<1>7. ASSUME NEW s \in Sessions, NEW i \in 1..Length, Task(s, i)
      PROVE  IInv'
  <2>1. CASE Authorize(s, i)
    BY <1>1, <2>1, AuthorizeKeeps
  <2>2. CASE SubscribeTo(s, i)
    BY <1>1, <2>2, SubscribeToKeeps
  <2>3. CASE Started(s, i)
    BY <1>1, <2>3, StartedKeeps
  <2>4. CASE Unsubscribe(s, i)
    BY <1>1, <2>4, UnsubscribeKeeps
  <2>5. CASE Removed(s, i, "left")
    <3>1. i \in Tasks /\ i # 0
      BY CallbackIs
    <3>2. QED
      BY <1>1, <2>5, <3>1, RemovedKeeps
  <2>6. CASE Speak(s, i)
    BY <1>1, <2>6, SpeakKeeps
  <2>7. QED
    BY <1>7, <2>1, <2>2, <2>3, <2>4, <2>5, <2>6 DEF Task
<1>8. CASE UNCHANGED vars
  BY <1>1, <1>2, <1>8, IdleKeeps DEF vars, Types
<1>9. QED
  BY <1>1, <1>3, <1>4, <1>5, <1>6, <1>7, <1>8 DEF Next, Adapter

LEMMA InvariantHolds == Spec => []IInv
BY InitHolds, NextKeeps, PTL DEF Spec

\* Every variable of the adapter and of the sessions keeps its shape.
THEOREM TypeCorrect == Spec => []TypeOK
<1>1. IInv => TypeOK
  <2>1. IInv => Types
    BY DEF IInv
  <2>2. Types => TypeOK
    BY DEF Types, TypeOK, AdapterTypeOK
  <2>3. QED
    BY <2>1, <2>2
<1>2. QED
  BY InvariantHolds, <1>1, PTL

\* Every callback that listens belongs to a subscription of its session, or to one that
\* is about to be stopped, unless messages overlap an unsubscribe or a subscription is
\* late: cleanup and unsubscribe leave nothing behind (base.py, cleanup and stop).
THEOREM EveryListenerHasAnOwnerHolds == Spec => []EveryListenerHasAnOwner
<1>1. IInv => EveryListenerHasAnOwner
  <2>1. ASSUME IInv, Without({"overlap", "late"}), NEW w \in wrappers
        PROVE  Owned(w)
    <3>1. w \in Wrapper
      BY <2>1 DEF IInv, Types
    <3>2. Owners
      BY <2>1 DEF IInv
    <3>3. QED
      BY <2>1, <3>1, <3>2 DEF Owners
  <2>2. QED
    BY <2>1 DEF EveryListenerHasAnOwner
<1>2. QED
  BY InvariantHolds, <1>1, PTL

(***************************************************************************)
(* An open connection has a listener for every callback: it is opened with *)
(* all of them, and gains and loses one with every command.                *)
(***************************************************************************)
Relistened == conn = "up" => wrappers \subseteq listens

LEMMA RelistenedHolds == Spec => []Relistened
<1>1. Init => Relistened
  BY DEF Init, AdapterInit, Relistened
<1>2. Relistened /\ [Next]_vars => Relistened'
  <2>1. SUFFICES ASSUME Relistened, [Next]_vars
                 PROVE  Relistened'
    OBVIOUS
  <2>2. CASE ProcessSubscribe
    BY <2>1, <2>2 DEF ProcessSubscribe, Relistened
  <2>3. CASE ProcessUnsubscribe
    BY <2>1, <2>3 DEF ProcessUnsubscribe, Relistened
  <2>4. CASE Reconnect \/ ListenAgain \/ Break
    BY <2>1, <2>4 DEF Reconnect, ListenAgain, Break, Relistened
  <2>5. CASE (\E w \in calls : Called(w)) \/ \E t \in Topics : Broadcast(t)
    BY <2>1, <2>5 DEF Called, Broadcast, Relistened
  <2>6. ASSUME NEW s \in Sessions, Loop(s) \/ Close(s) \/ \E i \in 1..Length : Task(s, i)
        PROVE  Relistened'
    <3>1. UNCHANGED <<conn, wrappers, listens>>
      <4>1. CASE Loop(s) \/ Close(s)
        BY <4>1 DEF Loop, Receive, Cleanup, StopNext, Removed, Close, adapter
      <4>2. ASSUME NEW i \in 1..Length, Task(s, i)
            PROVE  UNCHANGED <<conn, wrappers, listens>>
        BY <4>2 DEF Task, Authorize, SubscribeTo, Started, Unsubscribe, Removed, Speak, Broadcast, adapter
      <4>3. QED
        BY <2>6, <4>1, <4>2
    <3>2. QED
      BY <2>1, <3>1 DEF Relistened
  <2>7. CASE UNCHANGED vars
    BY <2>1, <2>7 DEF vars, Relistened
  <2>8. QED
    BY <2>1, <2>2, <2>3, <2>4, <2>5, <2>6, <2>7 DEF Next, Adapter
<1>3. QED
  BY <1>1, <1>2, PTL DEF Spec

\* Whenever the LISTEN connection is up it listens for every browser that was told its
\* subscription is confirmed and did not unsubscribe since, also for one confirmed on a
\* connection that was lost (_listen_loop adds a listener for every wrapper).
THEOREM ConfirmedIsHeardHolds == Spec => []ConfirmedIsHeard
<1>1. IInv /\ Relistened => ConfirmedIsHeard
  <2>1. ASSUME IInv, Relistened, conn = "up", Without({"overlap"}), NEW s \in Sessions, NEW i \in Received(s),
               At(s, 0) = "loop", At(s, i) = "confirmed",
               \A j \in Received(s) : Kind(s, j) = "unsubscribe" /\ About(s, j) = About(s, i) => j < i
        PROVE  [topic |-> About(s, i), callback |-> subs[s][About(s, i)]] \in listens
    <3>1. /\ Types /\ Ways /\ Registers /\ Calm /\ Heard /\ Confirmed
      BY <2>1 DEF IInv
    <3>2. i \in 1..Len(Script(s)) /\ i \in 1..Length /\ About(s, i) \in Topics
      <4>1. Script(s) \in Seq(Message) /\ i \in DOMAIN Script(s)
        BY <3>1 DEF Types, Received
      <4>2. i \in 1..Len(Script(s))
        BY <4>1, LenProperties
      <4>3. QED
        BY <3>1, <4>2, MessageIs
    <3>3. ASSUME NEW j \in 1..Length, At(s, j) # "unsent", Kind(s, j) = "unsubscribe", About(s, j) = About(s, i)
          PROVE  j < i
      <4>1. j \in DOMAIN Script(s)
        BY <3>1, <3>3, ReceivedIs
      <4>2. j \in Received(s)
        BY <3>3, <4>1 DEF Received
      <4>3. QED
        BY <2>1, <3>3, <4>2
    <3>4. Kind(s, i) = "subscribe"
      <4>1. Way(s, i)
        BY <3>1, <3>2 DEF Ways
      <4>2. QED
        BY <2>1, <4>1 DEF Way
    <3>5. subs[s][About(s, i)] # NULL /\ lock[s] # subs[s][About(s, i)][2]
      <4>1. ~ \E j \in 1..Length : /\ At(s, j) # "unsent" /\ Kind(s, j) = "unsubscribe"
                                   /\ About(s, j) = About(s, i) /\ j > i
        BY <3>2, <3>3, CallbackIs
      <4>2. QED
        BY <2>1, <3>1, <3>2, <4>1 DEF Confirmed
    <3>6. ASSUME NEW j \in 1..Length, At(s, j) \in {"leaving", "waiting"}, Sub(s, j) = subs[s][About(s, i)]
          PROVE  FALSE
      <4>1. Sub(s, j) # NULL /\ At(s, j) # "unsent"
        BY <3>5, <3>6
      <4>2. Kind(s, j) = "unsubscribe"
        <5>1. Way(s, j)
          BY <3>1 DEF Ways
        <5>2. QED
          BY <3>6, <4>1, <5>1 DEF Way
      <4>3. About(s, j) = About(s, i)
        <5>1. PICK cb : cb = Sub(s, j)
          OBVIOUS
        <5>2. About(s, cb[2]) = About(s, j)
          BY <3>1, <4>1, <5>1, CallbackIs DEF Registers
        <5>3. About(s, cb[2]) = About(s, i)
          <6>1. cb = subs[s][About(s, i)] /\ cb # NULL
            BY <3>5, <3>6, <5>1
          <6>2. Registered(s, About(s, i), cb)
            BY <3>1, <3>2, <6>1 DEF Registers
          <6>3. QED
            BY <6>2 DEF Registered
        <5>4. QED
          BY <5>2, <5>3
      <4>4. j < i
        BY <3>3, <4>1, <4>2, <4>3
      <4>5. i <= j
        BY <2>1, <3>1, <3>2, <3>4, <3>6, <4>2, <4>3 DEF Calm
      <4>6. QED
        BY <3>2, <4>4, <4>5, CallbackIs
    <3>7. PICK t \in Topics : t = About(s, i)
      BY <3>2
    <3>8. \/ [topic |-> t, callback |-> subs[s][t]] \in wrappers
          \/ lock[s] = subs[s][t][2] /\ subs[s][t] \notin done
          \/ \E j \in 1..Length : At(s, j) \in {"leaving", "waiting"} /\ Sub(s, j) = subs[s][t]
      BY <2>1, <3>1, <3>5, <3>7 DEF Heard
    <3>9. [topic |-> t, callback |-> subs[s][t]] \in wrappers
      BY <3>5, <3>6, <3>7, <3>8
    <3>10. QED
      BY <2>1, <3>7, <3>9 DEF Relistened
  <2>2. QED
    BY <2>1 DEF ConfirmedIsHeard
<1>2. QED
  BY InvariantHolds, RelistenedHolds, <1>1, PTL
=============================================================================
