------------------------- MODULE LiveDocuments_proofs -------------------------
(***************************************************************************)
(* Proofs about LiveDocuments for any servers, browsers, edits and merges: *)
(* the type invariant, with ids of rows that are never used again, and     *)
(* that what is stored stays stored.                                       *)
(***************************************************************************)
EXTENDS LiveDocuments, SequenceTheorems, TLAPS

Row == [id : Nat, edits : Docs]
Task == [edits : Docs, next : {"broadcast", "persist"}]
SrvRec == [state : {"none", "loaded", "live", "dead"}, doc : Docs, tasks : SUBSET Task]
CliRec == [home : Servers \cup {NULL}, state : {"offline", "subscribing", "subscribed"},
           doc : Docs, pending : Docs]
EventsRec == [routes : [Clients -> SUBSET Servers], left : [Events -> Nat],
              seen : SUBSET Events, lost : Docs]

(***************************************************************************)
(* The inductive invariant: a browser that is not subscribed has nothing   *)
(* on its wires, so that whoever is answered is at a server.               *)
(***************************************************************************)
WiresOpen ==
  \A c \in Clients : /\ cli[c].state = "offline" \/ cli[c].home \in Servers
                     /\ cli[c].state = "subscribed" \/ (up[c] = <<>> /\ down[c] = <<>>)

IInv == TypeOK /\ WiresOpen

-----------------------------------------------------------------------------
(***************************************************************************)
(* Documents and messages                                                  *)
(***************************************************************************)
LEMMA StoredIs ==
  ASSUME TypeOK
  PROVE  Stored \in Docs
BY DEF TypeOK, Stored, Docs

LEMMA MessagesAre ==
  ASSUME NEW new \in Docs, NEW have \in Docs
  PROVE  Ask(have) \in Message /\ Update(new) \in Message /\ Reply(new, have) \in Message
BY DEF Ask, Update, Reply, Message, Docs

LEMMA CostsIs ==
  ASSUME TypeOK, NEW E \in SUBSET Events, NEW edits \in Docs, Costs(E, edits)
  PROVE  events' \in EventsRec
<1>1. events \in EventsRec
  BY DEF TypeOK, EventsRec
<1>2. [e \in Events |-> events.left[e] - (IF e \in E THEN 1 ELSE 0)] \in [Events -> Nat]
  <2>1. ASSUME NEW e \in Events
        PROVE  events.left[e] - (IF e \in E THEN 1 ELSE 0) \in Nat
    <3>1. events.left[e] \in Nat /\ (e \in E => events.left[e] > 0)
      BY <1>1 DEF EventsRec, Costs
    <3>2. QED
      BY <3>1
  <2>2. QED
    BY <2>1
<1>3. events' = [events EXCEPT !.left = [e \in Events |-> events.left[e] - (IF e \in E THEN 1 ELSE 0)],
                               !.seen = events.seen \cup E, !.lost = events.lost \cup edits]
  BY DEF Costs
<1>4. events.lost \cup edits \in Docs
  BY <1>1 DEF EventsRec, Docs
<1> HIDE DEF Costs
<1>5. QED
  BY <1>1, <1>2, <1>3, <1>4 DEF EventsRec

LEMMA OccurIs ==
  ASSUME TypeOK, NEW E \in SUBSET Events, Occur(E)
  PROVE  events' \in EventsRec
BY CostsIs DEF Occur, Docs

-----------------------------------------------------------------------------
\* A new row has an id that none has had.
LEMMA NewRowKeeps ==
  ASSUME TypeOK, NEW kept \in SUBSET rows, NEW doc \in Docs,
         rows' = kept \cup {[id |-> nextId, edits |-> doc]}, nextId' = nextId + 1
  PROVE  /\ rows' \subseteq Row /\ nextId' \in Nat
         /\ \A r \in rows' : r.id < nextId' /\ \A q \in rows' \ {r} : q.id # r.id
BY DEF TypeOK, Row

\* What a step has to show of the variables it changes.
LEMMA TypeHolds ==
  ASSUME rows' \subseteq Row, nextId' \in Nat,
         \A r \in rows' : r.id < nextId' /\ \A q \in rows' \ {r} : q.id # r.id,
         srv' \in [Servers -> SrvRec], notes' \in [Servers -> SUBSET Docs],
         cli' \in [Clients -> CliRec],
         up' \in [Clients -> Seq(Message)], down' \in [Clients -> Seq(Message)],
         merge' \in [Mergers -> SUBSET Row], announced' \in Docs, events' \in EventsRec
  PROVE  TypeOK'
BY DEF TypeOK, Row, SrvRec, Task, CliRec, EventsRec

LEMMA TypeIs ==
  ASSUME TypeOK
  PROVE  /\ rows \subseteq Row /\ nextId \in Nat
         /\ \A r \in rows : r.id < nextId /\ \A q \in rows \ {r} : q.id # r.id
         /\ srv \in [Servers -> SrvRec] /\ notes \in [Servers -> SUBSET Docs]
         /\ cli \in [Clients -> CliRec]
         /\ up \in [Clients -> Seq(Message)] /\ down \in [Clients -> Seq(Message)]
         /\ merge \in [Mergers -> SUBSET Row] /\ announced \in Docs /\ events \in EventsRec
BY DEF TypeOK, Row, SrvRec, Task, CliRec, EventsRec

-----------------------------------------------------------------------------
(***************************************************************************)
(* The servers                                                             *)
(***************************************************************************)
LEMMA SessionLoadKeeps ==
  ASSUME TypeOK, NEW s \in Servers, SessionLoad(s)
  PROVE  TypeOK'
<1>1. [NoSession EXCEPT !.state = "loaded", !.doc = Stored] \in SrvRec
  BY StoredIs DEF NoSession, SrvRec
<1>2. srv' \in [Servers -> SrvRec]
  BY <1>1, TypeIs DEF SessionLoad
<1>3. UNCHANGED <<rows, nextId, notes, cli, up, down, merge, announced, events>>
  BY DEF SessionLoad
<1>4. QED
  BY <1>2, <1>3, TypeIs, TypeHolds

LEMMA SessionListenKeeps ==
  ASSUME TypeOK, NEW s \in Servers, SessionListen(s)
  PROVE  TypeOK'
<1>1. srv' \in [Servers -> SrvRec]
  BY TypeIs DEF SessionListen, SrvRec
<1>2. (IF announced \subseteq srv[s].doc THEN {} ELSE {"gap"}) \in SUBSET Events
  BY DEF Events
<1>3. events' \in EventsRec
  BY <1>2, OccurIs DEF SessionListen
<1>4. UNCHANGED <<rows, nextId, notes, cli, up, down, merge, announced>>
  BY DEF SessionListen
<1>5. QED
  BY <1>1, <1>3, <1>4, TypeIs, TypeHolds

LEMMA TasksKeep ==
  ASSUME TypeOK, NEW s \in Servers, NEW t \in srv[s].tasks, Broadcast(s, t) \/ Persist(s, t)
  PROVE  TypeOK'
<1>1. srv \in [Servers -> SrvRec] /\ srv[s].tasks \in SUBSET Task /\ t \in Task /\ t.edits \in Docs
  BY TypeIs DEF SrvRec, Task
<1>2. ASSUME NEW tasks \in SUBSET Task, srv' = [srv EXCEPT ![s].tasks = tasks]
      PROVE  srv' \in [Servers -> SrvRec]
  BY <1>1, <1>2 DEF SrvRec
<1>3. CASE Broadcast(s, t)
  <2>1. ((srv[s].tasks \ {t}) \cup {[t EXCEPT !.next = "persist"]}) \in SUBSET Task
    BY <1>1 DEF Task
  <2>2. srv' \in [Servers -> SrvRec]
    BY <1>2, <1>3, <2>1 DEF Broadcast
  <2>3. notes' \in [Servers -> SUBSET Docs] /\ announced' \in Docs
    BY <1>1, <1>3, TypeIs DEF Broadcast, Docs
  <2>4. UNCHANGED <<rows, nextId, cli, up, down, merge, events>>
    BY <1>3 DEF Broadcast
  <2>5. QED
    BY <2>2, <2>3, <2>4, TypeIs, TypeHolds
<1>4. CASE Persist(s, t)
  <2>1. srv' \in [Servers -> SrvRec]
    BY <1>1, <1>2, <1>4 DEF Persist
  <2>2. /\ rows' \subseteq Row /\ nextId' \in Nat
        /\ \A r \in rows' : r.id < nextId' /\ \A q \in rows' \ {r} : q.id # r.id
    BY <1>1, <1>4, NewRowKeeps DEF Persist
  <2>3. UNCHANGED <<notes, cli, up, down, merge, announced, events>>
    BY <1>4 DEF Persist
  <2>4. QED
    BY <2>1, <2>2, <2>3, TypeIs, TypeHolds
<1>5. QED
  BY <1>3, <1>4

LEMMA ServerSyncUpdateKeeps ==
  ASSUME TypeOK, NEW s \in Servers, NEW u \in notes[s], ServerSyncUpdate(s, u)
  PROVE  TypeOK'
<1>1. u \in Docs /\ srv \in [Servers -> SrvRec] /\ notes \in [Servers -> SUBSET Docs]
      /\ down \in [Clients -> Seq(Message)]
  BY TypeIs
<1>2. srv[s].doc \cup u \in Docs
  BY <1>1 DEF SrvRec, Docs
<1>3. srv' \in [Servers -> SrvRec]
  BY <1>1, <1>2 DEF ServerSyncUpdate, SrvRec
<1>4. notes' \in [Servers -> SUBSET Docs]
  BY <1>1 DEF ServerSyncUpdate
<1>5. Update(u) \in Message
  BY <1>1 DEF Update, Message, Docs
<1>6. \A c \in Clients : Append(down[c], Update(u)) \in Seq(Message)
  BY <1>1, <1>5, AppendProperties
<1>7. down' \in [Clients -> Seq(Message)]
  BY <1>1, <1>6 DEF ServerSyncUpdate, Sent
<1>8. UNCHANGED <<rows, nextId, cli, up, merge, announced, events>>
  BY DEF ServerSyncUpdate
<1>9. QED
  BY <1>3, <1>4, <1>7, <1>8, TypeIs, TypeHolds

LEMMA ServerFaultsKeep ==
  ASSUME TypeOK, NEW s \in Servers, TaskFails(s) \/ LoseNotes(s) \/ Crash(s)
  PROVE  TypeOK'
<1>1. /\ srv \in [Servers -> SrvRec] /\ notes \in [Servers -> SUBSET Docs]
      /\ cli \in [Clients -> CliRec]
      /\ up \in [Clients -> Seq(Message)] /\ down \in [Clients -> Seq(Message)]
  BY TypeIs
<1>2. events' \in EventsRec
  <2>1. {"fail"} \in SUBSET Events /\ {"lose"} \in SUBSET Events /\ {"crash"} \in SUBSET Events
    BY DEF Events
  <2>2. Uninserted(s) \in Docs
    BY <1>1 DEF Uninserted, SrvRec, Task, Docs
  <2>3. QED
    BY <2>1, <2>2, CostsIs, OccurIs DEF TaskFails, LoseNotes, Crash
<1>3. CASE TaskFails(s)
  <2>1. srv' \in [Servers -> SrvRec]
    BY <1>1, <1>3 DEF TaskFails, SrvRec
  <2>2. UNCHANGED <<rows, nextId, notes, cli, up, down, merge, announced>>
    BY <1>3 DEF TaskFails
  <2>3. QED
    BY <1>2, <2>1, <2>2, TypeIs, TypeHolds
<1>4. CASE LoseNotes(s)
  <2>1. notes' \in [Servers -> SUBSET Docs]
    BY <1>1, <1>4 DEF LoseNotes
  <2>2. UNCHANGED <<rows, nextId, srv, cli, up, down, merge, announced>>
    BY <1>4 DEF LoseNotes
  <2>3. QED
    BY <1>2, <2>1, <2>2, TypeIs, TypeHolds
<1>5. CASE Crash(s)
  <2>1. NoSession \in SrvRec
    BY DEF NoSession, SrvRec, Docs
  <2>2. srv' \in [Servers -> SrvRec] /\ notes' \in [Servers -> SUBSET Docs]
    BY <1>1, <1>5, <2>1 DEF Crash
  <2>3. \A c \in Clients : Offline(c) \in CliRec
    BY <1>1 DEF Offline, CliRec
  <2>4. cli' \in [Clients -> CliRec]
    BY <1>1, <1>5, <2>3 DEF Crash
  <2>5. up' \in [Clients -> Seq(Message)] /\ down' \in [Clients -> Seq(Message)]
    BY <1>1, <1>5, EmptySeq DEF Crash
  <2>6. UNCHANGED <<rows, nextId, merge, announced>>
    BY <1>5 DEF Crash
  <2>7. QED
    BY <1>2, <2>2, <2>4, <2>5, <2>6, TypeIs, TypeHolds
<1>6. QED
  BY <1>3, <1>4, <1>5

-----------------------------------------------------------------------------
(***************************************************************************)
(* The browsers                                                            *)
(***************************************************************************)
\* One browser's queues: what is appended are messages, what is taken is gone.
LEMMA QueueIs ==
  ASSUME NEW q \in [Clients -> Seq(Message)], NEW c \in Clients
  PROVE  /\ [q EXCEPT ![c] = <<>>] \in [Clients -> Seq(Message)]
         /\ \A m \in Message : /\ [q EXCEPT ![c] = <<m>>] \in [Clients -> Seq(Message)]
                               /\ [q EXCEPT ![c] = Append(q[c], m)] \in [Clients -> Seq(Message)]
         /\ q[c] # <<>> => /\ Head(q[c]) \in Message
                           /\ [q EXCEPT ![c] = Tail(q[c])] \in [Clients -> Seq(Message)]
<1>1. <<>> \in Seq(Message) /\ q[c] \in Seq(Message)
  BY EmptySeq
<1>2. ASSUME NEW m \in Message
      PROVE  <<m>> \in Seq(Message) /\ Append(q[c], m) \in Seq(Message)
  BY <1>1, AppendProperties
<1>3. q[c] # <<>> => Head(q[c]) \in Message /\ Tail(q[c]) \in Seq(Message)
  BY <1>1, HeadTailProperties
<1>4. QED
  BY <1>1, <1>2, <1>3

LEMMA ConnectKeeps ==
  ASSUME TypeOK, NEW c \in Clients, NEW s \in Servers, Connect(c, s)
  PROVE  TypeOK'
<1>1. cli' \in [Clients -> CliRec]
  BY TypeIs DEF Connect, CliRec
<1>2. UNCHANGED <<rows, nextId, srv, notes, up, down, merge, announced, events>>
  BY DEF Connect
<1>3. QED
  BY <1>1, <1>2, TypeIs, TypeHolds

LEMMA AcceptKeeps ==
  ASSUME TypeOK, NEW c \in Clients, Accept(c) \/ RequestSync(c)
  PROVE  TypeOK'
<1>1. cli \in [Clients -> CliRec] /\ cli[c].doc \in Docs /\ up \in [Clients -> Seq(Message)]
  BY TypeIs DEF CliRec
<1>2. cli' \in [Clients -> CliRec]
  <2>1. [cli[c] EXCEPT !.state = "subscribed"] \in CliRec
    BY <1>1 DEF CliRec
  <2>2. cli' = cli \/ cli' = [cli EXCEPT ![c].state = "subscribed"]
    BY DEF Accept, RequestSync
  <2>3. QED
    BY <1>1, <2>1, <2>2
<1>3. Ask(cli[c].doc) \in Message
  BY <1>1 DEF Ask, Message, Docs
<1>4. up' = [up EXCEPT ![c] = <<Ask(cli[c].doc)>>]
  BY DEF Accept, RequestSync
<1>5. up' \in [Clients -> Seq(Message)]
  BY <1>1, <1>3, <1>4, QueueIs
<1>6. UNCHANGED <<rows, nextId, srv, notes, down, merge, announced, events>>
  BY DEF Accept, RequestSync
<1>7. QED
  BY <1>2, <1>5, <1>6, TypeIs, TypeHolds

LEMMA ProcessSyncMessageKeeps ==
  ASSUME IInv, NEW c \in Clients, ProcessSyncMessage(c)
  PROVE  TypeOK'
<1> DEFINE s == cli[c].home
           message == Head(up[c])
           new == message.edits \ srv[s].doc
           tasks == IF new = {} THEN srv[s].tasks
                    ELSE srv[s].tasks \cup {[edits |-> new, next |-> "broadcast"]}
<1>1. /\ srv \in [Servers -> SrvRec] /\ up \in [Clients -> Seq(Message)]
      /\ down \in [Clients -> Seq(Message)] /\ up[c] # <<>>
      /\ UNCHANGED <<rows, nextId, notes, cli, merge, announced, events>>
      /\ up' = [up EXCEPT ![c] = Tail(up[c])]
  BY TypeIs DEF ProcessSyncMessage, IInv
<1>2. up' \in [Clients -> Seq(Message)] /\ message \in Message
  BY <1>1, QueueIs
<1>3. s \in Servers /\ srv[s] \in SrvRec
  BY <1>1 DEF IInv, WiresOpen
<1>4. message.edits \in Docs /\ srv[s].doc \in Docs /\ new \in Docs /\ srv[s].tasks \in SUBSET Task
  BY <1>2, <1>3 DEF Message, SrvRec, Docs
<1>5. CASE UNCHANGED srv /\ down' = [down EXCEPT ![c] = Append(down[c], Answer(c, message))]
  <2>1. srv[s].doc \ message.edits \in Docs
    BY <1>4 DEF Docs
  <2>2. Answer(c, message) \in Message
    BY <1>4, <2>1, MessagesAre DEF Answer
  <2>3. down' \in [Clients -> Seq(Message)]
    BY <1>1, <1>5, <2>2, QueueIs
  <2>4. QED
    BY <1>1, <1>2, <1>5, <2>3, TypeIs, TypeHolds DEF IInv
<1>6. CASE /\ UNCHANGED down
           /\ srv' = [srv EXCEPT ![s] = [srv[s] EXCEPT !.doc = srv[s].doc \cup new, !.tasks = tasks]]
  <2>1. tasks \in SUBSET Task /\ srv[s].doc \cup new \in Docs
    BY <1>4 DEF Task, Docs
  <2> HIDE DEF tasks, new, s
  <2>2. [srv[s] EXCEPT !.doc = srv[s].doc \cup new, !.tasks = tasks] \in SrvRec
    BY <1>3, <2>1 DEF SrvRec
  <2>3. srv' \in [Servers -> SrvRec]
    BY <1>1, <1>3, <1>6, <2>2
  <2>4. QED
    BY <1>1, <1>2, <1>6, <2>3, TypeIs, TypeHolds DEF IInv
<1>7. QED
  <2>1. \/ UNCHANGED srv /\ down' = [down EXCEPT ![c] = Append(down[c], Answer(c, message))]
        \/ /\ UNCHANGED down
           /\ srv' = [srv EXCEPT ![s].doc = @ \cup new, ![s].tasks = tasks]
    BY <1>1 DEF ProcessSyncMessage
  <2>2. [srv EXCEPT ![s].doc = @ \cup new, ![s].tasks = tasks]
          = [srv EXCEPT ![s] = [srv[s] EXCEPT !.doc = srv[s].doc \cup new, !.tasks = tasks]]
    BY <1>1, <1>3
  <2>3. QED
    BY <1>5, <1>6, <2>1, <2>2

LEMMA EditKeeps ==
  ASSUME TypeOK, NEW c \in Clients, NEW e \in Edits, Edit(c, e)
  PROVE  TypeOK'
<1>1. cli \in [Clients -> CliRec] /\ cli[c].doc \in Docs /\ cli[c].pending \in Docs
  BY TypeIs DEF CliRec
<1>2. cli[c].doc \cup {e} \in Docs /\ cli[c].pending \cup {e} \in Docs
  BY <1>1 DEF Docs
<1>3. cli' \in [Clients -> CliRec]
  BY <1>1, <1>2 DEF Edit, CliRec
<1>4. {"edit"} \in SUBSET Events
  BY DEF Events
<1>5. events' \in EventsRec
  BY <1>4, OccurIs DEF Edit
<1>6. UNCHANGED <<rows, nextId, srv, notes, up, down, merge, announced>>
  BY DEF Edit
<1>7. QED
  BY <1>3, <1>5, <1>6, TypeIs, TypeHolds

LEMMA FlushPendingUpdatesKeeps ==
  ASSUME TypeOK, NEW c \in Clients, FlushPendingUpdates(c)
  PROVE  TypeOK'
<1>1. cli \in [Clients -> CliRec] /\ cli[c].pending \in Docs /\ {} \in Docs
      /\ up \in [Clients -> Seq(Message)]
  BY TypeIs DEF CliRec, Docs
<1>2. cli' \in [Clients -> CliRec]
  BY <1>1 DEF FlushPendingUpdates, CliRec
<1>3. up' = up \/ up' = [up EXCEPT ![c] = Append(up[c], Update(cli[c].pending))]
  BY DEF FlushPendingUpdates
<1>4. Update(cli[c].pending) \in Message
  BY <1>1, MessagesAre
<1>5. up' \in [Clients -> Seq(Message)]
  <2>1. [up EXCEPT ![c] = Append(up[c], Update(cli[c].pending))] \in [Clients -> Seq(Message)]
    BY <1>1, <1>4, QueueIs
  <2>2. QED
    BY <1>1, <1>3, <2>1
<1>6. UNCHANGED <<rows, nextId, srv, notes, down, merge, announced, events>>
  BY DEF FlushPendingUpdates
<1>7. QED
  BY <1>2, <1>5, <1>6, TypeIs, TypeHolds

LEMMA HandleSyncMessageKeeps ==
  ASSUME TypeOK, NEW c \in Clients, HandleSyncMessage(c)
  PROVE  TypeOK'
<1> DEFINE message == Head(down[c])
           doc == cli[c].doc \cup message.edits
           missing == IF message.kind = "step2" THEN doc \ message.have ELSE {}
<1>1. /\ cli \in [Clients -> CliRec] /\ cli[c].doc \in Docs
      /\ up \in [Clients -> Seq(Message)] /\ down \in [Clients -> Seq(Message)]
  BY TypeIs DEF CliRec
<1>2. message \in Message /\ down' \in [Clients -> Seq(Message)]
  BY <1>1, QueueIs DEF HandleSyncMessage
<1>3. doc \in Docs /\ missing \in Docs
  BY <1>1, <1>2 DEF Message, Docs
<1>4. /\ cli' = [cli EXCEPT ![c].doc = doc]
      /\ up' = up \/ up' = [up EXCEPT ![c] = Append(up[c], Update(missing))]
      /\ UNCHANGED <<rows, nextId, srv, notes, merge, announced, events>>
  BY DEF HandleSyncMessage
<1> HIDE DEF message, doc, missing
<1>5. cli' \in [Clients -> CliRec]
  BY <1>1, <1>3, <1>4 DEF CliRec
<1>6. Update(missing) \in Message
  BY <1>3, MessagesAre DEF Docs
<1>7. up' \in [Clients -> Seq(Message)]
  <2>1. [up EXCEPT ![c] = Append(up[c], Update(missing))] \in [Clients -> Seq(Message)]
    BY <1>1, <1>6, QueueIs
  <2>2. QED
    BY <1>1, <1>4, <2>1
<1>8. QED
  BY <1>2, <1>4, <1>5, <1>7, TypeIs, TypeHolds

LEMMA DisconnectKeeps ==
  ASSUME TypeOK, NEW c \in Clients, Disconnect(c)
  PROVE  TypeOK'
<1>1. /\ cli \in [Clients -> CliRec] /\ up \in [Clients -> Seq(Message)]
      /\ down \in [Clients -> Seq(Message)]
  BY TypeIs
<1>2. Offline(c) \in CliRec
  BY <1>1 DEF Offline, CliRec
<1>3. cli' \in [Clients -> CliRec]
  BY <1>1, <1>2 DEF Disconnect
<1>4. up' \in [Clients -> Seq(Message)] /\ down' \in [Clients -> Seq(Message)]
  BY <1>1, QueueIs DEF Disconnect
<1>5. {"disconnect"} \in SUBSET Events
  BY DEF Events
<1>6. events' \in EventsRec
  BY <1>5, OccurIs DEF Disconnect
<1>7. UNCHANGED <<rows, nextId, srv, notes, merge, announced>>
  BY DEF Disconnect
<1>8. QED
  BY <1>3, <1>4, <1>6, <1>7, TypeIs, TypeHolds

-----------------------------------------------------------------------------
(***************************************************************************)
(* The merge job                                                           *)
(***************************************************************************)
LEMMA MergeKeeps ==
  ASSUME TypeOK, NEW k \in Mergers, MergeRead(k) \/ MergeCommit(k) \/ MergeAborts(k)
  PROVE  TypeOK'
<1>1. merge \in [Mergers -> SUBSET Row] /\ rows \subseteq Row
  BY TypeIs
<1>2. merge' \in [Mergers -> SUBSET Row]
  BY <1>1 DEF MergeRead, MergeCommit, MergeAborts
<1>3. CASE MergeRead(k) \/ MergeAborts(k)
  <2>1. {"merge"} \in SUBSET Events /\ {"abort"} \in SUBSET Events
    BY DEF Events
  <2>2. events' \in EventsRec
    BY <1>3, <2>1, OccurIs DEF MergeRead, MergeAborts
  <2>3. UNCHANGED <<rows, nextId, srv, notes, cli, up, down, announced>>
    BY <1>3 DEF MergeRead, MergeAborts
  <2>4. QED
    BY <1>2, <2>2, <2>3, TypeIs, TypeHolds
<1>4. CASE MergeCommit(k)
  <2>1. UNION {r.edits : r \in merge[k]} \in Docs
    BY <1>1 DEF Row, Docs
  <2>2. /\ rows' \subseteq Row /\ nextId' \in Nat
        /\ \A r \in rows' : r.id < nextId' /\ \A q \in rows' \ {r} : q.id # r.id
    BY <1>4, <2>1, NewRowKeeps DEF MergeCommit, Merged
  <2>3. UNCHANGED <<srv, notes, cli, up, down, announced, events>>
    BY <1>4 DEF MergeCommit
  <2>4. QED
    BY <1>2, <2>2, <2>3, TypeIs, TypeHolds
<1>5. QED
  BY <1>3, <1>4

-----------------------------------------------------------------------------
(***************************************************************************)
(* The wires                                                               *)
(***************************************************************************)
LEMMA WiresKeep ==
  ASSUME IInv, [Next]_vars
  PROVE  WiresOpen'
<1> USE DEF WiresOpen
<1>1. /\ cli \in [Clients -> CliRec] /\ up \in [Clients -> Seq(Message)]
      /\ down \in [Clients -> Seq(Message)] /\ WiresOpen /\ NULL \notin Servers
  BY TypeIs, LiveDocumentsAssumption DEF IInv
<1>2. CASE UNCHANGED <<cli, up, down>>
  BY <1>1, <1>2
<1>3. ASSUME NEW s \in Servers, NEW u \in notes[s], ServerSyncUpdate(s, u)
      PROVE  WiresOpen'
  BY <1>1, <1>3 DEF ServerSyncUpdate, Sent
<1>4. ASSUME NEW s \in Servers, Crash(s)
      PROVE  WiresOpen'
  <2>1. cli' = [d \in Clients |-> IF cli[d].home = s THEN Offline(d) ELSE cli[d]]
        /\ up' = [d \in Clients |-> IF cli[d].home = s THEN <<>> ELSE up[d]]
        /\ down' = [d \in Clients |-> IF cli[d].home = s THEN <<>> ELSE down[d]]
    BY <1>4 DEF Crash
  <2>2. \A d \in Clients : Offline(d).state = "offline"
    BY <1>1 DEF Offline, CliRec
  <2>3. QED
    BY <1>1, <2>1, <2>2
<1>5. ASSUME NEW c \in Clients, Browser(c) \/ Disconnect(c) \/ \E e \in Edits : Edit(c, e)
      PROVE  WiresOpen'
  <2>1. ASSUME NEW d \in Clients, d # c
        PROVE  cli'[d] = cli[d] /\ up'[d] = up[d] /\ down'[d] = down[d]
    BY <1>1, <1>5, <2>1 DEF Browser, Connect, Accept, ProcessSyncMessage, HandleSyncMessage,
       FlushPendingUpdates, RequestSync, Disconnect, Edit
  <2>2. /\ cli'[c].state = "offline" \/ cli'[c].home \in Servers
        /\ cli'[c].state = "subscribed" \/ (up'[c] = <<>> /\ down'[c] = <<>>)
    <3>1. cli[c] \in CliRec /\ up[c] \in Seq(Message) /\ down[c] \in Seq(Message)
      BY <1>1
    <3>2. ASSUME NEW s \in Servers, Connect(c, s) PROVE <2>2
      BY <1>1, <3>1, <3>2 DEF Connect, CliRec
    <3>3. CASE Accept(c) \/ RequestSync(c)
      BY <1>1, <3>1, <3>3 DEF Accept, RequestSync, CliRec
    <3>4. CASE ProcessSyncMessage(c)
      BY <1>1, <3>1, <3>4 DEF ProcessSyncMessage
    <3>5. CASE HandleSyncMessage(c)
      BY <1>1, <3>1, <3>5 DEF HandleSyncMessage, CliRec
    <3>6. CASE FlushPendingUpdates(c)
      BY <1>1, <3>1, <3>6 DEF FlushPendingUpdates, CliRec
    <3>7. CASE Disconnect(c)
      BY <1>1, <3>1, <3>7 DEF Disconnect, Offline, CliRec
    <3>8. ASSUME NEW e \in Edits, Edit(c, e) PROVE <2>2
      BY <1>1, <3>1, <3>8 DEF Edit, CliRec
    <3>9. QED
      BY <1>5, <3>2, <3>3, <3>4, <3>5, <3>6, <3>7, <3>8 DEF Browser
  <2>3. QED
    BY <1>1, <2>1, <2>2
<1>6. CASE UNCHANGED vars
  BY <1>2, <1>6 DEF vars
<1>7. ASSUME NEW s \in Servers, Server(s) \/ TaskFails(s) \/ LoseNotes(s)
      PROVE  WiresOpen'
  <2>1. UNCHANGED <<cli, up, down>> \/ \E u \in notes[s] : ServerSyncUpdate(s, u)
    BY <1>7 DEF Server, SessionLoad, SessionListen, Broadcast, Persist, TaskFails, LoseNotes
  <2>2. QED
    BY <1>2, <1>3, <2>1
<1>8. ASSUME NEW k \in Mergers, MergeRead(k) \/ MergeCommit(k) \/ MergeAborts(k)
      PROVE  WiresOpen'
  BY <1>2, <1>8 DEF MergeRead, MergeCommit, MergeAborts
<1>9. QED
  BY <1>4, <1>5, <1>6, <1>7, <1>8 DEF Next

-----------------------------------------------------------------------------
(***************************************************************************)
(* The theorems                                                            *)
(***************************************************************************)
LEMMA InitHolds == Init => IInv
<1> SUFFICES ASSUME Init PROVE IInv
  OBVIOUS
<1>1. /\ rows = OldRows /\ nextId = FirstId /\ announced = {}
      /\ srv = [s \in Servers |-> NoSession] /\ notes = [s \in Servers |-> {}]
      /\ cli = [c \in Clients |-> [home |-> NULL, state |-> "offline", doc |-> {}, pending |-> {}]]
      /\ up = [c \in Clients |-> <<>>] /\ down = [c \in Clients |-> <<>>]
      /\ merge = [k \in Mergers |-> {}]
  BY DEF Init
<1>2. events \in EventsRec
  BY LiveDocumentsAssumption DEF Init, EventsRec, Docs
<1>3. TypeOK
  <2>1. /\ OldRows \subseteq [id : Nat, edits : Docs] /\ FirstId \in Nat
        /\ \A r \in OldRows : r.id < FirstId /\ \A q \in OldRows \ {r} : q.id # r.id
    BY LiveDocumentsAssumption DEF Docs
  <2>2. NoSession \in [state : {"none", "loaded", "live", "dead"}, doc : Docs,
                       tasks : SUBSET [edits : Docs, next : {"broadcast", "persist"}]]
    BY DEF NoSession, Docs
  <2>3. \A c \in Clients : <<>> \in Seq(Message)
    BY EmptySeq
  <2>4. QED
    BY <1>1, <1>2, <2>1, <2>2, <2>3 DEF TypeOK, EventsRec, Docs
<1>4. WiresOpen
  BY <1>1 DEF WiresOpen
<1>5. QED
  BY <1>3, <1>4 DEF IInv

LEMMA NextKeeps == IInv /\ [Next]_vars => IInv'
<1> SUFFICES ASSUME IInv, [Next]_vars PROVE IInv'
  OBVIOUS
<1>1. TypeOK
  BY DEF IInv
<1>2. CASE UNCHANGED vars
  <2>1. TypeOK'
    BY <1>1, <1>2 DEF TypeOK, vars
  <2>2. QED
    BY <2>1, WiresKeep DEF IInv
<1>3. CASE Next
  <2>1. ASSUME NEW s \in Servers, Server(s) PROVE TypeOK'
    BY <1>1, <2>1, SessionLoadKeeps, SessionListenKeeps, TasksKeep, ServerSyncUpdateKeeps DEF Server
  <2>2. ASSUME NEW c \in Clients, Browser(c) PROVE TypeOK'
    BY <1>1, <2>2, ConnectKeeps, AcceptKeeps, ProcessSyncMessageKeeps, HandleSyncMessageKeeps,
       FlushPendingUpdatesKeeps DEF Browser
  <2>3. TypeOK'
    BY <1>1, <1>3, <2>1, <2>2, ServerFaultsKeep, DisconnectKeeps, EditKeeps, MergeKeeps DEF Next
  <2>4. QED
    BY <2>3, WiresKeep DEF IInv
<1>4. QED
  BY <1>2, <1>3

\* The shape of every variable holds for any servers, browsers, merges and old rows; in
\* particular no two rows ever have the same id, whatever merges and inserts overlap.
THEOREM TypeCorrect == Spec => []TypeOK
<1>1. IInv => TypeOK
  BY DEF IInv
<1>2. QED
  BY <1>1, InitHolds, NextKeeps, PTL DEF Spec

\* A step of anything, the merge job included, loses no edit that was stored: the rows a
\* merge deletes are those whose union it inserts (merge_stable_topics), though rows were
\* added or merged by others since it read them.
THEOREM StoredNeverShrinksHolds == Spec => StoredNeverShrinks
<1>1. ASSUME [Next]_vars
      PROVE  Stored \subseteq Stored'
  <2>1. CASE rows \subseteq rows'
    BY <2>1 DEF Stored
  <2>2. ASSUME NEW k \in Mergers, MergeCommit(k)
        PROVE  Stored \subseteq Stored'
    <3>1. ASSUME NEW r \in rows, NEW e \in r.edits
          PROVE  e \in Stored'
      <4>1. CASE r \in merge[k]
        <5>1. e \in Merged(k).edits /\ Merged(k) \in rows'
          BY <2>2, <4>1 DEF MergeCommit, Merged
        <5>2. QED
          BY <5>1 DEF Stored
      <4>2. CASE r \notin merge[k]
        BY <2>2, <4>2 DEF MergeCommit, Stored
      <4>3. QED
        BY <4>1, <4>2
    <3>2. QED
      BY <3>1 DEF Stored
  <2>3. rows \subseteq rows' \/ \E k \in Mergers : MergeCommit(k)
    BY <1>1 DEF Next, vars, Server, SessionLoad, SessionListen, Broadcast, Persist, ServerSyncUpdate,
       TaskFails, LoseNotes, Crash, Browser, Connect, Accept, ProcessSyncMessage, HandleSyncMessage,
       FlushPendingUpdates, RequestSync, Disconnect, Edit, MergeRead, MergeAborts
  <2>4. QED
    BY <2>1, <2>2, <2>3
<1>2. QED
  BY <1>1, PTL DEF Spec, StoredNeverShrinks

=============================================================================
