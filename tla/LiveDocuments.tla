---------------------------- MODULE LiveDocuments ----------------------------
(***************************************************************************)
(* One collaboratively edited document: the Yjs provider of each browser   *)
(* (app/javascript/channels/yjsProvider.ts), the session each server keeps *)
(* for the topic (app/channels/live_documents.py), the NOTIFY between      *)
(* servers, the rows updates are stored in and the job that merges them    *)
(* (app/models/collaboration/live.py).                                     *)
(*                                                                         *)
(* A document is the set of edits applied to it: updates commute and may   *)
(* be applied twice, which is what the CRDT library guarantees.            *)
(***************************************************************************)
EXTENDS Naturals, Sequences, FiniteSets

CONSTANTS
  Servers,
  Clients,
  Edits,      (* what users type (bound)                                       *)
  Mergers,    (* concurrent runs of the merge job                              *)
  OldRows,    (* the rows earlier sessions left                                *)
  FirstId,    (* the id the table's sequence gives next                        *)
  Starts,     (* bounds: where browsers connect, how often Events happen       *)
  NULL

(***************************************************************************)
(* `edit`: a user types something new; `gap`: a session begins to listen    *)
(* after it missed an update; `lose`: a server's LISTEN connection breaks; *)
(* `fail`: a broadcast or an insert raises; `abort`: the merge job's       *)
(* transaction fails.                                                      *)
(***************************************************************************)
Events == {"edit", "gap", "disconnect", "crash", "fail", "lose", "merge", "abort"}

ASSUME LiveDocumentsAssumption ==
  /\ Starts \subseteq [routes : [Clients -> SUBSET Servers], left : [Events -> Nat]]
  /\ OldRows \subseteq [id : Nat, edits : SUBSET Edits] /\ FirstId \in Nat /\ NULL \notin Servers
  /\ \A r \in OldRows : r.id < FirstId /\ \A q \in OldRows \ {r} : q.id # r.id

VARIABLES
  rows,       (* LiveDocumentUpdate rows of the topic                          *)
  nextId,     (* id of the next row                                            *)
  srv,        (* each server's SharedDocument                                  *)
  notes,      (* notifications a server has not handled                        *)
  cli,        (* each browser's document and connection                        *)
  up,         (* sync messages from a browser: on the wire, or queued          *)
  down,       (* sync messages to a browser                                    *)
  merge,      (* rows each merge transaction has read                          *)
  announced,  (* history: edits some server has broadcast                      *)
  events      (* where browsers connect, how many of each kind are left, which *)
              (* kinds there have been, which edits were announced and not     *)
              (* inserted when their task ended                                *)

vars == <<rows, nextId, srv, notes, cli, up, down, merge, announced, events>>

Docs == SUBSET Edits

Stored == UNION {r.edits : r \in rows}

\* The events in E happen, and take away what was to store `edits`.
Costs(E, edits) ==
  /\ \A e \in E : events.left[e] > 0
  /\ events' = [events EXCEPT !.left = [e \in Events |-> @[e] - (IF e \in E THEN 1 ELSE 0)],
                              !.seen = @ \cup E, !.lost = @ \cup edits]

Occur(E) == Costs(E, {})

NoSession == [state |-> "none", doc |-> {}, tasks |-> {}]

\* stop_session is never reached while a channel is subscribed, and remove_subscriber
\* never finds one: a session stays until its server goes.
Listening(s) == srv[s].state \in {"live", "dead"}

Ask(have)       == [kind |-> "step1", edits |-> have, have |-> {}]
Update(new)     == [kind |-> "update", edits |-> new, have |-> {}]
Reply(new, have) == [kind |-> "step2", edits |-> new, have |-> have]

-----------------------------------------------------------------------------
(***************************************************************************)
(* DocumentManager: the first subscription on a server loads the document, *)
(* then listens; both under the manager's lock.                            *)
(***************************************************************************)
Subscribing(s) == {c \in Clients : cli[c].home = s /\ cli[c].state = "subscribing"}

SessionLoad(s) ==
  /\ srv[s].state = "none" /\ Subscribing(s) # {}
  /\ srv' = [srv EXCEPT ![s] = [NoSession EXCEPT !.state = "loaded", !.doc = Stored]]
  /\ UNCHANGED <<rows, nextId, notes, cli, up, down, merge, announced, events>>

SessionListen(s) ==
  /\ srv[s].state = "loaded"
  /\ Occur(IF announced \subseteq srv[s].doc THEN {} ELSE {"gap"})
  /\ srv' = [srv EXCEPT ![s].state = "live"]
  /\ UNCHANGED <<rows, nextId, notes, cli, up, down, merge, announced>>

\* channel.accept: the browser is confirmed, asks for what it misses and goes on
\* asking at intervals.
Accept(c) ==
  /\ cli[c].state = "subscribing" /\ Listening(cli[c].home)
  /\ cli' = [cli EXCEPT ![c].state = "subscribed"]
  /\ up' = [up EXCEPT ![c] = <<Ask(cli[c].doc)>>]
  /\ UNCHANGED <<rows, nextId, srv, notes, down, merge, announced, events>>

-----------------------------------------------------------------------------
(***************************************************************************)
(* SharedDocument                                                          *)
(***************************************************************************)
\* A step 1 is answered with what the browser misses and with the server's own step 1.
\* Variant: ... with what the browser misses only.
AnswerOneWay(c, ask) == Reply(srv[cli[c].home].doc \ ask.edits, Edits)

Answer(c, ask) == Reply(srv[cli[c].home].doc \ ask.edits, srv[cli[c].home].doc)

\* The observer starts a task for a change that has no remote origin.
ProcessSyncMessage(c) ==
  LET s == cli[c].home
      message == Head(up[c])
      new == message.edits \ srv[s].doc
  IN
  /\ up[c] # <<>> /\ srv[s].state = "live"
  /\ up' = [up EXCEPT ![c] = Tail(@)]
  /\ \/ /\ message.kind = "step1"
        /\ down' = [down EXCEPT ![c] = Append(@, Answer(c, message))]
        /\ UNCHANGED srv
     \/ /\ message.kind = "update"
        /\ srv' = [srv EXCEPT ![s].doc = @ \cup new,
                              ![s].tasks = IF new = {} THEN @
                                           ELSE @ \cup {[edits |-> new, next |-> "broadcast"]}]
        /\ UNCHANGED down
  /\ UNCHANGED <<rows, nextId, notes, cli, merge, announced, events>>

\* Variant: only this server hears of it.
BroadcastHere(s, t) ==
  /\ t \in srv[s].tasks /\ t.next = "broadcast"
  /\ notes' = [notes EXCEPT ![s] = @ \cup {t.edits}]
  /\ announced' = announced \cup t.edits
  /\ srv' = [srv EXCEPT ![s].tasks = (@ \ {t}) \cup {[t EXCEPT !.next = "persist"]}]
  /\ UNCHANGED <<rows, nextId, cli, up, down, merge, events>>

\* handle_document_change: NOTIFY whoever listens (this server too) ...
Broadcast(s, t) ==
  /\ t \in srv[s].tasks /\ t.next = "broadcast"
  /\ notes' = [u \in Servers |-> IF Listening(u) THEN notes[u] \cup {t.edits} ELSE notes[u]]
  /\ announced' = announced \cup t.edits
  /\ srv' = [srv EXCEPT ![s].tasks = (@ \ {t}) \cup {[t EXCEPT !.next = "persist"]}]
  /\ UNCHANGED <<rows, nextId, cli, up, down, merge, events>>

\* ... then insert the update.
Persist(s, t) ==
  /\ t \in srv[s].tasks /\ t.next = "persist"
  /\ rows' = rows \cup {[id |-> nextId, edits |-> t.edits]}
  /\ nextId' = nextId + 1
  /\ srv' = [srv EXCEPT ![s].tasks = @ \ {t}]
  /\ UNCHANGED <<notes, cli, up, down, merge, announced, events>>

\* What a server has broadcast and not inserted.
Uninserted(s) == UNION {t.edits : t \in {u \in srv[s].tasks : u.next = "persist"}}

\* An exception in a task cancels the TaskGroup and with it the listener; the session
\* stays registered, subscribed and deaf to its queue.
TaskFails(s) ==
  /\ srv[s].tasks # {} /\ srv[s].state = "live"
  /\ Costs({"fail"}, Uninserted(s))
  /\ srv' = [srv EXCEPT ![s].state = "dead", ![s].tasks = {}]
  /\ UNCHANGED <<rows, nextId, notes, cli, up, down, merge, announced>>

Sent(s, u) == [c \in Clients |-> IF cli[c].home = s /\ cli[c].state = "subscribed"
                                 THEN Append(down[c], Update(u)) ELSE down[c]]

\* _handle_server_sync_update with the remote origin, and the broadcast handler of
\* each subscribed channel.
ServerSyncUpdate(s, u) ==
  /\ u \in notes[s]
  /\ notes' = [notes EXCEPT ![s] = @ \ {u}]
  /\ srv' = [srv EXCEPT ![s].doc = @ \cup u]
  /\ down' = Sent(s, u)
  /\ UNCHANGED <<rows, nextId, cli, up, merge, announced, events>>

\* The LISTEN connection breaks; what was on its way is not sent again.
LoseNotes(s) ==
  /\ notes[s] # {} /\ Occur({"lose"})
  /\ notes' = [notes EXCEPT ![s] = {}]
  /\ UNCHANGED <<rows, nextId, srv, cli, up, down, merge, announced>>

-----------------------------------------------------------------------------
(***************************************************************************)
(* YjsProvider                                                             *)
(***************************************************************************)
Connect(c, s) ==
  /\ cli[c].state = "offline" /\ s \in events.routes[c]
  /\ cli' = [cli EXCEPT ![c].home = s, ![c].state = "subscribing"]
  /\ UNCHANGED <<rows, nextId, srv, notes, up, down, merge, announced, events>>

\* An edit is made once, by one browser.
Edit(c, e) ==
  /\ e \notin Stored /\ \A d \in Clients : e \notin cli[d].doc
  /\ Occur({"edit"})
  /\ cli' = [cli EXCEPT ![c].doc = @ \cup {e}, ![c].pending = @ \cup {e}]
  /\ UNCHANGED <<rows, nextId, srv, notes, up, down, merge, announced>>

\* The debounce elapses; what is sent before the channel is confirmed gets nowhere.
FlushPendingUpdates(c) ==
  /\ cli[c].pending # {}
  /\ cli' = [cli EXCEPT ![c].pending = {}]
  /\ up' = IF cli[c].state = "subscribed" THEN [up EXCEPT ![c] = Append(@, Update(cli[c].pending))]
           ELSE up
  /\ UNCHANGED <<rows, nextId, srv, notes, down, merge, announced, events>>

\* The interval elapses; one question is on its way at a time (bound).
RequestSync(c) ==
  /\ cli[c].state = "subscribed" /\ up[c] = <<>> /\ down[c] = <<>>
  /\ up' = [up EXCEPT ![c] = <<Ask(cli[c].doc)>>]
  /\ UNCHANGED <<rows, nextId, srv, notes, cli, down, merge, announced, events>>

\* Apply what came; answer the server's step 1 with what it misses.
HandleSyncMessage(c) ==
  LET message == Head(down[c])
      doc == cli[c].doc \cup message.edits
      missing == IF message.kind = "step2" THEN doc \ message.have ELSE {}
  IN
  /\ down[c] # <<>>
  /\ down' = [down EXCEPT ![c] = Tail(@)]
  /\ cli' = [cli EXCEPT ![c].doc = doc]
  /\ up' = IF missing = {} THEN up ELSE [up EXCEPT ![c] = Append(@, Update(missing))]
  /\ UNCHANGED <<rows, nextId, srv, notes, merge, announced, events>>

-----------------------------------------------------------------------------
(***************************************************************************)
(* Connections and servers that go                                         *)
(***************************************************************************)
Offline(c) == [cli[c] EXCEPT !.home = NULL, !.state = "offline"]

Disconnect(c) ==
  /\ cli[c].state # "offline" /\ Occur({"disconnect"})
  /\ cli' = [cli EXCEPT ![c] = Offline(c)]
  /\ up' = [up EXCEPT ![c] = <<>>]
  /\ down' = [down EXCEPT ![c] = <<>>]
  /\ UNCHANGED <<rows, nextId, srv, notes, merge, announced>>

Crash(s) ==
  LET at == {c \in Clients : cli[c].home = s} IN
  /\ srv[s].state # "none" /\ Costs({"crash"}, Uninserted(s))
  /\ srv' = [srv EXCEPT ![s] = NoSession]
  /\ notes' = [notes EXCEPT ![s] = {}]
  /\ cli' = [c \in Clients |-> IF c \in at THEN Offline(c) ELSE cli[c]]
  /\ up' = [c \in Clients |-> IF c \in at THEN <<>> ELSE up[c]]
  /\ down' = [c \in Clients |-> IF c \in at THEN <<>> ELSE down[c]]
  /\ UNCHANGED <<rows, nextId, merge, announced>>

-----------------------------------------------------------------------------
(***************************************************************************)
(* merge_stable_topics: read the rows, insert their union, delete them by  *)
(* id; the transaction commits after the caller has notified.              *)
(***************************************************************************)
MergeRead(k) ==
  /\ merge[k] = {} /\ Cardinality(rows) > 1
  /\ Occur({"merge"})
  /\ merge' = [merge EXCEPT ![k] = rows]
  /\ UNCHANGED <<rows, nextId, srv, notes, cli, up, down, announced>>

\* Variant: the merged row takes the place of the first.
MergedInPlace(k) == [id |-> (CHOOSE r \in merge[k] : \A q \in merge[k] : r.id <= q.id).id,
                     edits |-> UNION {r.edits : r \in merge[k]}]

Merged(k) == [id |-> nextId, edits |-> UNION {r.edits : r \in merge[k]}]

\* Variant: every row of the topic is deleted.
MergeCommitTopic(k) ==
  /\ merge[k] # {}
  /\ rows' = {Merged(k)}
  /\ nextId' = nextId + 1
  /\ merge' = [merge EXCEPT ![k] = {}]
  /\ UNCHANGED <<srv, notes, cli, up, down, announced, events>>

MergeCommit(k) ==
  /\ merge[k] # {}
  /\ rows' = (rows \ merge[k]) \cup {Merged(k)}
  /\ nextId' = nextId + 1
  /\ merge' = [merge EXCEPT ![k] = {}]
  /\ UNCHANGED <<srv, notes, cli, up, down, announced, events>>

MergeAborts(k) ==
  /\ merge[k] # {} /\ Occur({"abort"})
  /\ merge' = [merge EXCEPT ![k] = {}]
  /\ UNCHANGED <<rows, nextId, srv, notes, cli, up, down, announced>>

-----------------------------------------------------------------------------
Init ==
  /\ rows = OldRows /\ nextId = FirstId
  /\ srv = [s \in Servers |-> NoSession]
  /\ notes = [s \in Servers |-> {}]
  /\ cli = [c \in Clients |-> [home |-> NULL, state |-> "offline", doc |-> {}, pending |-> {}]]
  /\ up = [c \in Clients |-> <<>>]
  /\ down = [c \in Clients |-> <<>>]
  /\ merge = [k \in Mergers |-> {}]
  /\ announced = {}
  /\ \E start \in Starts : events = [routes |-> start.routes, left |-> start.left,
                                       seen |-> {}, lost |-> {}]

Server(s) == \/ SessionLoad(s) \/ SessionListen(s)
             \/ \E t \in srv[s].tasks : Broadcast(s, t) \/ Persist(s, t)
             \/ \E u \in notes[s] : ServerSyncUpdate(s, u)

Browser(c) == \/ \E s \in Servers : Connect(c, s)
              \/ Accept(c) \/ ProcessSyncMessage(c) \/ HandleSyncMessage(c)
              \/ FlushPendingUpdates(c) \/ RequestSync(c)

Next ==
  \/ \E s \in Servers : Server(s) \/ TaskFails(s) \/ LoseNotes(s) \/ Crash(s)
  \/ \E c \in Clients : Browser(c) \/ Disconnect(c) \/ \E e \in Edits : Edit(c, e)
  \/ \E k \in Mergers : MergeRead(k) \/ MergeCommit(k) \/ MergeAborts(k)

Spec == Init /\ [][Next]_vars

\* Sessions run on until their server is killed; browsers reconnect, their intervals
\* elapse and what they send is worked off.  Nobody has to edit, and no job has to run.
Fairness == (\A s \in Servers : WF_vars(Server(s))) /\ (\A c \in Clients : WF_vars(Browser(c)))

FairSpec == Spec /\ Fairness

-----------------------------------------------------------------------------
(***************************************************************************)
(* Properties                                                              *)
(***************************************************************************)
Message == [kind : {"step1", "step2", "update"}, edits : Docs, have : Docs]

\* The shape of every variable; a row has an id of its own, which is never used again.
TypeOK ==
  /\ rows \subseteq [id : Nat, edits : Docs] /\ nextId \in Nat
  /\ \A r \in rows : r.id < nextId /\ \A q \in rows \ {r} : q.id # r.id
  /\ srv \in [Servers -> [state : {"none", "loaded", "live", "dead"}, doc : Docs,
                          tasks : SUBSET [edits : Docs, next : {"broadcast", "persist"}]]]
  /\ notes \in [Servers -> SUBSET Docs]
  /\ cli \in [Clients -> [home : Servers \cup {NULL}, state : {"offline", "subscribing", "subscribed"},
                          doc : Docs, pending : Docs]]
  /\ up \in [Clients -> Seq(Message)] /\ down \in [Clients -> Seq(Message)]
  /\ merge \in [Mergers -> SUBSET [id : Nat, edits : Docs]]
  /\ announced \in Docs
  /\ events \in [routes : [Clients -> SUBSET Servers], left : [Events -> Nat],
                  seen : SUBSET Events, lost : Docs]

Without(kinds) == events.seen \cap kinds = {}

\* Merging loses nothing that was stored, however many merges and inserts overlap.
StoredNeverShrinks == [][Stored \subseteq Stored']_vars

Deaf(c) == cli[c].home # NULL /\ srv[cli[c].home].state = "dead"

\* Whatever a browser has typed is stored in the end, since the server asks for what it
\* is missing, offline edits included (live_documents.py:141): except an edit whose
\* server died, or failed, after it had broadcast the edit and before it inserted it
\* (whoever got it then has it from a remote origin), and what a browser has whose
\* session lost its listener to an exception.
EditIsStoredInTime ==
  <>[](\A c \in Clients : Deaf(c) \/ cli[c].doc \subseteq Stored \cup events.lost)

\* Every browser gets every edit that is stored, whichever server it is connected to,
\* unless some server missed the notification.
EveryoneSees == <>[](\/ \A c \in Clients : Stored \subseteq cli[c].doc
                     \/ ~Without({"gap", "lose", "fail"}))

=============================================================================
