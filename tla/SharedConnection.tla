-------------------------- MODULE SharedConnection --------------------------
(***************************************************************************)
(* The browser tabs of one user share one WebSocket                        *)
(* (app/javascript/channels/backends/sharedConnection.ts): the tab that    *)
(* holds a Web Lock is the leader and owns the socket (websocket.ts), the  *)
(* others reach the server through it over a BroadcastChannel.  A topic's  *)
(* subscription is counted by the leader; client.ts subscribes again every *)
(* time its tab learns that it is connected.  One topic is modelled.       *)
(*                                                                         *)
(* External, from how the code uses it: the lock manager (grants in the    *)
(* order of the requests, and never a request whose signal is aborted),    *)
(* the BroadcastChannel (every open tab but the sender, in posting order), *)
(* page life cycle, the network and the server's session for a socket.     *)
(***************************************************************************)
EXTENDS Naturals, Sequences, SequencesExt

CONSTANTS
  Tabs,
  MaxAttempts,   (* maxReconnectAttempts                                       *)
  Starts,        (* how often each of Events may happen (bound), alternatives  *)
  NULL

(***************************************************************************)
(* `background`: a tab is opened hidden; `overrun`: a first handshake       *)
(* outlasts BACKGROUND_GRACE_PERIOD_MS; `abandon`: that period ends during  *)
(* the handshake of a reconnection; `lag`: a tab acts, or a handshake ends, *)
(* before it has handled the messages it was sent.                          *)
(***************************************************************************)
Events == {"open", "background", "hide", "close", "overrun", "abandon", "subscribe", "lag",
           "drop", "refuse", "offline", "expel", "reject"}

ASSUME SharedConnectionAssumption ==
  /\ MaxAttempts \in Nat
  /\ Starts \subseteq [Events -> Nat]
  /\ NULL \notin Tabs

VARIABLES
  tab,      (* each tab: the page, its backend and its client                  *)
  inbox,    (* BroadcastChannel messages a tab has not handled                 *)
  lock,     (* the Web Lock: who holds it, and where its callback waits        *)
  queue,    (* requests for the lock, in order                                 *)
  online,   (* navigator.onLine                                                *)
  events    (* how many of each kind are left, which kinds there have been     *)

vars == <<tab, inbox, lock, queue, online, events>>

Views == {"unopened", "visible", "hidden", "closed"}
Sockets == {"none", "connecting", "open", "closing", "waiting", "parked", "stopped"}
Messages == {"up", "down", "subscribe", "unsubscribe", "ask", "rejected"}

(***************************************************************************)
(* A tab.  `ctl`: lockAbortController is set; `armed`: the grace timer     *)
(* runs; `wants`: its client has a subscription to the topic; `count`: the *)
(* leader's subscriptionCounts; `srv`: the server's session for this tab's *)
(* socket is subscribed; `strays`: sockets the backend has let go while    *)
(* they were connecting, which go on connecting and may open.              *)
(***************************************************************************)
NoTab == [view |-> "unopened", leader |-> FALSE, connected |-> FALSE, ctl |-> FALSE,
          armed |-> FALSE, ws |-> "none", attempts |-> 0, wants |-> FALSE,
          count |-> 0, srv |-> FALSE, strays |-> 0]

FreeLock == [tab |-> NULL, awaiting |-> FALSE, aborted |-> FALSE]

IsOpen(t) == tab[t].view \in {"visible", "hidden"}

Occur(E) == /\ \A e \in E : events.left[e] > 0
            /\ events' = [left |-> [e \in Events |-> events.left[e] - (IF e \in E THEN 1 ELSE 0)],
                          seen |-> events.seen \cup E]

Spend(e) == Occur({e})

\* t leaves `mine` in its own inbox and posts `out` to the other open tabs.
Exchange(t, mine, out) ==
  inbox' = [u \in Tabs |-> CASE u = t -> mine
                             [] u # t /\ IsOpen(u) -> inbox[u] \o out
                             [] OTHER -> inbox[u]]

Post(t, out) == Exchange(t, inbox[t], out)
Lag(T)       == IF \A t \in T : inbox[t] = <<>> THEN {} ELSE {"lag"}

(***************************************************************************)
(* The leader's bookkeeping                                                *)
(***************************************************************************)
\* Counted whether or not the socket can carry it.
LeaderSubscribe(r) == [r EXCEPT !.count = @ + 1, !.srv = @ \/ r.ws = "open"]

\* Variant: unsubscribes are not held against what was counted.
Uncount(r) == [r EXCEPT !.count = @ - 1]

LeaderUnsubscribe(r) ==
  IF r.count <= 1 THEN [r EXCEPT !.count = 0, !.srv = @ /\ r.ws # "open"]
                  ELSE [r EXCEPT !.count = @ - 1]

\* client.ts on "connected": subscribe again to what the tab wants.
LeaderConnected(r) ==
  LET up == [r EXCEPT !.connected = TRUE]
  IN  IF r.wants THEN LeaderSubscribe(up) ELSE up

(***************************************************************************)
(* Contention                                                              *)
(***************************************************************************)
\* Variant: the socket survives.
ExitedKeepingSocket(r) ==
  [r EXCEPT !.armed = FALSE, !.leader = FALSE, !.ctl = FALSE, !.connected = FALSE, !.count = 0]

\* cleanupConnection closes an open socket; one that is still connecting it only
\* forgets, without its handlers.
Strays(r) == IF r.ws = "connecting" THEN r.strays + 1 ELSE r.strays

\* What exitLeadershipContention resets, disconnect() of the backend included.
Exited(r) ==
  [r EXCEPT !.armed = FALSE, !.ws = "none", !.strays = Strays(r), !.attempts = 0, !.srv = FALSE,
            !.count = 0, !.leader = FALSE, !.ctl = FALSE, !.connected = FALSE]

\* A tab has one request at most: the one of its controller.
Withdraw(q, t) == IF t \in ToSet(q) THEN RemoveAt(q, CHOOSE i \in DOMAIN q : q[i] = t) ELSE q

\* Variant: the controller is dropped without abort().
AbortNothing(t) == UNCHANGED <<lock, queue>>

\* abort(): withdraws the request, or lets the callback of the held lock return.
Abort(t) ==
  CASE ~tab[t].ctl              -> UNCHANGED <<lock, queue>>
    [] t \in ToSet(queue)       -> queue' = Withdraw(queue, t) /\ UNCHANGED lock
    [] OTHER                    -> lock' = [lock EXCEPT !.aborted = TRUE] /\ UNCHANGED queue

ExitLeadershipContention(t, view) ==
  /\ tab' = [tab EXCEPT ![t] = [Exited(@) EXCEPT !.view = view]]
  /\ Abort(t)

\* acquireLeaderLock and requestStateFromLeader
Contend(t, view) ==
  /\ tab' = [tab EXCEPT ![t] = [@ EXCEPT !.view = view, !.ctl = TRUE, !.armed = FALSE]]
  /\ queue' = Append(queue, t)
  /\ Post(t, <<"ask">>)

(***************************************************************************)
(* Pages                                                                   *)
(***************************************************************************)
Open(t) ==
  /\ tab[t].view = "unopened"
  /\ \/ Occur({"open"}) /\ Contend(t, "visible")
     \/ Occur({"open", "background"}) /\ Contend(t, "hidden")
  /\ UNCHANGED <<lock, online>>

\* Variant: a hidden leader sets no timer.
HideUntimed(t) ==
  /\ tab[t].view = "visible"
  /\ Spend("hide")
  /\ \/ /\ tab[t].leader
        /\ tab' = [tab EXCEPT ![t].view = "hidden"]
        /\ UNCHANGED <<lock, queue>>
     \/ ~tab[t].leader /\ ExitLeadershipContention(t, "hidden")
  /\ UNCHANGED <<inbox, online>>

\* handleTabHidden; a visible tab always contends, so a follower has a controller.
Hide(t) ==
  /\ tab[t].view = "visible"
  /\ Spend("hide")
  /\ \/ /\ tab[t].leader
        /\ tab' = [tab EXCEPT ![t].view = "hidden", ![t].armed = TRUE]
        /\ UNCHANGED <<lock, queue>>
     \/ /\ ~tab[t].leader /\ tab[t].ctl
        /\ ExitLeadershipContention(t, "hidden")
  /\ UNCHANGED <<inbox, online>>

\* handleTabVisible
Show(t) ==
  /\ tab[t].view = "hidden"
  /\ \/ /\ tab[t].leader \/ tab[t].ctl
        /\ tab' = [tab EXCEPT ![t].view = "visible", ![t].armed = FALSE]
        /\ UNCHANGED <<inbox, queue>>
     \/ /\ ~tab[t].leader /\ ~tab[t].ctl
        /\ Contend(t, "visible")
  /\ UNCHANGED <<lock, online, events>>

\* backgroundReleaseTimeout: cancelled when the tab shows or stops leading, so the
\* test `isLeader && document.hidden` holds whenever it runs.
GraceElapses(t) ==
  /\ tab[t].armed /\ tab[t].leader /\ tab[t].view = "hidden"
  /\ Occur(CASE tab[t].ws # "connecting" -> {}
             [] tab[t].ws = "connecting" /\ lock.awaiting  -> {"overrun"}
             [] tab[t].ws = "connecting" /\ ~lock.awaiting -> {"abandon"})
  /\ ExitLeadershipContention(t, "hidden")
  /\ UNCHANGED <<inbox, online>>

\* The page goes away; the browser withdraws its lock and its requests.
Close(t) ==
  /\ IsOpen(t)
  /\ Spend("close")
  /\ tab' = [tab EXCEPT ![t] = [NoTab EXCEPT !.view = "closed"]]
  /\ inbox' = [inbox EXCEPT ![t] = <<>>]
  /\ lock' = IF lock.tab = t THEN FreeLock ELSE lock
  /\ queue' = Withdraw(queue, t)
  /\ UNCHANGED online

(***************************************************************************)
(* The lock                                                                *)
(***************************************************************************)
\* The request is granted and its callback runs becomeLeader up to the await.
BecomeLeader(t) ==
  /\ lock.tab = NULL /\ queue # <<>> /\ t = Head(queue)
  /\ lock' = [tab |-> t, awaiting |-> TRUE, aborted |-> FALSE]
  /\ queue' = Tail(queue)
  /\ tab' = [tab EXCEPT ![t].leader = TRUE, ![t].connected = FALSE, ![t].count = 0,
                        ![t].ws = "connecting", ![t].attempts = 0]
  /\ Post(t, <<"down">>)
  /\ UNCHANGED <<online, events>>

\* Past the await of the first connect, and aborted: the callback returns.
ReleaseLock ==
  /\ lock.tab # NULL /\ lock.aborted /\ ~lock.awaiting
  /\ lock' = FreeLock
  /\ UNCHANGED <<tab, inbox, queue, online, events>>

(***************************************************************************)
(* The leader's socket                                                     *)
(***************************************************************************)
WsOpens(t) ==
  /\ tab[t].ws = "connecting" /\ online
  /\ Occur(Lag(Tabs))
  /\ tab' = [tab EXCEPT ![t] = LeaderConnected([@ EXCEPT !.ws = "open"])]
  /\ lock' = [lock EXCEPT !.awaiting = FALSE]
  /\ Post(t, <<"up">>)
  /\ UNCHANGED <<queue, online>>

\* Variant: out of attempts, the tab gives up leading for good.
QuitLeadership(t, r) ==
  /\ tab' = [tab EXCEPT ![t] = Exited(r)]
  /\ lock' = [lock EXCEPT !.awaiting = FALSE, !.aborted = TRUE]
  /\ UNCHANGED queue

\* exitLeadershipContention, and back in line when visible.  The socket has closed.
ReleaseLeadership(t, r) ==
  /\ tab' = [tab EXCEPT ![t] = [Exited(r) EXCEPT !.ctl = (r.view = "visible")]]
  /\ lock' = [lock EXCEPT !.awaiting = FALSE, !.aborted = TRUE]
  /\ queue' = IF r.view = "visible" THEN Append(queue, t) ELSE queue

\* The "disconnected" listener, then attemptReconnect: wait for the network, or back
\* off, or release leadership.  A first connect has been rejected: the await is over.
Reconnect(t) ==
  LET down == [tab[t] EXCEPT !.ws = "closing", !.connected = FALSE, !.srv = FALSE]
      Try(r) == /\ tab' = [tab EXCEPT ![t] = r]
                /\ lock' = [lock EXCEPT !.awaiting = FALSE]
                /\ UNCHANGED queue
  IN  \/ ~online /\ Try([down EXCEPT !.ws = "parked"])
      \/ /\ online /\ tab[t].attempts < MaxAttempts
         /\ Try([down EXCEPT !.ws = "waiting", !.attempts = @ + 1])
      \/ /\ online /\ tab[t].attempts >= MaxAttempts
         /\ ReleaseLeadership(t, down)

\* onerror rejects connect's promise, onclose follows.
WsFails(t) ==
  /\ tab[t].ws = "connecting"
  /\ \/ ~online /\ UNCHANGED events
     \/ online /\ Spend("refuse")
  /\ Reconnect(t)
  /\ Post(t, <<"down">>)
  /\ UNCHANGED online

\* The socket is gone; its close event is not handled yet.
WsDrops(t) ==
  /\ tab[t].ws = "open"
  /\ Spend("drop")
  /\ tab' = [tab EXCEPT ![t].ws = "closing", ![t].srv = FALSE]
  /\ UNCHANGED <<inbox, lock, queue, online>>

\* A stray socket is refused, loses its server, or is collected with its wrapper.
StrayEnds(t) ==
  /\ tab[t].strays > 0
  /\ tab' = [tab EXCEPT ![t].strays = @ - 1]
  /\ UNCHANGED <<inbox, lock, queue, online, events>>

\* onclose; with the policy violation code the backend stays down.
WsClosed(t) ==
  /\ tab[t].ws = "closing"
  /\ \/ Reconnect(t) /\ UNCHANGED events
     \/ /\ Spend("expel")
        /\ tab' = [tab EXCEPT ![t].ws = "stopped", ![t].connected = FALSE]
        /\ UNCHANGED <<lock, queue>>
  /\ Post(t, <<"down">>)
  /\ UNCHANGED online

RetryElapses(t) ==
  /\ tab[t].ws = "waiting"
  /\ tab' = [tab EXCEPT ![t].ws = "connecting"]
  /\ UNCHANGED <<inbox, lock, queue, online, events>>

StableElapses(t) ==
  /\ tab[t].ws = "open" /\ tab[t].attempts # 0
  /\ tab' = [tab EXCEPT ![t].attempts = 0]
  /\ UNCHANGED <<inbox, lock, queue, online, events>>

GoOffline ==
  /\ online /\ Spend("offline")
  /\ online' = FALSE
  /\ UNCHANGED <<tab, inbox, lock, queue>>

\* The `online` event; a parked backend reconnects from a clean slate.
GoOnline ==
  /\ ~online
  /\ online' = TRUE
  /\ tab' = [t \in Tabs |-> IF tab[t].ws = "parked"
                            THEN [tab[t] EXCEPT !.ws = "connecting", !.attempts = 0]
                            ELSE tab[t]]
  /\ UNCHANGED <<inbox, lock, queue, events>>

(***************************************************************************)
(* BroadcastChannel messages                                               *)
(***************************************************************************)
Receive(t, kind) == IsOpen(t) /\ inbox[t] # <<>> /\ Head(inbox[t]) = kind

\* Variant: a follower that hears the leader is up does not subscribe again.
ConnectionStateQuiet(t) ==
  \E kind \in {"up", "down"} :
    /\ Receive(t, kind)
    /\ tab' = IF tab[t].leader THEN tab ELSE [tab EXCEPT ![t].connected = (kind = "up")]
    /\ Exchange(t, Tail(inbox[t]), <<>>)
    /\ UNCHANGED <<lock, queue, online, events>>

\* CONNECTION_STATE; on the way up the client subscribes again, through the leader.
ConnectionState(t) ==
  \E kind \in {"up", "down"} :
    /\ Receive(t, kind)
    /\ tab' = IF tab[t].leader THEN tab ELSE [tab EXCEPT ![t].connected = (kind = "up")]
    /\ Exchange(t, Tail(inbox[t]),
                IF kind = "up" /\ ~tab[t].leader /\ ~tab[t].connected /\ tab[t].wants
                THEN <<"subscribe">> ELSE <<>>)
    /\ UNCHANGED <<lock, queue, online, events>>

\* SEND_REQUEST
SendRequest(t) ==
  \E kind \in {"subscribe", "unsubscribe"} :
    /\ Receive(t, kind)
    /\ tab' = CASE ~tab[t].leader -> tab
                [] tab[t].leader /\ kind = "subscribe" ->
                     [tab EXCEPT ![t] = LeaderSubscribe(@)]
                [] OTHER -> [tab EXCEPT ![t] = LeaderUnsubscribe(@)]
    /\ Exchange(t, Tail(inbox[t]), <<>>)
    /\ UNCHANGED <<lock, queue, online, events>>

\* STATE_REQUEST: answered from the socket's own state, which may be ahead of the
\* close event.
StateRequest(t) ==
  LET actual == tab[t].ws = "open"
  IN  /\ Receive(t, "ask")
      /\ tab' = CASE ~tab[t].leader \/ tab[t].connected = actual -> tab
                  [] tab[t].leader /\ tab[t].connected # actual ->
                       [tab EXCEPT ![t] = IF actual THEN LeaderConnected(@)
                                          ELSE [@ EXCEPT !.connected = FALSE]]
      /\ Exchange(t, Tail(inbox[t]),
                  CASE ~tab[t].leader -> <<>>
                    [] tab[t].leader /\ actual -> <<"up">>
                    [] OTHER -> <<"down">>)
      /\ UNCHANGED <<lock, queue, online, events>>

\* WS_MESSAGE, the server's rejection: the client forgets the topic.
WsMessage(t) ==
  /\ Receive(t, "rejected")
  /\ tab' = IF tab[t].leader THEN tab ELSE [tab EXCEPT ![t].wants = FALSE]
  /\ Exchange(t, Tail(inbox[t]), <<>>)
  /\ UNCHANGED <<lock, queue, online, events>>

(***************************************************************************)
(* The client                                                              *)
(***************************************************************************)
\* send: the leader's own, or a request to it, or nothing while disconnected.
Send(t, r, kind) ==
  CASE r.connected /\ r.leader  ->
         /\ tab' = [tab EXCEPT ![t] = IF kind = "subscribe" THEN LeaderSubscribe(r)
                                      ELSE LeaderUnsubscribe(r)]
         /\ UNCHANGED inbox
    [] r.connected /\ ~r.leader -> tab' = [tab EXCEPT ![t] = r] /\ Post(t, <<kind>>)
    [] ~r.connected             -> tab' = [tab EXCEPT ![t] = r] /\ UNCHANGED inbox

Subscribe(t) ==
  /\ IsOpen(t) /\ ~tab[t].wants
  /\ Occur({"subscribe"} \cup Lag({t}))
  /\ Send(t, [tab[t] EXCEPT !.wants = TRUE], "subscribe")
  /\ UNCHANGED <<lock, queue, online>>

Unsubscribe(t) ==
  /\ IsOpen(t) /\ tab[t].wants
  /\ Occur(Lag({t}))
  /\ Send(t, [tab[t] EXCEPT !.wants = FALSE], "unsubscribe")
  /\ UNCHANGED <<lock, queue, online>>

\* The server rejects the topic: the leader's count goes, and every tab is told.
Reject(t) ==
  /\ tab[t].srv
  /\ Spend("reject")
  /\ tab' = [tab EXCEPT ![t].srv = FALSE, ![t].count = 0, ![t].wants = FALSE]
  /\ Post(t, <<"rejected">>)
  /\ UNCHANGED <<lock, queue, online>>

(***************************************************************************)
(* Specification                                                           *)
(***************************************************************************)
Init ==
  /\ tab = [t \in Tabs |-> NoTab]
  /\ inbox = [t \in Tabs |-> <<>>]
  /\ lock = FreeLock
  /\ queue = <<>>
  /\ online = TRUE
  /\ \E left \in Starts : events = [left |-> left, seen |-> {}]

Page(t)    == Open(t) \/ Hide(t) \/ Show(t) \/ GraceElapses(t) \/ Close(t)
Socket(t)  == WsOpens(t) \/ WsFails(t) \/ WsDrops(t) \/ WsClosed(t) \/ RetryElapses(t) \/ StableElapses(t)
              \/ StrayEnds(t)
Handle(t)  == ConnectionState(t) \/ SendRequest(t) \/ StateRequest(t) \/ WsMessage(t)
Client(t)  == Subscribe(t) \/ Unsubscribe(t) \/ Reject(t)

Next == \/ \E t \in Tabs : Page(t) \/ BecomeLeader(t) \/ Socket(t) \/ Handle(t) \/ Client(t)
        \/ ReleaseLock \/ GoOffline \/ GoOnline

Spec == Init /\ [][Next]_vars

\* The browser delivers messages and lock grants, its timers fire, a handshake ends
\* one way or the other, and the network comes back.  Users need do nothing.
Fairness ==
  /\ \A t \in Tabs : /\ WF_vars(Handle(t)) /\ WF_vars(BecomeLeader(t))
                     /\ WF_vars(GraceElapses(t)) /\ WF_vars(RetryElapses(t))
                     /\ WF_vars(WsClosed(t)) /\ WF_vars(WsOpens(t) \/ WsFails(t))
  /\ WF_vars(ReleaseLock) /\ WF_vars(GoOnline)

FairSpec == Spec /\ Fairness

(***************************************************************************)
(* Properties                                                              *)
(***************************************************************************)
\* The shape of every variable.
TypeOK ==
  /\ tab \in [Tabs -> [view : Views, leader : BOOLEAN, connected : BOOLEAN, ctl : BOOLEAN,
                       armed : BOOLEAN, ws : Sockets, attempts : Nat, wants : BOOLEAN,
                       count : Nat, srv : BOOLEAN, strays : Nat]]
  /\ inbox \in [Tabs -> Seq(Messages)]
  /\ lock \in [tab : Tabs \cup {NULL}, awaiting : BOOLEAN, aborted : BOOLEAN]
  /\ queue \in Seq(Tabs)
  /\ online \in BOOLEAN
  /\ events \in [left : [Events -> Nat], seen : SUBSET Events]

Without(kinds) == events.seen \cap kinds = {}

HasSocket(t) == tab[t].ws # "none" \/ tab[t].strays > 0

\* What the shared backend exists for (class comment).  At most one tab has a backend
\* with a socket, or one that tries to open it, across every hand-over of the lock; and
\* unless a grace period ends while a reconnection's handshake is under way, no other
\* socket of the browser is left, open or opening, and none beside it in its own tab.
OneConnection ==
  /\ \A t, u \in Tabs : tab[t].ws # "none" /\ tab[u].ws # "none" => t = u
  /\ Without({"abandon"}) =>
       \A t, u \in Tabs : /\ HasSocket(t) /\ HasSocket(u) => t = u
                          /\ tab[t].ws # "none" => tab[t].strays = 0

\* A visible tab leads or waits for the lock, however it was shown, hidden, demoted by
\* exhausted retries or overtaken: none is left out of the election.
VisibleContends ==
  \A t \in Tabs : tab[t].view = "visible" => tab[t].leader \/ t \in ToSet(queue)

Settled(l) == /\ tab[l].leader /\ tab[l].ws = "open"
              /\ \A t \in Tabs : inbox[t] = <<>>

\* Once every message is handled and the leader's socket is up, the server has the
\* topic for every connected tab that wants it, whoever led when it subscribed, unless
\* a tab acted on a stale idea of who leads.
WantedIsSubscribed == Without({"lag"}) =>
  \A l, t \in Tabs : Settled(l) /\ tab[t].wants /\ tab[t].connected => tab[l].srv

\* A hidden tab gives the lock up, so that it never keeps visible tabs waiting
\* (sharedConnection.ts:157): except one that was opened in the background, and one whose
\* first handshake outlasts the grace period.
HiddenReleasesLockInTime ==
  \A t \in Tabs : (tab[t].view = "hidden" /\ lock.tab = t)
                    ~> \/ tab[t].view # "hidden" \/ lock.tab # t
                       \/ ~Without({"overrun", "background"})

\* A visible tab is connected again after any finite number of dropped sockets, failed
\* handshakes, hidden or closed leaders and spells offline.
VisibleIsConnected ==
  \A t \in Tabs : tab[t].view = "visible"
                    ~> \/ tab[t].connected \/ tab[t].view # "visible"
                       \/ ~Without({"overrun", "expel"})

=============================================================================
