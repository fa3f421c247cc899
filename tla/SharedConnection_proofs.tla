----------------------- MODULE SharedConnection_proofs -----------------------
(***************************************************************************)
(* Proofs about SharedConnection for any set of tabs, any number of        *)
(* attempts and any events: the type invariant, that one tab at most has a *)
(* socket, that every visible tab takes part in the election, and that the *)
(* server is subscribed for every connected tab that wants the topic.      *)
(***************************************************************************)
EXTENDS SharedConnection, SequenceTheorems, FiniteSetTheorems, TLAPS

TabRec == [view : Views, leader : BOOLEAN, connected : BOOLEAN, ctl : BOOLEAN,
           armed : BOOLEAN, ws : Sockets, attempts : Nat, wants : BOOLEAN,
           count : Nat, srv : BOOLEAN, strays : Nat]
LockRec == [tab : Tabs \cup {NULL}, awaiting : BOOLEAN, aborted : BOOLEAN]
EventsRec == [left : [Events -> Nat], seen : SUBSET Events]

(***************************************************************************)
(* The inductive invariant.  A socket belongs to a leader, and the leader  *)
(* to the lock, which nobody has told it to release; a tab with a          *)
(* controller leads or waits, so that abort() reaches what it is meant for *)
(* and never the lock of another tab.                                      *)
(***************************************************************************)
LeaderHasLock ==
  \A t \in Tabs : /\ tab[t].ws # "none" => tab[t].leader
                  /\ tab[t].leader => lock.tab = t /\ ~lock.aborted

ControllerContends ==
  \A t \in Tabs : tab[t].ctl => tab[t].leader \/ t \in ToSet(queue)

Election == LeaderHasLock /\ ControllerContends /\ VisibleContends

IInv == TypeOK /\ Election

-----------------------------------------------------------------------------
(***************************************************************************)
(* Sequences                                                               *)
(***************************************************************************)
\* Nobody waits twice.
Distinct(q) == \A i, j \in DOMAIN q : q[i] = q[j] => i = j

\* Who waits, as the queue changes: an append adds one, taking the head loses the head
\* at most, and a withdrawal loses nobody but the tab that withdraws.
LEMMA AppendWaits ==
  ASSUME NEW q \in Seq(Tabs), NEW t \in Tabs
  PROVE  /\ Append(q, t) \in Seq(Tabs)
         /\ ToSet(Append(q, t)) = ToSet(q) \cup {t}
<1>1. /\ Append(q, t) \in Seq(Tabs) /\ Len(Append(q, t)) = Len(q) + 1
      /\ \A i \in 1 .. Len(q) : Append(q, t)[i] = q[i]
      /\ Append(q, t)[Len(q) + 1] = t
  BY AppendProperties
<1>2. Len(q) \in Nat /\ DOMAIN q = 1 .. Len(q) /\ DOMAIN Append(q, t) = 1 .. (Len(q) + 1)
  BY <1>1, LenProperties
<1>3. ToSet(q) \cup {t} \subseteq ToSet(Append(q, t))
  BY <1>1, <1>2 DEF ToSet
<1>4. ToSet(Append(q, t)) \subseteq ToSet(q) \cup {t}
  <2>1. ASSUME NEW i \in 1 .. (Len(q) + 1)
        PROVE  Append(q, t)[i] \in ToSet(q) \cup {t}
    <3>1. i = Len(q) + 1 \/ i \in 1 .. Len(q)
      BY <1>2
    <3>2. QED
      BY <1>1, <1>2, <3>1 DEF ToSet
  <2>2. QED
    BY <1>2, <2>1 DEF ToSet
<1>5. QED
  BY <1>1, <1>3, <1>4

LEMMA TailWaits ==
  ASSUME NEW q \in Seq(Tabs), q # <<>>
  PROVE  /\ Head(q) \in Tabs /\ Tail(q) \in Seq(Tabs)
         /\ ToSet(q) \subseteq ToSet(Tail(q)) \cup {Head(q)}
<1>1. /\ Head(q) \in Tabs /\ Tail(q) \in Seq(Tabs) /\ Len(Tail(q)) = Len(q) - 1
      /\ \A i \in 1 .. Len(Tail(q)) : Tail(q)[i] = q[i + 1]
  BY HeadTailProperties
<1>2. Len(q) \in Nat /\ DOMAIN q = 1 .. Len(q) /\ DOMAIN Tail(q) = 1 .. (Len(q) - 1)
  BY <1>1, LenProperties
<1>3. Head(q) = q[1]
  OBVIOUS
<1>4. ASSUME NEW i \in 1 .. Len(q)
      PROVE  q[i] \in ToSet(Tail(q)) \cup {Head(q)}
  <2>1. CASE i = 1
    BY <1>3, <2>1
  <2>2. CASE i # 1
    <3>1. i - 1 \in 1 .. (Len(q) - 1) /\ (i - 1) + 1 = i
      BY <1>2, <2>2
    <3>2. Tail(q)[i - 1] = q[i]
      BY <1>1, <3>1
    <3>3. QED
      BY <1>2, <3>1, <3>2 DEF ToSet
  <2>3. QED
    BY <2>1, <2>2
<1>5. QED
  BY <1>1, <1>2, <1>4 DEF ToSet

\* A withdrawal closes the gap it leaves.
LEMMA WithdrawShape ==
  ASSUME NEW q \in Seq(Tabs), NEW t \in Tabs, t \in ToSet(q)
  PROVE  \E p \in 1 .. Len(q) :
           /\ q[p] = t
           /\ Withdraw(q, t) \in Seq(Tabs) /\ Len(Withdraw(q, t)) = Len(q) - 1
           /\ \A i \in 1 .. (Len(q) - 1) : Withdraw(q, t)[i] = IF i < p THEN q[i] ELSE q[i + 1]
<1> DEFINE p == CHOOSE i \in DOMAIN q : q[i] = t
           n == Len(q)
           a == SubSeq(q, 1, p - 1)
           b == SubSeq(q, p + 1, n)
<1>1. n \in Nat /\ DOMAIN q = 1 .. n
  BY LenProperties
<1>2. p \in 1 .. n /\ q[p] = t
  BY <1>1 DEF ToSet
<1>3. Withdraw(q, t) = a \o b
  BY DEF Withdraw, RemoveAt
<1> HIDE DEF p, n
<1>4. \A i \in 1 .. n : q[i] \in Tabs
  BY <1>1, ElementOfSeq DEF n
<1>5. /\ a \in Seq(Tabs) /\ Len(a) = p - 1
      /\ \A i \in 1 .. (p - 1) : a[i] = q[i]
  <2>1. \A i \in 1 .. (p - 1) : q[i] \in Tabs
    BY <1>1, <1>2, <1>4
  <2>2. 1 \in Int /\ p - 1 \in Int /\ p - 1 >= 0
    BY <1>1, <1>2
  <2>3. /\ a \in Seq(Tabs) /\ Len(a) = IF 1 <= p - 1 THEN (p - 1) - 1 + 1 ELSE 0
        /\ \A i \in 1 .. ((p - 1) - 1 + 1) : a[i] = q[1 + i - 1]
    BY <2>1, <2>2, SubSeqProperties
  <2>4. QED
    BY <2>2, <2>3
<1>6. /\ b \in Seq(Tabs) /\ Len(b) = n - p
      /\ \A i \in 1 .. (n - p) : b[i] = q[p + i]
  <2>1. \A i \in (p + 1) .. n : q[i] \in Tabs
    BY <1>1, <1>2, <1>4
  <2>2. p \in Int /\ n \in Int /\ p + 1 \in Int /\ p <= n
    BY <1>1, <1>2
  <2>3. /\ b \in Seq(Tabs) /\ Len(b) = IF p + 1 <= n THEN n - (p + 1) + 1 ELSE 0
        /\ \A i \in 1 .. (n - (p + 1) + 1) : b[i] = q[(p + 1) + i - 1]
    BY <2>1, <2>2, SubSeqProperties
  <2>4. QED
    BY <2>2, <2>3
<1> HIDE DEF a, b
<1>7. /\ a \o b \in Seq(Tabs) /\ Len(a \o b) = Len(a) + Len(b)
      /\ \A i \in 1 .. Len(a) + Len(b) :
           (a \o b)[i] = IF i <= Len(a) THEN a[i] ELSE b[i - Len(a)]
  BY <1>5, <1>6, ConcatProperties
<1>8. Len(a \o b) = n - 1
  BY <1>1, <1>2, <1>5, <1>6, <1>7
<1>9. ASSUME NEW i \in 1 .. (n - 1)
      PROVE  (a \o b)[i] = IF i < p THEN q[i] ELSE q[i + 1]
  <2>1. i \in 1 .. Len(a) + Len(b)
    BY <1>1, <1>2, <1>5, <1>6
  <2>2. CASE i < p
    <3>1. i <= Len(a) /\ i \in 1 .. (p - 1)
      BY <1>1, <1>2, <1>5, <2>2
    <3>2. QED
      BY <1>5, <1>7, <2>1, <2>2, <3>1
  <2>3. CASE ~(i < p)
    <3>1. ~(i <= Len(a)) /\ i - Len(a) \in 1 .. (n - p) /\ p + (i - Len(a)) = i + 1
      BY <1>1, <1>2, <1>5, <2>3
    <3>2. QED
      BY <1>6, <1>7, <2>1, <2>3, <3>1
  <2>4. QED
    BY <2>2, <2>3
<1>10. QED
  BY <1>2, <1>3, <1>7, <1>8, <1>9 DEF n

\* A withdrawal loses nobody but the tab that withdraws.
LEMMA WithdrawWaits ==
  ASSUME NEW q \in Seq(Tabs), NEW t \in Tabs
  PROVE  /\ Withdraw(q, t) \in Seq(Tabs)
         /\ ToSet(q) \subseteq ToSet(Withdraw(q, t)) \cup {t}
         /\ ToSet(Withdraw(q, t)) \subseteq ToSet(q)
         /\ Distinct(q) => Distinct(Withdraw(q, t)) /\ t \notin ToSet(Withdraw(q, t))
<1>1. CASE t \notin ToSet(q)
  BY <1>1 DEF Withdraw
<1>2. CASE t \in ToSet(q)
  <2> DEFINE n == Len(q)
             w == Withdraw(q, t)
  <2>1. PICK p \in 1 .. n :
          /\ q[p] = t /\ w \in Seq(Tabs) /\ Len(w) = n - 1
          /\ \A i \in 1 .. (n - 1) : w[i] = IF i < p THEN q[i] ELSE q[i + 1]
    BY <1>2, WithdrawShape
  <2>2. n \in Nat /\ DOMAIN q = 1 .. n /\ DOMAIN w = 1 .. (n - 1)
    BY <2>1, LenProperties
  <2> HIDE DEF n, w
  <2>3. ASSUME NEW i \in 1 .. n, i # p PROVE q[i] \in ToSet(w)
    <3>1. CASE i < p
      <4>1. i \in 1 .. (n - 1)
        BY <2>2, <3>1
      <4>2. QED
        BY <2>1, <2>2, <3>1, <4>1 DEF ToSet
    <3>2. CASE i > p
      <4>1. i - 1 \in 1 .. (n - 1) /\ ~(i - 1 < p) /\ (i - 1) + 1 = i
        BY <2>2, <3>2
      <4>2. w[i - 1] = q[i]
        BY <2>1, <4>1
      <4>3. QED
        BY <2>2, <4>1, <4>2 DEF ToSet
    <3>3. QED
      BY <2>2, <2>3, <3>1, <3>2
  <2>4. ToSet(q) \subseteq ToSet(w) \cup {t}
    BY <2>1, <2>2, <2>3 DEF ToSet
  <2> DEFINE pos(i) == IF i < p THEN i ELSE i + 1
  <2>5. \A i \in 1 .. (n - 1) : /\ pos(i) \in 1 .. n /\ pos(i) # p /\ w[i] = q[pos(i)]
    BY <2>1, <2>2
  <2>6. \A i, j \in 1 .. (n - 1) : pos(i) = pos(j) => i = j
    BY <2>2
  <2> HIDE DEF pos
  <2>7. ToSet(w) \subseteq ToSet(q)
    BY <2>2, <2>5 DEF ToSet
  <2>8. ASSUME Distinct(q) PROVE Distinct(w) /\ t \notin ToSet(w)
    <3>1. Distinct(w)
      BY <2>2, <2>5, <2>6, <2>8 DEF Distinct
    <3>2. \A i \in 1 .. (n - 1) : q[pos(i)] # q[p]
      BY <2>1, <2>2, <2>5, <2>8 DEF Distinct
    <3>3. t \notin ToSet(w)
      BY <2>1, <2>2, <2>5, <3>2 DEF ToSet
    <3>4. QED
      BY <3>1, <3>3
  <2>9. QED
    BY <2>1, <2>4, <2>7, <2>8 DEF w
<1>3. QED
  BY <1>1, <1>2

\* A tab that joins the line, or the first that leaves it, keeps it without repetition.
LEMMA AppendDistinct ==
  ASSUME NEW q \in Seq(Tabs), NEW t \in Tabs, Distinct(q), t \notin ToSet(q)
  PROVE  Distinct(Append(q, t))
<1> DEFINE p == Append(q, t)
           n == Len(q)
<1>1. /\ p \in Seq(Tabs) /\ Len(p) = n + 1
      /\ \A i \in 1 .. n : p[i] = q[i]
      /\ p[n + 1] = t
  BY AppendProperties
<1>2. n \in Nat /\ DOMAIN q = 1 .. n /\ DOMAIN p = 1 .. (n + 1)
  BY <1>1, LenProperties
<1> HIDE DEF p, n
<1>3. \A i \in 1 .. (n + 1) : i = n + 1 \/ i \in 1 .. n
  BY <1>2
<1>4. \A i \in 1 .. n : p[i] # t /\ p[i] = q[i]
  BY <1>1, <1>2 DEF ToSet
<1>5. Distinct(p)
  BY <1>1, <1>2, <1>3, <1>4 DEF Distinct
<1>6. QED
  BY <1>5 DEF p

LEMMA TailDistinct ==
  ASSUME NEW q \in Seq(Tabs), q # <<>>, Distinct(q)
  PROVE  /\ Distinct(Tail(q)) /\ ToSet(Tail(q)) \subseteq ToSet(q)
         /\ Head(q) \in ToSet(q) /\ Head(q) \notin ToSet(Tail(q))
<1> DEFINE p == Tail(q)
           n == Len(q)
<1>1. /\ p \in Seq(Tabs) /\ Len(p) = n - 1
      /\ \A i \in 1 .. Len(p) : p[i] = q[i + 1]
  BY HeadTailProperties
<1>2. n \in Nat /\ n # 0 /\ DOMAIN q = 1 .. n /\ DOMAIN p = 1 .. (n - 1)
  BY <1>1, LenProperties, EmptySeq
<1>3. Head(q) = q[1]
  OBVIOUS
<1> HIDE DEF p, n
<1>4. /\ 1 \in 1 .. n
      /\ \A i \in 1 .. (n - 1) : p[i] = q[i + 1] /\ i + 1 \in 1 .. n /\ i + 1 # 1
  BY <1>1, <1>2
<1>5. ASSUME NEW i \in 1 .. (n - 1), NEW j \in 1 .. (n - 1), p[i] = p[j] PROVE i = j
  <2>1. q[i + 1] = q[j + 1] /\ i + 1 \in 1 .. n /\ j + 1 \in 1 .. n
    BY <1>4, <1>5
  <2>2. i + 1 = j + 1
    BY <1>2, <2>1 DEF Distinct
  <2>3. QED
    BY <1>2, <2>2
<1>6. Distinct(p)
  BY <1>2, <1>5 DEF Distinct
<1>7. ToSet(p) \subseteq ToSet(q)
  BY <1>2, <1>4 DEF ToSet
<1>8. Head(q) \in ToSet(q)
  BY <1>2, <1>3, <1>4 DEF ToSet
<1>9. Head(q) \notin ToSet(p)
  BY <1>2, <1>3, <1>4 DEF ToSet, Distinct
<1>10. QED
  BY <1>6, <1>7, <1>8, <1>9 DEF p

-----------------------------------------------------------------------------
(***************************************************************************)
(* Types                                                                   *)
(***************************************************************************)
LEMMA TypeIs == TypeOK <=> /\ tab \in [Tabs -> TabRec] /\ inbox \in [Tabs -> Seq(Messages)]
                           /\ lock \in LockRec /\ queue \in Seq(Tabs)
                           /\ online \in BOOLEAN /\ events \in EventsRec
BY DEF TypeOK, TabRec, LockRec, EventsRec

\* The bookkeeping of a tab keeps its type and leaves the election alone.
LEMMA TabOps ==
  /\ NoTab \in TabRec
  /\ \A r \in TabRec :
       /\ Exited(r) \in TabRec
       /\ \A op \in {LeaderSubscribe(r), LeaderUnsubscribe(r), LeaderConnected(r)} :
            /\ op \in TabRec /\ op.ws = r.ws
            /\ op.leader = r.leader /\ op.ctl = r.ctl /\ op.view = r.view
<1>1. NoTab \in TabRec
  BY DEF NoTab, TabRec, Views, Sockets
<1>2. ASSUME NEW r \in TabRec
      PROVE  /\ Exited(r) \in TabRec
             /\ LeaderSubscribe(r) \in TabRec /\ LeaderUnsubscribe(r) \in TabRec
             /\ \A op \in {LeaderSubscribe(r), LeaderUnsubscribe(r)} :
                  /\ op.ws = r.ws /\ op.leader = r.leader /\ op.ctl = r.ctl /\ op.view = r.view
  <2>1. Exited(r) \in TabRec
    <3>1. Strays(r) \in Nat
      BY DEF Strays, TabRec
    <3>2. QED
      BY <3>1 DEF Exited, TabRec, Sockets
  <2>2. ASSUME NEW c \in Nat, NEW b \in BOOLEAN
        PROVE  LET op == [r EXCEPT !.count = c, !.srv = b]
               IN  /\ op \in TabRec /\ op.ws = r.ws /\ op.leader = r.leader
                   /\ op.ctl = r.ctl /\ op.view = r.view
    BY DEF TabRec
  <2>3. /\ LeaderSubscribe(r) \in TabRec /\ LeaderSubscribe(r).ws = r.ws
        /\ LeaderSubscribe(r).leader = r.leader /\ LeaderSubscribe(r).ctl = r.ctl
        /\ LeaderSubscribe(r).view = r.view
    <3>1. r.count + 1 \in Nat
      BY DEF TabRec
    <3>2. (r.srv \/ r.ws = "open") \in BOOLEAN
      OBVIOUS
    <3>3. LeaderSubscribe(r) = [r EXCEPT !.count = r.count + 1, !.srv = (r.srv \/ r.ws = "open")]
      BY DEF LeaderSubscribe
    <3>4. QED
      BY <2>2, <3>1, <3>2, <3>3
  <2>4. /\ LeaderUnsubscribe(r) \in TabRec /\ LeaderUnsubscribe(r).ws = r.ws
        /\ LeaderUnsubscribe(r).leader = r.leader /\ LeaderUnsubscribe(r).ctl = r.ctl
        /\ LeaderUnsubscribe(r).view = r.view
    <3>1. CASE r.count <= 1
      <4>1. (r.srv /\ r.ws # "open") \in BOOLEAN /\ 0 \in Nat
        OBVIOUS
      <4>2. LeaderUnsubscribe(r) = [r EXCEPT !.count = 0, !.srv = (r.srv /\ r.ws # "open")]
        BY <3>1 DEF LeaderUnsubscribe
      <4>3. QED
        BY <2>2, <4>1, <4>2
    <3>2. CASE ~(r.count <= 1)
      <4>1. LeaderUnsubscribe(r) = [r EXCEPT !.count = r.count - 1]
        BY <3>2 DEF LeaderUnsubscribe
      <4>2. r.count - 1 \in Nat
        BY <3>2 DEF TabRec
      <4>3. QED
        BY <4>1, <4>2 DEF TabRec
    <3>3. QED
      BY <3>1, <3>2
  <2>5. QED
    BY <2>1, <2>3, <2>4
<1>3. ASSUME NEW r \in TabRec
      PROVE  /\ LeaderConnected(r) \in TabRec /\ LeaderConnected(r).ws = r.ws
             /\ LeaderConnected(r).leader = r.leader /\ LeaderConnected(r).ctl = r.ctl
             /\ LeaderConnected(r).view = r.view
  <2> DEFINE up == [r EXCEPT !.connected = TRUE]
  <2>1. /\ up \in TabRec /\ up.ws = r.ws /\ up.leader = r.leader /\ up.ctl = r.ctl
        /\ up.view = r.view
    BY DEF TabRec
  <2>2. LeaderConnected(r) = IF r.wants THEN LeaderSubscribe(up) ELSE up
    BY DEF LeaderConnected
  <2> HIDE DEF up
  <2>3. QED
    BY <1>2, <2>1, <2>2
<1>4. QED
  BY <1>1, <1>2, <1>3

LEMMA ConnectedOp ==
  ASSUME NEW x \in TabRec, NEW b \in BOOLEAN
  PROVE  LET r == [x EXCEPT !.connected = b]
         IN  /\ r \in TabRec /\ r.leader = x.leader /\ r.ctl = x.ctl
             /\ r.view = x.view /\ r.ws = x.ws
BY DEF TabRec

LEMMA SocketOp ==
  ASSUME NEW x \in TabRec, NEW w \in Sockets
  PROVE  \A r \in {[x EXCEPT !.ws = w, !.srv = FALSE], [x EXCEPT !.ws = w, !.connected = FALSE]} :
           /\ r \in TabRec /\ r.leader = x.leader /\ r.ctl = x.ctl /\ r.view = x.view
<1>1. /\ [x EXCEPT !.ws = w, !.srv = FALSE] \in TabRec
      /\ [x EXCEPT !.ws = w, !.connected = FALSE] \in TabRec
  BY DEF TabRec
<1>2. QED
  BY <1>1 DEF TabRec

LEMMA EventsType ==
  ASSUME events \in EventsRec, NEW E \in SUBSET Events, Occur(E)
  PROVE  events' \in EventsRec
BY DEF Occur, EventsRec

LEMMA InboxType ==
  ASSUME inbox \in [Tabs -> Seq(Messages)], NEW t \in Tabs, NEW out \in Seq(Messages)
  PROVE  /\ \A mine \in Seq(Messages) :
              Exchange(t, mine, out) => inbox' \in [Tabs -> Seq(Messages)]
         /\ Post(t, out) => inbox' \in [Tabs -> Seq(Messages)]
<1>1. ASSUME NEW mine \in Seq(Messages), Exchange(t, mine, out)
      PROVE  inbox' \in [Tabs -> Seq(Messages)]
  <2>1. \A u \in Tabs : inbox[u] \o out \in Seq(Messages)
    BY ConcatProperties
  <2>2. QED
    BY <1>1, <2>1 DEF Exchange
<1>2. QED
  BY <1>1 DEF Post

-----------------------------------------------------------------------------
(***************************************************************************)
(* The election                                                            *)
(***************************************************************************)
\* A step that changes one tab's socket, counts or wishes, and at most hides it.
LEMMA Kept ==
  ASSUME IInv, NEW t \in Tabs, NEW r \in TabRec,
         tab' = [tab EXCEPT ![t] = r],
         r.leader = tab[t].leader, r.ctl = tab[t].ctl,
         r.view = "visible" => tab[t].view = "visible",
         r.ws # "none" => tab[t].ws # "none",
         lock'.tab = lock.tab, lock'.aborted = lock.aborted, queue' = queue
  PROVE  tab' \in [Tabs -> TabRec] /\ Election'
<1>1. tab \in [Tabs -> TabRec]
  BY TypeIs DEF IInv
<1>2. tab' \in [Tabs -> TabRec] /\ tab'[t] = r /\ \A u \in Tabs : u # t => tab'[u] = tab[u]
  BY <1>1
<1>3. LeaderHasLock' /\ ControllerContends' /\ VisibleContends'
  BY <1>2 DEF IInv, Election, LeaderHasLock, ControllerContends, VisibleContends
<1>4. QED
  BY <1>2, <1>3 DEF Election

\* Nothing the election depends on changes.
LEMMA Unmoved ==
  ASSUME IInv, tab' = tab, lock' = lock, queue' = queue
  PROVE  tab' \in [Tabs -> TabRec] /\ Election'
<1>1. tab \in [Tabs -> TabRec] /\ Election
  BY TypeIs DEF IInv
<1>2. QED
  BY <1>1 DEF Election, LeaderHasLock, ControllerContends, VisibleContends

LEMMA ContendKeeps ==
  ASSUME IInv, NEW t \in Tabs, NEW view \in Views, Contend(t, view), lock' = lock
  PROVE  /\ tab' \in [Tabs -> TabRec] /\ queue' \in Seq(Tabs)
         /\ inbox' \in [Tabs -> Seq(Messages)]
         /\ Election'
<1> DEFINE r == [tab[t] EXCEPT !.view = view, !.ctl = TRUE, !.armed = FALSE]
<1>1. /\ tab \in [Tabs -> TabRec] /\ queue \in Seq(Tabs)
      /\ inbox \in [Tabs -> Seq(Messages)]
  BY TypeIs DEF IInv
<1>2. r \in TabRec /\ r.ws = tab[t].ws /\ r.leader = tab[t].leader
  BY <1>1 DEF TabRec
<1>3. tab' = [tab EXCEPT ![t] = r] /\ queue' = Append(queue, t) /\ Post(t, <<"ask">>)
  BY DEF Contend
<1> HIDE DEF r
<1>4. tab' \in [Tabs -> TabRec] /\ tab'[t] = r /\ \A u \in Tabs : u # t => tab'[u] = tab[u]
  BY <1>1, <1>2, <1>3
<1>5. queue' \in Seq(Tabs) /\ ToSet(queue') = ToSet(queue) \cup {t}
  BY <1>1, <1>3, AppendWaits
<1>6. <<"ask">> \in Seq(Messages)
  BY DEF Messages
<1>7. inbox' \in [Tabs -> Seq(Messages)]
  BY <1>1, <1>3, <1>6, InboxType
<1>8. LeaderHasLock' /\ ControllerContends' /\ VisibleContends'
  BY <1>2, <1>4, <1>5 DEF IInv, Election, LeaderHasLock, ControllerContends, VisibleContends
<1>9. QED
  BY <1>4, <1>5, <1>7, <1>8 DEF Election

\* abort() reaches the request of this tab or the lock it holds, and no other.
LEMMA ExitKeeps ==
  ASSUME IInv, NEW t \in Tabs, ExitLeadershipContention(t, "hidden")
  PROVE  /\ tab' \in [Tabs -> TabRec] /\ queue' \in Seq(Tabs) /\ lock' \in LockRec
         /\ Election'
<1> DEFINE r == [Exited(tab[t]) EXCEPT !.view = "hidden"]
<1>1. tab \in [Tabs -> TabRec] /\ queue \in Seq(Tabs) /\ lock \in LockRec
  BY TypeIs DEF IInv
<1>2. Exited(tab[t]) \in TabRec
  BY <1>1, TabOps
<1>3. r \in TabRec /\ r.ws = "none" /\ ~r.leader /\ ~r.ctl /\ r.view = "hidden"
  <2>1. /\ Exited(tab[t]).ws = "none" /\ Exited(tab[t]).leader = FALSE
        /\ Exited(tab[t]).ctl = FALSE
    BY <1>1 DEF Exited, TabRec
  <2>2. QED
    BY <1>2, <2>1 DEF TabRec, Views
<1>4. tab' = [tab EXCEPT ![t] = r] /\ Abort(t)
  BY DEF ExitLeadershipContention
<1> HIDE DEF r
<1>5. tab' \in [Tabs -> TabRec] /\ tab'[t] = r /\ \A u \in Tabs : u # t => tab'[u] = tab[u]
  BY <1>1, <1>3, <1>4
<1>6. \/ lock' = lock /\ queue' = queue
      \/ lock' = lock /\ queue' = Withdraw(queue, t)
      \/ /\ tab[t].ctl /\ t \notin ToSet(queue) /\ queue' = queue
         /\ lock' = [lock EXCEPT !.aborted = TRUE]
  BY <1>4 DEF Abort
<1>7. queue' \in Seq(Tabs) /\ ToSet(queue) \subseteq ToSet(queue') \cup {t}
  BY <1>1, <1>6, WithdrawWaits
<1>8. /\ lock' \in LockRec /\ lock'.tab = lock.tab
      /\ \A u \in Tabs : u # t /\ tab[u].leader => lock'.aborted = lock.aborted
  <2>1. CASE lock' = lock
    BY <1>1, <2>1
  <2>2. CASE tab[t].ctl /\ t \notin ToSet(queue) /\ lock' = [lock EXCEPT !.aborted = TRUE]
    <3>1. tab[t].leader /\ lock.tab = t
      BY <2>2 DEF IInv, Election, ControllerContends, LeaderHasLock
    <3>2. \A u \in Tabs : tab[u].leader => u = t
      BY <3>1 DEF IInv, Election, LeaderHasLock
    <3>3. lock' \in LockRec /\ lock'.tab = lock.tab
      BY <1>1, <2>2 DEF LockRec
    <3>4. QED
      BY <3>2, <3>3
  <2>3. QED
    BY <1>6, <2>1, <2>2
<1>9. LeaderHasLock' /\ ControllerContends' /\ VisibleContends'
  BY <1>3, <1>5, <1>7, <1>8
     DEF IInv, Election, LeaderHasLock, ControllerContends, VisibleContends
<1>10. QED
  BY <1>5, <1>7, <1>8, <1>9 DEF Election

LEMMA ReleaseLeadershipKeeps ==
  ASSUME IInv, NEW t \in Tabs, tab[t].leader, NEW d \in TabRec, d.view = tab[t].view,
         ReleaseLeadership(t, d)
  PROVE  /\ tab' \in [Tabs -> TabRec] /\ queue' \in Seq(Tabs) /\ lock' \in LockRec
         /\ Election'
<1> DEFINE r == [Exited(d) EXCEPT !.ctl = (d.view = "visible")]
<1>1. tab \in [Tabs -> TabRec] /\ queue \in Seq(Tabs) /\ lock \in LockRec
  BY TypeIs DEF IInv
<1>2. r \in TabRec /\ r.ws = "none" /\ ~r.leader /\ r.view = d.view /\ r.ctl = (d.view = "visible")
  <2>1. /\ Exited(d) \in TabRec /\ Exited(d).ws = "none" /\ Exited(d).leader = FALSE
        /\ Exited(d).view = d.view
    BY TabOps DEF Exited, TabRec
  <2>2. ASSUME NEW b \in BOOLEAN
        PROVE  LET x == [Exited(d) EXCEPT !.ctl = b]
               IN  x \in TabRec /\ x.ws = "none" /\ x.leader = FALSE /\ x.view = d.view /\ x.ctl = b
    BY <2>1 DEF TabRec
  <2>3. (d.view = "visible") \in BOOLEAN
    OBVIOUS
  <2>4. QED
    BY <2>2, <2>3
<1>3. /\ tab' = [tab EXCEPT ![t] = r]
      /\ lock' = [lock EXCEPT !.awaiting = FALSE, !.aborted = TRUE]
      /\ queue' = IF d.view = "visible" THEN Append(queue, t) ELSE queue
  BY DEF ReleaseLeadership
<1> HIDE DEF r
<1>4. tab' \in [Tabs -> TabRec] /\ tab'[t] = r /\ \A u \in Tabs : u # t => tab'[u] = tab[u]
  BY <1>1, <1>2, <1>3
<1>5. /\ queue' \in Seq(Tabs) /\ ToSet(queue) \subseteq ToSet(queue')
      /\ d.view = "visible" => t \in ToSet(queue')
  <2>1. Append(queue, t) \in Seq(Tabs) /\ ToSet(Append(queue, t)) = ToSet(queue) \cup {t}
    BY <1>1, AppendWaits
  <2>2. QED
    BY <1>1, <1>3, <2>1
<1>6. lock' \in LockRec
  <2>1. lock.tab \in Tabs \cup {NULL}
    BY <1>1 DEF LockRec
  <2>2. lock' = [tab |-> lock.tab, awaiting |-> FALSE, aborted |-> TRUE]
    BY <1>1, <1>3 DEF LockRec
  <2>3. QED
    BY <2>1, <2>2 DEF LockRec
<1>7. \A u \in Tabs : tab[u].leader => u = t
  <2>1. LeaderHasLock
    BY DEF IInv, Election
  <2>2. QED
    BY <2>1 DEF LeaderHasLock
<1>8. LeaderHasLock' /\ ControllerContends' /\ VisibleContends'
  BY <1>2, <1>4, <1>5, <1>7
     DEF IInv, Election, LeaderHasLock, ControllerContends, VisibleContends
<1>9. QED
  BY <1>4, <1>5, <1>6, <1>8 DEF Election

LEMMA ReconnectKeeps ==
  ASSUME IInv, NEW t \in Tabs, tab[t].ws # "none", Reconnect(t)
  PROVE  /\ tab' \in [Tabs -> TabRec] /\ queue' \in Seq(Tabs) /\ lock' \in LockRec
         /\ Election'
<1> DEFINE down == [tab[t] EXCEPT !.ws = "closing", !.connected = FALSE, !.srv = FALSE]
<1>1. tab \in [Tabs -> TabRec] /\ queue \in Seq(Tabs) /\ lock \in LockRec
  BY TypeIs DEF IInv
<1>2. /\ down \in TabRec /\ down.view = tab[t].view /\ down.leader = tab[t].leader
      /\ down.ctl = tab[t].ctl
  BY <1>1 DEF TabRec, Sockets
<1>3. tab[t].leader
  BY DEF IInv, Election, LeaderHasLock
<1> HIDE DEF down
<1>4. ASSUME NEW r \in TabRec, r.leader = down.leader, r.ctl = down.ctl, r.view = down.view,
             tab' = [tab EXCEPT ![t] = r], lock' = [lock EXCEPT !.awaiting = FALSE],
             queue' = queue
      PROVE  /\ tab' \in [Tabs -> TabRec] /\ queue' \in Seq(Tabs) /\ lock' \in LockRec
             /\ Election'
  <2>1. lock' \in LockRec /\ lock'.tab = lock.tab /\ lock'.aborted = lock.aborted
    BY <1>1, <1>4 DEF LockRec
  <2>2. tab' \in [Tabs -> TabRec] /\ Election'
    BY <1>2, <1>4, <2>1, Kept
  <2>3. QED
    BY <1>1, <1>4, <2>1, <2>2
<1>5. CASE /\ tab' = [tab EXCEPT ![t] = [down EXCEPT !.ws = "parked"]]
           /\ lock' = [lock EXCEPT !.awaiting = FALSE] /\ queue' = queue
  <2>1. LET r == [down EXCEPT !.ws = "parked"]
        IN  r \in TabRec /\ r.leader = down.leader /\ r.ctl = down.ctl /\ r.view = down.view
    BY <1>2 DEF TabRec, Sockets
  <2>2. QED
    BY <1>4, <1>5, <2>1
<1>6. CASE /\ tab' = [tab EXCEPT ![t] = [down EXCEPT !.ws = "waiting", !.attempts = @ + 1]]
           /\ lock' = [lock EXCEPT !.awaiting = FALSE] /\ queue' = queue
  <2>1. ASSUME NEW n \in Nat
        PROVE  LET r == [down EXCEPT !.ws = "waiting", !.attempts = n]
               IN  /\ r \in TabRec /\ r.leader = down.leader /\ r.ctl = down.ctl
                   /\ r.view = down.view
    BY <1>2 DEF TabRec, Sockets
  <2>2. down.attempts + 1 \in Nat
    BY <1>2 DEF TabRec
  <2>3. QED
    BY <1>4, <1>6, <2>1, <2>2
<1>7. CASE ReleaseLeadership(t, down)
  BY <1>2, <1>3, <1>7, ReleaseLeadershipKeeps
<1>8. QED
  BY <1>5, <1>6, <1>7 DEF Reconnect, down

-----------------------------------------------------------------------------
(***************************************************************************)
(* The lock                                                                *)
(***************************************************************************)
LEMMA BecomeLeaderKeeps ==
  ASSUME IInv, NEW t \in Tabs, BecomeLeader(t)
  PROVE  IInv'
<1> DEFINE r == [tab[t] EXCEPT !.leader = TRUE, !.connected = FALSE, !.count = 0,
                               !.ws = "connecting", !.attempts = 0]
<1>1. /\ tab \in [Tabs -> TabRec] /\ queue \in Seq(Tabs) /\ inbox \in [Tabs -> Seq(Messages)]
      /\ online \in BOOLEAN /\ events \in EventsRec
  BY TypeIs DEF IInv
<1>2. r \in TabRec /\ r.leader = TRUE /\ r.ctl = tab[t].ctl /\ r.view = tab[t].view
  <2>1. tab[t] \in TabRec /\ "connecting" \in Sockets
    BY <1>1 DEF Sockets
  <2>2. QED
    BY <2>1 DEF TabRec
<1>3. /\ lock.tab = NULL /\ queue # <<>> /\ t = Head(queue)
      /\ lock' = [tab |-> t, awaiting |-> TRUE, aborted |-> FALSE]
      /\ queue' = Tail(queue)
      /\ tab' = [tab EXCEPT ![t] = r]
      /\ Post(t, <<"down">>) /\ online' = online /\ events' = events
  BY <1>1 DEF BecomeLeader
<1> HIDE DEF r
<1>4. tab' \in [Tabs -> TabRec] /\ tab'[t] = r /\ \A u \in Tabs : u # t => tab'[u] = tab[u]
  BY <1>1, <1>2, <1>3
<1>5. queue' \in Seq(Tabs) /\ ToSet(queue) \subseteq ToSet(queue') \cup {t}
  BY <1>1, <1>3, TailWaits
<1>6. \A u \in Tabs : ~tab[u].leader
  BY <1>3, SharedConnectionAssumption DEF IInv, Election, LeaderHasLock
<1>7. lock' \in LockRec /\ lock'.tab = t /\ lock'.aborted = FALSE
  BY <1>3 DEF LockRec
<1>8. <<"down">> \in Seq(Messages)
  BY DEF Messages
<1>9. inbox' \in [Tabs -> Seq(Messages)]
  BY <1>1, <1>3, <1>8, InboxType
<1>10. LeaderHasLock' /\ ControllerContends' /\ VisibleContends'
  BY <1>2, <1>4, <1>5, <1>6, <1>7
     DEF IInv, Election, LeaderHasLock, ControllerContends, VisibleContends
<1>11. TypeOK'
  BY <1>1, <1>3, <1>4, <1>5, <1>7, <1>9, TypeIs DEF TypeOK, TabRec, LockRec, EventsRec
<1>12. QED
  BY <1>10, <1>11 DEF IInv, Election

LEMMA Together ==
  ASSUME tab' \in [Tabs -> TabRec], inbox' \in [Tabs -> Seq(Messages)], lock' \in LockRec,
         queue' \in Seq(Tabs), online' \in BOOLEAN, events' \in EventsRec, Election'
  PROVE  IInv'
BY DEF IInv, TypeOK, TabRec, LockRec, EventsRec

\* No leader is left when the callback of an aborted lock returns.
LEMMA ReleaseLockKeeps ==
  ASSUME IInv, ReleaseLock
  PROVE  IInv'
<1>1. /\ tab \in [Tabs -> TabRec] /\ queue \in Seq(Tabs) /\ inbox \in [Tabs -> Seq(Messages)]
      /\ online \in BOOLEAN /\ events \in EventsRec
  BY TypeIs DEF IInv
<1>2. /\ lock.aborted /\ lock' = FreeLock
      /\ tab' = tab /\ inbox' = inbox /\ queue' = queue /\ online' = online /\ events' = events
  BY DEF ReleaseLock
<1>3. \A u \in Tabs : ~tab[u].leader
  BY <1>2 DEF IInv, Election, LeaderHasLock
<1>4. lock' \in LockRec
  BY <1>2 DEF FreeLock, LockRec
<1>5. Election'
  BY <1>2, <1>3 DEF IInv, Election, LeaderHasLock, ControllerContends, VisibleContends
<1>6. QED
  BY <1>1, <1>2, <1>4, <1>5, Together

-----------------------------------------------------------------------------
(***************************************************************************)
(* Pages                                                                   *)
(***************************************************************************)
LEMMA SpendType ==
  ASSUME IInv, NEW E \in SUBSET Events, Occur(E)
  PROVE  events' \in EventsRec
BY EventsType, TypeIs DEF IInv

LEMMA OpenKeeps ==
  ASSUME IInv, NEW t \in Tabs, Open(t)
  PROVE  IInv'
<1>1. lock \in LockRec /\ online \in BOOLEAN
  BY TypeIs DEF IInv
<1>2. lock' = lock /\ online' = online
  BY DEF Open
<1>3. CASE Occur({"open"}) /\ Contend(t, "visible")
  <2>1. {"open"} \in SUBSET Events /\ "visible" \in Views
    BY DEF Events, Views
  <2>2. QED
    BY <1>1, <1>2, <1>3, <2>1, SpendType, ContendKeeps, Together
<1>4. CASE Occur({"open", "background"}) /\ Contend(t, "hidden")
  <2>1. {"open", "background"} \in SUBSET Events /\ "hidden" \in Views
    BY DEF Events, Views
  <2>2. QED
    BY <1>1, <1>2, <1>4, <2>1, SpendType, ContendKeeps, Together
<1>5. QED
  BY <1>3, <1>4 DEF Open

LEMMA HideKeeps ==
  ASSUME IInv, NEW t \in Tabs, Hide(t)
  PROVE  IInv'
<1>1. /\ tab \in [Tabs -> TabRec] /\ queue \in Seq(Tabs) /\ inbox \in [Tabs -> Seq(Messages)]
      /\ online \in BOOLEAN /\ lock \in LockRec
  BY TypeIs DEF IInv
<1>2. /\ inbox' = inbox /\ online' = online /\ Occur({"hide"}) /\ tab[t].view = "visible"
  BY DEF Hide, Spend
<1>3. events' \in EventsRec
  <2>1. {"hide"} \in SUBSET Events
    BY DEF Events
  <2>2. QED
    BY <1>2, <2>1, SpendType
<1>4. CASE /\ tab' = [tab EXCEPT ![t].view = "hidden", ![t].armed = TRUE]
           /\ lock' = lock /\ queue' = queue
  <2> DEFINE r == [tab[t] EXCEPT !.view = "hidden", !.armed = TRUE]
  <2>1. /\ r \in TabRec /\ r.leader = tab[t].leader /\ r.ctl = tab[t].ctl
        /\ r.view = "hidden" /\ r.ws = tab[t].ws
    BY <1>1 DEF TabRec, Views
  <2>2. tab' = [tab EXCEPT ![t] = r]
    BY <1>1, <1>4
  <2> HIDE DEF r
  <2>3. tab' \in [Tabs -> TabRec] /\ Election'
    BY <1>4, <2>1, <2>2, Kept
  <2>4. QED
    BY <1>1, <1>2, <1>3, <1>4, <2>3, Together
<1>5. CASE ExitLeadershipContention(t, "hidden")
  BY <1>1, <1>2, <1>3, <1>5, ExitKeeps, Together
<1>6. QED
  BY <1>4, <1>5 DEF Hide

\* A tab with a controller contends already; one without asks for the lock.
LEMMA ShowKeeps ==
  ASSUME IInv, NEW t \in Tabs, Show(t)
  PROVE  IInv'
<1>1. /\ tab \in [Tabs -> TabRec] /\ queue \in Seq(Tabs) /\ inbox \in [Tabs -> Seq(Messages)]
      /\ online \in BOOLEAN /\ lock \in LockRec /\ events \in EventsRec
  BY TypeIs DEF IInv
<1>2. lock' = lock /\ online' = online /\ events' = events
  BY DEF Show
<1>3. CASE /\ tab[t].leader \/ tab[t].ctl
           /\ tab' = [tab EXCEPT ![t].view = "visible", ![t].armed = FALSE]
           /\ inbox' = inbox /\ queue' = queue
  <2> DEFINE r == [tab[t] EXCEPT !.view = "visible", !.armed = FALSE]
  <2>1. /\ r \in TabRec /\ r.leader = tab[t].leader /\ r.ctl = tab[t].ctl
        /\ r.ws = tab[t].ws
    BY <1>1 DEF TabRec, Views
  <2>2. tab' = [tab EXCEPT ![t] = r]
    BY <1>1, <1>3
  <2> HIDE DEF r
  <2>3. tab' \in [Tabs -> TabRec] /\ tab'[t] = r /\ \A u \in Tabs : u # t => tab'[u] = tab[u]
    BY <1>1, <2>1, <2>2
  <2>4. tab[t].leader \/ t \in ToSet(queue)
    BY <1>3 DEF IInv, Election, ControllerContends
  <2>5. LeaderHasLock' /\ ControllerContends' /\ VisibleContends'
    BY <1>2, <1>3, <2>1, <2>3, <2>4
       DEF IInv, Election, LeaderHasLock, ControllerContends, VisibleContends
  <2>6. QED
    BY <1>1, <1>2, <1>3, <2>3, <2>5, Together DEF Election
<1>4. CASE Contend(t, "visible")
  <2>1. "visible" \in Views
    BY DEF Views
  <2>2. QED
    BY <1>1, <1>2, <1>4, <2>1, ContendKeeps, Together
<1>5. QED
  BY <1>3, <1>4 DEF Show

\* What a grace period that ends may be counted as.
LEMMA GraceEvents ==
  ASSUME IInv, NEW t \in Tabs, GraceElapses(t)
  PROVE  /\ \E E \in {{}, {"overrun"}, {"abandon"}} : Occur(E)
         /\ tab[t].ws = "connecting" => lock.awaiting \/ Occur({"abandon"})
<1>1. lock.awaiting \in BOOLEAN
  BY TypeIs DEF IInv, LockRec
<1>2. QED
  BY <1>1 DEF GraceElapses

LEMMA GraceElapsesKeeps ==
  ASSUME IInv, NEW t \in Tabs, GraceElapses(t)
  PROVE  IInv'
<1>1. /\ inbox \in [Tabs -> Seq(Messages)] /\ online \in BOOLEAN
  BY TypeIs DEF IInv
<1>2. events' \in EventsRec
  <2>1. PICK E \in {{}, {"overrun"}, {"abandon"}} : Occur(E)
    BY GraceEvents
  <2>2. E \in SUBSET Events
    BY DEF Events
  <2>3. QED
    BY <2>1, <2>2, SpendType
<1>3. QED
  BY <1>1, <1>2, ExitKeeps, Together DEF GraceElapses

LEMMA CloseKeeps ==
  ASSUME IInv, NEW t \in Tabs, Close(t)
  PROVE  IInv'
<1> DEFINE r == [NoTab EXCEPT !.view = "closed"]
<1>1. /\ tab \in [Tabs -> TabRec] /\ queue \in Seq(Tabs) /\ inbox \in [Tabs -> Seq(Messages)]
      /\ online \in BOOLEAN /\ lock \in LockRec
  BY TypeIs DEF IInv
<1>2. r \in TabRec /\ r.ws = "none" /\ ~r.leader /\ ~r.ctl /\ r.view = "closed"
  <2>1. ASSUME NEW n \in TabRec
        PROVE  LET x == [n EXCEPT !.view = "closed"]
               IN  x \in TabRec /\ x.ws = n.ws /\ x.leader = n.leader /\ x.ctl = n.ctl
                   /\ x.view = "closed"
    BY DEF TabRec, Views
  <2>2. NoTab \in TabRec
    BY TabOps
  <2>3. NoTab.ws = "none" /\ ~NoTab.leader /\ ~NoTab.ctl
    BY DEF NoTab
  <2>4. QED
    BY <2>1, <2>2, <2>3
<1>3. /\ tab' = [tab EXCEPT ![t] = r] /\ inbox' = [inbox EXCEPT ![t] = <<>>]
      /\ lock' = (IF lock.tab = t THEN FreeLock ELSE lock)
      /\ queue' = Withdraw(queue, t) /\ online' = online /\ Occur({"close"})
  BY DEF Close, Spend
<1> HIDE DEF r
<1>4. tab' \in [Tabs -> TabRec] /\ tab'[t] = r /\ \A u \in Tabs : u # t => tab'[u] = tab[u]
  BY <1>1, <1>2, <1>3
<1>5. inbox' \in [Tabs -> Seq(Messages)]
  BY <1>1, <1>3
<1>6. lock' \in LockRec /\ \A u \in Tabs : u # t /\ tab[u].leader => lock' = lock
  BY <1>1, <1>3 DEF LockRec, FreeLock, IInv, Election, LeaderHasLock
<1>7. queue' \in Seq(Tabs) /\ ToSet(queue) \subseteq ToSet(queue') \cup {t}
  BY <1>1, <1>3, WithdrawWaits
<1>8. events' \in EventsRec
  <2>1. {"close"} \in SUBSET Events
    BY DEF Events
  <2>2. QED
    BY <1>3, <2>1, SpendType
<1>9. LeaderHasLock' /\ ControllerContends' /\ VisibleContends'
  BY <1>2, <1>4, <1>6, <1>7
     DEF IInv, Election, LeaderHasLock, ControllerContends, VisibleContends
<1>10. QED
  BY <1>1, <1>3, <1>4, <1>5, <1>6, <1>7, <1>8, <1>9, Together DEF Election

-----------------------------------------------------------------------------
(***************************************************************************)
(* The socket                                                              *)
(***************************************************************************)
LEMMA PostType ==
  ASSUME IInv, NEW t \in Tabs, NEW kind \in Messages, Post(t, <<kind>>)
  PROVE  inbox' \in [Tabs -> Seq(Messages)]
<1>1. inbox \in [Tabs -> Seq(Messages)] /\ <<kind>> \in Seq(Messages)
  BY TypeIs DEF IInv
<1>2. QED
  BY <1>1, InboxType

LEMMA WsOpensKeeps ==
  ASSUME IInv, NEW t \in Tabs, WsOpens(t)
  PROVE  IInv'
<1> DEFINE o == [tab[t] EXCEPT !.ws = "open"]
           r == LeaderConnected(o)
<1>1. /\ tab \in [Tabs -> TabRec] /\ queue \in Seq(Tabs) /\ lock \in LockRec
      /\ online \in BOOLEAN
  BY TypeIs DEF IInv
<1>2. /\ tab' = [tab EXCEPT ![t] = r] /\ lock' = [lock EXCEPT !.awaiting = FALSE]
      /\ queue' = queue /\ online' = online /\ Occur(Lag(Tabs)) /\ Post(t, <<"up">>)
      /\ tab[t].ws = "connecting"
  BY <1>1 DEF WsOpens
<1>3. /\ o \in TabRec /\ o.leader = tab[t].leader /\ o.ctl = tab[t].ctl
      /\ o.view = tab[t].view
  BY <1>1 DEF TabRec, Sockets
<1> HIDE DEF o
<1>4. /\ r \in TabRec /\ r.leader = tab[t].leader /\ r.ctl = tab[t].ctl
      /\ r.view = tab[t].view
  BY <1>3, TabOps
<1> HIDE DEF r
<1>5. lock' \in LockRec /\ lock'.tab = lock.tab /\ lock'.aborted = lock.aborted
  BY <1>1, <1>2 DEF LockRec
<1>6. tab' \in [Tabs -> TabRec] /\ Election'
  BY <1>2, <1>4, <1>5, Kept
<1>7. inbox' \in [Tabs -> Seq(Messages)]
  BY <1>2, PostType DEF Messages
<1>8. events' \in EventsRec
  BY <1>2, SpendType DEF Lag, Events
<1>9. QED
  BY <1>1, <1>2, <1>5, <1>6, <1>7, <1>8, Together

LEMMA WsFailsKeeps ==
  ASSUME IInv, NEW t \in Tabs, WsFails(t)
  PROVE  IInv'
<1>1. online \in BOOLEAN /\ events \in EventsRec
  BY TypeIs DEF IInv
<1>2. /\ tab[t].ws # "none" /\ Reconnect(t) /\ Post(t, <<"down">>) /\ online' = online
      /\ events' = events \/ Occur({"refuse"})
  BY DEF WsFails, Spend
<1>3. events' \in EventsRec
  BY <1>1, <1>2, SpendType DEF Events
<1>4. inbox' \in [Tabs -> Seq(Messages)]
  BY <1>2, PostType DEF Messages
<1>5. QED
  BY <1>1, <1>2, <1>3, <1>4, ReconnectKeeps, Together

\* A step that changes nothing but one tab, and leaves its place in the election.
LEMMA OneTabKeeps ==
  ASSUME IInv, NEW t \in Tabs, NEW r \in TabRec, tab' = [tab EXCEPT ![t] = r],
         r.leader = tab[t].leader, r.ctl = tab[t].ctl, r.view = tab[t].view,
         r.ws # "none" => tab[t].ws # "none",
         lock' = lock, queue' = queue, online' = online,
         inbox' \in [Tabs -> Seq(Messages)], events' \in EventsRec
  PROVE  IInv'
<1>1. queue \in Seq(Tabs) /\ lock \in LockRec /\ online \in BOOLEAN
  BY TypeIs DEF IInv
<1>2. tab' \in [Tabs -> TabRec] /\ Election'
  BY Kept
<1>3. QED
  BY <1>1, <1>2, Together

LEMMA NoTabKeeps ==
  ASSUME IInv, tab' = tab, lock' = lock, queue' = queue, online' = online,
         inbox' \in [Tabs -> Seq(Messages)], events' \in EventsRec
  PROVE  IInv'
<1>1. queue \in Seq(Tabs) /\ lock \in LockRec /\ online \in BOOLEAN
  BY TypeIs DEF IInv
<1>2. tab' \in [Tabs -> TabRec] /\ Election'
  BY Unmoved
<1>3. QED
  BY <1>1, <1>2, Together

LEMMA WsDropsKeeps ==
  ASSUME IInv, NEW t \in Tabs, WsDrops(t)
  PROVE  IInv'
<1> DEFINE r == [tab[t] EXCEPT !.ws = "closing", !.srv = FALSE]
<1>1. tab \in [Tabs -> TabRec] /\ inbox \in [Tabs -> Seq(Messages)]
  BY TypeIs DEF IInv
<1>2. /\ tab' = [tab EXCEPT ![t] = r] /\ tab[t].ws = "open" /\ Occur({"drop"})
      /\ lock' = lock /\ queue' = queue /\ online' = online /\ inbox' = inbox
  BY <1>1 DEF WsDrops, Spend
<1>3. /\ r \in TabRec /\ r.leader = tab[t].leader /\ r.ctl = tab[t].ctl
      /\ r.view = tab[t].view
  <2>1. tab[t] \in TabRec /\ "closing" \in Sockets
    BY <1>1 DEF Sockets
  <2>2. QED
    BY <2>1, SocketOp
<1> HIDE DEF r
<1>4. events' \in EventsRec
  BY <1>2, SpendType DEF Events
<1>5. QED
  BY <1>1, <1>2, <1>3, <1>4, OneTabKeeps

LEMMA WsClosedKeeps ==
  ASSUME IInv, NEW t \in Tabs, WsClosed(t)
  PROVE  IInv'
<1>1. /\ tab \in [Tabs -> TabRec] /\ online \in BOOLEAN /\ events \in EventsRec
  BY TypeIs DEF IInv
<1>2. tab[t].ws = "closing" /\ Post(t, <<"down">>) /\ online' = online
  BY DEF WsClosed
<1>3. inbox' \in [Tabs -> Seq(Messages)]
  BY <1>2, PostType DEF Messages
<1>4. CASE Reconnect(t) /\ events' = events
  BY <1>1, <1>2, <1>3, <1>4, ReconnectKeeps, Together
<1>5. CASE /\ Occur({"expel"}) /\ lock' = lock /\ queue' = queue
           /\ tab' = [tab EXCEPT ![t].ws = "stopped", ![t].connected = FALSE]
  <2> DEFINE r == [tab[t] EXCEPT !.ws = "stopped", !.connected = FALSE]
  <2>1. /\ r \in TabRec /\ r.leader = tab[t].leader /\ r.ctl = tab[t].ctl
        /\ r.view = tab[t].view
    <3>1. tab[t] \in TabRec /\ "stopped" \in Sockets
      BY <1>1 DEF Sockets
    <3>2. QED
      BY <3>1, SocketOp
  <2>2. tab' = [tab EXCEPT ![t] = r]
    BY <1>1, <1>5
  <2> HIDE DEF r
  <2>3. events' \in EventsRec
    BY <1>5, SpendType DEF Events
  <2>4. QED
    BY <1>2, <1>3, <1>5, <2>1, <2>2, <2>3, OneTabKeeps
<1>6. QED
  BY <1>4, <1>5 DEF WsClosed, Spend

LEMMA TimersKeep ==
  ASSUME IInv, NEW t \in Tabs, RetryElapses(t) \/ StableElapses(t)
  PROVE  IInv'
<1>1. /\ tab \in [Tabs -> TabRec] /\ inbox \in [Tabs -> Seq(Messages)]
      /\ events \in EventsRec
  BY TypeIs DEF IInv
<1>2. /\ lock' = lock /\ queue' = queue /\ online' = online
      /\ inbox' = inbox /\ events' = events /\ tab[t].ws # "none"
  BY DEF RetryElapses, StableElapses
<1>3. \E w \in Sockets, n \in Nat : tab' = [tab EXCEPT ![t] = [tab[t] EXCEPT !.ws = w, !.attempts = n]]
  <2>1. CASE RetryElapses(t)
    <3>1. tab[t].attempts \in Nat /\ "connecting" \in Sockets
      BY <1>1 DEF TabRec, Sockets
    <3>2. [tab[t] EXCEPT !.ws = "connecting"]
            = [tab[t] EXCEPT !.ws = "connecting", !.attempts = tab[t].attempts]
      BY <1>1 DEF TabRec
    <3>3. QED
      BY <1>1, <2>1, <3>1, <3>2 DEF RetryElapses
  <2>2. CASE StableElapses(t)
    <3>1. tab[t].ws \in Sockets
      BY <1>1 DEF TabRec
    <3>2. [tab[t] EXCEPT !.attempts = 0] = [tab[t] EXCEPT !.ws = tab[t].ws, !.attempts = 0]
      BY <1>1 DEF TabRec
    <3>3. QED
      BY <1>1, <2>2, <3>1, <3>2 DEF StableElapses
  <2>3. QED
    BY <2>1, <2>2
<1>4. PICK w \in Sockets, n \in Nat :
        tab' = [tab EXCEPT ![t] = [tab[t] EXCEPT !.ws = w, !.attempts = n]]
  BY <1>3
<1> DEFINE r == [tab[t] EXCEPT !.ws = w, !.attempts = n]
<1>5. /\ r \in TabRec /\ r.leader = tab[t].leader /\ r.ctl = tab[t].ctl
      /\ r.view = tab[t].view
  BY <1>1 DEF TabRec
<1>6. tab' = [tab EXCEPT ![t] = r]
  BY <1>4
<1> HIDE DEF r
<1>7. QED
  BY <1>1, <1>2, <1>5, <1>6, OneTabKeeps

LEMMA StrayEndsKeeps ==
  ASSUME IInv, NEW t \in Tabs, StrayEnds(t)
  PROVE  IInv'
<1> DEFINE r == [tab[t] EXCEPT !.strays = tab[t].strays - 1]
<1>1. /\ tab \in [Tabs -> TabRec] /\ inbox \in [Tabs -> Seq(Messages)]
      /\ events \in EventsRec
  BY TypeIs DEF IInv
<1>2. /\ tab' = [tab EXCEPT ![t] = r] /\ lock' = lock /\ queue' = queue /\ online' = online
      /\ inbox' = inbox /\ events' = events
  BY <1>1 DEF StrayEnds
<1>3. /\ r \in TabRec /\ r.leader = tab[t].leader /\ r.ctl = tab[t].ctl
      /\ r.view = tab[t].view /\ r.ws = tab[t].ws
  <2>1. tab[t].strays - 1 \in Nat
    BY <1>1 DEF StrayEnds, TabRec
  <2>2. QED
    BY <1>1, <2>1 DEF TabRec
<1> HIDE DEF r
<1>4. QED
  BY <1>1, <1>2, <1>3, OneTabKeeps

LEMMA GoOfflineKeeps ==
  ASSUME IInv, GoOffline
  PROVE  IInv'
<1>1. /\ tab \in [Tabs -> TabRec] /\ inbox \in [Tabs -> Seq(Messages)] /\ lock \in LockRec
      /\ queue \in Seq(Tabs)
  BY TypeIs DEF IInv
<1>2. /\ tab' = tab /\ lock' = lock /\ queue' = queue /\ online' = FALSE /\ inbox' = inbox
      /\ Occur({"offline"})
  BY DEF GoOffline, Spend
<1>3. events' \in EventsRec
  BY <1>2, SpendType DEF Events
<1>4. QED
  BY <1>1, <1>2, <1>3, Unmoved, Together

\* A parked backend already counted as one that may have a socket.
LEMMA GoOnlineKeeps ==
  ASSUME IInv, GoOnline
  PROVE  IInv'
<1> DEFINE r(u) == [tab[u] EXCEPT !.ws = "connecting", !.attempts = 0]
<1>1. /\ tab \in [Tabs -> TabRec] /\ inbox \in [Tabs -> Seq(Messages)] /\ lock \in LockRec
      /\ queue \in Seq(Tabs) /\ events \in EventsRec
  BY TypeIs DEF IInv
<1>2. /\ tab' = [u \in Tabs |-> IF tab[u].ws = "parked" THEN r(u) ELSE tab[u]]
      /\ lock' = lock /\ queue' = queue /\ online' = TRUE /\ inbox' = inbox
      /\ events' = events
  BY DEF GoOnline
<1>3. ASSUME NEW u \in Tabs
      PROVE  /\ r(u) \in TabRec /\ r(u).leader = tab[u].leader
             /\ r(u).ctl = tab[u].ctl /\ r(u).view = tab[u].view
  <2>1. tab[u] \in TabRec /\ "connecting" \in Sockets
    BY <1>1 DEF Sockets
  <2>2. QED
    BY <2>1 DEF TabRec
<1> HIDE DEF r
<1>4. /\ tab' \in [Tabs -> TabRec]
      /\ \A u \in Tabs : /\ tab'[u].leader = tab[u].leader /\ tab'[u].ctl = tab[u].ctl
                         /\ tab'[u].view = tab[u].view
                         /\ tab'[u].ws # "none" => tab[u].ws # "none"
  BY <1>1, <1>2, <1>3
<1>5. LeaderHasLock' /\ ControllerContends' /\ VisibleContends'
  BY <1>2, <1>4 DEF IInv, Election, LeaderHasLock, ControllerContends, VisibleContends
<1>6. QED
  BY <1>1, <1>2, <1>4, <1>5, Together DEF Election

-----------------------------------------------------------------------------
(***************************************************************************)
(* Messages and the client                                                 *)
(***************************************************************************)
LEMMA HandledType ==
  ASSUME IInv, NEW t \in Tabs, inbox[t] # <<>>, NEW out \in Seq(Messages),
         Exchange(t, Tail(inbox[t]), out)
  PROVE  inbox' \in [Tabs -> Seq(Messages)]
<1>1. inbox \in [Tabs -> Seq(Messages)] /\ inbox[t] \in Seq(Messages)
  BY TypeIs DEF IInv
<1>2. Tail(inbox[t]) \in Seq(Messages)
  BY <1>1, HeadTailProperties
<1>3. QED
  BY <1>1, <1>2, InboxType

LEMMA ConnectionStateKeeps ==
  ASSUME IInv, NEW t \in Tabs, ConnectionState(t)
  PROVE  IInv'
<1> DEFINE r(b) == [tab[t] EXCEPT !.connected = b]
<1>1. tab \in [Tabs -> TabRec] /\ events \in EventsRec
  BY TypeIs DEF IInv
<1>2. PICK kind \in {"up", "down"} :
        /\ Receive(t, kind)
        /\ tab' = IF tab[t].leader THEN tab ELSE [tab EXCEPT ![t].connected = (kind = "up")]
        /\ Exchange(t, Tail(inbox[t]),
                    IF kind = "up" /\ ~tab[t].leader /\ ~tab[t].connected /\ tab[t].wants
                    THEN <<"subscribe">> ELSE <<>>)
        /\ UNCHANGED <<lock, queue, online, events>>
  BY DEF ConnectionState
<1>3. inbox' \in [Tabs -> Seq(Messages)]
  <2>1. <<"subscribe">> \in Seq(Messages) /\ <<>> \in Seq(Messages)
    BY DEF Messages
  <2>2. inbox[t] # <<>>
    BY <1>2 DEF Receive
  <2>3. QED
    BY <1>2, <2>1, <2>2, HandledType
<1>4. ASSUME NEW b \in BOOLEAN, tab' = [tab EXCEPT ![t] = r(b)]
      PROVE  IInv'
  <2>1. /\ r(b) \in TabRec /\ r(b).leader = tab[t].leader /\ r(b).ctl = tab[t].ctl
        /\ r(b).view = tab[t].view /\ r(b).ws = tab[t].ws
    <3>1. tab[t] \in TabRec
      BY <1>1
    <3>2. QED
      BY <3>1, ConnectedOp
  <2> HIDE DEF r
  <2>2. QED
    BY <1>1, <1>2, <1>3, <1>4, <2>1, OneTabKeeps
<1>5. CASE tab' = tab
  BY <1>1, <1>2, <1>3, <1>5, NoTabKeeps
<1>6. CASE tab' = [tab EXCEPT ![t].connected = (kind = "up")]
  <2>1. (kind = "up") \in BOOLEAN
    OBVIOUS
  <2>2. tab' = [tab EXCEPT ![t] = r(kind = "up")]
    BY <1>1, <1>6
  <2> HIDE DEF r
  <2>3. QED
    BY <1>4, <2>1, <2>2
<1>7. QED
  BY <1>2, <1>5, <1>6

LEMMA SendRequestKeeps ==
  ASSUME IInv, NEW t \in Tabs, SendRequest(t)
  PROVE  IInv'
<1>1. tab \in [Tabs -> TabRec] /\ events \in EventsRec
  BY TypeIs DEF IInv
<1>2. /\ lock' = lock /\ queue' = queue /\ online' = online /\ events' = events
      /\ inbox[t] # <<>> /\ Exchange(t, Tail(inbox[t]), <<>>)
      /\ \/ tab' = tab
         \/ tab' = [tab EXCEPT ![t] = LeaderSubscribe(tab[t])]
         \/ tab' = [tab EXCEPT ![t] = LeaderUnsubscribe(tab[t])]
  BY <1>1 DEF SendRequest, Receive
<1>3. inbox' \in [Tabs -> Seq(Messages)]
  <2>1. <<>> \in Seq(Messages)
    OBVIOUS
  <2>2. QED
    BY <1>2, <2>1, HandledType
<1>4. ASSUME NEW r \in {LeaderSubscribe(tab[t]), LeaderUnsubscribe(tab[t])},
             tab' = [tab EXCEPT ![t] = r]
      PROVE  IInv'
  <2>1. /\ r \in TabRec /\ r.leader = tab[t].leader /\ r.ctl = tab[t].ctl
        /\ r.view = tab[t].view /\ r.ws = tab[t].ws
    BY <1>1, TabOps
  <2>2. QED
    BY <1>1, <1>2, <1>3, <1>4, <2>1, OneTabKeeps
<1>5. CASE tab' = tab
  BY <1>1, <1>2, <1>3, <1>5, NoTabKeeps
<1>6. QED
  BY <1>2, <1>4, <1>5

LEMMA StateRequestKeeps ==
  ASSUME IInv, NEW t \in Tabs, StateRequest(t)
  PROVE  IInv'
<1> DEFINE down == [tab[t] EXCEPT !.connected = FALSE]
<1>1. tab \in [Tabs -> TabRec] /\ events \in EventsRec
  BY TypeIs DEF IInv
<1>2. /\ lock' = lock /\ queue' = queue /\ online' = online /\ events' = events
      /\ inbox[t] # <<>>
      /\ \E out \in {<<>>, <<"up">>, <<"down">>} : Exchange(t, Tail(inbox[t]), out)
      /\ \/ tab' = tab
         \/ tab' = [tab EXCEPT ![t] = LeaderConnected(tab[t])]
         \/ tab' = [tab EXCEPT ![t] = down]
  BY <1>1 DEF StateRequest, Receive
<1>3. inbox' \in [Tabs -> Seq(Messages)]
  <2>1. <<>> \in Seq(Messages) /\ <<"up">> \in Seq(Messages) /\ <<"down">> \in Seq(Messages)
    BY DEF Messages
  <2>2. QED
    BY <1>2, <2>1, HandledType
<1>4. /\ down \in TabRec /\ down.leader = tab[t].leader /\ down.ctl = tab[t].ctl
      /\ down.view = tab[t].view /\ down.ws = tab[t].ws
  BY <1>1 DEF TabRec
<1> HIDE DEF down
<1>5. ASSUME NEW r \in {LeaderConnected(tab[t]), down}, tab' = [tab EXCEPT ![t] = r]
      PROVE  IInv'
  <2>1. /\ r \in TabRec /\ r.leader = tab[t].leader /\ r.ctl = tab[t].ctl
        /\ r.view = tab[t].view /\ r.ws = tab[t].ws
    BY <1>1, <1>4, TabOps
  <2>2. QED
    BY <1>1, <1>2, <1>3, <1>5, <2>1, OneTabKeeps
<1>6. CASE tab' = tab
  BY <1>1, <1>2, <1>3, <1>6, NoTabKeeps
<1>7. QED
  BY <1>2, <1>5, <1>6

LEMMA WsMessageKeeps ==
  ASSUME IInv, NEW t \in Tabs, WsMessage(t)
  PROVE  IInv'
<1> DEFINE r == [tab[t] EXCEPT !.wants = FALSE]
<1>1. tab \in [Tabs -> TabRec] /\ events \in EventsRec
  BY TypeIs DEF IInv
<1>2. /\ lock' = lock /\ queue' = queue /\ online' = online /\ events' = events
      /\ inbox[t] # <<>> /\ Exchange(t, Tail(inbox[t]), <<>>)
      /\ tab' = tab \/ tab' = [tab EXCEPT ![t] = r]
  BY <1>1 DEF WsMessage, Receive
<1>3. inbox' \in [Tabs -> Seq(Messages)]
  <2>1. <<>> \in Seq(Messages)
    OBVIOUS
  <2>2. QED
    BY <1>2, <2>1, HandledType
<1>4. /\ r \in TabRec /\ r.leader = tab[t].leader /\ r.ctl = tab[t].ctl
      /\ r.view = tab[t].view /\ r.ws = tab[t].ws
  BY <1>1 DEF TabRec
<1> HIDE DEF r
<1>5. CASE tab' = tab
  BY <1>1, <1>2, <1>3, <1>5, NoTabKeeps
<1>6. CASE tab' = [tab EXCEPT ![t] = r]
  BY <1>1, <1>2, <1>3, <1>4, <1>6, OneTabKeeps
<1>7. QED
  BY <1>2, <1>5, <1>6

LEMMA SendKeeps ==
  ASSUME IInv, NEW t \in Tabs, NEW w \in BOOLEAN, NEW kind \in {"subscribe", "unsubscribe"},
         Send(t, [tab[t] EXCEPT !.wants = w], kind),
         lock' = lock, queue' = queue, online' = online, events' \in EventsRec
  PROVE  IInv'
<1> DEFINE r == [tab[t] EXCEPT !.wants = w]
<1>1. tab \in [Tabs -> TabRec] /\ inbox \in [Tabs -> Seq(Messages)]
  BY TypeIs DEF IInv
<1>2. /\ r \in TabRec /\ r.leader = tab[t].leader /\ r.ctl = tab[t].ctl
      /\ r.view = tab[t].view /\ r.ws = tab[t].ws
  BY <1>1 DEF TabRec
<1>3. Send(t, r, kind)
  OBVIOUS
<1> HIDE DEF r
<1>4. /\ \E op \in {r, LeaderSubscribe(r), LeaderUnsubscribe(r)} : tab' = [tab EXCEPT ![t] = op]
      /\ inbox' = inbox \/ Post(t, <<kind>>)
  BY <1>3 DEF Send
<1>5. inbox' \in [Tabs -> Seq(Messages)]
  BY <1>1, <1>4, PostType DEF Messages
<1>6. PICK op \in {r, LeaderSubscribe(r), LeaderUnsubscribe(r)} : tab' = [tab EXCEPT ![t] = op]
  BY <1>4
<1>7. /\ op \in TabRec /\ op.leader = tab[t].leader /\ op.ctl = tab[t].ctl
      /\ op.view = tab[t].view /\ op.ws = tab[t].ws
  BY <1>2, TabOps
<1>8. QED
  BY <1>5, <1>6, <1>7, OneTabKeeps

LEMMA ClientKeeps ==
  ASSUME IInv, NEW t \in Tabs, Client(t)
  PROVE  IInv'
<1>1. CASE Subscribe(t)
  <2>1. ({"subscribe"} \cup Lag({t})) \in SUBSET Events
    BY DEF Lag, Events
  <2>2. events' \in EventsRec
    BY <1>1, <2>1, SpendType DEF Subscribe
  <2>3. QED
    BY <1>1, <2>2, SendKeeps DEF Subscribe
<1>2. CASE Unsubscribe(t)
  <2>1. Lag({t}) \in SUBSET Events
    BY DEF Lag, Events
  <2>2. events' \in EventsRec
    BY <1>2, <2>1, SpendType DEF Unsubscribe
  <2>3. QED
    BY <1>2, <2>2, SendKeeps DEF Unsubscribe
<1>3. CASE Reject(t)
  <2> DEFINE r == [tab[t] EXCEPT !.srv = FALSE, !.count = 0, !.wants = FALSE]
  <2>1. tab \in [Tabs -> TabRec]
    BY TypeIs DEF IInv
  <2>2. /\ tab' = [tab EXCEPT ![t] = r] /\ Occur({"reject"}) /\ Post(t, <<"rejected">>)
        /\ lock' = lock /\ queue' = queue /\ online' = online
    BY <1>3, <2>1 DEF Reject, Spend
  <2>3. /\ r \in TabRec /\ r.leader = tab[t].leader /\ r.ctl = tab[t].ctl
        /\ r.view = tab[t].view /\ r.ws = tab[t].ws
    BY <2>1 DEF TabRec
  <2> HIDE DEF r
  <2>4. events' \in EventsRec
    BY <2>2, SpendType DEF Events
  <2>5. inbox' \in [Tabs -> Seq(Messages)]
    BY <2>2, PostType DEF Messages
  <2>6. QED
    BY <2>2, <2>3, <2>4, <2>5, OneTabKeeps
<1>4. QED
  BY <1>1, <1>2, <1>3 DEF Client

-----------------------------------------------------------------------------
(***************************************************************************)
(* The theorems                                                            *)
(***************************************************************************)
LEMMA InitHolds == Init => IInv
<1> SUFFICES ASSUME Init PROVE IInv
  OBVIOUS
<1>1. /\ tab = [t \in Tabs |-> NoTab] /\ inbox = [t \in Tabs |-> <<>>]
      /\ lock = FreeLock /\ queue = <<>> /\ online = TRUE
  BY DEF Init
<1>2. events \in EventsRec
  BY SharedConnectionAssumption DEF Init, EventsRec
<1>3. tab \in [Tabs -> TabRec] /\ inbox \in [Tabs -> Seq(Messages)] /\ lock \in LockRec
      /\ queue \in Seq(Tabs)
  BY <1>1, TabOps DEF FreeLock, LockRec
<1>4. TypeOK
  BY <1>1, <1>2, <1>3, TypeIs
<1>5. Election
  BY <1>1 DEF NoTab, Election, LeaderHasLock, ControllerContends, VisibleContends
<1>6. QED
  BY <1>4, <1>5 DEF IInv

LEMMA NextKeeps == IInv /\ [Next]_vars => IInv'
<1> SUFFICES ASSUME IInv, [Next]_vars PROVE IInv'
  OBVIOUS
<1>1. ASSUME NEW t \in Tabs, Page(t) PROVE IInv'
  BY <1>1, OpenKeeps, HideKeeps, ShowKeeps, GraceElapsesKeeps, CloseKeeps DEF Page
<1>2. ASSUME NEW t \in Tabs, Socket(t) PROVE IInv'
  BY <1>2, WsOpensKeeps, WsFailsKeeps, WsDropsKeeps, WsClosedKeeps, TimersKeep, StrayEndsKeeps
     DEF Socket
<1>3. ASSUME NEW t \in Tabs, Handle(t) PROVE IInv'
  BY <1>3, ConnectionStateKeeps, SendRequestKeeps, StateRequestKeeps, WsMessageKeeps DEF Handle
<1>4. CASE UNCHANGED vars
  <2>1. inbox \in [Tabs -> Seq(Messages)] /\ events \in EventsRec
    BY TypeIs DEF IInv
  <2>2. QED
    BY <1>4, <2>1, NoTabKeeps DEF vars
<1>5. QED
  BY <1>1, <1>2, <1>3, <1>4, BecomeLeaderKeeps, ClientKeeps, ReleaseLockKeeps,
     GoOfflineKeeps, GoOnlineKeeps DEF Next

\* The shape of every variable holds for any tabs, attempts and events.
THEOREM TypeCorrect == Spec => []TypeOK
<1>1. IInv => TypeOK
  BY DEF IInv
<1>2. QED
  BY <1>1, InitHolds, NextKeeps, PTL DEF Spec

\* A visible tab leads or is in line for the lock, whatever hid, showed or demoted it.
THEOREM VisibleContendsHolds == Spec => []VisibleContends
<1>1. IInv => VisibleContends
  BY DEF IInv, Election
<1>2. QED
  BY <1>1, InitHolds, NextKeeps, PTL DEF Spec

-----------------------------------------------------------------------------
(***************************************************************************)
(* Sockets that are let go while they connect.  A tab that stops leading   *)
(* during its first handshake leaves one behind, and keeps the lock with   *)
(* it, because the callback waits for that handshake for ever.             *)
(***************************************************************************)
StraysHeld ==
  Without({"abandon"}) =>
    \A t \in Tabs : tab[t].strays > 0 => lock.tab = t /\ lock.awaiting /\ ~tab[t].leader

\* The bookkeeping of a tab leaves its strays alone; leaving the election makes one of a
\* socket that is connecting.
LEMMA StraysOps ==
  ASSUME NEW r \in TabRec
  PROVE  /\ Exited(r).strays = Strays(r) /\ Exited(r).leader = FALSE
         /\ \A op \in {LeaderSubscribe(r), LeaderUnsubscribe(r), LeaderConnected(r)} :
              op.strays = r.strays /\ op.leader = r.leader
<1>1. Exited(r).strays = Strays(r) /\ Exited(r).leader = FALSE
  BY DEF Exited, TabRec
<1>2. ASSUME NEW x \in TabRec
      PROVE  /\ LeaderSubscribe(x).strays = x.strays /\ LeaderSubscribe(x).leader = x.leader
             /\ LeaderUnsubscribe(x).strays = x.strays /\ LeaderUnsubscribe(x).leader = x.leader
  BY DEF LeaderSubscribe, LeaderUnsubscribe, TabRec
<1>3. LeaderConnected(r).strays = r.strays /\ LeaderConnected(r).leader = r.leader
  <2> DEFINE up == [r EXCEPT !.connected = TRUE]
  <2>1. up \in TabRec /\ up.strays = r.strays /\ up.leader = r.leader
    BY DEF TabRec
  <2>2. LeaderConnected(r) = IF r.wants THEN LeaderSubscribe(up) ELSE up
    BY DEF LeaderConnected
  <2> HIDE DEF up
  <2>3. QED
    BY <1>2, <2>1, <2>2
<1>4. QED
  BY <1>1, <1>2, <1>3

\* While somebody leads, or the lock is free or waits for no handshake, there are none.
LEMMA NoStrays ==
  ASSUME IInv, StraysHeld, Without({"abandon"}),
         lock.tab = NULL \/ ~lock.awaiting \/ \E l \in Tabs : tab[l].leader
  PROVE  \A t \in Tabs : tab[t].strays = 0
<1>1. tab \in [Tabs -> TabRec] /\ LeaderHasLock
  BY TypeIs DEF IInv, Election
<1>2. \A t \in Tabs : ~(tab[t].strays > 0)
  BY <1>1, SharedConnectionAssumption DEF StraysHeld, LeaderHasLock
<1>3. \A t \in Tabs : tab[t].strays \in Nat
  BY <1>1 DEF TabRec
<1>4. QED
  BY <1>2, <1>3

\* What has been seen stays seen.
LEMMA AbandonSeen ==
  ASSUME IInv
  PROVE  /\ events' = events => (Without({"abandon"})' => Without({"abandon"}))
         /\ \A E : Occur(E) => (Without({"abandon"})' => Without({"abandon"}) /\ "abandon" \notin E)
BY DEF Occur, Without

\* A step that leaves the lock to whom has it, and makes no stray and no leader.
LEMMA StraysStep ==
  ASSUME IInv, StraysHeld, Without({"abandon"})' => Without({"abandon"}),
         \A u \in Tabs : tab'[u].strays > 0 => tab[u].strays > 0,
         \/ lock.tab = NULL \/ ~lock.awaiting \/ \E l \in Tabs : tab[l].leader
         \/ /\ lock'.tab = lock.tab /\ lock'.awaiting = lock.awaiting
            /\ \A u \in Tabs : tab'[u].leader => tab[u].leader
  PROVE  StraysHeld'
<1> SUFFICES ASSUME Without({"abandon"})', NEW t \in Tabs, tab'[t].strays > 0
             PROVE  lock'.tab = t /\ lock'.awaiting /\ ~tab'[t].leader
  BY DEF StraysHeld
<1>1. tab[t].strays > 0 /\ Without({"abandon"})
  OBVIOUS
<1>2. lock.tab = t /\ lock.awaiting /\ ~tab[t].leader
  BY <1>1 DEF StraysHeld
<1>3. ~(lock.tab = NULL \/ ~lock.awaiting \/ \E l \in Tabs : tab[l].leader)
  <2>1. tab[t].strays # 0
    BY <1>1
  <2>2. QED
    BY <1>1, <2>1, NoStrays
<1>4. QED
  BY <1>2, <1>3

\* A step of one tab.
LEMMA StraysOneTab ==
  ASSUME IInv, StraysHeld, Without({"abandon"})' => Without({"abandon"}), NEW t \in Tabs, NEW r,
         tab' = [tab EXCEPT ![t] = r], r.strays = tab[t].strays \/ r.strays = 0,
         \/ lock.tab = NULL \/ tab[t].leader
         \/ /\ lock'.tab = lock.tab /\ lock'.awaiting = lock.awaiting
            /\ r.leader = tab[t].leader
  PROVE  StraysHeld'
<1>1. tab \in [Tabs -> TabRec]
  BY TypeIs DEF IInv
<1>2. tab'[t] = r /\ \A u \in Tabs : u # t => tab'[u] = tab[u]
  BY <1>1
<1>3. QED
  BY <1>2, StraysStep

\* The pages.
LEMMA ContendStrays ==
  ASSUME IInv, StraysHeld, Without({"abandon"})' => Without({"abandon"}), NEW t \in Tabs, NEW view,
         Contend(t, view), lock' = lock
  PROVE  StraysHeld'
<1> DEFINE r == [tab[t] EXCEPT !.view = view, !.ctl = TRUE, !.armed = FALSE]
<1>1. tab[t] \in TabRec
  BY TypeIs DEF IInv
<1>2. r.strays = tab[t].strays /\ r.leader = tab[t].leader
  BY <1>1 DEF TabRec
<1>3. tab' = [tab EXCEPT ![t] = r]
  BY DEF Contend
<1> HIDE DEF r
<1>4. QED
  BY <1>2, <1>3, StraysOneTab

\* A follower has no socket to leave; a leader that leaves during its first handshake
\* keeps the lock, and the callback that waits.
LEMMA ExitStrays ==
  ASSUME IInv, StraysHeld, Without({"abandon"})' => Without({"abandon"}), NEW t \in Tabs,
         ExitLeadershipContention(t, "hidden"),
         Without({"abandon"})' /\ tab[t].ws = "connecting" => lock.awaiting
  PROVE  StraysHeld'
<1> DEFINE x == Exited(tab[t])
           r == [x EXCEPT !.view = "hidden"]
<1>1. tab \in [Tabs -> TabRec] /\ lock \in LockRec
  BY TypeIs DEF IInv
<1>2. x \in TabRec /\ x.strays = Strays(tab[t]) /\ x.leader = FALSE
  BY <1>1, StraysOps, TabOps
<1> HIDE DEF x
<1>3. r.strays = Strays(tab[t]) /\ r.leader = FALSE
  BY <1>2 DEF TabRec
<1>4. tab' = [tab EXCEPT ![t] = r] /\ Abort(t)
  BY DEF ExitLeadershipContention, x
<1> HIDE DEF r
<1>5. tab'[t] = r /\ \A u \in Tabs : u # t => tab'[u] = tab[u]
  BY <1>1, <1>4
<1>6. lock'.tab = lock.tab /\ lock'.awaiting = lock.awaiting
  BY <1>1, <1>4 DEF Abort, LockRec
<1>7. CASE tab[t].ws # "connecting"
  <2>1. r.strays = tab[t].strays
    BY <1>3, <1>7 DEF Strays
  <2>2. \A u \in Tabs : /\ tab'[u].strays > 0 => tab[u].strays > 0
                        /\ tab'[u].leader => tab[u].leader
    BY <1>3, <1>5, <2>1
  <2>3. QED
    BY <1>6, <2>2, StraysStep
<1>8. CASE tab[t].ws = "connecting"
  <2> SUFFICES ASSUME Without({"abandon"})'
               PROVE  \A u \in Tabs : tab'[u].strays > 0 =>
                        lock'.tab = u /\ lock'.awaiting /\ ~tab'[u].leader
    BY DEF StraysHeld
  <2>1. tab[t].leader /\ lock.tab = t
    BY <1>8 DEF IInv, Election, LeaderHasLock
  <2>2. \A u \in Tabs : tab[u].strays = 0
    BY <2>1, NoStrays
  <2>3. QED
    BY <1>3, <1>5, <1>6, <1>8, <2>1, <2>2
<1>9. QED
  BY <1>7, <1>8

LEMMA PageStrays ==
  ASSUME IInv, StraysHeld, NEW t \in Tabs, Page(t)
  PROVE  StraysHeld'
<1>1. tab \in [Tabs -> TabRec] /\ LeaderHasLock
  BY TypeIs DEF IInv, Election
<1>2. CASE Open(t)
  <2>1. Without({"abandon"})' => Without({"abandon"})
    BY <1>2, AbandonSeen DEF Open
  <2>2. QED
    BY <1>2, <2>1, ContendStrays DEF Open
<1>3. CASE Hide(t)
  <2>1. Without({"abandon"})' => Without({"abandon"})
    BY <1>3, AbandonSeen DEF Hide, Spend
  <2>2. CASE tab' = [tab EXCEPT ![t].view = "hidden", ![t].armed = TRUE] /\ lock' = lock
    <3> DEFINE r == [tab[t] EXCEPT !.view = "hidden", !.armed = TRUE]
    <3>1. r.strays = tab[t].strays /\ r.leader = tab[t].leader /\ tab' = [tab EXCEPT ![t] = r]
      BY <1>1, <2>2 DEF TabRec
    <3> HIDE DEF r
    <3>2. QED
      BY <2>1, <2>2, <3>1, StraysOneTab
  <2>3. CASE ~tab[t].leader /\ ExitLeadershipContention(t, "hidden")
    <3>1. tab[t].ws # "connecting"
      BY <1>1, <2>3 DEF LeaderHasLock
    <3>2. QED
      BY <2>1, <2>3, <3>1, ExitStrays
  <2>4. QED
    BY <1>3, <2>2, <2>3 DEF Hide
<1>4. CASE Show(t)
  <2>1. (Without({"abandon"})' => Without({"abandon"})) /\ lock' = lock
    BY <1>4, AbandonSeen DEF Show
  <2>2. CASE tab' = [tab EXCEPT ![t].view = "visible", ![t].armed = FALSE]
    <3> DEFINE r == [tab[t] EXCEPT !.view = "visible", !.armed = FALSE]
    <3>1. r.strays = tab[t].strays /\ r.leader = tab[t].leader /\ tab' = [tab EXCEPT ![t] = r]
      BY <1>1, <2>2 DEF TabRec
    <3> HIDE DEF r
    <3>2. QED
      BY <2>1, <3>1, StraysOneTab
  <2>3. QED
    BY <1>4, <2>1, <2>2, ContendStrays DEF Show
<1>5. CASE GraceElapses(t)
  <2>1. PICK E \in {{}, {"overrun"}, {"abandon"}} : Occur(E)
    BY <1>5, GraceEvents
  <2>2. Without({"abandon"})' => Without({"abandon"}) /\ ~Occur({"abandon"})
    BY <2>1, AbandonSeen
  <2>3. Without({"abandon"})' /\ tab[t].ws = "connecting" => lock.awaiting
    BY <1>5, <2>2, GraceEvents
  <2>4. QED
    BY <1>5, <2>2, <2>3, ExitStrays DEF GraceElapses
<1>6. CASE Close(t)
  <2> DEFINE r == [NoTab EXCEPT !.view = "closed"]
  <2>1. (Without({"abandon"})' => Without({"abandon"}))
    BY <1>6, AbandonSeen DEF Close, Spend
  <2>2. r.strays = 0 /\ r.leader = FALSE /\ tab' = [tab EXCEPT ![t] = r]
    BY <1>6 DEF Close, NoTab
  <2>3. lock.tab # t => lock' = lock
    BY <1>6 DEF Close
  <2> HIDE DEF r
  <2>4. CASE lock.tab = t
    <3> SUFFICES ASSUME Without({"abandon"})', NEW u \in Tabs, tab'[u].strays > 0
                 PROVE  FALSE
      BY DEF StraysHeld
    <3>1. u # t /\ tab[u].strays > 0
      BY <1>1, <2>2
    <3>2. QED
      BY <2>1, <2>4, <3>1 DEF StraysHeld
  <2>5. CASE lock.tab # t
    <3>1. ~tab[t].leader
      BY <1>1, <2>5 DEF LeaderHasLock
    <3>2. tab[t].leader \in BOOLEAN
      BY <1>1 DEF TabRec
    <3>3. r.leader = tab[t].leader
      BY <2>2, <3>1, <3>2
    <3>4. QED
      BY <2>1, <2>2, <2>3, <2>5, <3>3, StraysOneTab
  <2>6. QED
    BY <2>4, <2>5
<1>7. QED
  BY <1>2, <1>3, <1>4, <1>5, <1>6 DEF Page

\* The socket.  Whose socket has an event leads.
LEMMA ReconnectStrays ==
  ASSUME IInv, StraysHeld, NEW t \in Tabs, tab[t].leader, Reconnect(t),
         Without({"abandon"})' => Without({"abandon"})
  PROVE  StraysHeld'
<1> DEFINE down == [tab[t] EXCEPT !.ws = "closing", !.connected = FALSE, !.srv = FALSE]
<1>1. tab[t] \in TabRec
  BY TypeIs DEF IInv
<1>2. down \in TabRec /\ down.strays = tab[t].strays /\ down.ws = "closing"
  BY <1>1 DEF TabRec, Sockets
<1>3. \E r : tab' = [tab EXCEPT ![t] = r] /\ r.strays = tab[t].strays
  <2>1. CASE tab' = [tab EXCEPT ![t] = [down EXCEPT !.ws = "parked"]]
    <3>1. [down EXCEPT !.ws = "parked"].strays = down.strays
      BY <1>2 DEF TabRec
    <3>2. QED
      BY <1>2, <2>1, <3>1
  <2>2. CASE tab' = [tab EXCEPT ![t] = [down EXCEPT !.ws = "waiting", !.attempts = @ + 1]]
    <3>1. [down EXCEPT !.ws = "waiting", !.attempts = @ + 1].strays = down.strays
      BY <1>2 DEF TabRec
    <3>2. QED
      BY <1>2, <2>2, <3>1
  <2>3. CASE ReleaseLeadership(t, down)
    <3> DEFINE x == Exited(down)
    <3>1. x \in TabRec /\ x.strays = down.strays
      BY <1>2, StraysOps, TabOps DEF Strays
    <3> HIDE DEF x
    <3>2. [x EXCEPT !.ctl = (down.view = "visible")].strays = down.strays
      BY <3>1 DEF TabRec
    <3>3. tab' = [tab EXCEPT ![t] = [x EXCEPT !.ctl = (down.view = "visible")]]
      BY <2>3 DEF ReleaseLeadership, x
    <3>4. QED
      BY <1>2, <3>2, <3>3
  <2>4. QED
    BY <2>1, <2>2, <2>3 DEF Reconnect
<1>4. QED
  BY <1>3, StraysOneTab

LEMMA SocketStrays ==
  ASSUME IInv, StraysHeld, NEW t \in Tabs, Socket(t)
  PROVE  StraysHeld'
<1>1. tab \in [Tabs -> TabRec] /\ (tab[t].ws # "none" => tab[t].leader)
  BY TypeIs DEF IInv, Election, LeaderHasLock
<1>2. CASE WsOpens(t)
  <2> DEFINE o == [tab[t] EXCEPT !.ws = "open"]
  <2>1. o \in TabRec /\ o.strays = tab[t].strays
    BY <1>1 DEF TabRec, Sockets
  <2> HIDE DEF o
  <2>2. LeaderConnected(o).strays = tab[t].strays
    BY <2>1, StraysOps
  <2>3. tab' = [tab EXCEPT ![t] = LeaderConnected(o)] /\ tab[t].leader
    BY <1>1, <1>2 DEF WsOpens, o
  <2>4. Without({"abandon"})' => Without({"abandon"})
    BY <1>2, AbandonSeen DEF WsOpens
  <2>5. QED
    BY <2>2, <2>3, <2>4, StraysOneTab
<1>3. CASE WsFails(t)
  <2>1. tab[t].leader /\ Reconnect(t) /\ (Without({"abandon"})' => Without({"abandon"}))
    BY <1>1, <1>3, AbandonSeen DEF WsFails, Spend
  <2>2. QED
    BY <2>1, ReconnectStrays
<1>4. CASE WsDrops(t)
  <2>1. [tab[t] EXCEPT !.ws = "closing", !.srv = FALSE].strays = tab[t].strays
    BY <1>1 DEF TabRec
  <2>2. /\ tab' = [tab EXCEPT ![t] = [tab[t] EXCEPT !.ws = "closing", !.srv = FALSE]]
        /\ tab[t].leader /\ (Without({"abandon"})' => Without({"abandon"}))
    BY <1>1, <1>4, AbandonSeen DEF WsDrops, Spend
  <2>3. QED
    BY <2>1, <2>2, StraysOneTab
<1>5. CASE WsClosed(t)
  <2>1. tab[t].leader /\ (Without({"abandon"})' => Without({"abandon"}))
    BY <1>1, <1>5, AbandonSeen DEF WsClosed, Spend
  <2>2. CASE tab' = [tab EXCEPT ![t].ws = "stopped", ![t].connected = FALSE]
    <3>1. [tab[t] EXCEPT !.ws = "stopped", !.connected = FALSE].strays = tab[t].strays
      BY <1>1 DEF TabRec
    <3>2. tab' = [tab EXCEPT ![t] = [tab[t] EXCEPT !.ws = "stopped", !.connected = FALSE]]
      BY <1>1, <2>2
    <3>3. QED
      BY <2>1, <3>1, <3>2, StraysOneTab
  <2>3. QED
    BY <1>5, <2>1, <2>2, ReconnectStrays DEF WsClosed
<1>6. CASE RetryElapses(t)
  <2>1. [tab[t] EXCEPT !.ws = "connecting"].strays = tab[t].strays
    BY <1>1 DEF TabRec
  <2>2. /\ tab' = [tab EXCEPT ![t] = [tab[t] EXCEPT !.ws = "connecting"]]
        /\ tab[t].leader /\ (Without({"abandon"})' => Without({"abandon"}))
    BY <1>1, <1>6, AbandonSeen DEF RetryElapses
  <2>3. QED
    BY <2>1, <2>2, StraysOneTab
<1>7. CASE StableElapses(t)
  <2>1. [tab[t] EXCEPT !.attempts = 0].strays = tab[t].strays
    BY <1>1 DEF TabRec
  <2>2. /\ tab' = [tab EXCEPT ![t] = [tab[t] EXCEPT !.attempts = 0]]
        /\ tab[t].leader /\ (Without({"abandon"})' => Without({"abandon"}))
    BY <1>1, <1>7, AbandonSeen DEF StableElapses
  <2>3. QED
    BY <2>1, <2>2, StraysOneTab
<1>8. CASE StrayEnds(t)
  <2> DEFINE r == [tab[t] EXCEPT !.strays = tab[t].strays - 1]
  <2>1. tab' = [tab EXCEPT ![t] = r] /\ lock' = lock /\ tab[t].strays > 0
    BY <1>1, <1>8 DEF StrayEnds
  <2>2. r.leader = tab[t].leader
    BY <1>1 DEF TabRec
  <2>3. Without({"abandon"})' => Without({"abandon"})
    BY <1>8, AbandonSeen DEF StrayEnds
  <2> HIDE DEF r
  <2>4. \A u \in Tabs : /\ tab'[u].strays > 0 => tab[u].strays > 0
                        /\ tab'[u].leader => tab[u].leader
    BY <1>1, <2>1, <2>2
  <2>5. QED
    BY <2>1, <2>3, <2>4, StraysStep
<1>9. QED
  BY <1>2, <1>3, <1>4, <1>5, <1>6, <1>7, <1>8 DEF Socket

\* Messages and the client leave sockets and lock alone.
LEMMA HandleStrays ==
  ASSUME IInv, StraysHeld, NEW t \in Tabs, Handle(t)
  PROVE  StraysHeld'
<1>1. tab \in [Tabs -> TabRec]
  BY TypeIs DEF IInv
<1>2. lock' = lock /\ (Without({"abandon"})' => Without({"abandon"}))
  BY AbandonSeen DEF Handle, ConnectionState, SendRequest, StateRequest, WsMessage
<1>3. tab' = tab \/ \E r : /\ tab' = [tab EXCEPT ![t] = r] /\ r.strays = tab[t].strays
                            /\ r.leader = tab[t].leader
  <2>1. CASE ConnectionState(t)
    <3>1. \A b \in BOOLEAN : LET r == [tab[t] EXCEPT !.connected = b]
                             IN  r.strays = tab[t].strays /\ r.leader = tab[t].leader
      BY <1>1 DEF TabRec
    <3>2. tab' = tab \/ \E b \in BOOLEAN : tab' = [tab EXCEPT ![t] = [tab[t] EXCEPT !.connected = b]]
      BY <1>1, <2>1 DEF ConnectionState
    <3>3. QED
      BY <3>1, <3>2
  <2>2. CASE SendRequest(t)
    <3>1. \/ tab' = tab
          \/ tab' = [tab EXCEPT ![t] = LeaderSubscribe(tab[t])]
          \/ tab' = [tab EXCEPT ![t] = LeaderUnsubscribe(tab[t])]
      BY <1>1, <2>2 DEF SendRequest
    <3>2. QED
      BY <1>1, <3>1, StraysOps
  <2>3. CASE StateRequest(t)
    <3>1. \/ tab' = tab
          \/ tab' = [tab EXCEPT ![t] = LeaderConnected(tab[t])]
          \/ tab' = [tab EXCEPT ![t] = [tab[t] EXCEPT !.connected = FALSE]]
      BY <1>1, <2>3 DEF StateRequest
    <3>2. LET r == [tab[t] EXCEPT !.connected = FALSE]
          IN  r.strays = tab[t].strays /\ r.leader = tab[t].leader
      BY <1>1 DEF TabRec
    <3>3. QED
      BY <1>1, <3>1, <3>2, StraysOps
  <2>4. CASE WsMessage(t)
    <3>1. tab' = tab \/ tab' = [tab EXCEPT ![t] = [tab[t] EXCEPT !.wants = FALSE]]
      BY <1>1, <2>4 DEF WsMessage
    <3>2. LET r == [tab[t] EXCEPT !.wants = FALSE]
          IN  r.strays = tab[t].strays /\ r.leader = tab[t].leader
      BY <1>1 DEF TabRec
    <3>3. QED
      BY <3>1, <3>2
  <2>5. QED
    BY <2>1, <2>2, <2>3, <2>4 DEF Handle
<1>4. QED
  BY <1>2, <1>3, StraysOneTab, StraysStep

LEMMA ClientStrays ==
  ASSUME IInv, StraysHeld, NEW t \in Tabs, Client(t)
  PROVE  StraysHeld'
<1>1. tab \in [Tabs -> TabRec]
  BY TypeIs DEF IInv
<1>2. lock' = lock /\ (Without({"abandon"})' => Without({"abandon"}))
  BY AbandonSeen DEF Client, Subscribe, Unsubscribe, Reject, Spend
<1>3. \E r : /\ tab' = [tab EXCEPT ![t] = r] /\ r.strays = tab[t].strays
             /\ r.leader = tab[t].leader
  <2>1. ASSUME NEW w \in BOOLEAN, NEW kind, Send(t, [tab[t] EXCEPT !.wants = w], kind)
        PROVE  \E r : /\ tab' = [tab EXCEPT ![t] = r] /\ r.strays = tab[t].strays
                      /\ r.leader = tab[t].leader
    <3> DEFINE x == [tab[t] EXCEPT !.wants = w]
    <3>1. x \in TabRec /\ x.strays = tab[t].strays /\ x.leader = tab[t].leader
      BY <1>1 DEF TabRec
    <3>2. Send(t, x, kind) /\ x.connected \in BOOLEAN /\ x.leader \in BOOLEAN
      BY <1>1, <2>1 DEF TabRec
    <3> HIDE DEF x
    <3>3. PICK r \in {x, LeaderSubscribe(x), LeaderUnsubscribe(x)} : tab' = [tab EXCEPT ![t] = r]
      BY <3>2 DEF Send
    <3>4. \A op \in {x, LeaderSubscribe(x), LeaderUnsubscribe(x)} :
            op.strays = x.strays /\ op.leader = x.leader
      BY <3>1, StraysOps
    <3>5. r.strays = tab[t].strays /\ r.leader = tab[t].leader
      BY <3>1, <3>4
    <3>6. QED
      BY <3>3, <3>5
  <2>2. CASE Reject(t)
    <3> DEFINE r == [tab[t] EXCEPT !.srv = FALSE, !.count = 0, !.wants = FALSE]
    <3>1. r.strays = tab[t].strays /\ r.leader = tab[t].leader
      BY <1>1 DEF TabRec
    <3>2. tab' = [tab EXCEPT ![t] = r]
      BY <1>1, <2>2 DEF Reject
    <3> HIDE DEF r
    <3>3. QED
      BY <3>1, <3>2
  <2>3. QED
    BY <2>1, <2>2 DEF Client, Subscribe, Unsubscribe
<1>4. QED
  BY <1>2, <1>3, StraysOneTab

\* The lock and the network.
LEMMA LockStrays ==
  ASSUME IInv, StraysHeld,
         \/ \E t \in Tabs : BecomeLeader(t)
         \/ ReleaseLock \/ GoOffline \/ GoOnline \/ UNCHANGED vars
  PROVE  StraysHeld'
<1>1. tab \in [Tabs -> TabRec]
  BY TypeIs DEF IInv
<1>2. CASE \E t \in Tabs : BecomeLeader(t)
  <2>1. PICK t \in Tabs : BecomeLeader(t)
    BY <1>2
  <2> DEFINE r == [tab[t] EXCEPT !.leader = TRUE, !.connected = FALSE, !.count = 0,
                                 !.ws = "connecting", !.attempts = 0]
  <2>2. r.strays = tab[t].strays
    BY <1>1 DEF TabRec
  <2>3. tab' = [tab EXCEPT ![t] = r] /\ lock.tab = NULL /\ events' = events
    BY <1>1, <2>1 DEF BecomeLeader
  <2> HIDE DEF r
  <2>4. QED
    BY <2>2, <2>3, AbandonSeen, StraysOneTab
<1>3. CASE ReleaseLock
  <2>1. tab' = tab /\ ~lock.awaiting /\ events' = events
    BY <1>3 DEF ReleaseLock
  <2>2. QED
    BY <2>1, AbandonSeen, StraysStep
<1>4. CASE GoOffline
  <2>1. tab' = tab /\ lock' = lock /\ (Without({"abandon"})' => Without({"abandon"}))
    BY <1>4, AbandonSeen DEF GoOffline, Spend
  <2>2. QED
    BY <2>1, StraysStep
<1>5. CASE GoOnline
  <2>1. lock' = lock /\ events' = events
    BY <1>5 DEF GoOnline
  <2>2. \A u \in Tabs : LET r == [tab[u] EXCEPT !.ws = "connecting", !.attempts = 0]
                        IN  r.strays = tab[u].strays /\ r.leader = tab[u].leader
    BY <1>1 DEF TabRec
  <2>3. \A u \in Tabs : tab'[u].strays = tab[u].strays /\ tab'[u].leader = tab[u].leader
    BY <1>5, <2>2 DEF GoOnline
  <2>4. QED
    BY <2>1, <2>3, AbandonSeen, StraysStep
<1>6. CASE UNCHANGED vars
  BY <1>6, AbandonSeen, StraysStep DEF vars
<1>7. QED
  BY <1>2, <1>3, <1>4, <1>5, <1>6

\* Two sockets need two tabs with the lock, or a stray: none survives in a tab that has
\* not the lock, unless a grace period ended during the handshake of a reconnection.
LEMMA HeldIsOne == IInv /\ StraysHeld => OneConnection
<1> SUFFICES ASSUME IInv, StraysHeld PROVE OneConnection
  OBVIOUS
<1>1. tab \in [Tabs -> TabRec] /\ LeaderHasLock
  BY TypeIs DEF IInv, Election
<1>2. \A t, u \in Tabs : tab[t].ws # "none" /\ tab[u].ws # "none" => t = u
  BY <1>1 DEF LeaderHasLock
<1>3. ASSUME Without({"abandon"}), NEW t \in Tabs
      PROVE  /\ HasSocket(t) => lock.tab = t
             /\ tab[t].ws # "none" => tab[t].strays = 0
  <2>1. tab[t].strays \in Nat
    BY <1>1 DEF TabRec
  <2>2. QED
    BY <1>1, <1>3, <2>1 DEF StraysHeld, LeaderHasLock, HasSocket
<1>4. QED
  BY <1>2, <1>3 DEF OneConnection

\* No two tabs of a browser ever have a backend with a socket, however the lock changes
\* hands (sharedConnection.ts), and no socket outlives the leadership of its tab beside
\* another one, except one that a grace period ends upon while it reconnects
\* (websocket.ts:177).
THEOREM OneConnectionHolds == Spec => []OneConnection
<1>1. Init => StraysHeld
  BY DEF Init, NoTab, StraysHeld
<1>2. IInv /\ StraysHeld /\ [Next]_vars => StraysHeld'
  BY PageStrays, SocketStrays, HandleStrays, ClientStrays, LockStrays DEF Next
<1>3. QED
  BY <1>1, <1>2, HeldIsOne, InitHolds, NextKeeps, PTL DEF Spec

-----------------------------------------------------------------------------
(***************************************************************************)
(* The topic.  What the server is asked for depends on messages that are   *)
(* still on their way, so the invariant says what each inbox is worth: to  *)
(* a follower, whether it will think itself connected once it is empty     *)
(* (Dark); to the leader, how many subscriptions it will count at the      *)
(* least (Covers).                                                         *)
(***************************************************************************)
\* A tab that is not open has left nothing behind.
Pages ==
  \A t \in Tabs : ~IsOpen(t) => /\ inbox[t] = <<>> /\ ~tab[t].connected /\ ~tab[t].wants
                                /\ ~tab[t].leader /\ ~tab[t].ctl

\* Who waits for the lock waits once, can withdraw, and does not lead.
Line ==
  /\ Distinct(queue)
  /\ \A t \in ToSet(queue) : tab[t].ctl /\ ~tab[t].leader

\* The server's session lasts as long as its socket; whose socket is open is connected.
Sessions ==
  \A t \in Tabs : /\ tab[t].srv => tab[t].ws = "open"
                  /\ tab[t].ws = "open" => tab[t].connected

\* A tab with the messages q ahead of it is not connected when it has handled them.
Dark(q, connected) ==
  \/ ~connected /\ \A i \in DOMAIN q : q[i] # "up"
  \/ \E i \in DOMAIN q : q[i] = "down" /\ \A j \in DOMAIN q : j > i => q[j] # "up"

IsDown(r) == r.leader /\ r.ws \notin {"open", "closing"}

\* A leader that has no connection has told every other tab.
Quiet == \A l, t \in Tabs : IsDown(tab[l]) /\ t # l => Dark(inbox[t], tab[t].connected)

\* A message ahead that ends the subscription of the tab, or what the tab knows of it.
Marked(q) == \E i \in DOMAIN q : q[i] \in {"down", "rejected"}

\* Whom leader l owes a subscription.
Subscribers(l) ==
  {t \in Tabs : tab[t].wants /\ tab[t].connected /\ (t = l \/ ~Marked(inbox[t]))}

\* A count n once message m is handled.
After(m, n) == CASE m = "subscribe"   -> n + 1
                 [] m = "unsubscribe" -> (IF n = 0 THEN 0 ELSE n - 1)
                 [] OTHER             -> n

\* A leader r with the messages q ahead counts every tab of S in the end, and the server
\* is subscribed all along: v[i] is a count it has at the least after i messages.
Covers(S, r, q) ==
  /\ IsFiniteSet(S)
  /\ \E v \in [0 .. Len(q) -> Nat] :
       /\ v[0] <= r.count
       /\ v[0] > 0 => r.srv
       /\ \A i \in 1 .. Len(q) : v[i] <= After(q[i], v[i - 1])
       /\ Cardinality(S) <= v[Len(q)]

Counted ==
  Without({"lag"}) =>
    \A l \in Tabs : tab[l].ws = "open" => Covers(Subscribers(l), tab[l], inbox[l])

Wanted == Pages /\ Line /\ Sessions /\ Quiet /\ Counted

-----------------------------------------------------------------------------
(***************************************************************************)
(* Messages: what posting one, or handling the first, does to Dark, Marked *)
(* and Covers.                                                             *)
(***************************************************************************)
\* A message that is posted comes last.
LEMMA PostedSeq ==
  ASSUME NEW q \in Seq(Messages), NEW m \in Messages
  PROVE  /\ q \o <<m>> \in Seq(Messages) /\ Len(q \o <<m>>) = Len(q) + 1
         /\ Len(q) \in Nat /\ DOMAIN q = 1 .. Len(q)
         /\ DOMAIN (q \o <<m>>) = 1 .. (Len(q) + 1)
         /\ \A i \in 1 .. Len(q) : (q \o <<m>>)[i] = q[i]
         /\ (q \o <<m>>)[Len(q) + 1] = m
<1>1. q \o <<m>> = Append(q, m)
  BY AppendIsConcat
<1>2. /\ Append(q, m) \in Seq(Messages) /\ Len(Append(q, m)) = Len(q) + 1
      /\ \A i \in 1 .. Len(q) : Append(q, m)[i] = q[i]
      /\ Append(q, m)[Len(q) + 1] = m
  BY AppendProperties
<1>3. /\ Len(q) \in Nat /\ DOMAIN q = 1 .. Len(q)
      /\ DOMAIN Append(q, m) = 1 .. Len(Append(q, m))
  BY <1>2, LenProperties
<1>4. QED
  BY <1>1, <1>2, <1>3

\* A message that is handled was first.
LEMMA TailSeq ==
  ASSUME NEW q \in Seq(Messages), q # <<>>
  PROVE  /\ Tail(q) \in Seq(Messages) /\ Len(Tail(q)) = Len(q) - 1
         /\ Len(q) \in Nat /\ Len(q) >= 1 /\ DOMAIN q = 1 .. Len(q)
         /\ DOMAIN Tail(q) = 1 .. (Len(q) - 1)
         /\ Head(q) = q[1]
         /\ \A i \in 1 .. (Len(q) - 1) : Tail(q)[i] = q[i + 1]
<1>1. /\ Tail(q) \in Seq(Messages) /\ Len(Tail(q)) = Len(q) - 1
      /\ \A i \in 1 .. Len(Tail(q)) : Tail(q)[i] = q[i + 1]
  BY HeadTailProperties
<1>2. Len(q) \in Nat /\ DOMAIN q = 1 .. Len(q) /\ DOMAIN Tail(q) = 1 .. Len(Tail(q))
  BY <1>1, LenProperties
<1>3. Len(q) # 0
  BY <1>1, <1>2, EmptySeq
<1>4. Head(q) = q[1]
  OBVIOUS
<1>5. QED
  BY <1>1, <1>2, <1>3, <1>4

\* "down" is the last word; nothing but "up" takes it back.
LEMMA DarkPost ==
  ASSUME NEW q \in Seq(Messages), NEW m \in Messages, NEW c \in BOOLEAN
  PROVE  /\ m = "down" => Dark(q \o <<m>>, c)
         /\ m # "up" /\ Dark(q, c) => Dark(q \o <<m>>, c)
<1> DEFINE n == Len(q)
           p == q \o <<m>>
<1>1. /\ n \in Nat /\ DOMAIN q = 1 .. n /\ DOMAIN p = 1 .. (n + 1)
      /\ \A i \in 1 .. n : p[i] = q[i]
      /\ p[n + 1] = m
  BY PostedSeq
<1> HIDE DEF n, p
<1>2. \A i \in 1 .. (n + 1) : i = n + 1 \/ i \in 1 .. n
  BY <1>1
<1>3. n + 1 \in 1 .. (n + 1) /\ \A i \in 1 .. (n + 1) : ~(i > n + 1)
  BY <1>1
<1>4. m = "down" => Dark(p, c)
  BY <1>1, <1>3 DEF Dark
<1>5. ASSUME m # "up", ~c, \A i \in DOMAIN q : q[i] # "up"
      PROVE  Dark(p, c)
  BY <1>1, <1>2, <1>5 DEF Dark
<1>6. ASSUME m # "up", NEW i \in DOMAIN q, q[i] = "down",
             \A j \in DOMAIN q : j > i => q[j] # "up"
      PROVE  Dark(p, c)
  <2>1. i \in 1 .. (n + 1) /\ p[i] = "down"
    BY <1>1, <1>6
  <2>2. \A j \in 1 .. (n + 1) : j > i => p[j] # "up"
    BY <1>1, <1>2, <1>6
  <2>3. QED
    BY <1>1, <2>1, <2>2 DEF Dark
<1>7. m # "up" /\ Dark(q, c) => Dark(p, c)
  BY <1>5, <1>6 DEF Dark
<1>8. QED
  BY <1>4, <1>7 DEF p

\* Handling a message takes into account what it said.
LEMMA DarkTail ==
  ASSUME NEW q \in Seq(Messages), q # <<>>, NEW c \in BOOLEAN, Dark(q, c)
  PROVE  /\ Head(q) = "down" => Dark(Tail(q), FALSE)
         /\ Head(q) = "up" => \A d \in BOOLEAN : Dark(Tail(q), d)
         /\ Head(q) \notin {"up", "down"} => Dark(Tail(q), c)
<1> DEFINE n == Len(q)
           p == Tail(q)
<1>1. /\ n \in Nat /\ n >= 1 /\ DOMAIN q = 1 .. n /\ DOMAIN p = 1 .. (n - 1) /\ Head(q) = q[1]
      /\ \A i \in 1 .. (n - 1) : p[i] = q[i + 1]
  BY TailSeq
<1> HIDE DEF n, p
<1>2. \A i \in 1 .. (n - 1) : i + 1 \in 1 .. n
  BY <1>1
<1>3. CASE ~c /\ \A i \in DOMAIN q : q[i] # "up"
  <2>1. 1 \in 1 .. n
    BY <1>1
  <2>2. q[1] # "up" /\ \A i \in 1 .. (n - 1) : p[i] # "up"
    BY <1>1, <1>2, <1>3, <2>1
  <2>3. QED
    BY <1>1, <1>3, <2>2 DEF Dark, p
<1>4. ASSUME NEW i \in DOMAIN q, q[i] = "down", \A j \in DOMAIN q : j > i => q[j] # "up"
      PROVE  /\ i = 1 => \A j \in 1 .. (n - 1) : p[j] # "up"
             /\ i # 1 => \A d \in BOOLEAN : Dark(p, d)
  <2>1. i \in 1 .. n
    BY <1>1
  <2>2. CASE i = 1
    <3>1. \A j \in 1 .. (n - 1) : j + 1 \in 1 .. n /\ j + 1 > 1
      BY <1>1
    <3>2. QED
      BY <1>1, <1>4, <2>2, <3>1
  <2>3. CASE i # 1
    <3>1. i - 1 \in 1 .. (n - 1) /\ (i - 1) + 1 = i
      BY <1>1, <2>1, <2>3
    <3>2. p[i - 1] = "down"
      BY <1>1, <1>4, <3>1
    <3>3. \A j \in 1 .. (n - 1) : j > i - 1 => j + 1 \in 1 .. n /\ j + 1 > i
      BY <1>1, <2>1
    <3>4. \A j \in 1 .. (n - 1) : j > i - 1 => p[j] # "up"
      BY <1>1, <1>4, <3>3
    <3>5. QED
      BY <1>1, <2>3, <3>1, <3>2, <3>4 DEF Dark
  <2>4. QED
    BY <2>2, <2>3
<1>5. ASSUME NEW i \in DOMAIN q, q[i] = "down", \A j \in DOMAIN q : j > i => q[j] # "up"
      PROVE  /\ q[1] = "down" => Dark(p, FALSE)
             /\ q[1] # "down" => \A d \in BOOLEAN : Dark(p, d)
  <2>1. CASE i = 1
    BY <1>1, <1>4, <1>5, <2>1 DEF Dark
  <2>2. CASE i # 1
    BY <1>4, <1>5, <2>2
  <2>3. QED
    BY <2>1, <2>2
<1>6. QED
  BY <1>1, <1>3, <1>5 DEF Dark, p

\* Nothing ahead: the tab itself knows.
LEMMA DarkBasics ==
  ASSUME NEW q \in Seq(Messages), NEW c \in BOOLEAN
  PROVE  /\ Dark(q, c) => Dark(q, FALSE)
         /\ Dark(<<>>, FALSE)
         /\ Dark(<<>>, c) => ~c
<1>1. DOMAIN <<>> = {}
  OBVIOUS
<1>2. QED
  BY <1>1 DEF Dark

\* A mark stays until it is handled.
LEMMA MarkedOps ==
  ASSUME NEW q \in Seq(Messages)
  PROVE  /\ ~Marked(<<>>)
         /\ \A m \in Messages : Marked(q) => Marked(q \o <<m>>)
         /\ \A m \in {"down", "rejected"} : Marked(q \o <<m>>)
         /\ q # <<>> /\ Head(q) \notin {"down", "rejected"} /\ Marked(q) => Marked(Tail(q))
<1>1. ~Marked(<<>>)
  BY DEF Marked
<1>2. ASSUME NEW m \in Messages
      PROVE  /\ Marked(q) => Marked(q \o <<m>>)
             /\ m \in {"down", "rejected"} => Marked(q \o <<m>>)
  <2>1. /\ Len(q) \in Nat /\ DOMAIN q = 1 .. Len(q)
        /\ DOMAIN (q \o <<m>>) = 1 .. (Len(q) + 1)
        /\ \A i \in 1 .. Len(q) : (q \o <<m>>)[i] = q[i]
        /\ (q \o <<m>>)[Len(q) + 1] = m
    BY PostedSeq
  <2>2. Len(q) + 1 \in 1 .. (Len(q) + 1) /\ \A i \in 1 .. Len(q) : i \in 1 .. (Len(q) + 1)
    BY <2>1
  <2>3. QED
    BY <2>1, <2>2 DEF Marked
<1>3. ASSUME q # <<>>, Head(q) \notin {"down", "rejected"}, Marked(q)
      PROVE  Marked(Tail(q))
  <2> DEFINE n == Len(q)
             p == Tail(q)
  <2>1. /\ n \in Nat /\ DOMAIN q = 1 .. n /\ DOMAIN p = 1 .. (n - 1) /\ Head(q) = q[1]
        /\ \A i \in 1 .. (n - 1) : p[i] = q[i + 1]
    BY <1>3, TailSeq
  <2> HIDE DEF n, p
  <2>2. PICK i \in DOMAIN q : q[i] \in {"down", "rejected"}
    BY <1>3 DEF Marked
  <2>3. i # 1
    BY <1>3, <2>1, <2>2
  <2>4. i - 1 \in 1 .. (n - 1) /\ (i - 1) + 1 = i
    BY <2>1, <2>2, <2>3
  <2>5. p[i - 1] \in {"down", "rejected"}
    BY <2>1, <2>2, <2>4
  <2>6. QED
    BY <2>1, <2>4, <2>5 DEF Marked, p
<1>4. {"down", "rejected"} \subseteq Messages
  BY DEF Messages
<1>5. QED
  BY <1>1, <1>2, <1>3, <1>4
\* What a message does to a count, and that it keeps the order of counts.
LEMMA AfterType ==
  ASSUME NEW m, NEW n \in Nat
  PROVE  /\ After(m, n) \in Nat
         /\ \A k \in Nat : k <= n => After(m, k) <= After(m, n)
         /\ m = "subscribe" => After(m, n) = n + 1
         /\ m = "unsubscribe" => After(m, n) <= n /\ n <= After(m, n) + 1
         /\ m \notin {"subscribe", "unsubscribe"} => After(m, n) = n
BY DEF After

\* Who covers a set covers its subsets.
LEMMA CoversFewer ==
  ASSUME NEW S, NEW T \in SUBSET S, NEW r \in TabRec, NEW q \in Seq(Messages), Covers(S, r, q)
  PROVE  Covers(T, r, q)
<1>1. IsFiniteSet(S)
  BY DEF Covers
<1>2. IsFiniteSet(T) /\ Cardinality(T) <= Cardinality(S)
  BY <1>1, FS_Subset
<1>3. Cardinality(T) \in Nat /\ Cardinality(S) \in Nat
  BY <1>1, <1>2, FS_CardinalityType
<1>4. PICK v \in [0 .. Len(q) -> Nat] :
        /\ v[0] <= r.count /\ (v[0] > 0 => r.srv)
        /\ \A i \in 1 .. Len(q) : v[i] <= After(q[i], v[i - 1])
        /\ Cardinality(S) <= v[Len(q)]
  BY DEF Covers
<1>5. v[Len(q)] \in Nat
  <2>1. Len(q) \in Nat
    BY LenProperties
  <2>2. Len(q) \in 0 .. Len(q)
    BY <2>1
  <2>3. QED
    BY <1>4, <2>2
<1>6. Cardinality(T) <= v[Len(q)]
  BY <1>2, <1>3, <1>4, <1>5
<1>7. QED
  BY <1>2, <1>4, <1>6 DEF Covers

\* Nobody is covered by any count.
LEMMA CoversNobody ==
  ASSUME NEW r \in TabRec, NEW q \in Seq(Messages)
  PROVE  Covers({}, r, q)
<1> DEFINE v == [i \in 0 .. Len(q) |-> 0]
<1>1. IsFiniteSet({}) /\ Cardinality({}) = 0
  BY FS_EmptySet
<1>2. Len(q) \in Nat /\ r.count \in Nat
  BY LenProperties DEF TabRec
<1>3. v \in [0 .. Len(q) -> Nat] /\ \A i \in 0 .. Len(q) : v[i] = 0
  OBVIOUS
<1> HIDE DEF v
<1>4. 0 \in 0 .. Len(q) /\ Len(q) \in 0 .. Len(q)
      /\ \A i \in 1 .. Len(q) : i \in 0 .. Len(q) /\ i - 1 \in 0 .. Len(q)
  BY <1>2
<1>5. \A i \in 1 .. Len(q) : v[i] <= After(q[i], v[i - 1])
  <2>1. ASSUME NEW i \in 1 .. Len(q) PROVE v[i] <= After(q[i], v[i - 1])
    <3>1. v[i] = 0 /\ v[i - 1] = 0
      BY <1>3, <1>4
    <3>2. After(q[i], 0) \in Nat
      BY AfterType
    <3>3. QED
      BY <3>1, <3>2
  <2>2. QED
    BY <2>1
<1>6. v[0] <= r.count /\ ~(v[0] > 0) /\ Cardinality({}) <= v[Len(q)]
  BY <1>1, <1>2, <1>3, <1>4
<1>7. QED
  BY <1>1, <1>3, <1>5, <1>6 DEF Covers

\* A message that is posted extends the counts by what it is worth.
LEMMA CoversPost ==
  ASSUME NEW S, NEW T, NEW r \in TabRec, NEW q \in Seq(Messages), NEW m \in Messages,
         Covers(S, r, q), IsFiniteSet(T),
         \A n \in Nat : Cardinality(S) <= n => Cardinality(T) <= After(m, n)
  PROVE  Covers(T, r, q \o <<m>>)
<1> DEFINE n == Len(q)
           p == q \o <<m>>
<1>1. /\ n \in Nat /\ Len(p) = n + 1 /\ p[n + 1] = m
      /\ \A i \in 1 .. n : p[i] = q[i]
  BY PostedSeq
<1>2. PICK v \in [0 .. n -> Nat] :
        /\ v[0] <= r.count /\ (v[0] > 0 => r.srv)
        /\ \A i \in 1 .. n : v[i] <= After(q[i], v[i - 1])
        /\ Cardinality(S) <= v[n]
  BY DEF Covers
<1> HIDE DEF n, p
<1> DEFINE w == [i \in 0 .. (n + 1) |-> IF i = n + 1 THEN After(m, v[n]) ELSE v[i]]
<1>3. /\ 0 \in 0 .. (n + 1) /\ n \in 0 .. n /\ n + 1 \in 0 .. (n + 1) /\ 0 # n + 1
      /\ \A i \in 0 .. (n + 1) : i = n + 1 \/ i \in 0 .. n
      /\ \A i \in 0 .. n : i \in 0 .. (n + 1) /\ i # n + 1
  BY <1>1
<1>4. v[n] \in Nat /\ After(m, v[n]) \in Nat
  BY <1>3, AfterType
<1>5. /\ w \in [0 .. (n + 1) -> Nat] /\ w[n + 1] = After(m, v[n])
      /\ \A i \in 0 .. n : w[i] = v[i]
  BY <1>3, <1>4
<1> HIDE DEF w
<1>6. w[0] = v[0]
  BY <1>1, <1>5
<1>7. \A i \in 1 .. (n + 1) : w[i] <= After(p[i], w[i - 1])
  <2>1. ASSUME NEW i \in 1 .. n PROVE w[i] <= After(p[i], w[i - 1])
    <3>1. i \in 0 .. n /\ i - 1 \in 0 .. n
      BY <1>1
    <3>2. QED
      BY <1>1, <1>2, <1>5, <3>1
  <2>2. w[n + 1] <= After(p[n + 1], w[(n + 1) - 1])
    <3>1. (n + 1) - 1 = n
      BY <1>1
    <3>2. w[n] = v[n]
      BY <1>3, <1>5
    <3>3. QED
      BY <1>1, <1>4, <1>5, <3>1, <3>2
  <2>3. \A i \in 1 .. (n + 1) : i = n + 1 \/ i \in 1 .. n
    BY <1>1
  <2>4. QED
    BY <2>1, <2>2, <2>3
<1>8. Cardinality(T) <= w[n + 1]
  BY <1>2, <1>4, <1>5
<1>9. Len(p) = n + 1
  BY <1>1
<1>10. Covers(T, r, p)
  BY <1>2, <1>5, <1>6, <1>7, <1>8, <1>9 DEF Covers
<1>11. QED
  BY <1>10 DEF p

\* A posted "subscribe" pays for one more tab, a posted "unsubscribe" for one less.
LEMMA CoversPosts ==
  ASSUME NEW S, NEW r \in TabRec, NEW q \in Seq(Messages), NEW t, Covers(S, r, q)
  PROVE  /\ \A m \in Messages \ {"subscribe", "unsubscribe"} : Covers(S, r, q \o <<m>>)
         /\ Covers(S \cup {t}, r, q \o <<"subscribe">>)
         /\ t \in S => Covers(S \ {t}, r, q \o <<"unsubscribe">>)
<1>1. IsFiniteSet(S)
  BY DEF Covers
<1>2. Cardinality(S) \in Nat
  BY <1>1, FS_CardinalityType
<1>3. ASSUME NEW m \in Messages \ {"subscribe", "unsubscribe"}
      PROVE  Covers(S, r, q \o <<m>>)
  <2>1. \A n \in Nat : Cardinality(S) <= n => Cardinality(S) <= After(m, n)
    BY AfterType
  <2>2. QED
    BY <1>1, <2>1, CoversPost
<1>4. Covers(S \cup {t}, r, q \o <<"subscribe">>)
  <2>1. /\ IsFiniteSet(S \cup {t})
        /\ Cardinality(S \cup {t}) = IF t \in S THEN Cardinality(S) ELSE Cardinality(S) + 1
    BY <1>1, FS_AddElement
  <2>2. \A n \in Nat : Cardinality(S) <= n => Cardinality(S \cup {t}) <= After("subscribe", n)
    BY <1>2, <2>1, AfterType
  <2>3. "subscribe" \in Messages
    BY DEF Messages
  <2>4. QED
    BY <2>1, <2>2, <2>3, CoversPost
<1>5. ASSUME t \in S PROVE Covers(S \ {t}, r, q \o <<"unsubscribe">>)
  <2>1. /\ IsFiniteSet(S \ {t})
        /\ Cardinality(S \ {t}) = Cardinality(S) - 1
    BY <1>1, <1>5, FS_RemoveElement
  <2>2. ASSUME NEW n \in Nat, Cardinality(S) <= n
        PROVE  Cardinality(S \ {t}) <= After("unsubscribe", n)
    <3>1. After("unsubscribe", n) \in Nat /\ n <= After("unsubscribe", n) + 1
      BY AfterType
    <3>2. QED
      BY <1>2, <2>1, <2>2, <3>1
  <2>3. "unsubscribe" \in Messages
    BY DEF Messages
  <2>4. QED
    BY <2>1, <2>2, <2>3, CoversPost
<1>6. QED
  BY <1>3, <1>4, <1>5

\* What the leader does with the head of its inbox is what the counts foresee.
LEMMA CoversHandle ==
  ASSUME NEW S, NEW r \in TabRec, NEW q \in Seq(Messages), q # <<>>, NEW s \in TabRec,
         Covers(S, r, q), r.ws = "open",
         s.count = After(Head(q), r.count),
         Head(q) = "subscribe" => s.srv,
         r.srv /\ (Head(q) = "unsubscribe" => r.count > 1) => s.srv
  PROVE  Covers(S, s, Tail(q))
<1> DEFINE n == Len(q)
           p == Tail(q)
<1>1. /\ n \in Nat /\ n >= 1 /\ Len(p) = n - 1 /\ Head(q) = q[1]
      /\ \A i \in 1 .. (n - 1) : p[i] = q[i + 1]
  BY TailSeq
<1>2. PICK v \in [0 .. n -> Nat] :
        /\ v[0] <= r.count /\ (v[0] > 0 => r.srv)
        /\ \A i \in 1 .. n : v[i] <= After(q[i], v[i - 1])
        /\ Cardinality(S) <= v[n]
  BY DEF Covers
<1> HIDE DEF n, p
<1> DEFINE w == [i \in 0 .. (n - 1) |-> v[i + 1]]
<1>3. /\ 0 \in 0 .. (n - 1) /\ 0 \in 0 .. n /\ 1 \in 0 .. n /\ 1 \in 1 .. n /\ n - 1 \in 0 .. (n - 1)
      /\ (n - 1) + 1 = n
      /\ \A i \in 0 .. (n - 1) : i + 1 \in 0 .. n
      /\ \A i \in 1 .. (n - 1) : /\ i + 1 \in 1 .. n /\ (i + 1) - 1 = i /\ i - 1 \in 0 .. (n - 1)
                                 /\ i \in 0 .. (n - 1) /\ (i - 1) + 1 = i
  BY <1>1
<1>4. w \in [0 .. (n - 1) -> Nat] /\ \A i \in 0 .. (n - 1) : w[i] = v[i + 1]
  BY <1>3
<1> HIDE DEF w
<1>5. \A i \in 1 .. (n - 1) : w[i] <= After(p[i], w[i - 1])
  <2>1. ASSUME NEW i \in 1 .. (n - 1) PROVE w[i] <= After(p[i], w[i - 1])
    <3>1. w[i] = v[i + 1] /\ w[i - 1] = v[i] /\ p[i] = q[i + 1]
      BY <1>1, <1>3, <1>4
    <3>2. v[i + 1] <= After(q[i + 1], v[(i + 1) - 1])
      BY <1>2, <1>3
    <3>3. QED
      BY <1>3, <3>1, <3>2
  <2>2. QED
    BY <2>1
<1>6. w[0] = v[1] /\ w[n - 1] = v[n]
  BY <1>3, <1>4
<1>7. v[1] <= After(Head(q), v[0])
  <2>1. 1 - 1 = 0
    OBVIOUS
  <2>2. QED
    BY <1>1, <1>2, <1>3, <2>1
<1>8. r.count \in Nat /\ v[0] \in Nat /\ v[1] \in Nat
  BY <1>3 DEF TabRec
<1>9. /\ After(Head(q), v[0]) \in Nat /\ After(Head(q), r.count) \in Nat
      /\ After(Head(q), v[0]) <= After(Head(q), r.count)
  BY <1>2, <1>8, AfterType
<1>10. w[0] <= s.count
  BY <1>6, <1>7, <1>8, <1>9
<1>11. w[0] > 0 => s.srv
  <2> SUFFICES ASSUME v[1] > 0 PROVE s.srv
    BY <1>6
  <2>1. CASE Head(q) = "subscribe"
    BY <2>1
  <2>2. CASE Head(q) = "unsubscribe"
    <3>1. v[0] > 1
      <4>1. After(Head(q), v[0]) = IF v[0] = 0 THEN 0 ELSE v[0] - 1
        BY <2>2 DEF After
      <4>2. QED
        BY <1>7, <1>8, <4>1
    <3>2. v[0] > 0 /\ r.count > 1
      BY <1>2, <1>8, <3>1
    <3>3. QED
      BY <1>2, <3>2
  <2>3. CASE Head(q) \notin {"subscribe", "unsubscribe"}
    <3>1. After(Head(q), v[0]) = v[0]
      BY <1>8, <2>3, AfterType
    <3>2. v[0] > 0
      BY <1>7, <1>8, <3>1
    <3>3. QED
      BY <1>2, <2>3, <3>2
  <2>4. QED
    BY <2>1, <2>2, <2>3
<1>12. IsFiniteSet(S) /\ Cardinality(S) <= w[n - 1] /\ Len(p) = n - 1
  BY <1>1, <1>2, <1>6 DEF Covers
<1>13. Covers(S, s, p)
  BY <1>4, <1>5, <1>10, <1>11, <1>12 DEF Covers
<1>14. QED
  BY <1>13 DEF p

\* Only the count and the session of the leader matter.
LEMMA CoversSame ==
  ASSUME NEW S, NEW r \in TabRec, NEW q \in Seq(Messages), NEW s \in TabRec, Covers(S, r, q),
         s.count = r.count, s.srv = r.srv
  PROVE  Covers(S, s, q)
BY DEF Covers

\* With nothing ahead, a tab that is covered has the server's session.
LEMMA CoversSettled ==
  ASSUME NEW S, NEW r \in TabRec, Covers(S, r, <<>>), S # {}
  PROVE  r.srv
<1>1. Len(<<>>) = 0
  OBVIOUS
<1>2. PICK v \in [0 .. 0 -> Nat] : (v[0] > 0 => r.srv) /\ Cardinality(S) <= v[0]
  BY <1>1 DEF Covers
<1>3. IsFiniteSet(S)
  BY DEF Covers
<1>4. Cardinality(S) \in Nat /\ Cardinality(S) # 0
  BY <1>3, FS_CardinalityType, FS_EmptySet
<1>5. v[0] \in Nat
  OBVIOUS
<1>6. QED
  BY <1>2, <1>4, <1>5

-----------------------------------------------------------------------------
(***************************************************************************)
(* Steps: one tab changes, keeps or handles its messages, and posts at     *)
(* most one.                                                               *)
(***************************************************************************)
Acts(t, r, mine, out) ==
  /\ tab' = [tab EXCEPT ![t] = r]
  /\ inbox' = [u \in Tabs |-> CASE u = t -> mine
                                [] u # t /\ IsOpen(u) -> inbox[u] \o out
                                [] OTHER -> inbox[u]]

Outs == {<<>>} \cup {<<m>> : m \in Messages}

\* What the acting tab and the others find afterwards.
LEMMA ActsEffect ==
  ASSUME IInv, Pages, NEW t \in Tabs, NEW r, NEW mine, NEW out \in Outs, Acts(t, r, mine, out)
  PROVE  /\ tab'[t] = r /\ inbox'[t] = mine
         /\ \A u \in Tabs \ {t} :
              /\ tab'[u] = tab[u]
              /\ IsOpen(u) => inbox'[u] = inbox[u] \o out
              /\ ~IsOpen(u) \/ out = <<>> => inbox'[u] = inbox[u]
              /\ inbox[u] \in Seq(Messages) /\ tab[u] \in TabRec
<1>1. tab \in [Tabs -> TabRec] /\ inbox \in [Tabs -> Seq(Messages)]
  BY TypeIs DEF IInv
<1>2. /\ tab'[t] = r /\ inbox'[t] = mine
      /\ \A u \in Tabs \ {t} :
           /\ tab'[u] = tab[u]
           /\ IsOpen(u) => inbox'[u] = inbox[u] \o out
           /\ ~IsOpen(u) => inbox'[u] = inbox[u]
  BY <1>1 DEF Acts
<1>3. \A q \in Seq(Messages) : q \o <<>> = q
  BY ConcatEmptySeq
<1>4. QED
  BY <1>1, <1>2, <1>3

\* One tab leads at most, and only a leader has a socket.
LEMMA OneLeader ==
  ASSUME IInv
  PROVE  \A l, u \in Tabs : tab[l].leader /\ tab[u].leader => l = u
BY DEF IInv, Election, LeaderHasLock

LEMMA OpenLeads ==
  ASSUME IInv
  PROVE  \A l \in Tabs : tab[l].ws # "none" => tab[l].leader
BY DEF IInv, Election, LeaderHasLock

\* The parts of the invariant that concern the acting tab alone.
LEMMA PagesStep ==
  ASSUME IInv, Pages, NEW t \in Tabs, NEW r, NEW mine, NEW out \in Outs, Acts(t, r, mine, out),
         r.view \notin {"visible", "hidden"} =>
           mine = <<>> /\ ~r.connected /\ ~r.wants /\ ~r.leader /\ ~r.ctl
  PROVE  Pages'
<1>1. /\ tab'[t] = r /\ inbox'[t] = mine
      /\ \A u \in Tabs \ {t} : tab'[u] = tab[u] /\ (~IsOpen(u) => inbox'[u] = inbox[u])
  BY ActsEffect
<1>2. QED
  BY <1>1 DEF Pages, IsOpen

LEMMA SessionsStep ==
  ASSUME IInv, Pages, Sessions, NEW t \in Tabs, NEW r, NEW mine, NEW out \in Outs,
         Acts(t, r, mine, out), r.srv => r.ws = "open", r.ws = "open" => r.connected
  PROVE  Sessions'
<1>1. tab'[t] = r /\ \A u \in Tabs \ {t} : tab'[u] = tab[u]
  BY ActsEffect
<1>2. QED
  BY <1>1 DEF Sessions

\* A leader without a connection has told every other tab.
LEMMA QuietStep ==
  ASSUME IInv, Pages, Quiet, IInv', NEW t \in Tabs, NEW r \in TabRec, NEW mine, NEW out \in Outs,
         Acts(t, r, mine, out),
         IsDown(r) => IsDown(tab[t]) \/ out = <<"down">>,
         out = <<"up">> => r.ws = "open",
         ~tab[t].leader /\ Dark(inbox[t], tab[t].connected) => Dark(mine, r.connected)
  PROVE  Quiet'
<1>1. /\ tab'[t] = r /\ inbox'[t] = mine
      /\ \A u \in Tabs \ {t} :
           /\ tab'[u] = tab[u]
           /\ IsOpen(u) => inbox'[u] = inbox[u] \o out
           /\ ~IsOpen(u) \/ out = <<>> => inbox'[u] = inbox[u]
           /\ inbox[u] \in Seq(Messages) /\ tab[u] \in TabRec
  BY ActsEffect
<1>2. \A l, u \in Tabs : tab'[l].leader /\ tab'[u].leader => l = u
  BY DEF IInv, Election, LeaderHasLock
<1>3. r.ws # "none" => r.leader
  BY <1>1 DEF IInv, Election, LeaderHasLock
<1>4. ASSUME NEW u \in Tabs \ {t}, Dark(inbox[u], tab[u].connected), out # <<"up">>
      PROVE  Dark(inbox'[u], tab'[u].connected)
  <2>1. CASE out = <<>> \/ ~IsOpen(u)
    BY <1>1, <1>4, <2>1
  <2>2. CASE IsOpen(u) /\ out # <<>>
    <3>1. PICK m \in Messages : out = <<m>>
      BY <2>2 DEF Outs
    <3>2. m # "up"
      BY <1>4, <3>1
    <3>3. tab[u].connected \in BOOLEAN
      BY <1>1 DEF TabRec
    <3>4. QED
      BY <1>1, <1>4, <2>2, <3>1, <3>2, <3>3, DarkPost
  <2>3. QED
    BY <2>1, <2>2
<1>5. ASSUME NEW u \in Tabs \ {t}, out = <<"down">>
      PROVE  Dark(inbox'[u], tab'[u].connected)
  <2>1. tab[u].connected \in BOOLEAN /\ "down" \in Messages
    BY <1>1 DEF TabRec, Messages
  <2>2. CASE IsOpen(u)
    BY <1>1, <1>5, <2>1, <2>2, DarkPost
  <2>3. CASE ~IsOpen(u)
    <3>1. inbox[u] = <<>> /\ ~tab[u].connected
      BY <2>3 DEF Pages
    <3>2. tab[u].connected = FALSE
      BY <2>1, <3>1
    <3>3. Dark(<<>>, FALSE)
      BY <1>1, <2>1, DarkBasics
    <3>4. QED
      BY <1>1, <2>3, <3>1, <3>2, <3>3
  <2>4. QED
    BY <2>2, <2>3
<1>6. ASSUME NEW l \in Tabs, NEW u \in Tabs, IsDown(tab'[l]), u # l
      PROVE  Dark(inbox'[u], tab'[u].connected)
  <2>1. CASE l = t
    <3>1. u \in Tabs \ {t} /\ IsDown(r) /\ r.ws # "open"
      BY <1>1, <1>6, <2>1 DEF IsDown
    <3>2. CASE out = <<"down">>
      BY <1>5, <3>1, <3>2
    <3>3. CASE IsDown(tab[t]) /\ out # <<"up">>
      <4>1. Dark(inbox[u], tab[u].connected)
        BY <1>6, <2>1, <3>3 DEF Quiet
      <4>2. QED
        BY <1>4, <3>1, <3>3, <4>1
    <3>4. QED
      BY <3>1, <3>2, <3>3
  <2>2. CASE l # t
    <3>1. IsDown(tab[l]) /\ tab[l].leader /\ tab'[l].leader
      BY <1>1, <1>6, <2>2 DEF IsDown
    <3>2. ~tab[t].leader /\ ~r.leader
      BY <1>1, <1>2, <2>2, <3>1, OneLeader
    <3>3. Dark(inbox[u], tab[u].connected)
      BY <1>6, <3>1 DEF Quiet
    <3>4. CASE u = t
      BY <1>1, <3>2, <3>3, <3>4
    <3>5. CASE u # t
      <4>1. out # <<"up">>
        BY <1>3, <3>2
      <4>2. QED
        BY <1>4, <3>3, <3>5, <4>1
    <3>6. QED
      BY <3>4, <3>5
  <2>3. QED
    BY <2>1, <2>2
<1>7. QED
  BY <1>6 DEF Quiet

\* Whom a leader must count, after a step of tab t: of the others nobody new.
LEMMA SubscribersStep ==
  ASSUME IInv, Pages, NEW t \in Tabs, NEW r, NEW mine, NEW out \in Outs, Acts(t, r, mine, out),
         NEW l \in Tabs
  PROVE  /\ \A u \in Tabs \ {t} : u \in Subscribers(l)' => u \in Subscribers(l)
         /\ t \in Subscribers(l)' <=> r.wants /\ r.connected /\ (t = l \/ ~Marked(mine))
         /\ Subscribers(l)' \subseteq Tabs
<1>1. /\ tab'[t] = r /\ inbox'[t] = mine
      /\ \A u \in Tabs \ {t} :
           /\ tab'[u] = tab[u]
           /\ IsOpen(u) => inbox'[u] = inbox[u] \o out
           /\ ~IsOpen(u) \/ out = <<>> => inbox'[u] = inbox[u]
           /\ inbox[u] \in Seq(Messages)
  BY ActsEffect
<1>2. ASSUME NEW u \in Tabs \ {t}, Marked(inbox[u]) PROVE Marked(inbox'[u])
  <2>1. CASE out = <<>> \/ ~IsOpen(u)
    BY <1>1, <1>2, <2>1
  <2>2. CASE IsOpen(u) /\ out # <<>>
    <3>1. PICK m \in Messages : out = <<m>>
      BY <2>2 DEF Outs
    <3>2. QED
      BY <1>1, <1>2, <2>2, <3>1, MarkedOps
  <2>3. QED
    BY <2>1, <2>2
<1>3. \A u \in Tabs \ {t} : u \in Subscribers(l)' => u \in Subscribers(l)
  BY <1>1, <1>2 DEF Subscribers
<1>4. t \in Subscribers(l)' <=> r.wants /\ r.connected /\ (t = l \/ ~Marked(mine))
  BY <1>1 DEF Subscribers
<1>5. QED
  BY <1>3, <1>4 DEF Subscribers

\* A step of one tab keeps the counts if the tab itself does.
LEMMA CountedStep ==
  ASSUME IInv, Pages, Counted, IInv', NEW t \in Tabs, NEW r \in TabRec, NEW mine, NEW out \in Outs,
         Acts(t, r, mine, out), Without({"lag"}),
         r.ws = "open" => Covers(Subscribers(t)', r, mine),
         ~tab[t].leader =>
           LET before == tab[t].wants /\ tab[t].connected /\ ~Marked(inbox[t])
               now    == r.wants /\ r.connected /\ ~Marked(mine)
           IN  /\ out # <<"subscribe">> => (now => before)
               /\ out = <<"unsubscribe">> => before /\ ~now
  PROVE  Counted'
<1>1. /\ tab'[t] = r /\ inbox'[t] = mine
      /\ \A u \in Tabs \ {t} :
           /\ tab'[u] = tab[u]
           /\ IsOpen(u) => inbox'[u] = inbox[u] \o out
           /\ ~IsOpen(u) \/ out = <<>> => inbox'[u] = inbox[u]
           /\ inbox[u] \in Seq(Messages) /\ tab[u] \in TabRec
  BY ActsEffect
<1>2. ASSUME NEW l \in Tabs, tab'[l].ws = "open"
      PROVE  Covers(Subscribers(l)', tab'[l], inbox'[l])
  <2>1. CASE l = t
    BY <1>1, <1>2, <2>1
  <2>2. CASE l # t
    <3> DEFINE S == Subscribers(l)
               T == Subscribers(l)'
               q == inbox[l]
    <3>1. tab'[l] = tab[l] /\ q \in Seq(Messages) /\ tab[l] \in TabRec
      BY <1>1, <2>2
    <3>2. Covers(S, tab[l], q)
      BY <1>2, <3>1 DEF Counted
    <3>3. tab[l].leader /\ IsOpen(l)
      BY <1>2, <3>1, OpenLeads DEF Pages
    <3>4. ~tab[t].leader
      BY <2>2, <3>3, OneLeader
    <3>5. /\ \A u \in Tabs \ {t} : u \in T => u \in S
          /\ t \in T <=> r.wants /\ r.connected /\ ~Marked(mine)
          /\ T \subseteq Tabs
      BY <2>2, SubscribersStep
    <3>6. t \in S <=> tab[t].wants /\ tab[t].connected /\ ~Marked(inbox[t])
      BY <2>2 DEF Subscribers
    <3>7. inbox'[l] = q \o out /\ (out = <<>> => inbox'[l] = q)
      BY <1>1, <2>2, <3>3
    <3> HIDE DEF S, T, q
    <3>8. /\ out # <<"subscribe">> => (t \in T => t \in S)
          /\ out = <<"unsubscribe">> => t \in S /\ t \notin T
      BY <3>4, <3>5, <3>6
    <3>9. CASE out = <<>>
      <4>1. T \in SUBSET S
        BY <3>5, <3>8, <3>9
      <4>2. QED
        BY <3>1, <3>2, <3>7, <3>9, <4>1, CoversFewer DEF T
    <3>10. CASE out = <<"subscribe">>
      <4>1. T \in SUBSET (S \cup {t})
        BY <3>5
      <4>2. Covers(S \cup {t}, tab[l], q \o <<"subscribe">>)
        BY <3>1, <3>2, CoversPosts
      <4>3. q \o <<"subscribe">> \in Seq(Messages)
        BY <3>1, PostedSeq DEF Messages
      <4>4. Covers(T, tab[l], q \o <<"subscribe">>)
        BY <3>1, <4>1, <4>2, <4>3, CoversFewer
      <4>5. QED
        BY <3>1, <3>7, <3>10, <4>4 DEF T
    <3>11. CASE out = <<"unsubscribe">>
      <4>1. T \in SUBSET (S \ {t}) /\ t \in S
        BY <3>5, <3>8, <3>11
      <4>2. Covers(S \ {t}, tab[l], q \o <<"unsubscribe">>)
        BY <3>1, <3>2, <4>1, CoversPosts
      <4>3. q \o <<"unsubscribe">> \in Seq(Messages)
        BY <3>1, PostedSeq DEF Messages
      <4>4. Covers(T, tab[l], q \o <<"unsubscribe">>)
        BY <3>1, <4>1, <4>2, <4>3, CoversFewer
      <4>5. QED
        BY <3>1, <3>7, <3>11, <4>4 DEF T
    <3>12. CASE out \notin {<<>>, <<"subscribe">>, <<"unsubscribe">>}
      <4>1. PICK m \in Messages : out = <<m>>
        BY <3>12 DEF Outs
      <4>2. m \in Messages \ {"subscribe", "unsubscribe"}
        BY <3>12, <4>1
      <4>3. T \in SUBSET S
        BY <3>5, <3>8, <3>12
      <4>4. q \o <<m>> \in Seq(Messages)
        BY <3>1, PostedSeq
      <4>5. Covers(S, tab[l], q \o <<m>>)
        BY <3>1, <3>2, <4>2, CoversPosts
      <4>6. Covers(T, tab[l], q \o <<m>>)
        BY <3>1, <4>3, <4>4, <4>5, CoversFewer
      <4>7. QED
        BY <3>1, <3>7, <4>1, <4>6 DEF T
    <3>13. QED
      BY <3>9, <3>10, <3>11, <3>12
  <2>3. QED
    BY <2>1, <2>2
<1>3. QED
  BY <1>2 DEF Counted
\* The line, by what a step does to it.
LEMMA LineStep ==
  ASSUME IInv, Pages, Line, NEW t \in Tabs, NEW r, NEW mine, NEW out \in Outs,
         Acts(t, r, mine, out)
  PROVE  /\ queue' = queue /\ (t \in ToSet(queue) => r.ctl /\ ~r.leader) => Line'
         /\ queue' = Withdraw(queue, t) => Line'
         /\ queue' = Append(queue, t) /\ t \notin ToSet(queue) /\ r.ctl /\ ~r.leader => Line'
         /\ queue # <<>> /\ t = Head(queue) /\ queue' = Tail(queue) => Line'
<1>1. queue \in Seq(Tabs)
  BY TypeIs DEF IInv
<1>2. tab'[t] = r /\ \A u \in Tabs \ {t} : tab'[u] = tab[u]
  BY ActsEffect
<1>3. \A u \in ToSet(queue) : u \in Tabs
  BY <1>1, LenProperties, ElementOfSeq DEF ToSet
<1>4. Distinct(queue) /\ \A u \in ToSet(queue) : tab[u].ctl /\ ~tab[u].leader
  BY DEF Line
<1>5. ASSUME Distinct(queue'), \A u \in ToSet(queue') : u \in ToSet(queue) \/ u = t,
             t \in ToSet(queue') => r.ctl /\ ~r.leader
      PROVE  Line'
  <2>1. \A u \in ToSet(queue') : tab'[u].ctl /\ ~tab'[u].leader
    BY <1>2, <1>3, <1>4, <1>5
  <2>2. QED
    BY <1>5, <2>1 DEF Line
<1>6. queue' = queue /\ (t \in ToSet(queue) => r.ctl /\ ~r.leader) => Line'
  BY <1>4, <1>5
<1>7. queue' = Withdraw(queue, t) => Line'
  <2>1. /\ ToSet(Withdraw(queue, t)) \subseteq ToSet(queue)
        /\ Distinct(Withdraw(queue, t)) /\ t \notin ToSet(Withdraw(queue, t))
    BY <1>1, <1>4, WithdrawWaits
  <2>2. QED
    BY <1>5, <2>1
<1>8. queue' = Append(queue, t) /\ t \notin ToSet(queue) /\ r.ctl /\ ~r.leader => Line'
  BY <1>1, <1>4, <1>5, AppendWaits, AppendDistinct
<1>9. queue # <<>> /\ t = Head(queue) /\ queue' = Tail(queue) => Line'
  BY <1>1, <1>4, <1>5, TailDistinct
<1>10. QED
  BY <1>6, <1>7, <1>8, <1>9
\* A step of one tab that sends nothing the counts or the followers depend on, and
\* neither gains a subscription nor a session.
LEMMA PlainStep ==
  ASSUME IInv, Wanted, IInv', Line', NEW t \in Tabs, NEW r \in TabRec, NEW mine,
         NEW out \in {<<>>, <<"ask">>, <<"down">>}, Acts(t, r, mine, out),
         Without({"lag"})' => Without({"lag"}),
         mine = inbox[t] \/ (mine = <<>> /\ ~r.connected),
         r.view \notin {"visible", "hidden"} =>
           mine = <<>> /\ ~r.connected /\ ~r.wants /\ ~r.leader /\ ~r.ctl,
         r.srv => r.ws = "open",
         r.wants => tab[t].wants, r.connected => tab[t].connected,
         r.ws = "open" =>
           /\ tab[t].ws = "open" /\ r.connected /\ mine = inbox[t]
           /\ r.count = tab[t].count /\ r.srv = tab[t].srv,
         IsDown(r) => IsDown(tab[t]) \/ out = <<"down">>
  PROVE  Wanted'
<1>1. Pages /\ Sessions /\ Quiet /\ Counted
  BY DEF Wanted
<1>2. tab[t] \in TabRec /\ inbox[t] \in Seq(Messages)
  BY TypeIs DEF IInv
<1>3. out \in Outs /\ out \notin {<<"up">>, <<"subscribe">>, <<"unsubscribe">>}
  <2>1. "ask" \in Messages /\ "down" \in Messages
    BY DEF Messages
  <2>2. \A m \in {"up", "subscribe", "unsubscribe"} :
          <<m>> # <<>> /\ <<m>> # <<"ask">> /\ <<m>> # <<"down">>
    OBVIOUS
  <2>3. QED
    BY <2>1, <2>2 DEF Outs
<1>4. Pages'
  BY <1>1, <1>3, PagesStep
<1>5. Sessions'
  BY <1>1, <1>3, SessionsStep
<1>6. Dark(inbox[t], tab[t].connected) => Dark(mine, r.connected)
  <2>1. tab[t].connected \in BOOLEAN /\ r.connected \in BOOLEAN
    BY <1>2 DEF TabRec
  <2>2. r.connected = tab[t].connected \/ r.connected = FALSE
    BY <2>1
  <2>3. Dark(inbox[t], tab[t].connected) => Dark(inbox[t], FALSE) /\ Dark(<<>>, FALSE)
    BY <1>2, <2>1, DarkBasics
  <2>4. mine = <<>> /\ ~r.connected => mine = <<>> /\ r.connected = FALSE
    BY <2>1
  <2>5. QED
    BY <2>2, <2>3, <2>4
<1>7. Quiet'
  BY <1>1, <1>3, <1>6, QuietStep
<1>8. ASSUME Without({"lag"}) PROVE Counted'
  <2>1. r.ws = "open" => Covers(Subscribers(t)', r, mine)
    <3> SUFFICES ASSUME r.ws = "open" PROVE Covers(Subscribers(t)', r, inbox[t])
      OBVIOUS
    <3>1. Covers(Subscribers(t), tab[t], inbox[t])
      BY <1>1, <1>8 DEF Counted
    <3>2. Covers(Subscribers(t), r, inbox[t])
      BY <1>2, <3>1, CoversSame
    <3>3. Subscribers(t)' \in SUBSET Subscribers(t)
      <4>1. /\ \A u \in Tabs \ {t} : u \in Subscribers(t)' => u \in Subscribers(t)
            /\ t \in Subscribers(t)' => r.wants /\ r.connected
            /\ Subscribers(t)' \subseteq Tabs
        BY <1>1, <1>3, SubscribersStep
      <4>2. t \in Subscribers(t)' => t \in Subscribers(t)
        BY <4>1 DEF Subscribers
      <4>3. QED
        BY <4>1, <4>2
    <3>4. QED
      BY <1>2, <3>2, <3>3, CoversFewer
  <2>2. r.wants /\ r.connected /\ ~Marked(mine)
          => tab[t].wants /\ tab[t].connected /\ ~Marked(inbox[t])
    OBVIOUS
  <2>3. QED
    BY <1>1, <1>3, <1>8, <2>1, <2>2, CountedStep
<1>9. Counted'
  <2>1. CASE Without({"lag"})
    BY <1>8, <2>1
  <2>2. CASE ~Without({"lag"})
    BY <2>2 DEF Counted
  <2>3. QED
    BY <2>1, <2>2
<1>10. QED
  BY <1>4, <1>5, <1>7, <1>9 DEF Wanted

\* A step that changes no tab and no message.
LEMMA IdleStep ==
  ASSUME IInv, Wanted, tab' = tab, inbox' = inbox, queue' = queue,
         Without({"lag"})' => Without({"lag"})
  PROVE  Wanted'
<1>1. Pages' /\ Line' /\ Sessions' /\ Quiet'
  BY DEF Wanted, Pages, Line, Sessions, Quiet, IsOpen
<1>2. Counted'
  <2>1. \A l \in Tabs : Subscribers(l)' = Subscribers(l)
    BY DEF Subscribers
  <2>2. QED
    BY <2>1 DEF Wanted, Counted
<1>3. QED
  BY <1>1, <1>2 DEF Wanted

\* The forms in which the actions write their effect.
LEMMA ActsForms ==
  ASSUME IInv, NEW t \in Tabs, NEW r, tab' = [tab EXCEPT ![t] = r]
  PROVE  /\ \A mine, out : Exchange(t, mine, out) => Acts(t, r, mine, out)
         /\ \A out : Post(t, out) => Acts(t, r, inbox[t], out)
         /\ inbox' = inbox => Acts(t, r, inbox[t], <<>>)
         /\ inbox' = [inbox EXCEPT ![t] = <<>>] => Acts(t, r, <<>>, <<>>)
<1>1. inbox \in [Tabs -> Seq(Messages)]
  BY TypeIs DEF IInv
<1>2. \A q \in Seq(Messages) : q \o <<>> = q
  BY ConcatEmptySeq
<1>3. \A u \in Tabs : inbox[u] \o <<>> = inbox[u]
  BY <1>1, <1>2
<1>4. \A mine, out : Exchange(t, mine, out) => Acts(t, r, mine, out)
  BY DEF Exchange, Acts
<1>5. \A out : Post(t, out) => Acts(t, r, inbox[t], out)
  BY <1>4 DEF Post
<1>6. inbox' = inbox => Acts(t, r, inbox[t], <<>>)
  BY <1>1, <1>3 DEF Acts
<1>7. inbox' = [inbox EXCEPT ![t] = <<>>] => Acts(t, r, <<>>, <<>>)
  BY <1>1, <1>3 DEF Acts
<1>8. QED
  BY <1>4, <1>5, <1>6, <1>7

\* What has been seen stays seen; a step without a lag finds the inboxes empty.
LEMMA SeenOccur ==
  ASSUME IInv, NEW E \in SUBSET Events, Occur(E)
  PROVE  /\ Without({"lag"})' => Without({"lag"})
         /\ Without({"lag"})' => "lag" \notin E
BY DEF Occur, Without

LEMMA SeenKept ==
  ASSUME events' = events
  PROVE  Without({"lag"})' => Without({"lag"})
BY DEF Without

-----------------------------------------------------------------------------
(***************************************************************************)
(* Every action keeps the invariant                                        *)
(***************************************************************************)
\* What the invariant says of one tab.
LEMMA SessionIs ==
  ASSUME IInv, Wanted, NEW t \in Tabs
  PROVE  /\ tab[t] \in TabRec /\ inbox[t] \in Seq(Messages) /\ queue \in Seq(Tabs)
         /\ tab[t].srv => tab[t].ws = "open"
         /\ tab[t].ws = "open" => tab[t].connected
         /\ ~IsOpen(t) => /\ inbox[t] = <<>> /\ ~tab[t].connected /\ ~tab[t].wants
                          /\ ~tab[t].leader /\ ~tab[t].ctl
         /\ t \in ToSet(queue) => tab[t].ctl /\ ~tab[t].leader
BY TypeIs DEF IInv, Wanted, Pages, Line, Sessions

\* A tab that contends is in line for the first time.
LEMMA ContendWanted ==
  ASSUME IInv, Wanted, IInv', NEW t \in Tabs, NEW view \in {"visible", "hidden"},
         Contend(t, view), ~tab[t].ctl, ~tab[t].leader, Without({"lag"})' => Without({"lag"})
  PROVE  Wanted'
<1> DEFINE r == [tab[t] EXCEPT !.view = view, !.ctl = TRUE, !.armed = FALSE]
<1>1. /\ tab[t] \in TabRec /\ (tab[t].srv => tab[t].ws = "open")
      /\ (tab[t].ws = "open" => tab[t].connected)
      /\ t \notin ToSet(queue)
  BY SessionIs
<1>2. /\ r \in TabRec /\ r.view = view /\ r.ctl = TRUE /\ r.leader = tab[t].leader
      /\ r.ws = tab[t].ws /\ r.connected = tab[t].connected /\ r.wants = tab[t].wants
      /\ r.count = tab[t].count /\ r.srv = tab[t].srv
  BY <1>1 DEF TabRec, Views
<1>3. tab' = [tab EXCEPT ![t] = r] /\ queue' = Append(queue, t) /\ Post(t, <<"ask">>)
  BY DEF Contend
<1> HIDE DEF r
<1>4. Acts(t, r, inbox[t], <<"ask">>)
  BY <1>3, ActsForms
<1>5. <<"ask">> \in Outs
  BY DEF Outs, Messages
<1>6. Line'
  BY <1>1, <1>2, <1>3, <1>4, <1>5, LineStep DEF Wanted
<1>7. IsDown(r) => IsDown(tab[t])
  BY <1>2 DEF IsDown
<1>8. QED
  BY <1>1, <1>2, <1>4, <1>6, <1>7, PlainStep

LEMMA OpenWanted ==
  ASSUME IInv, Wanted, IInv', NEW t \in Tabs, Open(t)
  PROVE  Wanted'
<1>1. ~tab[t].ctl /\ ~tab[t].leader
  BY SessionIs DEF Open, IsOpen
<1>2. {"open"} \in SUBSET Events /\ {"open", "background"} \in SUBSET Events
  BY DEF Events
<1>3. Without({"lag"})' => Without({"lag"})
  BY <1>2, SeenOccur DEF Open
<1>4. QED
  BY <1>1, <1>3, ContendWanted DEF Open

\* Leaving the election ends the session of the tab and forgets the connection.
LEMMA ExitedIs ==
  ASSUME NEW d \in TabRec
  PROVE  /\ Exited(d) \in TabRec
         /\ Exited(d).view = d.view /\ Exited(d).wants = d.wants
         /\ Exited(d).ws = "none" /\ Exited(d).srv = FALSE /\ Exited(d).connected = FALSE
         /\ Exited(d).leader = FALSE /\ Exited(d).ctl = FALSE
<1>1. Exited(d) \in TabRec
  BY TabOps
<1>2. QED
  BY <1>1 DEF Exited, TabRec

LEMMA ExitWanted ==
  ASSUME IInv, Wanted, IInv', NEW t \in Tabs, ExitLeadershipContention(t, "hidden"),
         inbox' = inbox, Without({"lag"})' => Without({"lag"})
  PROVE  Wanted'
<1> DEFINE x == Exited(tab[t])
           r == [x EXCEPT !.view = "hidden"]
<1>1. /\ tab[t] \in TabRec /\ (t \in ToSet(queue) => tab[t].ctl)
      /\ queue \in Seq(Tabs)
  BY SessionIs
<1>2. /\ x \in TabRec /\ x.wants = tab[t].wants /\ x.ws = "none" /\ x.srv = FALSE
      /\ x.connected = FALSE /\ x.leader = FALSE
  BY <1>1, ExitedIs
<1> HIDE DEF x
<1>3. /\ r \in TabRec /\ r.view = "hidden" /\ r.wants = tab[t].wants /\ r.ws = "none"
      /\ r.srv = FALSE /\ r.connected = FALSE /\ r.leader = FALSE
  BY <1>2 DEF TabRec, Views
<1>4. tab' = [tab EXCEPT ![t] = r] /\ Abort(t)
  BY DEF ExitLeadershipContention, x
<1> HIDE DEF r
<1>5. Acts(t, r, inbox[t], <<>>)
  BY <1>4, ActsForms
<1>6. \/ queue' = queue /\ t \notin ToSet(queue)
      \/ queue' = Withdraw(queue, t)
  BY <1>1, <1>4 DEF Abort
<1>7. <<>> \in Outs
  BY DEF Outs
<1>8. Line'
  BY <1>5, <1>6, <1>7, LineStep DEF Wanted
<1>9. ~IsDown(r)
  BY <1>3 DEF IsDown
<1>10. QED
  BY <1>3, <1>5, <1>8, <1>9, PlainStep

\* A step that leaves the place in the election of every tab.
LEMMA LineKept ==
  ASSUME IInv, Wanted, NEW t \in Tabs, NEW r, NEW mine, NEW out \in Outs, Acts(t, r, mine, out),
         queue' = queue, r.ctl = tab[t].ctl, r.leader = tab[t].leader
  PROVE  Line'
<1>1. t \in ToSet(queue) => r.ctl /\ ~r.leader
  BY SessionIs
<1>2. QED
  BY <1>1, LineStep DEF Wanted

\* The pages.
LEMMA HideWanted ==
  ASSUME IInv, Wanted, IInv', NEW t \in Tabs, Hide(t)
  PROVE  Wanted'
<1>1. {"hide"} \in SUBSET Events
  BY DEF Events
<1>2. Without({"lag"})' => Without({"lag"})
  BY <1>1, SeenOccur DEF Hide, Spend
<1>3. CASE ExitLeadershipContention(t, "hidden")
  BY <1>2, <1>3, ExitWanted DEF Hide
<1>4. CASE tab' = [tab EXCEPT ![t].view = "hidden", ![t].armed = TRUE] /\ queue' = queue
  <2> DEFINE r == [tab[t] EXCEPT !.view = "hidden", !.armed = TRUE]
  <2>1. /\ tab[t] \in TabRec /\ (tab[t].srv => tab[t].ws = "open")
        /\ (tab[t].ws = "open" => tab[t].connected)
    BY SessionIs
  <2>2. /\ r \in TabRec /\ r.view = "hidden" /\ r.ctl = tab[t].ctl /\ r.leader = tab[t].leader
        /\ r.ws = tab[t].ws /\ r.connected = tab[t].connected /\ r.wants = tab[t].wants
        /\ r.count = tab[t].count /\ r.srv = tab[t].srv
    BY <2>1 DEF TabRec, Views
  <2>3. tab' = [tab EXCEPT ![t] = r] /\ inbox' = inbox
    <3>1. tab \in [Tabs -> TabRec]
      BY TypeIs DEF IInv
    <3>2. QED
      BY <1>4, <3>1 DEF Hide
  <2> HIDE DEF r
  <2>4. Acts(t, r, inbox[t], <<>>) /\ <<>> \in Outs
    BY <2>3, ActsForms DEF Outs
  <2>5. Line'
    BY <1>4, <2>2, <2>4, LineKept
  <2>6. IsDown(r) => IsDown(tab[t])
    BY <2>2 DEF IsDown
  <2>7. QED
    BY <1>2, <2>1, <2>2, <2>4, <2>5, <2>6, PlainStep
<1>5. QED
  BY <1>3, <1>4 DEF Hide

LEMMA ShowWanted ==
  ASSUME IInv, Wanted, IInv', NEW t \in Tabs, Show(t)
  PROVE  Wanted'
<1>1. Without({"lag"})' => Without({"lag"})
  BY SeenKept DEF Show
<1>2. CASE /\ ~tab[t].leader /\ ~tab[t].ctl
           /\ Contend(t, "visible")
  BY <1>1, <1>2, ContendWanted
<1>3. CASE /\ tab' = [tab EXCEPT ![t].view = "visible", ![t].armed = FALSE]
           /\ inbox' = inbox /\ queue' = queue
  <2> DEFINE r == [tab[t] EXCEPT !.view = "visible", !.armed = FALSE]
  <2>1. /\ tab[t] \in TabRec /\ (tab[t].srv => tab[t].ws = "open")
        /\ (tab[t].ws = "open" => tab[t].connected)
    BY SessionIs
  <2>2. /\ r \in TabRec /\ r.view = "visible" /\ r.ctl = tab[t].ctl /\ r.leader = tab[t].leader
        /\ r.ws = tab[t].ws /\ r.connected = tab[t].connected /\ r.wants = tab[t].wants
        /\ r.count = tab[t].count /\ r.srv = tab[t].srv
    BY <2>1 DEF TabRec, Views
  <2>3. tab' = [tab EXCEPT ![t] = r]
    <3>1. tab \in [Tabs -> TabRec]
      BY TypeIs DEF IInv
    <3>2. QED
      BY <1>3, <3>1
  <2> HIDE DEF r
  <2>4. Acts(t, r, inbox[t], <<>>) /\ <<>> \in Outs
    BY <1>3, <2>3, ActsForms DEF Outs
  <2>5. Line'
    BY <1>3, <2>2, <2>4, LineKept
  <2>6. IsDown(r) => IsDown(tab[t])
    BY <2>2 DEF IsDown
  <2>7. QED
    BY <1>1, <2>1, <2>2, <2>4, <2>5, <2>6, PlainStep
<1>4. QED
  BY <1>2, <1>3 DEF Show

LEMMA GraceElapsesWanted ==
  ASSUME IInv, Wanted, IInv', NEW t \in Tabs, GraceElapses(t)
  PROVE  Wanted'
<1>1. PICK E \in {{}, {"overrun"}, {"abandon"}} : Occur(E)
  BY GraceEvents
<1>2. Without({"lag"})' => Without({"lag"})
  <2>1. E \in SUBSET Events
    BY DEF Events
  <2>2. QED
    BY <1>1, <2>1, SeenOccur
<1>3. QED
  BY <1>2, ExitWanted DEF GraceElapses

LEMMA CloseWanted ==
  ASSUME IInv, Wanted, IInv', NEW t \in Tabs, Close(t)
  PROVE  Wanted'
<1> DEFINE r == [NoTab EXCEPT !.view = "closed"]
<1>1. /\ r \in TabRec /\ r.view = "closed" /\ r.wants = FALSE /\ r.ws = "none" /\ r.srv = FALSE
      /\ r.connected = FALSE /\ r.leader = FALSE /\ r.ctl = FALSE
  BY DEF NoTab, TabRec, Views, Sockets
<1>2. /\ tab' = [tab EXCEPT ![t] = r] /\ inbox' = [inbox EXCEPT ![t] = <<>>]
      /\ queue' = Withdraw(queue, t) /\ Occur({"close"})
  BY DEF Close, Spend
<1> HIDE DEF r
<1>3. Without({"lag"})' => Without({"lag"})
  <2>1. {"close"} \in SUBSET Events
    BY DEF Events
  <2>2. QED
    BY <1>2, <2>1, SeenOccur
<1>4. Acts(t, r, <<>>, <<>>) /\ <<>> \in Outs
  BY <1>2, ActsForms DEF Outs
<1>5. Line'
  BY <1>2, <1>4, LineStep DEF Wanted
<1>6. ~IsDown(r)
  BY <1>1 DEF IsDown
<1>7. QED
  BY <1>1, <1>3, <1>4, <1>5, <1>6, PlainStep

\* A tab that is granted the lock tells the others that it is not connected.
LEMMA BecomeLeaderWanted ==
  ASSUME IInv, Wanted, IInv', NEW t \in Tabs, BecomeLeader(t)
  PROVE  Wanted'
<1> DEFINE r == [tab[t] EXCEPT !.leader = TRUE, !.connected = FALSE, !.count = 0,
                               !.ws = "connecting", !.attempts = 0]
<1>1. tab \in [Tabs -> TabRec] /\ queue \in Seq(Tabs)
  BY TypeIs DEF IInv
<1>2. /\ queue # <<>> /\ t = Head(queue) /\ queue' = Tail(queue)
      /\ tab' = [tab EXCEPT ![t] = r]
      /\ Post(t, <<"down">>) /\ lock.tab = NULL /\ events' = events
  BY <1>1 DEF BecomeLeader
<1>3. t \in ToSet(queue)
  BY <1>1, <1>2, TailDistinct DEF Wanted, Line
<1>4. tab[t].ctl /\ IsOpen(t) /\ ~tab[t].leader /\ (tab[t].srv => tab[t].ws = "open")
  BY <1>3, SessionIs
<1>5. tab[t].srv = FALSE
  <2>1. tab[t].ws # "open"
    BY <1>4, OpenLeads
  <2>2. tab[t].srv \in BOOLEAN
    BY <1>1 DEF TabRec
  <2>3. QED
    BY <1>4, <2>1, <2>2
<1>6. /\ r \in TabRec /\ r.view = tab[t].view /\ r.wants = tab[t].wants /\ r.connected = FALSE
      /\ r.ws = "connecting" /\ r.srv = FALSE
  <2>1. tab[t] \in TabRec /\ "connecting" \in Sockets
    BY <1>1 DEF Sockets
  <2>2. QED
    BY <1>5, <2>1 DEF TabRec
<1> HIDE DEF r
<1>7. Acts(t, r, inbox[t], <<"down">>) /\ <<"down">> \in Outs
  BY <1>2, ActsForms DEF Outs, Messages
<1>8. Line'
  BY <1>2, <1>7, LineStep DEF Wanted
<1>9. r.view \in {"visible", "hidden"}
  BY <1>4, <1>6 DEF IsOpen
<1>10. Without({"lag"})' => Without({"lag"})
  BY <1>2, SeenKept
<1>11. QED
  BY <1>6, <1>7, <1>8, <1>9, <1>10, PlainStep
\* A socket that is gone: the tab tells the others, whatever it does next.
LEMMA ReconnectWanted ==
  ASSUME IInv, Wanted, IInv', NEW t \in Tabs, tab[t].ws \notin {"none", "open"}, Reconnect(t),
         Post(t, <<"down">>), Without({"lag"})' => Without({"lag"})
  PROVE  Wanted'
<1> DEFINE d == [tab[t] EXCEPT !.ws = "closing", !.connected = FALSE, !.srv = FALSE]
<1>1. /\ tab[t] \in TabRec /\ tab[t].leader /\ t \notin ToSet(queue) /\ IsOpen(t)
  BY SessionIs, OpenLeads
<1>2. /\ d \in TabRec /\ d.view = tab[t].view /\ d.leader = tab[t].leader /\ d.ctl = tab[t].ctl
      /\ d.wants = tab[t].wants /\ d.connected = FALSE /\ d.srv = FALSE
  BY <1>1 DEF TabRec, Sockets
<1>3. \/ /\ queue' = queue
         /\ \/ tab' = [tab EXCEPT ![t] = [d EXCEPT !.ws = "parked"]]
            \/ tab' = [tab EXCEPT ![t] = [d EXCEPT !.ws = "waiting", !.attempts = @ + 1]]
      \/ ReleaseLeadership(t, d)
  BY DEF Reconnect
<1> HIDE DEF d
<1>4. <<"down">> \in Outs
  BY DEF Outs, Messages
<1>5. \A r : tab' = [tab EXCEPT ![t] = r] => Acts(t, r, inbox[t], <<"down">>)
  BY ActsForms
<1>6. ASSUME NEW r \in TabRec, tab' = [tab EXCEPT ![t] = r], r.view = tab[t].view,
             r.wants = tab[t].wants, r.connected = FALSE, r.srv = FALSE, r.ws # "open", Line'
      PROVE  Wanted'
  <2>1. Acts(t, r, inbox[t], <<"down">>)
    BY <1>5, <1>6
  <2>2. r.view \in {"visible", "hidden"}
    BY <1>1, <1>6 DEF IsOpen
  <2>3. QED
    BY <1>6, <2>1, <2>2, PlainStep
<1>7. CASE /\ queue' = queue
           /\ \/ tab' = [tab EXCEPT ![t] = [d EXCEPT !.ws = "parked"]]
              \/ tab' = [tab EXCEPT ![t] = [d EXCEPT !.ws = "waiting", !.attempts = @ + 1]]
  <2>1. \A r \in {[d EXCEPT !.ws = "parked"], [d EXCEPT !.ws = "waiting", !.attempts = @ + 1]} :
          /\ r \in TabRec /\ r.view = d.view /\ r.wants = d.wants /\ r.connected = d.connected
          /\ r.srv = d.srv /\ r.ws # "open" /\ r.leader = d.leader /\ r.ctl = d.ctl
    <3>1. LET r == [d EXCEPT !.ws = "parked"]
          IN  /\ r \in TabRec /\ r.view = d.view /\ r.wants = d.wants /\ r.connected = d.connected
              /\ r.srv = d.srv /\ r.ws # "open" /\ r.leader = d.leader /\ r.ctl = d.ctl
      BY <1>2 DEF TabRec, Sockets
    <3>2. d.attempts + 1 \in Nat
      BY <1>2 DEF TabRec
    <3>3. \A n \in Nat : LET r == [d EXCEPT !.ws = "waiting", !.attempts = n]
          IN  /\ r \in TabRec /\ r.view = d.view /\ r.wants = d.wants /\ r.connected = d.connected
              /\ r.srv = d.srv /\ r.ws # "open" /\ r.leader = d.leader /\ r.ctl = d.ctl
      BY <1>2 DEF TabRec, Sockets
    <3>4. QED
      BY <3>1, <3>2, <3>3
  <2>2. PICK r \in {[d EXCEPT !.ws = "parked"], [d EXCEPT !.ws = "waiting", !.attempts = @ + 1]} :
          tab' = [tab EXCEPT ![t] = r]
    BY <1>7
  <2>3. Line'
    <3>1. Acts(t, r, inbox[t], <<"down">>)
      BY <1>5, <2>2
    <3>2. r.leader = tab[t].leader /\ r.ctl = tab[t].ctl
      BY <1>2, <2>1
    <3>3. QED
      BY <1>4, <1>7, <3>1, <3>2, LineKept
  <2>4. QED
    BY <1>2, <1>6, <2>1, <2>2, <2>3
<1>8. CASE ReleaseLeadership(t, d)
  <2> DEFINE x == Exited(d)
             r == [x EXCEPT !.ctl = (d.view = "visible")]
  <2>1. /\ x \in TabRec /\ x.view = d.view /\ x.wants = d.wants /\ x.ws = "none" /\ x.srv = FALSE
        /\ x.connected = FALSE /\ x.leader = FALSE
    BY <1>2, ExitedIs
  <2>2. /\ tab' = [tab EXCEPT ![t] = r]
        /\ queue' = IF d.view = "visible" THEN Append(queue, t) ELSE queue
    BY <1>8 DEF ReleaseLeadership
  <2> HIDE DEF x
  <2>3. /\ r \in TabRec /\ r.view = d.view /\ r.wants = d.wants /\ r.ws = "none" /\ r.srv = FALSE
        /\ r.connected = FALSE /\ r.leader = FALSE /\ r.ctl = (d.view = "visible")
    BY <2>1 DEF TabRec
  <2> HIDE DEF r
  <2>4. Acts(t, r, inbox[t], <<"down">>)
    BY <1>5, <2>2
  <2>5. Line'
    BY <1>1, <1>4, <2>2, <2>3, <2>4, LineStep DEF Wanted
  <2>6. QED
    BY <1>2, <1>6, <2>2, <2>3, <2>5
<1>9. QED
  BY <1>3, <1>7, <1>8

LEMMA WsFailsWanted ==
  ASSUME IInv, Wanted, IInv', NEW t \in Tabs, WsFails(t)
  PROVE  Wanted'
<1>1. {"refuse"} \in SUBSET Events
  BY DEF Events
<1>2. Without({"lag"})' => Without({"lag"})
  BY <1>1, SeenOccur, SeenKept DEF WsFails, Spend
<1>3. QED
  BY <1>2, ReconnectWanted DEF WsFails

LEMMA WsClosedWanted ==
  ASSUME IInv, Wanted, IInv', NEW t \in Tabs, WsClosed(t)
  PROVE  Wanted'
<1>1. Post(t, <<"down">>) /\ tab[t].ws = "closing"
  BY DEF WsClosed
<1>2. CASE Reconnect(t) /\ events' = events
  BY <1>1, <1>2, SeenKept, ReconnectWanted
<1>3. CASE /\ Occur({"expel"}) /\ queue' = queue
           /\ tab' = [tab EXCEPT ![t].ws = "stopped", ![t].connected = FALSE]
  <2> DEFINE r == [tab[t] EXCEPT !.ws = "stopped", !.connected = FALSE]
  <2>1. /\ tab[t] \in TabRec /\ (tab[t].srv => tab[t].ws = "open") /\ IsOpen(t)
    BY <1>1, SessionIs, OpenLeads
  <2>2. /\ r \in TabRec /\ r.view = tab[t].view /\ r.wants = tab[t].wants /\ r.connected = FALSE
        /\ r.srv = tab[t].srv /\ r.ws = "stopped" /\ r.leader = tab[t].leader /\ r.ctl = tab[t].ctl
    BY <2>1 DEF TabRec, Sockets
  <2>3. tab' = [tab EXCEPT ![t] = r]
    <3>1. tab \in [Tabs -> TabRec]
      BY TypeIs DEF IInv
    <3>2. QED
      BY <1>3, <3>1
  <2> HIDE DEF r
  <2>4. Acts(t, r, inbox[t], <<"down">>) /\ <<"down">> \in Outs
    BY <1>1, <2>3, ActsForms DEF Outs, Messages
  <2>5. Line'
    BY <1>3, <2>2, <2>4, LineKept
  <2>6. Without({"lag"})' => Without({"lag"})
    <3>1. {"expel"} \in SUBSET Events
      BY DEF Events
    <3>2. QED
      BY <1>3, <3>1, SeenOccur
  <2>7. r.view \in {"visible", "hidden"} /\ ~r.srv
    BY <1>1, <2>1, <2>2 DEF IsOpen
  <2>8. QED
    BY <2>2, <2>4, <2>5, <2>6, <2>7, PlainStep
<1>4. QED
  BY <1>2, <1>3 DEF WsClosed, Spend

\* The steps of the socket alone, of which nobody is told.
LEMMA SilentSocketWanted ==
  ASSUME IInv, Wanted, IInv', NEW t \in Tabs, NEW r \in TabRec, tab' = [tab EXCEPT ![t] = r],
         inbox' = inbox, queue' = queue, Without({"lag"})' => Without({"lag"}),
         r.view = tab[t].view, r.ctl = tab[t].ctl, r.leader = tab[t].leader,
         r.connected = tab[t].connected, r.wants = tab[t].wants, r.count = tab[t].count,
         tab[t].ws # "none", r.srv => r.ws = "open",
         r.ws = "open" => tab[t].ws = "open" /\ r.srv = tab[t].srv,
         IsDown(r) => IsDown(tab[t])
  PROVE  Wanted'
<1>1. Acts(t, r, inbox[t], <<>>) /\ <<>> \in Outs
  BY ActsForms DEF Outs
<1>2. Line'
  BY <1>1, LineKept
<1>3. IsOpen(t) /\ (tab[t].ws = "open" => tab[t].connected)
  BY SessionIs, OpenLeads
<1>4. r.view \in {"visible", "hidden"}
  BY <1>3 DEF IsOpen
<1>5. QED
  BY <1>1, <1>2, <1>3, <1>4, PlainStep

LEMMA WsDropsWanted ==
  ASSUME IInv, Wanted, IInv', NEW t \in Tabs, WsDrops(t)
  PROVE  Wanted'
<1> DEFINE r == [tab[t] EXCEPT !.ws = "closing", !.srv = FALSE]
<1>1. tab \in [Tabs -> TabRec] /\ tab[t] \in TabRec
  BY TypeIs DEF IInv
<1>2. /\ r \in TabRec /\ r.view = tab[t].view /\ r.wants = tab[t].wants
      /\ r.connected = tab[t].connected /\ r.count = tab[t].count
      /\ r.srv = FALSE /\ r.ws = "closing" /\ r.leader = tab[t].leader /\ r.ctl = tab[t].ctl
  BY <1>1 DEF TabRec, Sockets
<1>3. /\ tab' = [tab EXCEPT ![t] = r] /\ inbox' = inbox /\ queue' = queue /\ Occur({"drop"})
      /\ tab[t].ws = "open"
  BY <1>1 DEF WsDrops, Spend
<1> HIDE DEF r
<1>4. Without({"lag"})' => Without({"lag"})
  <2>1. {"drop"} \in SUBSET Events
    BY DEF Events
  <2>2. QED
    BY <1>3, <2>1, SeenOccur
<1>5. ~IsDown(r)
  BY <1>2 DEF IsDown
<1>6. QED
  BY <1>2, <1>3, <1>4, <1>5, SilentSocketWanted

LEMMA TimersWanted ==
  ASSUME IInv, Wanted, IInv', NEW t \in Tabs, RetryElapses(t) \/ StableElapses(t)
  PROVE  Wanted'
<1>1. tab \in [Tabs -> TabRec] /\ tab[t] \in TabRec
  BY TypeIs DEF IInv
<1>2. inbox' = inbox /\ queue' = queue /\ (Without({"lag"})' => Without({"lag"}))
  BY SeenKept DEF RetryElapses, StableElapses
<1>3. tab[t].srv => tab[t].ws = "open"
  BY SessionIs
<1>4. CASE RetryElapses(t)
  <2> DEFINE r == [tab[t] EXCEPT !.ws = "connecting"]
  <2>1. /\ r \in TabRec /\ r.view = tab[t].view /\ r.wants = tab[t].wants
        /\ r.connected = tab[t].connected /\ r.count = tab[t].count
        /\ r.srv = tab[t].srv /\ r.ws = "connecting" /\ r.leader = tab[t].leader
        /\ r.ctl = tab[t].ctl
    BY <1>1 DEF TabRec, Sockets
  <2>2. tab' = [tab EXCEPT ![t] = r] /\ tab[t].ws = "waiting"
    BY <1>1, <1>4 DEF RetryElapses
  <2> HIDE DEF r
  <2>3. IsDown(r) => IsDown(tab[t])
    BY <2>1, <2>2 DEF IsDown
  <2>4. QED
    BY <1>2, <1>3, <2>1, <2>2, <2>3, SilentSocketWanted
<1>5. CASE StableElapses(t)
  <2> DEFINE r == [tab[t] EXCEPT !.attempts = 0]
  <2>1. /\ r \in TabRec /\ r.view = tab[t].view /\ r.wants = tab[t].wants
        /\ r.connected = tab[t].connected /\ r.count = tab[t].count
        /\ r.srv = tab[t].srv /\ r.ws = tab[t].ws /\ r.leader = tab[t].leader
        /\ r.ctl = tab[t].ctl
    BY <1>1 DEF TabRec
  <2>2. tab' = [tab EXCEPT ![t] = r] /\ tab[t].ws = "open"
    BY <1>1, <1>5 DEF StableElapses
  <2> HIDE DEF r
  <2>3. IsDown(r) => IsDown(tab[t])
    BY <2>1, <2>2 DEF IsDown
  <2>4. QED
    BY <1>2, <1>3, <2>1, <2>2, <2>3, SilentSocketWanted
<1>6. QED
  BY <1>4, <1>5

LEMMA StrayEndsWanted ==
  ASSUME IInv, Wanted, IInv', NEW t \in Tabs, StrayEnds(t)
  PROVE  Wanted'
<1> DEFINE r == [tab[t] EXCEPT !.strays = tab[t].strays - 1]
<1>1. /\ tab \in [Tabs -> TabRec] /\ tab[t] \in TabRec /\ inbox[t] \in Seq(Messages)
      /\ (tab[t].srv => tab[t].ws = "open") /\ (tab[t].ws = "open" => tab[t].connected)
  BY TypeIs, SessionIs DEF IInv
<1>2. /\ tab' = [tab EXCEPT ![t] = r] /\ inbox' = inbox /\ queue' = queue
      /\ (Without({"lag"})' => Without({"lag"}))
  BY <1>1, SeenKept DEF StrayEnds
<1>3. /\ r \in TabRec /\ r.view = tab[t].view /\ r.wants = tab[t].wants
      /\ r.connected = tab[t].connected /\ r.count = tab[t].count /\ r.srv = tab[t].srv
      /\ r.ws = tab[t].ws /\ r.leader = tab[t].leader /\ r.ctl = tab[t].ctl
  <2>1. tab[t].strays - 1 \in Nat
    BY <1>1 DEF StrayEnds, TabRec
  <2>2. QED
    BY <1>1, <2>1 DEF TabRec
<1> HIDE DEF r
<1>4. Acts(t, r, inbox[t], <<>>) /\ <<>> \in Outs
  BY <1>2, ActsForms DEF Outs
<1>5. Line'
  BY <1>2, <1>3, <1>4, LineKept
<1>6. IsDown(r) => IsDown(tab[t])
  BY <1>3 DEF IsDown
<1>7. r.view \notin {"visible", "hidden"} =>
        inbox[t] = <<>> /\ ~r.connected /\ ~r.wants /\ ~r.leader /\ ~r.ctl
  BY <1>3, SessionIs DEF IsOpen
<1>8. QED
  BY <1>1, <1>2, <1>3, <1>4, <1>5, <1>6, <1>7, PlainStep

\* The network, and the lock.
LEMMA GoOnlineWanted ==
  ASSUME IInv, Wanted, GoOnline
  PROVE  Wanted'
<1>1. tab \in [Tabs -> TabRec]
  BY TypeIs DEF IInv
<1>2. /\ inbox' = inbox /\ queue' = queue /\ events' = events
      /\ tab' = [t \in Tabs |-> IF tab[t].ws = "parked"
                                THEN [tab[t] EXCEPT !.ws = "connecting", !.attempts = 0]
                                ELSE tab[t]]
  BY DEF GoOnline
<1>3. ASSUME NEW t \in Tabs
      PROVE  /\ tab'[t].view = tab[t].view /\ tab'[t].leader = tab[t].leader
             /\ tab'[t].ctl = tab[t].ctl /\ tab'[t].connected = tab[t].connected
             /\ tab'[t].wants = tab[t].wants /\ tab'[t].srv = tab[t].srv
             /\ (tab'[t].ws = "open" <=> tab[t].ws = "open")
             /\ (tab'[t].ws = "closing" <=> tab[t].ws = "closing")
             /\ (tab[t].ws = "open" => tab'[t] = tab[t])
  <2>1. tab[t] \in TabRec
    BY <1>1
  <2>2. CASE tab[t].ws = "parked"
    <3>1. tab'[t] = [tab[t] EXCEPT !.ws = "connecting", !.attempts = 0]
      BY <1>2, <2>2
    <3>2. QED
      BY <2>1, <2>2, <3>1 DEF TabRec
  <2>3. CASE tab[t].ws # "parked"
    BY <1>2, <2>3
  <2>4. QED
    BY <2>2, <2>3
<1>4. Pages' /\ Sessions'
  BY <1>2, <1>3 DEF Wanted, Pages, Sessions, IsOpen
<1>5. Line'
  <2>1. \A t \in ToSet(queue) : t \in Tabs
    <3>1. queue \in Seq(Tabs)
      BY TypeIs DEF IInv
    <3>2. QED
      BY <3>1, LenProperties, ElementOfSeq DEF ToSet
  <2>2. \A t \in ToSet(queue) : tab'[t].ctl /\ ~tab'[t].leader
    BY <1>3, <2>1 DEF Wanted, Line
  <2>3. QED
    BY <1>2, <2>2 DEF Wanted, Line
<1>6. Quiet'
  <2>1. \A t \in Tabs : IsDown(tab'[t]) => IsDown(tab[t])
    BY <1>3 DEF IsDown
  <2>2. QED
    BY <1>2, <1>3, <2>1 DEF Wanted, Quiet
<1>7. Counted'
  <2>1. ASSUME NEW l \in Tabs PROVE Subscribers(l)' = Subscribers(l)
    <3>1. Subscribers(l)' = {t \in Tabs : /\ tab'[t].wants /\ tab'[t].connected
                                         /\ (t = l \/ ~Marked(inbox[t]))}
      BY <1>2 DEF Subscribers
    <3>2. QED
      BY <1>3, <3>1 DEF Subscribers
  <2>2. ASSUME Without({"lag"})', NEW l \in Tabs, tab'[l].ws = "open"
        PROVE  Covers(Subscribers(l)', tab'[l], inbox'[l])
    <3>1. Without({"lag"}) /\ tab[l].ws = "open" /\ tab'[l] = tab[l]
      BY <1>2, <1>3, <2>2 DEF Without
    <3>2. Covers(Subscribers(l), tab[l], inbox[l])
      BY <3>1 DEF Wanted, Counted
    <3>3. QED
      BY <1>2, <2>1, <3>1, <3>2
  <2>3. QED
    BY <2>2 DEF Counted
<1>8. QED
  BY <1>4, <1>5, <1>6, <1>7 DEF Wanted

LEMMA ReleaseLockWanted ==
  ASSUME IInv, Wanted, ReleaseLock
  PROVE  Wanted'
<1>1. Without({"lag"})' => Without({"lag"})
  BY SeenKept DEF ReleaseLock
<1>2. QED
  BY <1>1, IdleStep DEF ReleaseLock

LEMMA GoOfflineWanted ==
  ASSUME IInv, Wanted, GoOffline
  PROVE  Wanted'
<1>1. {"offline"} \in SUBSET Events
  BY DEF Events
<1>2. Without({"lag"})' => Without({"lag"})
  BY <1>1, SeenOccur DEF GoOffline, Spend
<1>3. QED
  BY <1>2, IdleStep DEF GoOffline
\* What the leader's bookkeeping does to its count and to the session.
LEMMA CountIs ==
  ASSUME NEW x \in TabRec
  PROVE  /\ LeaderSubscribe(x) \in TabRec /\ LeaderUnsubscribe(x) \in TabRec
         /\ LeaderSubscribe(x).count = After("subscribe", x.count)
         /\ LeaderUnsubscribe(x).count = After("unsubscribe", x.count)
         /\ LeaderSubscribe(x).srv = (x.srv \/ x.ws = "open")
         /\ LeaderUnsubscribe(x).srv => x.srv
         /\ x.srv /\ x.count > 1 => LeaderUnsubscribe(x).srv
         /\ \A op \in {LeaderSubscribe(x), LeaderUnsubscribe(x)} :
              /\ op.view = x.view /\ op.leader = x.leader /\ op.ctl = x.ctl /\ op.ws = x.ws
              /\ op.connected = x.connected /\ op.wants = x.wants
<1>1. LeaderSubscribe(x) \in TabRec /\ LeaderUnsubscribe(x) \in TabRec
  BY TabOps
<1>2. x.count \in Nat /\ x.srv \in BOOLEAN
  BY DEF TabRec
<1>3. /\ LeaderSubscribe(x).count = x.count + 1
      /\ LeaderSubscribe(x).srv = (x.srv \/ x.ws = "open")
      /\ LET op == LeaderSubscribe(x)
         IN  /\ op.view = x.view /\ op.leader = x.leader /\ op.ctl = x.ctl /\ op.ws = x.ws
             /\ op.connected = x.connected /\ op.wants = x.wants
  BY DEF LeaderSubscribe, TabRec
<1>4. LET op == LeaderUnsubscribe(x)
      IN  /\ op.view = x.view /\ op.leader = x.leader /\ op.ctl = x.ctl /\ op.ws = x.ws
          /\ op.connected = x.connected /\ op.wants = x.wants
          /\ (op.srv => x.srv)
          /\ (x.count <= 1 => op.count = 0)
          /\ (~(x.count <= 1) => op.count = x.count - 1 /\ (x.srv => op.srv))
  BY DEF LeaderUnsubscribe, TabRec
<1>5. /\ After("subscribe", x.count) = x.count + 1
      /\ (x.count <= 1 => After("unsubscribe", x.count) = 0)
      /\ (~(x.count <= 1) => After("unsubscribe", x.count) = x.count - 1)
  BY <1>2 DEF After
<1>6. x.srv /\ x.count > 1 => LeaderUnsubscribe(x).srv
  <2>1. x.count > 1 => ~(x.count <= 1)
    BY <1>2
  <2>2. QED
    BY <1>4, <2>1
<1>7. LeaderUnsubscribe(x).count = After("unsubscribe", x.count)
  BY <1>4, <1>5
<1>8. QED
  BY <1>1, <1>3, <1>4, <1>5, <1>6, <1>7

\* The leader's own subscription counts at once.
LEMMA OwnCovers ==
  ASSUME NEW S, NEW t, NEW x \in TabRec, x.ws = "open", Covers(S, x, <<>>)
  PROVE  /\ Covers(S \cup {t}, LeaderSubscribe(x), <<>>)
         /\ t \in S => Covers(S \ {t}, LeaderUnsubscribe(x), <<>>)
<1>1. <<>> \in Seq(Messages) /\ "subscribe" \in Messages /\ "unsubscribe" \in Messages
  BY DEF Messages
<1>2. /\ Covers(S \cup {t}, x, <<>> \o <<"subscribe">>)
      /\ t \in S => Covers(S \ {t}, x, <<>> \o <<"unsubscribe">>)
  BY <1>1, CoversPosts
<1>3. /\ LeaderSubscribe(x) \in TabRec /\ LeaderUnsubscribe(x) \in TabRec
      /\ LeaderSubscribe(x).count = After("subscribe", x.count)
      /\ LeaderUnsubscribe(x).count = After("unsubscribe", x.count)
      /\ LeaderSubscribe(x).srv = TRUE
      /\ x.srv /\ x.count > 1 => LeaderUnsubscribe(x).srv
  <2>1. LeaderSubscribe(x).srv = (x.srv \/ x.ws = "open")
    BY CountIs
  <2>2. QED
    BY <2>1, CountIs
<1>4. ASSUME NEW m \in Messages
      PROVE  /\ <<>> \o <<m>> \in Seq(Messages) /\ <<>> \o <<m>> # <<>>
             /\ Head(<<>> \o <<m>>) = m /\ Tail(<<>> \o <<m>>) = <<>>
  <2>1. <<>> \o <<m>> = <<m>>
    BY <1>1, ConcatEmptySeq
  <2>2. <<m>> \in Seq(Messages) /\ <<m>> # <<>> /\ Head(<<m>>) = m /\ Tail(<<m>>) = <<>>
    OBVIOUS
  <2>3. QED
    BY <2>1, <2>2
<1>5. Covers(S \cup {t}, LeaderSubscribe(x), <<>>)
  <2> DEFINE q == <<>> \o <<"subscribe">>
             s == LeaderSubscribe(x)
  <2>1. q \in Seq(Messages) /\ q # <<>> /\ Head(q) = "subscribe" /\ Tail(q) = <<>>
    BY <1>1, <1>4
  <2>2. s \in TabRec /\ s.count = After("subscribe", x.count) /\ s.srv
    BY <1>3
  <2>3. Covers(S \cup {t}, x, q)
    BY <1>2
  <2> HIDE DEF q, s
  <2>4. Covers(S \cup {t}, s, Tail(q))
    BY <2>1, <2>2, <2>3, CoversHandle
  <2>5. QED
    BY <2>1, <2>4 DEF s
<1>6. ASSUME t \in S PROVE Covers(S \ {t}, LeaderUnsubscribe(x), <<>>)
  <2> DEFINE q == <<>> \o <<"unsubscribe">>
             s == LeaderUnsubscribe(x)
  <2>1. q \in Seq(Messages) /\ q # <<>> /\ Head(q) = "unsubscribe" /\ Tail(q) = <<>>
    BY <1>1, <1>4
  <2>2. s \in TabRec /\ s.count = After("unsubscribe", x.count) /\ (x.srv /\ x.count > 1 => s.srv)
    BY <1>3
  <2>3. Covers(S \ {t}, x, q)
    BY <1>2, <1>6
  <2> HIDE DEF q, s
  <2>4. Covers(S \ {t}, s, Tail(q))
    BY <2>1, <2>2, <2>3, CoversHandle
  <2>5. QED
    BY <2>1, <2>4 DEF s
<1>7. QED
  BY <1>5, <1>6

\* A socket that opens finds nobody subscribed but the leader's own client: the others
\* have heard that the leader is down, and handled it.
LEMMA WsOpensWanted ==
  ASSUME IInv, Wanted, IInv', NEW t \in Tabs, WsOpens(t)
  PROVE  Wanted'
<1> DEFINE o == [tab[t] EXCEPT !.ws = "open", !.connected = TRUE]
           r == LeaderConnected([tab[t] EXCEPT !.ws = "open"])
<1>1. /\ tab[t] \in TabRec /\ IsOpen(t) /\ tab[t].ws = "connecting" /\ tab[t].leader
      /\ (tab[t].srv => tab[t].ws = "open")
  BY SessionIs, OpenLeads DEF WsOpens
<1>2. /\ o \in TabRec /\ o.view = tab[t].view /\ o.leader = tab[t].leader /\ o.ctl = tab[t].ctl
      /\ o.wants = tab[t].wants /\ o.connected = TRUE /\ o.ws = "open"
  BY <1>1 DEF TabRec, Sockets
<1>3. r = IF o.wants THEN LeaderSubscribe(o) ELSE o
  BY <1>1 DEF LeaderConnected, TabRec
<1>4. /\ tab' = [tab EXCEPT ![t] = r] /\ Post(t, <<"up">>) /\ queue' = queue
      /\ Occur(Lag(Tabs))
  BY DEF WsOpens
<1> HIDE DEF o, r
<1>5. /\ r \in TabRec /\ r.view = tab[t].view /\ r.leader = tab[t].leader /\ r.ctl = tab[t].ctl
      /\ r.wants = tab[t].wants /\ r.connected = TRUE /\ r.ws = "open"
  BY <1>2, <1>3, CountIs
<1>6. Acts(t, r, inbox[t], <<"up">>) /\ <<"up">> \in Outs
  BY <1>4, ActsForms DEF Outs, Messages
<1>7. Pages'
  BY <1>1, <1>5, <1>6, PagesStep DEF Wanted, IsOpen
<1>8. Line'
  BY <1>4, <1>5, <1>6, LineKept
<1>9. Sessions'
  BY <1>5, <1>6, SessionsStep DEF Wanted
<1>10. Quiet'
  <2>1. ~IsDown(r)
    BY <1>5 DEF IsDown
  <2>2. QED
    BY <1>1, <1>5, <1>6, <2>1, QuietStep DEF Wanted
<1>11. ASSUME Without({"lag"})' PROVE Counted'
  <2>1. Without({"lag"}) /\ \A u \in Tabs : inbox[u] = <<>>
    <3>1. Lag(Tabs) \in SUBSET Events
      BY DEF Lag, Events
    <3>2. Without({"lag"}) /\ "lag" \notin Lag(Tabs)
      BY <1>4, <1>11, <3>1, SeenOccur
    <3>3. QED
      BY <3>2 DEF Lag
  <2>2. \A u \in Tabs \ {t} : u \notin Subscribers(t)
    <3>1. IsDown(tab[t])
      BY <1>1 DEF IsDown
    <3>2. ASSUME NEW u \in Tabs \ {t} PROVE ~tab[u].connected
      <4>1. Dark(inbox[u], tab[u].connected) /\ inbox[u] = <<>>
        BY <2>1, <3>1 DEF Wanted, Quiet
      <4>2. tab[u].connected \in BOOLEAN /\ inbox[u] \in Seq(Messages)
        BY SessionIs DEF TabRec
      <4>3. QED
        BY <4>1, <4>2, DarkBasics
    <3>3. QED
      BY <3>2 DEF Subscribers
  <2>3. /\ \A u \in Tabs \ {t} : u \in Subscribers(t)' => u \in Subscribers(t)
        /\ t \in Subscribers(t)' => r.wants
        /\ Subscribers(t)' \subseteq Tabs
    BY <1>6, SubscribersStep DEF Wanted
  <2>4. Subscribers(t)' \subseteq {t} /\ (~r.wants => Subscribers(t)' = {})
    BY <2>2, <2>3
  <2>5. <<>> \in Seq(Messages)
    OBVIOUS
  <2>6. Covers({}, o, <<>>) /\ Covers({}, r, <<>>)
    BY <1>2, <1>5, <2>5, CoversNobody
  <2>7. Covers(Subscribers(t)', r, inbox[t])
    <3>1. CASE r.wants
      <4>1. Covers({} \cup {t}, LeaderSubscribe(o), <<>>)
        BY <1>2, <2>6, OwnCovers
      <4>2. r = LeaderSubscribe(o)
        BY <1>2, <1>3, <1>5, <3>1
      <4>3. Subscribers(t)' \in SUBSET ({} \cup {t})
        BY <2>4
      <4>4. Covers({} \cup {t}, r, <<>>)
        BY <4>1, <4>2
      <4>5. Covers(Subscribers(t)', r, <<>>)
        BY <1>5, <2>5, <4>3, <4>4, CoversFewer
      <4>6. QED
        BY <2>1, <4>5
    <3>2. CASE ~r.wants
      BY <2>1, <2>4, <2>6, <3>2
    <3>3. QED
      BY <3>1, <3>2
  <2>8. QED
    BY <1>1, <1>5, <1>6, <2>1, <2>7, CountedStep DEF Wanted
<1>12. Counted'
  BY <1>11 DEF Counted
<1>13. QED
  BY <1>7, <1>8, <1>9, <1>10, <1>12 DEF Wanted

\* A tab handles the head of its inbox.
LEMMA HandleStep ==
  ASSUME IInv, Wanted, IInv', NEW t \in Tabs, NEW r \in TabRec, NEW out \in Outs,
         tab' = [tab EXCEPT ![t] = r], Exchange(t, Tail(inbox[t]), out), queue' = queue,
         events' = events, IsOpen(t), inbox[t] # <<>>,
         r.view = tab[t].view, r.leader = tab[t].leader, r.ctl = tab[t].ctl, r.ws = tab[t].ws,
         r.srv => r.ws = "open", r.ws = "open" => r.connected,
         out = <<"up">> => r.ws = "open", out # <<"unsubscribe">>,
         r.ws = "open" =>
           /\ r.wants => tab[t].wants
           /\ r.count = After(Head(inbox[t]), tab[t].count)
           /\ Head(inbox[t]) = "subscribe" => r.srv
           /\ tab[t].srv /\ (Head(inbox[t]) = "unsubscribe" => tab[t].count > 1) => r.srv,
         ~tab[t].leader =>
           /\ Head(inbox[t]) = "down" => r.connected = FALSE
           /\ Head(inbox[t]) = "rejected" => ~r.wants
           /\ Head(inbox[t]) \notin {"up", "down"} => r.connected = tab[t].connected
           /\ out # <<"subscribe">> => (r.wants /\ r.connected => tab[t].wants /\ tab[t].connected)
  PROVE  Wanted'
<1> DEFINE q == inbox[t]
           p == Tail(q)
<1>1. /\ tab[t] \in TabRec /\ q \in Seq(Messages) /\ (tab[t].ws = "open" => tab[t].connected)
      /\ p \in Seq(Messages)
  BY SessionIs, TailSeq
<1>2. Acts(t, r, p, out)
  BY ActsForms
<1> HIDE DEF p
<1>3. Pages'
  BY <1>2, PagesStep DEF Wanted, IsOpen
<1>4. Line'
  BY <1>2, LineKept
<1>5. Sessions'
  BY <1>2, SessionsStep DEF Wanted
<1>6. Quiet'
  <2>1. IsDown(r) => IsDown(tab[t])
    BY DEF IsDown
  <2>2. ASSUME ~tab[t].leader, Dark(q, tab[t].connected) PROVE Dark(p, r.connected)
    <3>1. tab[t].connected \in BOOLEAN /\ r.connected \in BOOLEAN
      BY <1>1 DEF TabRec
    <3>2. /\ Head(q) = "down" => Dark(p, FALSE)
          /\ Head(q) = "up" => \A d \in BOOLEAN : Dark(p, d)
          /\ Head(q) \notin {"up", "down"} => Dark(p, tab[t].connected)
      BY <1>1, <2>2, <3>1, DarkTail DEF p
    <3>3. QED
      BY <2>2, <3>1, <3>2
  <2>3. QED
    BY <1>2, <2>1, <2>2, QuietStep DEF Wanted
<1>7. ASSUME Without({"lag"}) PROVE Counted'
  <2>1. ASSUME r.ws = "open" PROVE Covers(Subscribers(t)', r, p)
    <3>1. tab[t].ws = "open" /\ tab[t].connected
      BY <1>1, <2>1
    <3>2. Covers(Subscribers(t), tab[t], q)
      BY <1>7, <3>1 DEF Wanted, Counted
    <3>3. Covers(Subscribers(t), r, p)
      BY <1>1, <2>1, <3>1, <3>2, CoversHandle DEF p
    <3>4. Subscribers(t)' \in SUBSET Subscribers(t)
      <4>1. /\ \A u \in Tabs \ {t} : u \in Subscribers(t)' => u \in Subscribers(t)
            /\ t \in Subscribers(t)' => r.wants
            /\ Subscribers(t)' \subseteq Tabs
        BY <1>2, SubscribersStep DEF Wanted
      <4>2. t \in Subscribers(t)' => t \in Subscribers(t)
        BY <2>1, <3>1, <4>1 DEF Subscribers
      <4>3. QED
        BY <4>1, <4>2
    <3>5. QED
      BY <1>1, <3>3, <3>4, CoversFewer
  <2>2. ASSUME ~tab[t].leader, out # <<"subscribe">>, r.wants, r.connected, ~Marked(p)
        PROVE  tab[t].wants /\ tab[t].connected /\ ~Marked(q)
    <3>1. Head(q) \notin {"down", "rejected"}
      BY <2>2
    <3>2. ~Marked(q)
      BY <1>1, <2>2, <3>1, MarkedOps DEF p
    <3>3. QED
      BY <2>2, <3>2
  <2>3. QED
    BY <1>2, <1>7, <2>1, <2>2, CountedStep DEF Wanted
<1>8. Counted'
  <2>1. Without({"lag"})' => Without({"lag"})
    BY SeenKept
  <2>2. QED
    BY <1>7, <2>1 DEF Counted
<1>9. QED
  BY <1>3, <1>4, <1>5, <1>6, <1>8 DEF Wanted
\* The messages: a follower that comes up subscribes again, and its leader counts it.
LEMMA ConnectionStateWanted ==
  ASSUME IInv, Wanted, IInv', NEW t \in Tabs, ConnectionState(t)
  PROVE  Wanted'
<1>1. PICK kind \in {"up", "down"} :
        /\ Receive(t, kind)
        /\ tab' = (IF tab[t].leader THEN tab ELSE [tab EXCEPT ![t].connected = (kind = "up")])
        /\ Exchange(t, Tail(inbox[t]),
                    IF kind = "up" /\ ~tab[t].leader /\ ~tab[t].connected /\ tab[t].wants
                    THEN <<"subscribe">> ELSE <<>>)
        /\ queue' = queue /\ events' = events
  BY DEF ConnectionState
<1>2. /\ tab \in [Tabs -> TabRec] /\ tab[t] \in TabRec /\ (tab[t].srv => tab[t].ws = "open")
      /\ (tab[t].ws = "open" => tab[t].connected) /\ (tab[t].ws # "none" => tab[t].leader)
  BY SessionIs, OpenLeads, TypeIs DEF IInv
<1>3. IsOpen(t) /\ inbox[t] # <<>> /\ Head(inbox[t]) = kind
  BY <1>1 DEF Receive
<1>4. /\ <<>> \in Outs /\ <<"subscribe">> \in Outs /\ <<"subscribe">> # <<"up">> /\ <<>> # <<"up">>
      /\ <<"subscribe">> # <<"unsubscribe">> /\ <<>> # <<"unsubscribe">>
  BY DEF Outs, Messages
<1>5. tab[t].count \in Nat /\ After(kind, tab[t].count) = tab[t].count
  BY <1>2, AfterType DEF TabRec
<1>6. CASE tab[t].leader
  <2>1. tab' = [tab EXCEPT ![t] = tab[t]] /\ Exchange(t, Tail(inbox[t]), <<>>)
    BY <1>1, <1>2, <1>6
  <2>2. QED
    BY <1>1, <1>2, <1>3, <1>4, <1>5, <1>6, <2>1, HandleStep
<1>7. CASE ~tab[t].leader
  <2> DEFINE r == [tab[t] EXCEPT !.connected = (kind = "up")]
             out == IF kind = "up" /\ ~tab[t].connected /\ tab[t].wants
                    THEN <<"subscribe">> ELSE <<>>
  <2>1. /\ r \in TabRec /\ r.view = tab[t].view /\ r.leader = tab[t].leader
        /\ r.ctl = tab[t].ctl /\ r.ws = tab[t].ws /\ r.srv = tab[t].srv /\ r.wants = tab[t].wants
        /\ r.connected = (kind = "up")
    BY <1>2 DEF TabRec
  <2>2. tab' = [tab EXCEPT ![t] = r] /\ Exchange(t, Tail(inbox[t]), out)
    BY <1>1, <1>2, <1>7
  <2>3. out # <<"subscribe">> => kind = "down" \/ tab[t].connected \/ ~tab[t].wants
    OBVIOUS
  <2>4. out \in Outs /\ out # <<"up">> /\ out # <<"unsubscribe">>
    BY <1>4
  <2> HIDE DEF r, out
  <2>5. r.ws # "open" /\ ~r.srv
    BY <1>2, <1>7, <2>1
  <2>6. /\ kind = "down" => r.connected = FALSE
        /\ kind # "rejected" /\ kind \in {"up", "down"}
        /\ out # <<"subscribe">> => (r.wants /\ r.connected => tab[t].wants /\ tab[t].connected)
    BY <2>1, <2>3
  <2>7. QED
    BY <1>1, <1>3, <1>7, <2>1, <2>2, <2>4, <2>5, <2>6, HandleStep
<1>8. QED
  BY <1>6, <1>7

LEMMA SendRequestWanted ==
  ASSUME IInv, Wanted, IInv', NEW t \in Tabs, SendRequest(t)
  PROVE  Wanted'
<1>1. PICK kind \in {"subscribe", "unsubscribe"} :
        /\ Receive(t, kind)
        /\ \/ ~tab[t].leader /\ tab' = tab
           \/ tab[t].leader /\ kind = "subscribe" /\ tab' = [tab EXCEPT ![t] = LeaderSubscribe(@)]
           \/ tab[t].leader /\ kind = "unsubscribe" /\ tab' = [tab EXCEPT ![t] = LeaderUnsubscribe(@)]
        /\ Exchange(t, Tail(inbox[t]), <<>>)
        /\ queue' = queue /\ events' = events
  BY DEF SendRequest
<1>2. /\ tab \in [Tabs -> TabRec] /\ tab[t] \in TabRec /\ (tab[t].srv => tab[t].ws = "open")
      /\ (tab[t].ws = "open" => tab[t].connected) /\ (tab[t].ws # "none" => tab[t].leader)
  BY SessionIs, OpenLeads, TypeIs DEF IInv
<1>3. IsOpen(t) /\ inbox[t] # <<>> /\ Head(inbox[t]) = kind
  BY <1>1 DEF Receive
<1>4. <<>> \in Outs /\ <<>> # <<"up">> /\ <<>> # <<"unsubscribe">>
  BY DEF Outs
<1>5. CASE ~tab[t].leader /\ tab' = tab
  <2>1. tab' = [tab EXCEPT ![t] = tab[t]]
    BY <1>2, <1>5
  <2>2. QED
    BY <1>1, <1>2, <1>3, <1>4, <1>5, <2>1, HandleStep
<1>6. CASE tab[t].leader /\ kind = "subscribe" /\ tab' = [tab EXCEPT ![t] = LeaderSubscribe(@)]
  <2> DEFINE r == LeaderSubscribe(tab[t])
  <2>1. /\ r \in TabRec /\ r.view = tab[t].view /\ r.leader = tab[t].leader
        /\ r.ctl = tab[t].ctl /\ r.ws = tab[t].ws /\ r.wants = tab[t].wants
        /\ r.connected = tab[t].connected /\ r.count = After("subscribe", tab[t].count)
        /\ r.srv = (tab[t].srv \/ tab[t].ws = "open")
    BY <1>2, CountIs
  <2>2. tab' = [tab EXCEPT ![t] = r]
    BY <1>6
  <2> HIDE DEF r
  <2>3. (r.srv => r.ws = "open") /\ (r.ws = "open" => r.srv)
    BY <1>2, <2>1
  <2>4. /\ Head(inbox[t]) = "subscribe" /\ r.count = After(Head(inbox[t]), tab[t].count)
        /\ (r.ws = "open" => r.connected) /\ (r.ws = "open" /\ Head(inbox[t]) = "subscribe" => r.srv)
        /\ (tab[t].srv /\ (Head(inbox[t]) = "unsubscribe" => tab[t].count > 1) => r.srv)
    BY <1>2, <1>3, <1>6, <2>1
  <2>5. Exchange(t, Tail(inbox[t]), <<>>) /\ queue' = queue /\ events' = events
    BY <1>1
  <2>6. QED
    BY <1>3, <1>4, <1>6, <2>1, <2>2, <2>3, <2>4, <2>5, HandleStep
<1>7. CASE tab[t].leader /\ kind = "unsubscribe" /\ tab' = [tab EXCEPT ![t] = LeaderUnsubscribe(@)]
  <2> DEFINE r == LeaderUnsubscribe(tab[t])
  <2>1. /\ r \in TabRec /\ r.view = tab[t].view /\ r.leader = tab[t].leader
        /\ r.ctl = tab[t].ctl /\ r.ws = tab[t].ws /\ r.wants = tab[t].wants
        /\ r.connected = tab[t].connected /\ r.count = After("unsubscribe", tab[t].count)
        /\ (r.srv => tab[t].srv) /\ (tab[t].srv /\ tab[t].count > 1 => r.srv)
    BY <1>2, CountIs
  <2>2. tab' = [tab EXCEPT ![t] = r]
    BY <1>7
  <2> HIDE DEF r
  <2>3. r.srv => r.ws = "open"
    BY <1>2, <2>1
  <2>4. /\ Head(inbox[t]) = "unsubscribe" /\ r.count = After(Head(inbox[t]), tab[t].count)
        /\ (r.ws = "open" => r.connected) /\ (r.ws = "open" /\ Head(inbox[t]) = "subscribe" => r.srv)
        /\ (tab[t].srv /\ (Head(inbox[t]) = "unsubscribe" => tab[t].count > 1) => r.srv)
    BY <1>2, <1>3, <1>7, <2>1
  <2>5. Exchange(t, Tail(inbox[t]), <<>>) /\ queue' = queue /\ events' = events
    BY <1>1
  <2>6. QED
    BY <1>3, <1>4, <1>7, <2>1, <2>2, <2>3, <2>4, <2>5, HandleStep
<1>8. QED
  BY <1>1, <1>5, <1>6, <1>7

\* An open socket is connected, so the leader's answer never subscribes a second time.
LEMMA StateRequestWanted ==
  ASSUME IInv, Wanted, IInv', NEW t \in Tabs, StateRequest(t)
  PROVE  Wanted'
<1>1. /\ tab \in [Tabs -> TabRec] /\ tab[t] \in TabRec /\ (tab[t].srv => tab[t].ws = "open")
      /\ (tab[t].ws = "open" => tab[t].connected) /\ (tab[t].ws # "none" => tab[t].leader)
  BY SessionIs, OpenLeads, TypeIs DEF IInv
<1>2. /\ IsOpen(t) /\ inbox[t] # <<>> /\ Head(inbox[t]) = "ask"
      /\ queue' = queue /\ events' = events
  BY DEF StateRequest, Receive
<1>3. /\ <<>> \in Outs /\ <<"up">> \in Outs /\ <<"down">> \in Outs
      /\ <<>> # <<"up">> /\ <<"down">> # <<"up">> /\ <<>> # <<"subscribe">>
      /\ \A out \in {<<>>, <<"up">>, <<"down">>} : out # <<"unsubscribe">>
  BY DEF Outs, Messages
<1>4. tab[t].connected \in BOOLEAN /\ tab[t].count \in Nat
      /\ After("ask", tab[t].count) = tab[t].count
  BY <1>1, AfterType DEF TabRec
<1>5. CASE ~tab[t].leader
  <2>1. tab' = [tab EXCEPT ![t] = tab[t]] /\ Exchange(t, Tail(inbox[t]), <<>>)
    BY <1>1, <1>5 DEF StateRequest
  <2>2. QED
    BY <1>1, <1>2, <1>3, <1>4, <1>5, <2>1, HandleStep
<1>6. CASE tab[t].leader /\ tab[t].ws = "open"
  <2>1. tab' = [tab EXCEPT ![t] = tab[t]] /\ Exchange(t, Tail(inbox[t]), <<"up">>)
    <3>1. tab[t].connected = TRUE
      BY <1>1, <1>4, <1>6
    <3>2. QED
      BY <1>1, <1>6, <3>1 DEF StateRequest
  <2>2. QED
    BY <1>1, <1>2, <1>3, <1>4, <1>6, <2>1, HandleStep
<1>7. CASE tab[t].leader /\ tab[t].ws # "open"
  <2> DEFINE r == [tab[t] EXCEPT !.connected = FALSE]
  <2>1. /\ r \in TabRec /\ r.view = tab[t].view /\ r.leader = tab[t].leader
        /\ r.ctl = tab[t].ctl /\ r.ws = tab[t].ws /\ r.srv = tab[t].srv /\ r.wants = tab[t].wants
    BY <1>1 DEF TabRec
  <2>2. /\ tab' = [tab EXCEPT ![t] = tab[t]] \/ tab' = [tab EXCEPT ![t] = r]
        /\ Exchange(t, Tail(inbox[t]), <<"down">>)
    BY <1>1, <1>4, <1>7 DEF StateRequest
  <2> HIDE DEF r
  <2>3. PICK s \in {tab[t], r} : tab' = [tab EXCEPT ![t] = s]
    BY <2>2
  <2>4. /\ s \in TabRec /\ s.view = tab[t].view /\ s.leader = tab[t].leader
        /\ s.ctl = tab[t].ctl /\ s.ws # "open" /\ s.ws = tab[t].ws /\ ~s.srv
    BY <1>1, <1>7, <2>1
  <2>5. QED
    BY <1>2, <1>3, <1>7, <2>2, <2>3, <2>4, HandleStep
<1>8. QED
  BY <1>5, <1>6, <1>7

LEMMA WsMessageWanted ==
  ASSUME IInv, Wanted, IInv', NEW t \in Tabs, WsMessage(t)
  PROVE  Wanted'
<1>1. /\ tab \in [Tabs -> TabRec] /\ tab[t] \in TabRec /\ (tab[t].srv => tab[t].ws = "open")
      /\ (tab[t].ws = "open" => tab[t].connected) /\ (tab[t].ws # "none" => tab[t].leader)
  BY SessionIs, OpenLeads, TypeIs DEF IInv
<1>2. /\ IsOpen(t) /\ inbox[t] # <<>> /\ Head(inbox[t]) = "rejected"
      /\ tab' = (IF tab[t].leader THEN tab ELSE [tab EXCEPT ![t].wants = FALSE])
      /\ Exchange(t, Tail(inbox[t]), <<>>) /\ queue' = queue /\ events' = events
  BY DEF WsMessage, Receive
<1>3. <<>> \in Outs /\ <<>> # <<"up">> /\ <<>> # <<"unsubscribe">>
  BY DEF Outs
<1>4. tab[t].count \in Nat /\ After("rejected", tab[t].count) = tab[t].count
  BY <1>1, AfterType DEF TabRec
<1>5. CASE tab[t].leader
  <2>1. tab' = [tab EXCEPT ![t] = tab[t]]
    BY <1>1, <1>2, <1>5
  <2>2. QED
    BY <1>1, <1>2, <1>3, <1>4, <1>5, <2>1, HandleStep
<1>6. CASE ~tab[t].leader
  <2> DEFINE r == [tab[t] EXCEPT !.wants = FALSE]
  <2>1. /\ r \in TabRec /\ r.view = tab[t].view /\ r.leader = tab[t].leader
        /\ r.ctl = tab[t].ctl /\ r.ws = tab[t].ws /\ r.srv = tab[t].srv /\ r.wants = FALSE
        /\ r.connected = tab[t].connected
    BY <1>1 DEF TabRec
  <2>2. tab' = [tab EXCEPT ![t] = r]
    BY <1>1, <1>2, <1>6
  <2> HIDE DEF r
  <2>3. r.ws # "open" /\ ~r.srv
    BY <1>1, <1>6, <2>1
  <2>4. QED
    BY <1>2, <1>3, <1>6, <2>1, <2>2, <2>3, HandleStep
<1>7. QED
  BY <1>5, <1>6
\* A step that leaves the place of its tab, and whether it is connected, alone keeps all
\* but the counts.
LEMMA ClientStep ==
  ASSUME IInv, Wanted, IInv', NEW t \in Tabs, NEW r \in TabRec, NEW out \in Outs,
         Acts(t, r, inbox[t], out), queue' = queue, IsOpen(t), out # <<"up">>,
         r.view = tab[t].view, r.leader = tab[t].leader, r.ctl = tab[t].ctl, r.ws = tab[t].ws,
         r.connected = tab[t].connected, r.srv => r.ws = "open", Counted'
  PROVE  Wanted'
<1>1. tab[t].ws = "open" => tab[t].connected
  BY SessionIs
<1>2. Pages'
  BY PagesStep DEF Wanted, IsOpen
<1>3. Line'
  BY LineKept
<1>4. Sessions'
  BY <1>1, SessionsStep DEF Wanted
<1>5. Quiet'
  <2>1. IsDown(r) => IsDown(tab[t])
    BY DEF IsDown
  <2>2. QED
    BY <2>1, QuietStep DEF Wanted
<1>6. QED
  BY <1>2, <1>3, <1>4, <1>5 DEF Wanted

\* Without a lag the tab has handled its messages before it acts.
LEMMA ActsInTime ==
  ASSUME IInv, NEW t \in Tabs, NEW E \in SUBSET Events, Occur(E \cup Lag({t})), Without({"lag"})'
  PROVE  Without({"lag"}) /\ inbox[t] = <<>>
<1>1. E \cup Lag({t}) \in SUBSET Events
  BY DEF Lag, Events
<1>2. Without({"lag"}) /\ "lag" \notin Lag({t})
  BY <1>1, SeenOccur
<1>3. QED
  BY <1>2 DEF Lag

\* The client: a tab subscribes with its leader, or is the leader.
LEMMA SubscribeWanted ==
  ASSUME IInv, Wanted, IInv', NEW t \in Tabs, Subscribe(t)
  PROVE  Wanted'
<1> DEFINE x == [tab[t] EXCEPT !.wants = TRUE]
<1>1. /\ tab[t] \in TabRec /\ inbox[t] \in Seq(Messages) /\ (tab[t].srv => tab[t].ws = "open")
      /\ (tab[t].ws = "open" => tab[t].connected) /\ (tab[t].ws # "none" => tab[t].leader)
  BY SessionIs, OpenLeads
<1>2. /\ x \in TabRec /\ x.view = tab[t].view /\ x.leader = tab[t].leader /\ x.ctl = tab[t].ctl
      /\ x.ws = tab[t].ws /\ x.connected = tab[t].connected /\ x.count = tab[t].count
      /\ x.srv = tab[t].srv
  BY <1>1 DEF TabRec
<1>3. /\ IsOpen(t) /\ ~tab[t].wants /\ queue' = queue /\ Occur({"subscribe"} \cup Lag({t}))
      /\ Send(t, x, "subscribe")
  BY DEF Subscribe
<1> HIDE DEF x
<1>4. /\ <<>> \in Outs /\ <<"subscribe">> \in Outs /\ <<"subscribe">> # <<"up">> /\ <<>> # <<"up">>
      /\ <<"subscribe">> # <<"unsubscribe">> /\ <<>> # <<"unsubscribe">>
  BY DEF Outs, Messages
<1>5. Without({"lag"})' => Without({"lag"}) /\ inbox[t] = <<>>
  <2>1. {"subscribe"} \in SUBSET Events
    BY DEF Events
  <2>2. QED
    BY <1>3, <2>1, ActsInTime
<1>6. CASE x.connected /\ x.leader
  <2> DEFINE r == LeaderSubscribe(x)
  <2>1. /\ r \in TabRec /\ r.view = tab[t].view /\ r.leader = tab[t].leader
        /\ r.ctl = tab[t].ctl /\ r.ws = tab[t].ws /\ r.wants = x.wants
        /\ r.connected = tab[t].connected /\ r.srv = (x.srv \/ x.ws = "open")
    BY <1>2, CountIs
  <2>2. tab' = [tab EXCEPT ![t] = r] /\ inbox' = inbox
    BY <1>3, <1>6 DEF Send
  <2> HIDE DEF r
  <2>3. Acts(t, r, inbox[t], <<>>)
    BY <2>2, ActsForms
  <2>4. ASSUME Without({"lag"}), inbox[t] = <<>>
        PROVE  Counted'
    <3>1. ASSUME r.ws = "open" PROVE Covers(Subscribers(t)', r, inbox[t])
      <4>1. Covers(Subscribers(t), tab[t], <<>>) /\ x.ws = "open"
        BY <1>2, <2>1, <2>4, <3>1 DEF Wanted, Counted
      <4>2. Covers(Subscribers(t), x, <<>>)
        BY <1>1, <1>2, <2>4, <4>1, CoversSame
      <4>3. Covers(Subscribers(t) \cup {t}, r, <<>>)
        BY <1>2, <4>1, <4>2, OwnCovers DEF r
      <4>4. Subscribers(t)' \in SUBSET (Subscribers(t) \cup {t})
        <5>1. /\ \A u \in Tabs \ {t} : u \in Subscribers(t)' => u \in Subscribers(t)
              /\ Subscribers(t)' \subseteq Tabs
          BY <1>4, <2>3, SubscribersStep DEF Wanted
        <5>2. QED
          BY <5>1
      <4>5. QED
        BY <1>1, <2>1, <2>4, <4>3, <4>4, CoversFewer
    <3>2. QED
      BY <1>2, <1>4, <1>6, <2>1, <2>3, <2>4, <3>1, CountedStep DEF Wanted
  <2>5. Counted'
    BY <1>5, <2>4 DEF Counted
  <2>6. r.srv => r.ws = "open"
    BY <1>1, <1>2, <2>1
  <2>7. QED
    BY <1>3, <1>4, <2>1, <2>3, <2>5, <2>6, ClientStep
<1>7. CASE ~(x.connected /\ x.leader)
  <2>1. PICK out \in {<<>>, <<"subscribe">>} :
          Acts(t, x, inbox[t], out) /\ (out = <<>> => ~x.connected)
    <3>1. /\ tab' = [tab EXCEPT ![t] = x]
          /\ \/ x.connected /\ Post(t, <<"subscribe">>)
             \/ ~x.connected /\ inbox' = inbox
      BY <1>3, <1>7 DEF Send
    <3>2. /\ Post(t, <<"subscribe">>) => Acts(t, x, inbox[t], <<"subscribe">>)
          /\ inbox' = inbox => Acts(t, x, inbox[t], <<>>)
      BY <3>1, ActsForms
    <3>3. <<"subscribe">> # <<>>
      OBVIOUS
    <3>4. QED
      BY <3>1, <3>2, <3>3
  <2>2. x.ws # "open"
    BY <1>1, <1>2, <1>7
  <2>3. out # <<"subscribe">> => out = <<>>
    OBVIOUS
  <2>4. out \in Outs /\ out # <<"up">> /\ out # <<"unsubscribe">>
    BY <1>4
  <2>5. ASSUME Without({"lag"}) PROVE Counted'
    BY <1>2, <2>1, <2>2, <2>3, <2>4, <2>5, CountedStep DEF Wanted
  <2>6. Counted'
    BY <1>5, <2>5 DEF Counted
  <2>7. x.srv => x.ws = "open"
    BY <1>1, <1>2
  <2>8. QED
    BY <1>2, <1>3, <2>1, <2>4, <2>6, <2>7, ClientStep
<1>8. QED
  BY <1>6, <1>7

LEMMA UnsubscribeWanted ==
  ASSUME IInv, Wanted, IInv', NEW t \in Tabs, Unsubscribe(t)
  PROVE  Wanted'
<1> DEFINE x == [tab[t] EXCEPT !.wants = FALSE]
<1>1. /\ tab[t] \in TabRec /\ inbox[t] \in Seq(Messages) /\ (tab[t].srv => tab[t].ws = "open")
      /\ (tab[t].ws = "open" => tab[t].connected) /\ (tab[t].ws # "none" => tab[t].leader)
  BY SessionIs, OpenLeads
<1>2. /\ x \in TabRec /\ x.view = tab[t].view /\ x.leader = tab[t].leader /\ x.ctl = tab[t].ctl
      /\ x.ws = tab[t].ws /\ x.connected = tab[t].connected /\ x.count = tab[t].count
      /\ x.srv = tab[t].srv /\ x.wants = FALSE
  BY <1>1 DEF TabRec
<1>3. /\ IsOpen(t) /\ tab[t].wants /\ queue' = queue /\ Occur(Lag({t}))
      /\ Send(t, x, "unsubscribe")
  BY DEF Unsubscribe
<1> HIDE DEF x
<1>4. /\ <<>> \in Outs /\ <<"unsubscribe">> \in Outs /\ <<>> # <<"unsubscribe">>
      /\ <<"unsubscribe">> # <<"up">> /\ <<>> # <<"up">>
  BY DEF Outs, Messages
<1>5. Without({"lag"})' => Without({"lag"}) /\ inbox[t] = <<>>
  <2>1. {} \in SUBSET Events /\ {} \cup Lag({t}) = Lag({t})
    OBVIOUS
  <2>2. QED
    BY <1>3, <2>1, ActsInTime
<1>6. CASE x.connected /\ x.leader
  <2> DEFINE r == LeaderUnsubscribe(x)
  <2>1. /\ r \in TabRec /\ r.view = tab[t].view /\ r.leader = tab[t].leader
        /\ r.ctl = tab[t].ctl /\ r.ws = tab[t].ws /\ r.wants = FALSE
        /\ r.connected = tab[t].connected /\ (r.srv => x.srv)
    BY <1>2, CountIs
  <2>2. tab' = [tab EXCEPT ![t] = r] /\ inbox' = inbox
    BY <1>3, <1>6 DEF Send
  <2> HIDE DEF r
  <2>3. Acts(t, r, inbox[t], <<>>)
    BY <2>2, ActsForms
  <2>4. ASSUME Without({"lag"}), inbox[t] = <<>>
        PROVE  Counted'
    <3>1. ASSUME r.ws = "open" PROVE Covers(Subscribers(t)', r, inbox[t])
      <4>1. Covers(Subscribers(t), tab[t], <<>>) /\ x.ws = "open"
        BY <1>2, <2>1, <2>4, <3>1 DEF Wanted, Counted
      <4>2. Covers(Subscribers(t), x, <<>>)
        BY <1>1, <1>2, <2>4, <4>1, CoversSame
      <4>3. t \in Subscribers(t)
        BY <1>2, <1>3, <1>6 DEF Subscribers
      <4>4. Covers(Subscribers(t) \ {t}, r, <<>>)
        BY <1>2, <4>1, <4>2, <4>3, OwnCovers DEF r
      <4>5. Subscribers(t)' \in SUBSET (Subscribers(t) \ {t})
        <5>1. /\ \A u \in Tabs \ {t} : u \in Subscribers(t)' => u \in Subscribers(t)
              /\ t \in Subscribers(t)' => r.wants
              /\ Subscribers(t)' \subseteq Tabs
          BY <1>4, <2>3, SubscribersStep DEF Wanted
        <5>2. QED
          BY <2>1, <5>1
      <4>6. QED
        BY <1>1, <2>1, <2>4, <4>4, <4>5, CoversFewer
    <3>2. QED
      BY <1>2, <1>4, <1>6, <2>1, <2>3, <2>4, <3>1, CountedStep DEF Wanted
  <2>5. Counted'
    BY <1>5, <2>4 DEF Counted
  <2>6. r.srv => r.ws = "open"
    BY <1>1, <1>2, <2>1
  <2>7. QED
    BY <1>3, <1>4, <2>1, <2>3, <2>5, <2>6, ClientStep
<1>7. CASE ~(x.connected /\ x.leader)
  <2>1. PICK out \in {<<>>, <<"unsubscribe">>} :
          Acts(t, x, inbox[t], out) /\ (out = <<"unsubscribe">> => tab[t].connected)
    <3>1. /\ tab' = [tab EXCEPT ![t] = x]
          /\ \/ x.connected /\ Post(t, <<"unsubscribe">>)
             \/ ~x.connected /\ inbox' = inbox
      BY <1>3, <1>7 DEF Send
    <3>2. /\ Post(t, <<"unsubscribe">>) => Acts(t, x, inbox[t], <<"unsubscribe">>)
          /\ inbox' = inbox => Acts(t, x, inbox[t], <<>>)
      BY <3>1, ActsForms
    <3>3. <<"unsubscribe">> # <<>>
      OBVIOUS
    <3>4. QED
      BY <1>2, <3>1, <3>2, <3>3
  <2>2. x.ws # "open"
    BY <1>1, <1>2, <1>7
  <2>3. out \in Outs /\ out # <<"up">>
    BY <1>4
  <2>4. ASSUME Without({"lag"}), inbox[t] = <<>> PROVE Counted'
    <3>1. ~Marked(inbox[t])
      BY <1>1, <2>4, MarkedOps
    <3>2. QED
      BY <1>2, <1>3, <2>1, <2>2, <2>3, <2>4, <3>1, CountedStep DEF Wanted
  <2>5. Counted'
    BY <1>5, <2>4 DEF Counted
  <2>6. x.srv => x.ws = "open"
    BY <1>1, <1>2
  <2>7. QED
    BY <1>2, <1>3, <2>1, <2>3, <2>5, <2>6, ClientStep
<1>8. QED
  BY <1>6, <1>7

\* A rejection leaves nobody to count: it is posted to every tab that could want the topic.
LEMMA RejectWanted ==
  ASSUME IInv, Wanted, IInv', NEW t \in Tabs, Reject(t)
  PROVE  Wanted'
<1> DEFINE r == [tab[t] EXCEPT !.srv = FALSE, !.count = 0, !.wants = FALSE]
<1>1. /\ tab \in [Tabs -> TabRec] /\ tab[t] \in TabRec /\ inbox[t] \in Seq(Messages)
      /\ tab[t].ws = "open" /\ tab[t].leader /\ IsOpen(t)
  BY SessionIs, OpenLeads, TypeIs DEF IInv, Reject
<1>2. /\ r \in TabRec /\ r.view = tab[t].view /\ r.leader = tab[t].leader /\ r.ctl = tab[t].ctl
      /\ r.ws = tab[t].ws /\ r.connected = tab[t].connected /\ ~r.srv /\ ~r.wants
  BY <1>1 DEF TabRec
<1>3. /\ tab' = [tab EXCEPT ![t] = r] /\ Post(t, <<"rejected">>) /\ queue' = queue
      /\ Occur({"reject"})
  BY <1>1 DEF Reject, Spend
<1> HIDE DEF r
<1>4. /\ Acts(t, r, inbox[t], <<"rejected">>) /\ <<"rejected">> \in Outs
      /\ <<"rejected">> # <<"up">>
  BY <1>3, ActsForms DEF Outs, Messages
<1>5. ASSUME Without({"lag"}) PROVE Counted'
  <2>1. \A u \in Tabs \ {t} : u \notin Subscribers(t)'
    <3>1. ASSUME NEW u \in Tabs \ {t} PROVE ~(tab'[u].wants /\ ~Marked(inbox'[u]))
      <4>1. /\ tab'[u] = tab[u] /\ inbox[u] \in Seq(Messages)
            /\ (IsOpen(u) => inbox'[u] = inbox[u] \o <<"rejected">>)
        <5>1. Pages
          BY DEF Wanted
        <5>2. QED
          BY <1>4, <5>1, ActsEffect
      <4>2. tab[u].wants => IsOpen(u)
        BY SessionIs
      <4>3. Marked(inbox[u] \o <<"rejected">>)
        BY <4>1, MarkedOps
      <4>4. QED
        BY <4>1, <4>2, <4>3
    <3>2. QED
      BY <3>1 DEF Subscribers
  <2>2. Subscribers(t)' = {}
    <3>1. /\ t \in Subscribers(t)' => r.wants
          /\ Subscribers(t)' \subseteq Tabs
      BY <1>4, SubscribersStep DEF Wanted
    <3>2. QED
      BY <1>2, <2>1, <3>1
  <2>3. Covers(Subscribers(t)', r, inbox[t])
    BY <1>1, <1>2, <2>2, CoversNobody
  <2>4. QED
    BY <1>1, <1>2, <1>4, <1>5, <2>3, CountedStep DEF Wanted
<1>6. Counted'
  <2>1. {"reject"} \in SUBSET Events
    BY DEF Events
  <2>2. Without({"lag"})' => Without({"lag"})
    BY <1>3, <2>1, SeenOccur
  <2>3. QED
    BY <1>5, <2>2 DEF Counted
<1>7. QED
  BY <1>1, <1>2, <1>3, <1>4, <1>6, ClientStep

LEMMA InitWanted == Init => Wanted
<1> SUFFICES ASSUME Init PROVE Wanted
  OBVIOUS
<1>1. /\ tab = [t \in Tabs |-> NoTab] /\ inbox = [t \in Tabs |-> <<>>] /\ queue = <<>>
  BY DEF Init
<1>2. Line
  <2>1. DOMAIN <<>> = {}
    OBVIOUS
  <2>2. ToSet(queue) = {}
    BY <1>1, <2>1 DEF ToSet
  <2>3. QED
    BY <1>1, <2>1, <2>2 DEF Line, Distinct
<1>3. Pages /\ Sessions /\ Quiet /\ Counted
  BY <1>1 DEF NoTab, Pages, Sessions, Quiet, Counted, IsDown
<1>4. QED
  BY <1>2, <1>3 DEF Wanted

LEMMA NextWanted == IInv /\ Wanted /\ [Next]_vars => Wanted'
<1> SUFFICES ASSUME IInv, Wanted, [Next]_vars PROVE Wanted'
  OBVIOUS
<1>1. IInv'
  BY NextKeeps
<1>2. ASSUME NEW t \in Tabs, Page(t) PROVE Wanted'
  BY <1>1, <1>2, OpenWanted, HideWanted, ShowWanted, GraceElapsesWanted, CloseWanted DEF Page
<1>3. ASSUME NEW t \in Tabs, Socket(t) PROVE Wanted'
  BY <1>1, <1>3, WsOpensWanted, WsFailsWanted, WsDropsWanted, WsClosedWanted, TimersWanted,
     StrayEndsWanted DEF Socket
<1>4. ASSUME NEW t \in Tabs, Handle(t) PROVE Wanted'
  BY <1>1, <1>4, ConnectionStateWanted, SendRequestWanted, StateRequestWanted, WsMessageWanted
     DEF Handle
<1>5. ASSUME NEW t \in Tabs, Client(t) PROVE Wanted'
  BY <1>1, <1>5, SubscribeWanted, UnsubscribeWanted, RejectWanted DEF Client
<1>6. CASE UNCHANGED vars
  <2>1. Without({"lag"})' => Without({"lag"})
    BY <1>6, SeenKept DEF vars
  <2>2. QED
    BY <1>6, <2>1, IdleStep DEF vars
<1>7. QED
  BY <1>1, <1>2, <1>3, <1>4, <1>5, <1>6, BecomeLeaderWanted, ReleaseLockWanted,
     GoOfflineWanted, GoOnlineWanted DEF Next

\* Once every message is handled and the leader's socket is up, the server is subscribed
\* for every connected tab that wants the topic, across hand-overs, drops and rejections
\* (sharedConnection.ts, client.ts): the leader's count is never below the tabs it owes.
THEOREM WantedIsSubscribedHolds == Spec => []WantedIsSubscribed
<1>1. IInv /\ Wanted => WantedIsSubscribed
  <2> SUFFICES ASSUME IInv, Wanted, Without({"lag"}), NEW l \in Tabs, NEW t \in Tabs,
                      Settled(l), tab[t].wants, tab[t].connected
               PROVE  tab[l].srv
    BY DEF WantedIsSubscribed
  <2>1. tab[l].ws = "open" /\ inbox[l] = <<>> /\ inbox[t] = <<>> /\ tab[l] \in TabRec
    BY SessionIs DEF Settled
  <2>2. Covers(Subscribers(l), tab[l], <<>>)
    BY <2>1 DEF Wanted, Counted
  <2>3. t \in Subscribers(l)
    <3>1. <<>> \in Seq(Messages)
      OBVIOUS
    <3>2. ~Marked(inbox[t])
      BY <2>1, <3>1, MarkedOps
    <3>3. QED
      BY <3>2 DEF Subscribers
  <2>4. QED
    BY <2>1, <2>2, <2>3, CoversSettled
<1>2. QED
  BY <1>1, InitHolds, NextKeeps, InitWanted, NextWanted, PTL DEF Spec

=============================================================================
