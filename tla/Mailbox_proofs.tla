--------------------------- MODULE Mailbox_proofs ---------------------------
(***************************************************************************)
(* Proofs about Mailbox for a thread of any length and any events: the     *)
(* type invariant, and that a snoozed entry sleeps until its time.         *)
(***************************************************************************)
EXTENDS Mailbox, FiniteSetTheorems, SequenceTheorems, TLAPS

Kinds == Events \cup {"crossed", "met", "overtaken", "restored", "lost", "torn", "late", "woken"}

RecordsOf(known) == Seq([of : known, adds : BOOLEAN])
Requests == [action : Actions, entry : Entries, msg : LabelsOf, thread : SUBSET Labels]

Types ==
  /\ gmail \in LabelsOf /\ msg \in LabelsOf /\ thread \in SUBSET Labels /\ entry \in Entries
  /\ records \in RecordsOf(Known(gmail))
  /\ proc \in [at : {"idle", "fetched", "syncing", "archiving"}, fetched : (SUBSET Labels) \cup {NULL},
               row : (SUBSET Labels) \cup {NULL}, wasInbox : BOOLEAN, copy : LabelsOf]
  /\ request \in Requests \cup {NULL}
  /\ jobs \in [labels : SUBSET Change, wakes : 0..2] /\ want \in SUBSET Labels
  /\ events \in [left : [Events -> Nat], seen : SUBSET Kinds]

(***************************************************************************)
(* The first message is known to Gmail and has a row, which is never taken *)
(* away again; so there is always a latest one.  The record that the       *)
(* history job is at stays first.                                          *)
(***************************************************************************)
Rows ==
  /\ gmail[1] # NULL /\ msg[1] # NULL
  /\ proc.at # "idle" => records # <<>>
  /\ proc.at = "fetched" => proc.fetched # NULL
  /\ proc.at \in {"syncing", "archiving"} => proc.copy[1] # NULL

\* A job that wakes an entry that is asleep waits from an earlier snooze, and that is noted.
LateIsNoted == jobs.wakes > 0 /\ entry.snoozed = "asleep" => "late" \in events.seen

IInv == Types /\ Rows

-----------------------------------------------------------------------------
(***************************************************************************)
(* Labels                                                                  *)
(***************************************************************************)
\* A bounded set of naturals has a largest member: of the intervals from its members up
\* to the bound, finite sets, one is minimal.
LEMMA LargestExists ==
  ASSUME NEW n \in Nat, NEW S \in SUBSET (1..n), S # {}
  PROVE  \E k \in S : \A j \in S : j <= k
<1> DEFINE T == {k..n : k \in S}
           R == StrictSubsetOrdering(1..n)
<1>1. IsWellFoundedOn(R, FiniteSubsetsOf(1..n))
  BY FS_StrictSubsetOrderingWellFounded
<1>2. T \subseteq FiniteSubsetsOf(1..n) /\ T # {}
  <2>1. ASSUME NEW k \in S
        PROVE  k..n \in FiniteSubsetsOf(1..n)
    <3>1. k \in Int /\ n \in Int /\ k..n \subseteq 1..n
      OBVIOUS
    <3>2. IsFiniteSet(k..n)
      BY <3>1, FS_Interval
    <3>3. QED
      BY <3>1, <3>2 DEF FiniteSubsetsOf
  <2>2. QED
    BY <2>1
<1> HIDE DEF T, R
<1>3. \E x \in T : \A y \in T : ~(<<y, x>> \in R)
  BY <1>1, <1>2, WFMin
<1>4. PICK x \in T : \A y \in T : <<y, x>> \notin R
  BY <1>3
<1>5. PICK k \in S : x = k..n
  BY DEF T
<1>6. ASSUME NEW j \in S, j > k
      PROVE  FALSE
  <2>1. j..n \in T
    BY DEF T
  <2>2. j..n \subseteq k..n /\ k \in k..n /\ k \notin j..n /\ k..n \subseteq 1..n /\ j..n \subseteq 1..n
    BY <1>6
  <2>3. <<j..n, k..n>> \in StrictSubsetOrdering(1..n)
    BY <2>2 DEF StrictSubsetOrdering
  <2>4. QED
    BY <1>4, <1>5, <2>1, <2>3 DEF R
<1>7. QED
  BY <1>6

LEMMA MessagesAre ==
  /\ Cardinality(Messages) \in Nat /\ Messages = 1..Cardinality(Messages) /\ 1 \in Messages
  /\ \A S \in SUBSET Messages : Cardinality(S) \in Nat
<1>1. IsFiniteSet(Messages) /\ Messages = 1..Cardinality(Messages) /\ 1 \in Messages
  BY MailboxAssumption
<1>2. \A S \in SUBSET Messages : IsFiniteSet(S)
  BY <1>1, FS_Subset
<1>3. QED
  BY <1>1, <1>2, FS_CardinalityType

LEMMA LatestIs ==
  ASSUME NEW labels, labels[1] # NULL
  PROVE  Latest(labels) \in Messages
<1>1. Known(labels) \in SUBSET (1..Cardinality(Messages)) /\ Known(labels) # {}
  BY MessagesAre DEF Known
<1>2. \E k \in Known(labels) : \A j \in Known(labels) : j <= k
  BY <1>1, MessagesAre, LargestExists
<1>3. Latest(labels) \in Known(labels)
  BY <1>2 DEF Latest
<1>4. QED
  BY <1>3 DEF Known

LEMMA UnionIs ==
  ASSUME NEW labels \in LabelsOf
  PROVE  Union(labels) \in SUBSET Labels
<1>1. \A m \in Known(labels) : labels[m] \in SUBSET Labels
  BY DEF Known, LabelsOf
<1>2. QED
  BY <1>1 DEF Union

LEMMA AppliedIs ==
  ASSUME NEW c \in Change, NEW labels \in SUBSET Labels
  PROVE  Applied(c, labels) \in SUBSET Labels /\ Applied(c, labels) # NULL
<1>1. Applied(c, labels) \in SUBSET Labels
  BY DEF Applied, Change
<1>2. QED
  BY <1>1, MailboxAssumption

LEMMA ChosenIs ==
  ASSUME NEW a \in Actions
  PROVE  Chosen(a) \in Change
BY DEF Chosen, Actions, Change, Labels

-----------------------------------------------------------------------------
(***************************************************************************)
(* The variables that many steps share                                     *)
(***************************************************************************)
LEMMA OccurIs ==
  ASSUME Types, NEW e \in Events, Left(e), Occur(e)
  PROVE  events' \in [left : [Events -> Nat], seen : SUBSET Kinds] /\ events.seen \subseteq events'.seen
<1> DEFINE left == [events.left EXCEPT ![e] = @ - 1]
<1>1. events.left \in [Events -> Nat] /\ events.seen \in SUBSET Kinds /\ events.left[e] > 0
  BY DEF Types, Left
<1>2. left \in [Events -> Nat]
  BY <1>1
<1>3. events' = [events EXCEPT !.left = left, !.seen = @ \cup {e}]
  BY DEF Occur
<1> HIDE DEF left
<1>4. {e} \in SUBSET Kinds
  BY DEF Kinds
<1>5. QED
  BY <1>1, <1>2, <1>3, <1>4 DEF Types

LEMMA SpentIs ==
  ASSUME Types, NEW e \in Events, Left(e)
  PROVE  [events.left EXCEPT ![e] = @ - 1] \in [Events -> Nat]
BY DEF Types, Left

LEMMA NotingIs ==
  ASSUME Types, NEW kinds \in SUBSET Kinds, Noting(kinds)
  PROVE  /\ events' \in [left : [Events -> Nat], seen : SUBSET Kinds]
         /\ events'.seen = events.seen \cup kinds
BY DEF Types, Noting

LEMMA IfIs ==
  ASSUME NEW cond, NEW kind \in Kinds
  PROVE  If(cond, kind) \in SUBSET Kinds /\ (cond => kind \in If(cond, kind))
BY DEF If

\* Gmail changes the labels of what it knows, and records that.
LEMMA ModifyIs ==
  ASSUME Types, NEW c \in Change, Modify(c)
  PROVE  /\ gmail' \in LabelsOf
         /\ \A m \in Messages : gmail'[m] # NULL <=> gmail[m] # NULL
         /\ records' \in RecordsOf(Known(gmail'))
         /\ records # <<>> => records' # <<>> /\ Head(records') = Head(records)
<1>1. gmail' = [m \in Messages |-> IF gmail[m] = NULL THEN NULL ELSE Applied(c, gmail[m])]
  BY DEF Modify
<1>2. \A m \in Messages : gmail[m] # NULL => Applied(c, gmail[m]) \in SUBSET Labels /\ Applied(c, gmail[m]) # NULL
  BY AppliedIs DEF Types, LabelsOf
<1>3. gmail' \in LabelsOf /\ \A m \in Messages : gmail'[m] # NULL <=> gmail[m] # NULL
  BY <1>1, <1>2 DEF LabelsOf
<1>4. Known(gmail') = Known(gmail)
  BY <1>3 DEF Known
<1> DEFINE C == {m \in Messages : gmail'[m] # gmail[m]}
           n == Cardinality(C)
<1>5. C \subseteq Known(gmail) /\ n \in Nat
  <2>1. \A m \in Messages : gmail[m] = NULL => gmail'[m] = gmail[m]
    BY <1>1
  <2>2. QED
    BY <2>1, MessagesAre DEF Known
<1>6. PICK order \in Ascending(C) : records' = records \o [i \in DOMAIN order |-> [of |-> order[i], adds |-> FALSE]]
  BY DEF Modify
<1>7. order \in [1..n -> C]
  BY DEF Ascending, SetToSeqs
<1> DEFINE R == [of : Known(gmail), adds : BOOLEAN]
           new == [i \in DOMAIN order |-> [of |-> order[i], adds |-> FALSE]]
<1>8. new \in [1..n -> R]
  BY <1>5, <1>7
<1> HIDE DEF C, n, R, new
<1>9. new \in Seq(R)
  BY <1>5, <1>8, SeqDef
<1>10. records \in Seq(R) /\ records' = records \o new
  BY <1>6 DEF Types, RecordsOf, R, new
<1>11. /\ records' \in Seq(R) /\ Len(records') = Len(records) + Len(new)
       /\ \A i \in 1..Len(records) + Len(new) :
            (records \o new)[i] = IF i <= Len(records) THEN records[i] ELSE new[i - Len(records)]
  BY <1>9, <1>10, ConcatProperties
<1>12. ASSUME records # <<>>
       PROVE  records' # <<>> /\ Head(records') = Head(records)
  <2>1. Len(records) \in Nat \ {0} /\ Len(new) \in Nat
    BY <1>9, <1>10, <1>12, EmptySeq, LenProperties
  <2>2. records'[1] = records[1] /\ Len(records') # 0
    BY <1>10, <1>11, <2>1
  <2>3. QED
    BY <2>2, EmptySeq
<1>13. QED
  BY <1>3, <1>4, <1>11, <1>12 DEF RecordsOf, R


-----------------------------------------------------------------------------
(***************************************************************************)
(* Steps                                                                   *)
(***************************************************************************)
LEMMA ArriveKeeps ==
  ASSUME IInv, NEW m \in Messages \ {1}, Arrive(m)
  PROVE  IInv'
<1> DEFINE kinds == If(Removing, "met")
           left == [events.left EXCEPT !["arrive"] = @ - 1]
<1>1. /\ Types /\ Left("arrive") /\ gmail' = [gmail EXCEPT ![m] = Labels]
      /\ records' = Append(records, [of |-> m, adds |-> TRUE])
      /\ events' = [left |-> left, seen |-> events.seen \cup kinds] /\ want' = Labels
      /\ UNCHANGED <<msg, thread, entry, proc, request, jobs>>
  BY DEF Arrive, IInv
<1>2. left \in [Events -> Nat]
  BY <1>1, SpentIs DEF Events
<1>3. kinds \in SUBSET Kinds
  BY IfIs DEF Kinds
<1> HIDE DEF kinds, left
<1>4. events' \in [left : [Events -> Nat], seen : SUBSET Kinds]
  BY <1>1, <1>2, <1>3 DEF Types
<1>5. Labels # NULL
  BY MailboxAssumption
<1>6. /\ gmail' \in LabelsOf /\ gmail'[1] = gmail[1] /\ m \in Known(gmail')
      /\ Known(gmail) \subseteq Known(gmail')
  BY <1>1, <1>5, MessagesAre DEF Types, LabelsOf, Known
<1>7. records' \in RecordsOf(Known(gmail')) /\ records' # <<>>
  <2> DEFINE R == [of : Known(gmail'), adds : BOOLEAN]
             d == [of |-> m, adds |-> TRUE]
  <2>1. [of : Known(gmail), adds : BOOLEAN] \subseteq R /\ d \in R
    BY <1>6
  <2>2. records \in Seq([of : Known(gmail), adds : BOOLEAN])
    BY <1>1 DEF Types, RecordsOf
  <2> HIDE DEF R, d
  <2>3. records \in Seq(R)
    BY <2>1, <2>2, SeqMonotonic
  <2>4. Append(records, d) \in Seq(R) /\ Append(records, d) # <<>>
    BY <2>1, <2>3, AppendProperties
  <2>5. QED
    BY <1>1, <2>4 DEF RecordsOf, R, d
<1>8. Types'
  BY <1>1, <1>4, <1>6, <1>7 DEF Types
<1>9. QED
  BY <1>1, <1>6, <1>7, <1>8 DEF IInv, Rows

LEMMA InGmailKeeps ==
  ASSUME IInv, NEW c \in Change, InGmail(c)
  PROVE  IInv'
<1> DEFINE kinds == If(Echoing \/ request # NULL, "crossed") \cup If(c = Chosen("unarchive"), "restored")
           left == [events.left EXCEPT !["gmail"] = @ - 1]
<1>1. /\ Types /\ Left("gmail") /\ Modify(c)
      /\ want' = IF c.label = "inbox" /\ c.op = "add" THEN want ELSE Applied(c, want)
      /\ events' = [left |-> left, seen |-> events.seen \cup If(Echoing \/ request # NULL, "crossed")
                                                        \cup If(c = Chosen("unarchive"), "restored")]
      /\ UNCHANGED <<msg, thread, entry, proc, request, jobs>>
  BY DEF InGmail, IInv
<1>2. left \in [Events -> Nat]
  BY <1>1, SpentIs DEF Events
<1>3. kinds \in SUBSET Kinds
  BY IfIs DEF Kinds
<1>4. events' = [left |-> left, seen |-> events.seen \cup kinds]
  BY <1>1
<1> HIDE DEF kinds, left
<1>5. events' \in [left : [Events -> Nat], seen : SUBSET Kinds]
  BY <1>1, <1>2, <1>3, <1>4 DEF Types
<1>6. want' \in SUBSET Labels
  BY <1>1, AppliedIs DEF Types
<1>7. /\ gmail' \in LabelsOf /\ \A m \in Messages : gmail'[m] # NULL <=> gmail[m] # NULL
      /\ records' \in RecordsOf(Known(gmail')) /\ (records # <<>> => records' # <<>>)
  BY <1>1, ModifyIs
<1>8. Types'
  BY <1>1, <1>5, <1>6, <1>7 DEF Types
<1>9. QED
  BY <1>1, <1>7, <1>8, MessagesAre DEF IInv, Rows

LEMMA LabelJobKeeps ==
  ASSUME IInv, NEW c \in Change, LabelJob(c)
  PROVE  IInv'
<1>1. /\ Types /\ Modify(c) /\ UNCHANGED <<msg, thread, entry, proc, request, want>>
      /\ \/ jobs' = [jobs EXCEPT !.labels = @ \ {c}] /\ UNCHANGED events
         \/ Left("again") /\ Occur("again") /\ UNCHANGED jobs
  BY DEF LabelJob, IInv
<1>2. /\ events' \in [left : [Events -> Nat], seen : SUBSET Kinds]
      /\ jobs' \in [labels : SUBSET Change, wakes : 0..2]
  <2>1. CASE jobs' = [jobs EXCEPT !.labels = @ \ {c}] /\ UNCHANGED events
    BY <1>1, <2>1 DEF Types
  <2>2. CASE Left("again") /\ Occur("again") /\ UNCHANGED jobs
    BY <1>1, <2>2, OccurIs DEF Types, Events
  <2>3. QED
    BY <1>1, <2>1, <2>2
<1>3. /\ gmail' \in LabelsOf /\ \A m \in Messages : gmail'[m] # NULL <=> gmail[m] # NULL
      /\ records' \in RecordsOf(Known(gmail')) /\ (records # <<>> => records' # <<>>)
  BY <1>1, ModifyIs
<1>4. Types'
  BY <1>1, <1>2, <1>3 DEF Types
<1>5. QED
  BY <1>1, <1>3, <1>4, MessagesAre DEF IInv, Rows

ProcRec == [at : {"idle", "fetched", "syncing", "archiving"}, fetched : (SUBSET Labels) \cup {NULL},
            row : (SUBSET Labels) \cup {NULL}, wasInbox : BOOLEAN, copy : LabelsOf]

LEMMA WorkingIs == Working \in ProcRec /\ Working.at = "idle"
BY DEF Working, ProcRec, LabelsOf

LEMMA DoneIs ==
  ASSUME Types, records # <<>>, Done, UNCHANGED gmail
  PROVE  /\ proc' \in ProcRec /\ proc'.at = "idle"
         /\ records' \in RecordsOf(Known(gmail'))
<1>1. proc' = Working /\ records' = Tail(records)
  BY DEF Done
<1>2. Tail(records) \in Seq([of : Known(gmail), adds : BOOLEAN])
  BY HeadTailProperties DEF Types, RecordsOf
<1>3. QED
  BY <1>1, <1>2, WorkingIs DEF RecordsOf

LEMMA FetchKeeps ==
  ASSUME IInv, Fetch
  PROVE  IInv'
<1>1. Types /\ records # <<>> /\ UNCHANGED <<gmail, msg, thread, entry, request, jobs, want, events>>
  BY DEF Fetch, IInv
<1>2. CASE Done
  <2>1. /\ proc' \in ProcRec /\ proc'.at = "idle" /\ records' \in RecordsOf(Known(gmail'))
    BY <1>1, <1>2, DoneIs
  <2>2. Types'
    BY <1>1, <2>1 DEF Types, ProcRec
  <2>3. QED
    BY <1>1, <2>1, <2>2 DEF IInv, Rows
<1>3. CASE ~Done
  <2>1. PICK m \in Known(gmail) : m = Record.of
    <3>1. Head(records) \in [of : Known(gmail), adds : BOOLEAN]
      BY <1>1, HeadTailProperties DEF Types, RecordsOf
    <3>2. QED
      BY <3>1 DEF Record
  <2>0. PICK b \in BOOLEAN : b = ("inbox" \in thread)
    <3>1. ("inbox" \in thread) \in BOOLEAN
      OBVIOUS
    <3>2. QED
      BY <3>1
  <2> DEFINE d == [Working EXCEPT !.at = "fetched", !.fetched = gmail[m], !.row = msg[m], !.wasInbox = b]
  <2>2. proc' = d /\ UNCHANGED records
    BY <1>3, <2>0, <2>1 DEF Fetch
  <2>3. m \in Messages /\ gmail[m] # NULL
    BY DEF Known
  <2>4. gmail[m] \in (SUBSET Labels) \cup {NULL} /\ msg[m] \in (SUBSET Labels) \cup {NULL}
    BY <1>1, <2>3 DEF Types, LabelsOf
  <2>5. d \in ProcRec /\ d.at = "fetched" /\ d.fetched = gmail[m]
    BY <2>4, WorkingIs DEF ProcRec
  <2> HIDE DEF d
  <2>6. Types'
    BY <1>1, <2>2, <2>5 DEF Types, ProcRec
  <2>7. QED
    BY <1>1, <2>2, <2>3, <2>5, <2>6 DEF IInv, Rows
<1>4. QED
  BY <1>2, <1>3

LEMMA StoreKeeps ==
  ASSUME IInv, Store
  PROVE  IInv'
<1>1. /\ Types /\ proc.at = "fetched" /\ records # <<>> /\ proc.fetched # NULL
      /\ UNCHANGED <<gmail, entry, request, jobs, want, events>>
  BY DEF Store, IInv, Rows
<1>2. CASE Done /\ UNCHANGED <<msg, thread>>
  <2>1. /\ proc' \in ProcRec /\ proc'.at = "idle" /\ records' \in RecordsOf(Known(gmail'))
    BY <1>1, <1>2, DoneIs
  <2>2. Types'
    BY <1>1, <1>2, <2>1 DEF Types, ProcRec
  <2>3. QED
    BY <1>1, <1>2, <2>1, <2>2 DEF IInv, Rows
<1>3. CASE ~(Done /\ UNCHANGED <<msg, thread>>)
  <2>1. /\ msg' = [msg EXCEPT ![Record.of] = proc.fetched] /\ thread' = Union(msg')
        /\ proc' = [proc EXCEPT !.at = "syncing", !.copy = msg'] /\ UNCHANGED records
    BY <1>3 DEF Store
  <2>2. proc.fetched \in SUBSET Labels /\ msg[1] # NULL
    BY <1>1 DEF Types, IInv, Rows
  <2>3. msg' \in LabelsOf /\ msg'[1] # NULL
    BY <1>1, <2>1, <2>2, MessagesAre DEF Types, LabelsOf
  <2>4. thread' \in SUBSET Labels
    BY <2>1, <2>3, UnionIs
  <2>5. proc' \in ProcRec /\ proc'.at = "syncing" /\ proc'.copy = msg'
    BY <1>1, <2>1, <2>3 DEF Types, ProcRec
  <2>6. Types'
    BY <1>1, <2>1, <2>3, <2>4, <2>5 DEF Types, ProcRec
  <2>7. QED
    BY <1>1, <2>1, <2>3, <2>5, <2>6 DEF IInv, Rows
<1>4. QED
  BY <1>2, <1>3

LEMMA SyncedIs ==
  ASSUME NEW e \in Entries, NEW ms \in LabelsOf, ms[1] # NULL
  PROVE  Synced(e, ms) \in Entries
<1>1. Latest(ms) \in Messages /\ Union(ms) \in SUBSET Labels
  BY LatestIs, UnionIs
<1>2. e.labels \in SUBSET Labels /\ e.snoozed \in {NULL, "asleep", "due"}
  BY DEF Entries
<1>3. QED
  BY <1>1, <1>2 DEF Synced, Entries, Labels

LEMMA SyncKeeps ==
  ASSUME IInv, Sync
  PROVE  IInv'
<1>1. /\ Types /\ proc.at = "syncing" /\ records # <<>> /\ proc.copy[1] # NULL
      /\ entry' = Synced(entry, proc.copy) /\ UNCHANGED <<gmail, msg, thread, request, jobs, want, events>>
  BY DEF Sync, IInv, Rows
<1>2. entry' \in Entries
  BY <1>1, SyncedIs DEF Types
<1>3. CASE Done
  <2>1. /\ proc' \in ProcRec /\ proc'.at = "idle" /\ records' \in RecordsOf(Known(gmail'))
    BY <1>1, <1>3, DoneIs
  <2>2. Types'
    BY <1>1, <1>2, <2>1 DEF Types, ProcRec
  <2>3. QED
    BY <1>1, <2>1, <2>2 DEF IInv, Rows
<1>4. CASE ~Done
  <2>1. proc' = [proc EXCEPT !.at = "archiving"] /\ UNCHANGED records
    BY <1>4 DEF Sync
  <2>2. proc' \in ProcRec /\ proc'.at = "archiving" /\ proc'.copy = proc.copy
    BY <1>1, <2>1 DEF Types, ProcRec
  <2>3. Types'
    BY <1>1, <1>2, <2>1, <2>2 DEF Types, ProcRec
  <2>4. QED
    BY <1>1, <2>1, <2>2, <2>3 DEF IInv, Rows
<1>5. QED
  BY <1>3, <1>4

LEMMA LeaveKeeps ==
  ASSUME IInv, Leave
  PROVE  IInv'
<1>1. /\ Types /\ records # <<>> /\ Done
      /\ entry' = [entry EXCEPT !.labels = @ \ {"inbox"}] /\ thread' = Union(proc.copy) \ {"inbox"}
      /\ UNCHANGED <<gmail, msg, request, jobs, want, events>>
  BY DEF Leave, IInv, Rows
<1>2. entry' \in Entries /\ thread' \in SUBSET Labels
  BY <1>1, UnionIs DEF Types, Entries
<1>3. /\ proc' \in ProcRec /\ proc'.at = "idle" /\ records' \in RecordsOf(Known(gmail'))
  BY <1>1, DoneIs
<1>4. Types'
  BY <1>1, <1>2, <1>3 DEF Types, ProcRec
<1>5. QED
  BY <1>1, <1>3, <1>4 DEF IInv, Rows

LEMMA CrashKeeps ==
  ASSUME IInv, Crash
  PROVE  IInv'
<1> DEFINE kinds == If(proc.at # "fetched", "lost")
           left == [events.left EXCEPT !["crash"] = @ - 1]
<1>1. /\ Types /\ Left("crash") /\ proc' = Working
      /\ events' = [left |-> left, seen |-> events.seen \cup kinds]
      /\ UNCHANGED <<gmail, records, msg, thread, entry, request, jobs, want>>
  BY DEF Crash, IInv
<1>2. left \in [Events -> Nat]
  BY <1>1, SpentIs DEF Events
<1>3. kinds \in SUBSET Kinds
  BY IfIs DEF Kinds
<1> HIDE DEF kinds, left
<1>4. events' \in [left : [Events -> Nat], seen : SUBSET Kinds]
  BY <1>1, <1>2, <1>3 DEF Types
<1>5. proc' \in ProcRec /\ proc'.at = "idle"
  BY <1>1, WorkingIs
<1>6. Types'
  BY <1>1, <1>4, <1>5 DEF Types, ProcRec
<1>7. QED
  BY <1>1, <1>5, <1>6 DEF IInv, Rows

-----------------------------------------------------------------------------
\* The user's requests.
LEMMA StartKeeps ==
  ASSUME IInv, NEW a \in Actions, Start(a)
  PROVE  IInv'
<1> DEFINE q == [action |-> a, entry |-> entry, msg |-> msg, thread |-> thread]
           left == [events.left EXCEPT ![a] = @ - 1]
<1>1. /\ Types /\ Left(a) /\ request' = q /\ events' = [events EXCEPT !.left = left]
      /\ UNCHANGED <<gmail, records, msg, thread, entry, proc, jobs, want>>
  BY DEF Start, IInv
<1>2. left \in [Events -> Nat]
  BY <1>1, SpentIs DEF Events
<1> HIDE DEF left
<1>3. events' \in [left : [Events -> Nat], seen : SUBSET Kinds]
  BY <1>1, <1>2 DEF Types
<1>4. q \in Requests
  BY <1>1 DEF Types, Requests
<1>5. Types'
  BY <1>1, <1>3, <1>4 DEF Types
<1>6. QED
  BY <1>1, <1>5 DEF IInv, Rows

LEMMA AwakeIs ==
  ASSUME gmail[1] # NULL, NEW e
  PROVE  Awake(e) \in Entries
<1>1. Latest(gmail) \in Messages
  BY LatestIs
<1>2. QED
  BY <1>1 DEF Awake, Entries

LEMMA ActedIs ==
  ASSUME gmail[1] # NULL, NEW a \in Actions, NEW e \in Entries
  PROVE  Acted(a, e) \in Entries
<1>1. Chosen(a) \in Change /\ e.labels \in SUBSET Labels
  BY ChosenIs DEF Entries
<1>2. Applied(Chosen(a), e.labels) \in SUBSET Labels
  BY <1>1, AppliedIs
<1>3. [e EXCEPT !.labels = Applied(Chosen(a), @)] \in Entries
  BY <1>2 DEF Entries
<1>4. [e EXCEPT !.snoozed = "asleep", !.labels = @ \ {"inbox"}] \in Entries
  BY <1>1 DEF Entries
<1>5. QED
  BY <1>3, <1>4, AwakeIs DEF Acted

\* What is written back: only what the action changes of the copy.
Saved(a, e) ==
  LET acted == Acted(a, e)
  IN  IF acted = e THEN entry
      ELSE [entry EXCEPT !.labels = acted.labels,
              !.snoozed = IF a \in {"snooze", "unsnooze"} THEN acted.snoozed ELSE @,
              !.upto = IF a = "unsnooze" THEN acted.upto ELSE @]

LEMMA SavedIs ==
  ASSUME gmail[1] # NULL, entry \in Entries, NEW a \in Actions, NEW e \in Entries
  PROVE  Saved(a, e) \in Entries
<1>1. PICK acted \in Entries : acted = Acted(a, e)
  BY ActedIs
<1> DEFINE snoozed == IF a \in {"snooze", "unsnooze"} THEN acted.snoozed ELSE entry.snoozed
           upto == IF a = "unsnooze" THEN acted.upto ELSE entry.upto
<1>2. snoozed \in {NULL, "asleep", "due"} /\ upto \in Messages /\ acted.labels \in SUBSET Labels
  BY DEF Entries
<1>3. Saved(a, e) = IF acted = e THEN entry
                    ELSE [entry EXCEPT !.labels = acted.labels, !.snoozed = snoozed, !.upto = upto]
  BY <1>1 DEF Saved, Entries
<1> HIDE DEF snoozed, upto
<1>4. QED
  BY <1>2, <1>3 DEF Entries

LEMMA OnMessagesIs ==
  ASSUME Types, Rows, NEW q \in Requests, request = q, NEW a \in Actions, OnMessages(a)
  PROVE  msg' \in LabelsOf /\ msg'[1] # NULL /\ thread' \in SUBSET Labels
<1>1. ASSUME NEW m \in Messages
      PROVE  q.msg[m] # NULL => Applied(Chosen(a), q.msg[m]) \in SUBSET Labels
                                /\ Applied(Chosen(a), q.msg[m]) # NULL
  BY ChosenIs, AppliedIs DEF Requests, LabelsOf
<1>2. msg' = [m \in Messages |->
                IF q.msg[m] = NULL \/ Applied(Chosen(a), q.msg[m]) = q.msg[m] THEN msg[m]
                ELSE Applied(Chosen(a), q.msg[m])]
  BY DEF OnMessages
<1>3. msg' \in LabelsOf /\ msg'[1] # NULL
  BY <1>1, <1>2, MessagesAre DEF Types, Rows, LabelsOf
<1>4. thread' = Union(msg')
  BY DEF OnMessages
<1>5. QED
  BY <1>3, <1>4, UnionIs

\* A request's write, step by step.
LEMMA FinishIs ==
  ASSUME IInv, Finish
  PROVE  \E q \in Requests :
           /\ q = request /\ request' = NULL
           /\ q.action \in Actions /\ q.entry \in Entries
           /\ entry' = IF q.action \in {"read", "unread"} THEN [Saved(q.action, q.entry) EXCEPT !.upto = Latest(msg)]
                       ELSE Saved(q.action, q.entry)
           /\ jobs' = [jobs EXCEPT !.labels = @ \cup {Chosen(q.action)}]
           /\ want' = Acted(q.action, [q.entry EXCEPT !.labels = want]).labels
           /\ UNCHANGED <<gmail, records, proc>>
           /\ q.action = "snooze" /\ jobs.wakes > 0 => "late" \in events'.seen
           /\ events' \in [left : [Events -> Nat], seen : SUBSET Kinds] /\ events.seen \subseteq events'.seen
           /\ msg' \in LabelsOf /\ msg'[1] # NULL /\ thread' \in SUBSET Labels
<1>1. Types /\ Rows /\ request # NULL
  BY DEF IInv, Finish
<1>2. PICK q \in Requests : q = request
  BY <1>1 DEF Types
<1>3. q.action \in Actions /\ q.entry \in Entries
  BY DEF Requests
<1>4. /\ request' = NULL
      /\ entry' = IF q.action \in {"read", "unread"} THEN [Saved(q.action, q.entry) EXCEPT !.upto = Latest(msg)]
                  ELSE Saved(q.action, q.entry)
      /\ jobs' = [jobs EXCEPT !.labels = @ \cup {Chosen(q.action)}]
      /\ want' = Acted(q.action, [q.entry EXCEPT !.labels = want]).labels
      /\ UNCHANGED <<gmail, records, proc>>
  BY <1>2 DEF Finish, Saved
<1> DEFINE kinds == If(request.entry # entry \/ request.msg # msg \/ request.thread # thread, "torn")
                    \cup If(Echoing, "crossed") \cup If(request.action = "snooze" /\ jobs.wakes > 0, "late")
                    \cup If(request.action = "unsnooze", "woken")
<1>5. Noting(kinds)
  BY DEF Finish
<1>6. kinds \in SUBSET Kinds /\ (q.action = "snooze" /\ jobs.wakes > 0 => "late" \in kinds)
  <2>1. kinds \in SUBSET Kinds
    BY IfIs DEF Kinds
  <2>2. ASSUME q.action = "snooze", jobs.wakes > 0
        PROVE  "late" \in If(request.action = "snooze" /\ jobs.wakes > 0, "late")
    BY <1>2, <2>2 DEF If
  <2>3. QED
    BY <2>1, <2>2
<1> HIDE DEF kinds
<1>7. /\ events' \in [left : [Events -> Nat], seen : SUBSET Kinds]
      /\ events.seen \subseteq events'.seen
      /\ q.action = "snooze" /\ jobs.wakes > 0 => "late" \in events'.seen
  BY <1>1, <1>5, <1>6, NotingIs
<1>8. msg' \in LabelsOf /\ msg'[1] # NULL /\ thread' \in SUBSET Labels
  <2>1. CASE q.action \in {"read", "unread"}
    <3>1. OnMessages(q.action)
      BY <1>2, <2>1 DEF Finish
    <3>2. QED
      BY <1>1, <1>2, <1>3, <3>1, OnMessagesIs
  <2>2. CASE q.action \in {"archive", "unarchive"}
    <3>1. thread' = Applied(Chosen(q.action), q.thread) /\ UNCHANGED msg
      BY <1>2, <2>2 DEF Finish
    <3>2. q.thread \in SUBSET Labels
      BY DEF Requests
    <3>3. QED
      BY <1>1, <1>3, <3>1, <3>2, ChosenIs, AppliedIs DEF Types, Rows
  <2>3. CASE q.action \notin {"read", "unread", "archive", "unarchive"}
    <3>1. UNCHANGED <<msg, thread>>
      BY <1>2, <2>3 DEF Finish
    <3>2. QED
      BY <1>1, <3>1 DEF Types, Rows
  <2>4. QED
    BY <2>1, <2>2, <2>3
<1>9. QED
  BY <1>2, <1>3, <1>4, <1>7, <1>8

LEMMA FinishKeeps ==
  ASSUME IInv, Finish
  PROVE  IInv'
<1>1. PICK q \in Requests :
        /\ q = request /\ request' = NULL
        /\ q.action \in Actions /\ q.entry \in Entries
        /\ entry' = IF q.action \in {"read", "unread"} THEN [Saved(q.action, q.entry) EXCEPT !.upto = Latest(msg)]
                    ELSE Saved(q.action, q.entry)
        /\ jobs' = [jobs EXCEPT !.labels = @ \cup {Chosen(q.action)}]
        /\ want' = Acted(q.action, [q.entry EXCEPT !.labels = want]).labels
        /\ UNCHANGED <<gmail, records, proc>>
        /\ events' \in [left : [Events -> Nat], seen : SUBSET Kinds]
        /\ msg' \in LabelsOf /\ msg'[1] # NULL /\ thread' \in SUBSET Labels
  BY FinishIs
<1>2. Types /\ Rows /\ gmail[1] # NULL
  BY DEF IInv, Rows
<1>3. entry' \in Entries
  <2>1. Saved(q.action, q.entry) \in Entries
    BY <1>1, <1>2, SavedIs DEF Types
  <2>2. Latest(msg) \in Messages
    BY <1>2, LatestIs DEF Rows
  <2>3. QED
    BY <1>1, <2>1, <2>2 DEF Entries
<1>4. jobs' \in [labels : SUBSET Change, wakes : 0..2]
  BY <1>1, <1>2, ChosenIs DEF Types
<1>5. want' \in SUBSET Labels
  <2>1. [q.entry EXCEPT !.labels = want] \in Entries
    BY <1>1, <1>2 DEF Types, Entries
  <2>2. Acted(q.action, [q.entry EXCEPT !.labels = want]) \in Entries
    BY <1>1, <1>2, <2>1, ActedIs
  <2>3. QED
    BY <1>1, <2>2 DEF Entries
<1>6. Types'
  BY <1>1, <1>2, <1>3, <1>4, <1>5 DEF Types
<1>7. QED
  BY <1>1, <1>2, <1>6 DEF IInv, Rows

-----------------------------------------------------------------------------
\* Snoozing.
LEMMA TickKeeps ==
  ASSUME IInv, Tick
  PROVE  IInv' /\ events.seen \subseteq events'.seen /\ entry' = entry
<1> DEFINE kinds == {"woken"} \cup If(records # <<>> \/ Removing, "overtaken")
<1>1. /\ Types /\ jobs.wakes < 2 /\ Noting(kinds)
      /\ jobs' = [wakes |-> jobs.wakes + 1, labels |-> jobs.labels \cup {Chosen("unsnooze")}]
      /\ UNCHANGED <<gmail, records, msg, thread, entry, proc, request, want>>
  BY DEF Tick, IInv
<1>2. kinds \in SUBSET Kinds
  BY IfIs DEF Kinds
<1> HIDE DEF kinds
<1>3. events' \in [left : [Events -> Nat], seen : SUBSET Kinds] /\ events.seen \subseteq events'.seen
  BY <1>1, <1>2, NotingIs
<1>4. jobs' \in [labels : SUBSET Change, wakes : 0..2]
  <2>1. jobs.wakes + 1 \in 0..2 /\ jobs.labels \in SUBSET Change
    BY <1>1 DEF Types
  <2>2. Chosen("unsnooze") \in Change
    BY ChosenIs DEF Actions
  <2>3. QED
    BY <1>1, <2>1, <2>2
<1>5. Types'
  BY <1>1, <1>3, <1>4 DEF Types
<1>6. QED
  BY <1>1, <1>3, <1>5 DEF IInv, Rows

LEMMA WakeKeeps ==
  ASSUME IInv, Wake
  PROVE  IInv' /\ events.seen \subseteq events'.seen
<1>1. /\ Types /\ jobs.wakes > 0 /\ gmail[1] # NULL
      /\ \/ jobs' = [jobs EXCEPT !.wakes = @ - 1] /\ UNCHANGED events
         \/ Left("again") /\ Occur("again") /\ UNCHANGED jobs
      /\ IF entry.snoozed = NULL THEN UNCHANGED <<entry, want>>
         ELSE entry' = Awake(entry) /\ want' = Labels
      /\ UNCHANGED <<gmail, records, msg, thread, proc, request>>
  BY DEF Wake, IInv, Rows
<1>2. /\ events' \in [left : [Events -> Nat], seen : SUBSET Kinds] /\ events.seen \subseteq events'.seen
      /\ jobs' \in [labels : SUBSET Change, wakes : 0..2]
  <2>1. CASE jobs' = [jobs EXCEPT !.wakes = @ - 1] /\ UNCHANGED events
    <3>1. jobs.wakes - 1 \in 0..2
      BY <1>1 DEF Types
    <3>2. QED
      BY <1>1, <2>1, <3>1 DEF Types
  <2>2. CASE Left("again") /\ Occur("again") /\ UNCHANGED jobs
    BY <1>1, <2>2, OccurIs DEF Types, Events
  <2>3. QED
    BY <1>1, <2>1, <2>2
<1>3. entry' \in Entries /\ want' \in SUBSET Labels
  BY <1>1, AwakeIs DEF Types
<1>4. Types'
  BY <1>1, <1>2, <1>3 DEF Types
<1>5. QED
  BY <1>1, <1>2, <1>4 DEF IInv, Rows

LEMMA ExpireKeeps ==
  ASSUME IInv, Expire
  PROVE  IInv'
<1>1. /\ Types /\ entry' = [entry EXCEPT !.snoozed = "due"]
      /\ UNCHANGED <<gmail, records, msg, thread, proc, request, jobs, want, events>>
  BY DEF Expire, IInv
<1>2. entry' \in Entries
  BY <1>1 DEF Types, Entries
<1>3. Types'
  BY <1>1, <1>2 DEF Types
<1>4. QED
  BY <1>1, <1>3 DEF IInv, Rows

-----------------------------------------------------------------------------
(***************************************************************************)
(* The theorems                                                            *)
(***************************************************************************)
LEMMA InitHolds == Init => IInv
<1>1. Labels # NULL /\ Labels \in SUBSET Labels
  BY MailboxAssumption
<1>2. ASSUME Init
      PROVE  /\ gmail \in LabelsOf /\ gmail[1] = Labels /\ msg = gmail
             /\ records = <<>> /\ thread = Labels /\ entry = [labels |-> Labels, snoozed |-> NULL, upto |-> 1]
             /\ proc = Working /\ request = NULL /\ jobs = [labels |-> {}, wakes |-> 0] /\ want = Labels
             /\ events.left \in [Events -> Nat] /\ events = [left |-> events.left, seen |-> {}]
  <2>1. \E left \in Starts : events = [left |-> left, seen |-> {}]
    BY <1>2 DEF Init
  <2>2. events.left \in [Events -> Nat] /\ events = [left |-> events.left, seen |-> {}]
    BY <2>1, MailboxAssumption
  <2>3. gmail = [m \in Messages |-> IF m = 1 THEN Labels ELSE NULL]
    BY <1>2 DEF Init
  <2>4. gmail \in LabelsOf /\ gmail[1] = Labels
    BY <1>1, <2>3, MessagesAre DEF LabelsOf
  <2>5. QED
    BY <1>2, <2>2, <2>4 DEF Init
<1>3. SUFFICES ASSUME Init
               PROVE  IInv
  OBVIOUS
<1>4. records \in RecordsOf(Known(gmail))
  BY <1>2, <1>3, EmptySeq DEF RecordsOf
<1>5. entry \in Entries
  BY <1>1, <1>2, <1>3, MessagesAre DEF Entries
<1>6. jobs \in [labels : SUBSET Change, wakes : 0..2] /\ events \in [left : [Events -> Nat], seen : SUBSET Kinds]
  BY <1>2, <1>3
<1>7. Types
  BY <1>1, <1>2, <1>3, <1>4, <1>5, <1>6, WorkingIs DEF Types, ProcRec
<1>8. QED
  BY <1>1, <1>2, <1>3, <1>7, WorkingIs DEF IInv, Rows

LEMMA NextKeeps == IInv /\ [Next]_vars => IInv'
<1>1. ASSUME IInv, UNCHANGED vars
      PROVE  IInv'
  BY <1>1 DEF vars, IInv, Types, Rows, Known
<1>2. ASSUME IInv, Process
      PROVE  IInv'
  BY <1>2, FetchKeeps, StoreKeeps, SyncKeeps, LeaveKeeps DEF Process
<1>3. ASSUME IInv, Next
      PROVE  IInv'
  BY <1>2, <1>3, ArriveKeeps, InGmailKeeps, LabelJobKeeps, CrashKeeps, StartKeeps, FinishKeeps,
     ExpireKeeps, TickKeeps, WakeKeeps DEF Next
<1>4. QED
  BY <1>1, <1>3

LEMMA InvariantHolds == Spec => []IInv
BY InitHolds, NextKeeps, PTL DEF Spec

\* TypeOK, the shape of every variable, holds for a thread of any length.
THEOREM TypeCorrect == Spec => []TypeOK
<1>1. ASSUME IInv
      PROVE  TypeOK
  <2>1. Types
    BY <1>1 DEF IInv
  <2>2. records \in Seq([of : Messages, adds : BOOLEAN])
    <3> DEFINE R == [of : Known(gmail), adds : BOOLEAN]
               S == [of : Messages, adds : BOOLEAN]
    <3>1. R \subseteq S
      BY DEF Known
    <3>2. records \in Seq(R)
      BY <2>1 DEF Types, RecordsOf
    <3> HIDE DEF R, S
    <3>3. records \in Seq(S)
      BY <3>1, <3>2, SeqMonotonic
    <3>4. QED
      BY <3>3 DEF S
  <2>3. request = NULL \/ request \in [action : Actions, entry : Entries, msg : LabelsOf, thread : SUBSET Labels]
    BY <2>1 DEF Types, Requests
  <2>4. QED
    BY <2>1, <2>2, <2>3 DEF Types, TypeOK
<1>2. QED
  BY <1>1, InvariantHolds, PTL

\* What keeps LateIsNoted: what has been seen is not forgotten, an entry falls asleep only
\* by a request, which notes the jobs that wait, and a tick finds the entry due.
LEMMA QuietSteps ==
  ASSUME IInv, Next
  PROVE  \/ /\ events.seen \subseteq events'.seen
            /\ entry'.snoozed = "asleep" => entry.snoozed = "asleep" /\ jobs'.wakes <= jobs.wakes
         \/ Finish \/ Tick \/ Wake
<1>1. Types
  BY DEF IInv
<1>2. jobs.wakes \in 0..2
  BY <1>1 DEF Types
<1>3. CASE \E m \in Messages \ {1} : Arrive(m)
  BY <1>2, <1>3 DEF Arrive
<1>4. ASSUME NEW c \in Change, InGmail(c)
      PROVE  events.seen \subseteq events'.seen /\ UNCHANGED <<entry, jobs>>
  BY <1>4 DEF InGmail
<1>5. ASSUME NEW c \in Change, LabelJob(c)
      PROVE  events.seen \subseteq events'.seen /\ UNCHANGED entry /\ jobs'.wakes = jobs.wakes
  <2>1. CASE jobs' = [jobs EXCEPT !.labels = @ \ {c}] /\ UNCHANGED events
    BY <1>1, <1>5, <2>1 DEF LabelJob, Types
  <2>2. CASE Left("again") /\ Occur("again") /\ UNCHANGED jobs
    BY <1>1, <1>5, <2>2, OccurIs DEF LabelJob, Events
  <2>3. QED
    BY <1>5, <2>1, <2>2 DEF LabelJob
<1>6. CASE Fetch \/ Store
  BY <1>2, <1>6 DEF Fetch, Store
<1>7. CASE Sync
  <2>1. entry' = Synced(entry, proc.copy) /\ UNCHANGED <<jobs, events>>
    BY <1>7 DEF Sync
  <2>2. entry'.snoozed = NULL \/ entry'.snoozed = entry.snoozed
    BY <2>1 DEF Synced
  <2>3. QED
    BY <1>2, <2>1, <2>2, MailboxAssumption
<1>8. CASE Leave
  <2>1. entry' = [entry EXCEPT !.labels = @ \ {"inbox"}] /\ UNCHANGED <<jobs, events>>
    BY <1>8 DEF Leave
  <2>2. entry'.snoozed = entry.snoozed
    BY <1>1, <2>1 DEF Types, Entries
  <2>3. QED
    BY <1>2, <2>1, <2>2
<1>9. CASE Crash
  BY <1>2, <1>9 DEF Crash
<1>10. ASSUME NEW a \in Actions, Start(a)
       PROVE  events.seen \subseteq events'.seen /\ UNCHANGED <<entry, jobs>>
  BY <1>1, <1>10 DEF Start, Types
<1>11. CASE Expire
  <2>1. entry' = [entry EXCEPT !.snoozed = "due"] /\ UNCHANGED <<jobs, events>>
    BY <1>11 DEF Expire
  <2>2. entry'.snoozed = "due"
    BY <1>1, <2>1 DEF Types, Entries
  <2>3. QED
    BY <2>1, <2>2
<1>12. QED
  BY <1>2, <1>3, <1>4, <1>5, <1>6, <1>7, <1>8, <1>9, <1>10, <1>11 DEF Next, Process

LEMMA LateKeeps ==
  ASSUME IInv, LateIsNoted, [Next]_vars
  PROVE  LateIsNoted'
<1>1. Types
  BY DEF IInv
<1>2. jobs.wakes \in 0..2 /\ "asleep" # "due" /\ NULL # "asleep"
  BY <1>1, MailboxAssumption DEF Types
<1>3. CASE UNCHANGED vars
  BY <1>3 DEF vars, LateIsNoted
<1>4. CASE Finish
  <2>1. PICK q \in Requests :
          /\ q.action \in Actions /\ q.entry \in Entries
          /\ entry' = IF q.action \in {"read", "unread"} THEN [Saved(q.action, q.entry) EXCEPT !.upto = Latest(msg)]
                      ELSE Saved(q.action, q.entry)
          /\ jobs' = [jobs EXCEPT !.labels = @ \cup {Chosen(q.action)}]
          /\ q.action = "snooze" /\ jobs.wakes > 0 => "late" \in events'.seen
          /\ events.seen \subseteq events'.seen
    BY <1>4, FinishIs
  <2>2. jobs'.wakes = jobs.wakes
    BY <1>1, <2>1 DEF Types
  <2>3. CASE q.action = "snooze"
    BY <2>1, <2>2, <2>3 DEF LateIsNoted
  <2>4. CASE q.action # "snooze"
    <3>1. entry'.snoozed \in {entry.snoozed, NULL}
      <4>1. Saved(q.action, q.entry).snoozed \in {entry.snoozed, NULL}
        BY <1>1, <2>1, <2>4 DEF Saved, Acted, Awake, Types, Entries
      <4>2. Saved(q.action, q.entry) \in Entries
        BY <1>1, <2>1, SavedIs DEF Types, IInv, Rows
      <4>3. QED
        BY <2>1, <4>1, <4>2 DEF Entries
    <3>2. QED
      BY <1>2, <2>1, <2>2, <3>1 DEF LateIsNoted
  <2>5. QED
    BY <2>3, <2>4
<1>5. CASE Tick
  <2>1. entry.snoozed = "due" /\ entry' = entry
    BY <1>5 DEF Tick
  <2>2. QED
    BY <1>2, <2>1 DEF LateIsNoted
<1>6. CASE Wake
  <2>1. entry'.snoozed = NULL
    BY <1>6 DEF Wake, Awake
  <2>2. QED
    BY <1>2, <2>1 DEF LateIsNoted
<1>7. CASE /\ events.seen \subseteq events'.seen
           /\ entry'.snoozed = "asleep" => entry.snoozed = "asleep" /\ jobs'.wakes <= jobs.wakes
  <2>1. SUFFICES ASSUME jobs'.wakes > 0, entry'.snoozed = "asleep"
                 PROVE  "late" \in events'.seen
    BY DEF LateIsNoted
  <2>2. CASE jobs.wakes > 0
    BY <1>7, <2>1, <2>2 DEF LateIsNoted
  <2>3. CASE jobs.wakes = 0
    <3>1. jobs'.wakes <= 0 /\ jobs'.wakes > 0
      BY <1>7, <2>1, <2>3
    <3>2. jobs'.wakes \in Nat
      <4>1. IInv'
        BY NextKeeps
      <4>2. QED
        BY <4>1 DEF IInv, Types
    <3>3. QED
      BY <3>1, <3>2
  <2>4. QED
    BY <1>2, <2>2, <2>3
<1>8. QED
  BY <1>3, <1>4, <1>5, <1>6, <1>7, QuietSteps

LEMMA LateHolds == Spec => []LateIsNoted
<1>1. Init => LateIsNoted
  BY DEF Init, LateIsNoted
<1>2. QED
  BY <1>1, LateKeeps, InvariantHolds, PTL DEF Spec

\* SnoozeHolds: a snoozed entry sleeps until its time, unless a message that it did not
\* have comes or the user wakes it, or a job that waited when it was snoozed does.
THEOREM SnoozeHoldsAlways == Spec => SnoozeHolds
<1>1. ASSUME IInv, LateIsNoted, [Next]_vars
      PROVE  [entry.snoozed = "asleep" /\ entry'.snoozed = NULL /\ Without({"late"})
                => entry'.upto > entry.upto \/ (request # NULL /\ request.action = "unsnooze")]_vars
  <2>1. SUFFICES ASSUME entry.snoozed = "asleep", entry'.snoozed = NULL, Without({"late"}), Next
                 PROVE  entry'.upto > entry.upto \/ (request # NULL /\ request.action = "unsnooze")
    BY <1>1
  <2>2. Types /\ entry \in Entries /\ NULL # "asleep"
    BY <1>1, MailboxAssumption DEF IInv, Types
  <2>3. jobs.wakes = 0
    <3>1. "late" \notin events.seen
      BY <2>1 DEF Without
    <3>2. jobs.wakes \in 0..2 /\ ~(jobs.wakes > 0)
      BY <1>1, <2>1, <2>2, <3>1 DEF LateIsNoted, Types
    <3>3. QED
      BY <3>2
  <2>4. entry' # entry
    BY <2>1, <2>2
  <2>5. CASE Sync
    <3>1. entry' = Synced(entry, proc.copy)
      BY <2>5 DEF Sync
    <3>2. CASE Latest(proc.copy) > entry.upto
      <4>1. entry'.upto = Latest(proc.copy)
        BY <3>1 DEF Synced
      <4>2. QED
        BY <3>2, <4>1
    <3>3. CASE ~(Latest(proc.copy) > entry.upto)
      <4>1. entry'.snoozed = entry.snoozed
        BY <3>1, <3>3 DEF Synced
      <4>2. QED
        BY <2>1, <2>2, <4>1
    <3>4. QED
      BY <3>2, <3>3
  <2>6. CASE Leave
    <3>1. entry' = [entry EXCEPT !.labels = @ \ {"inbox"}]
      BY <2>6 DEF Leave
    <3>2. entry'.snoozed = entry.snoozed
      BY <2>2, <3>1 DEF Entries
    <3>3. QED
      BY <2>1, <2>2, <3>2
  <2>7. CASE Finish
    <3>1. request # NULL
      BY <2>7 DEF Finish
    <3>2. PICK q \in Requests :
            /\ q = request /\ q.action \in Actions /\ q.entry \in Entries
            /\ entry' = IF q.action \in {"read", "unread"} THEN [Saved(q.action, q.entry) EXCEPT !.upto = Latest(msg)]
                        ELSE Saved(q.action, q.entry)
      BY <1>1, <2>7, FinishIs
    <3>3. Saved(q.action, q.entry) \in Entries
      BY <1>1, <2>2, <3>2, SavedIs DEF IInv, Rows
    <3>4. entry'.snoozed = Saved(q.action, q.entry).snoozed
      BY <3>2, <3>3 DEF Entries
    <3>5. CASE q.action = "snooze"
      <4>1. PICK acted \in Entries : acted = Acted(q.action, q.entry)
        BY <1>1, <3>2, ActedIs DEF IInv, Rows
      <4>2. acted # q.entry => acted.snoozed = "asleep"
        BY <3>2, <3>5, <4>1 DEF Acted, Entries
      <4>3. Saved(q.action, q.entry).snoozed = IF acted = q.entry THEN entry.snoozed ELSE acted.snoozed
        BY <2>2, <3>5, <4>1 DEF Saved, Entries
      <4>4. QED
        BY <2>1, <2>2, <3>4, <4>2, <4>3
    <3>6. CASE q.action \notin {"snooze", "unsnooze"}
      <4>1. Saved(q.action, q.entry).snoozed = entry.snoozed
        BY <2>2, <3>6 DEF Saved, Entries
      <4>2. QED
        BY <2>1, <2>2, <3>4, <4>1
    <3>7. QED
      BY <3>1, <3>2, <3>5, <3>6
  <2>8. CASE Expire
    BY <2>1, <2>2, <2>8, MailboxAssumption DEF Expire, Entries
  <2>9. CASE Wake
    BY <2>3, <2>9 DEF Wake
  <2>10. CASE ~(Sync \/ Leave \/ Finish \/ Expire \/ Wake)
    BY <2>1, <2>4, <2>10 DEF Next, Process, Arrive, InGmail, LabelJob, Fetch, Store, Crash, Start, Tick
  <2>11. QED
    BY <2>5, <2>6, <2>7, <2>8, <2>9, <2>10
<1>2. QED
  BY <1>1, InvariantHolds, LateHolds, PTL DEF Spec, SnoozeHolds
=============================================================================
