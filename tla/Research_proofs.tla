---------------------------- MODULE Research_proofs ----------------------------
(***************************************************************************)
(* Proofs about Research for any depth, breadth, number of queries and     *)
(* faults: the type invariant, that the report is mailed once, and that it *)
(* is written from every query when they run one after the other.          *)
(***************************************************************************)
EXTENDS Research, SequenceTheorems, TLAPS

IterationRec == [depth : 0..MaxDepth - 1]
QueryRec == [of : Nat, attempt : Nat,
             at : {"queued", "searching", "reviewed", "spawned", "enqueueing", "finished"}]
RowRec == [job : Nat, attempt : Nat]
ReportRec(done) == [at : {"queued", "written", "mailed", "done"}, from : SUBSET done]
MailRec == [at : {"none", "queued", "sent", "done"}, sent : Nat]
EventsRec == [left : [Events -> Nat], seen : SUBSET (Events \cup {"raced", "abandoned"})]

(***************************************************************************)
(* The types: of what is researched, with the row that a search has        *)
(* written until it is reviewed, and of what is reported.                  *)
(***************************************************************************)
Researched ==
  /\ begin \in BOOLEAN
  /\ iterations \in Seq(IterationRec) /\ planning \in SUBSET DOMAIN iterations
  /\ queries \in Seq(QueryRec)
  /\ \A q \in DOMAIN queries : /\ queries[q].of \in DOMAIN iterations
                               /\ queries[q].at = "searching" => RowOf(q) \in rows
  /\ rows \in SUBSET RowRec
  /\ \A r \in rows : r.job \in DOMAIN queries /\ r.attempt <= queries[r.job].attempt
  /\ completed \in SUBSET rows
  /\ events \in EventsRec

Reported ==
  /\ kind \in {"question", "delivery"}
  /\ reports \in Seq(ReportRec(completed))
  /\ response \in (SUBSET completed) \cup {NULL}
  /\ mail \in MailRec

(***************************************************************************)
(* A question's mail is queued with its response, once, and not sent again *)
(* unless the worker dies; a delivery's is sent by its job, of which there *)
(* is one unless two queries enqueued it.                                  *)
(***************************************************************************)
QuestionMailed ==
  kind = "question" =>
    /\ mail.at = "none" <=> response = NULL
    /\ mail.at = "none" => mail.sent = 0
    /\ \A r \in DOMAIN reports : reports[r].at # "mailed"
    /\ Without({"resend"}) => /\ mail.sent <= 1
                              /\ mail.at = "queued" => mail.sent = 0

DeliveryMailed ==
  kind = "delivery" =>
    /\ mail.at \in {"none", "done"}
    /\ Without({"resend", "raced"}) =>
         /\ Len(reports) <= 1 /\ mail.sent <= 1
         /\ reports = <<>> => mail.sent = 0
         /\ \A r \in DOMAIN reports : reports[r].at \in {"queued", "written"} => mail.sent = 0

IInv == Researched /\ Reported /\ QuestionMailed /\ DeliveryMailed

-----------------------------------------------------------------------------
(***************************************************************************)
(* Events, queries and reports                                             *)
(***************************************************************************)
LEMMA OccurIs ==
  ASSUME events \in EventsRec, NEW e \in Events, Occur(e)
  PROVE  events' \in EventsRec /\ events'.seen = events.seen \cup {e}
<1>1. events.left[e] \in Nat /\ events.left[e] > 0
  BY DEF Occur, EventsRec
<1>2. [events.left EXCEPT ![e] = events.left[e] - 1] \in [Events -> Nat]
  BY <1>1 DEF EventsRec
<1>3. QED
  BY <1>2 DEF Occur, EventsRec

LEMMA NotingIs ==
  ASSUME events \in EventsRec, NEW e \in {"raced", "abandoned"}, NEW cond \in BOOLEAN, Noting(cond, e)
  PROVE  events' \in EventsRec /\ events.seen \subseteq events'.seen /\ (cond => e \in events'.seen)
BY DEF Noting, EventsRec

LEMMA QueriesAre ==
  ASSUME queries \in Seq(QueryRec)
  PROVE  /\ Len(queries) \in Nat /\ DOMAIN queries = 1..Len(queries)
         /\ \A q \in DOMAIN queries : queries[q] \in QueryRec /\ q \in Nat /\ RowOf(q) \in RowRec
<1>1. Len(queries) \in Nat /\ DOMAIN queries = 1..Len(queries) /\ queries \in [1..Len(queries) -> QueryRec]
  BY LenProperties
<1>2. QED
  BY <1>1 DEF RowOf, RowRec, QueryRec

LEMMA ReportsAre ==
  ASSUME Reported
  PROVE  /\ Len(reports) \in Nat /\ DOMAIN reports = 1..Len(reports)
         /\ \A r \in DOMAIN reports : reports[r] \in ReportRec(completed)
<1>1. reports \in Seq(ReportRec(completed))
  BY DEF Reported
<1>2. /\ Len(reports) \in Nat /\ DOMAIN reports = 1..Len(reports)
      /\ reports \in [1..Len(reports) -> ReportRec(completed)]
  BY <1>1, LenProperties
<1>3. QED
  BY <1>2

\* Only what is said to move moves.
LEMMA QueryChanges ==
  ASSUME queries \in Seq(QueryRec), NEW q \in DOMAIN queries, NEW d \in QueryRec,
         queries' = [queries EXCEPT ![q] = d]
  PROVE  /\ queries' \in Seq(QueryRec) /\ DOMAIN queries' = DOMAIN queries
         /\ queries'[q] = d /\ \A p \in DOMAIN queries : p # q => queries'[p] = queries[p]
<1>1. Len(queries) \in Nat /\ DOMAIN queries = 1..Len(queries)
  BY QueriesAre
<1>2. /\ queries' \in Seq(QueryRec) /\ Len(queries') = Len(queries)
      /\ \A p \in 1..Len(queries) : queries'[p] = IF p = q THEN d ELSE queries[p]
  BY <1>1, ExceptSeq
<1>3. DOMAIN queries' = 1..Len(queries')
  BY <1>2, LenProperties
<1>4. QED
  BY <1>1, <1>2, <1>3

LEMMA MovedIs ==
  ASSUME queries \in Seq(QueryRec), NEW q, NEW from,
         NEW to \in {"queued", "searching", "reviewed", "spawned", "enqueueing", "finished"},
         Moved(q, from, to)
  PROVE  /\ q \in DOMAIN queries /\ queries[q].at = from
         /\ queries' \in Seq(QueryRec) /\ DOMAIN queries' = DOMAIN queries
         /\ queries'[q].at = to
         /\ \A p \in DOMAIN queries : /\ queries'[p].of = queries[p].of
                                      /\ queries'[p].attempt = queries[p].attempt
                                      /\ p # q => queries'[p].at = queries[p].at
<1> DEFINE d == [queries[q] EXCEPT !.at = to]
<1>1. q \in DOMAIN queries /\ queries[q].at = from /\ queries[q] \in QueryRec
  BY QueriesAre DEF Moved
<1>2. d \in QueryRec /\ d.at = to /\ d.of = queries[q].of /\ d.attempt = queries[q].attempt
  BY <1>1 DEF QueryRec
<1>3. queries' = [queries EXCEPT ![q] = d]
  BY DEF Moved
<1> HIDE DEF d
<1>4. /\ queries' \in Seq(QueryRec) /\ DOMAIN queries' = DOMAIN queries
      /\ queries'[q] = d /\ \A p \in DOMAIN queries : p # q => queries'[p] = queries[p]
  BY <1>1, <1>2, <1>3, QueryChanges
<1>5. QED
  BY <1>1, <1>2, <1>4

LEMMA ReportChanges ==
  ASSUME Reported, NEW r \in DOMAIN reports, NEW d \in ReportRec(completed),
         reports' = [reports EXCEPT ![r] = d]
  PROVE  /\ reports' \in Seq(ReportRec(completed)) /\ DOMAIN reports' = DOMAIN reports
         /\ Len(reports') = Len(reports)
         /\ reports'[r] = d /\ \A p \in DOMAIN reports : p # r => reports'[p] = reports[p]
<1>1. reports \in Seq(ReportRec(completed)) /\ Len(reports) \in Nat /\ DOMAIN reports = 1..Len(reports)
  BY ReportsAre DEF Reported
<1>2. /\ reports' \in Seq(ReportRec(completed)) /\ Len(reports') = Len(reports)
      /\ \A p \in 1..Len(reports) : reports'[p] = IF p = r THEN d ELSE reports[p]
  BY <1>1, ExceptSeq
<1>3. DOMAIN reports' = 1..Len(reports')
  BY <1>2, LenProperties
<1>4. QED
  BY <1>1, <1>2, <1>3

-----------------------------------------------------------------------------
(***************************************************************************)
(* The research                                                            *)
(***************************************************************************)
\* What is reported does not depend on what is researched, and what is completed stays.
LEMMA ResearchLeavesReports ==
  ASSUME IInv, UNCHANGED <<kind, reports, response, mail>>, completed \subseteq completed',
         events.seen \subseteq events'.seen
  PROVE  Reported' /\ QuestionMailed' /\ DeliveryMailed'
<1>1. ReportRec(completed) \subseteq ReportRec(completed')
  BY DEF ReportRec
<1>2. reports \in Seq(ReportRec(completed'))
  BY <1>1, SeqMonotonic DEF IInv, Reported
<1>3. Reported'
  BY <1>2 DEF IInv, Reported
<1>4. Without({"resend"})' => Without({"resend"})
  BY DEF Without
<1>5. Without({"resend", "raced"})' => Without({"resend", "raced"})
  BY DEF Without
<1>6. QuestionMailed' /\ DeliveryMailed'
  BY <1>4, <1>5 DEF IInv, QuestionMailed, DeliveryMailed
<1>7. QED
  BY <1>3, <1>6

\* A new iteration is planned.
LEMMA StartIs ==
  ASSUME iterations \in Seq(IterationRec), planning \in SUBSET DOMAIN iterations,
         NEW i \in IterationRec, Start(i)
  PROVE  /\ iterations' \in Seq(IterationRec) /\ planning' \in SUBSET DOMAIN iterations'
         /\ DOMAIN iterations \subseteq DOMAIN iterations'
<1>1. Len(iterations) \in Nat /\ DOMAIN iterations = 1..Len(iterations)
  BY LenProperties
<1>2. /\ iterations' \in Seq(IterationRec) /\ Len(iterations') = Len(iterations) + 1
      /\ planning' = planning \cup {Len(iterations) + 1}
  BY AppendProperties DEF Start
<1>3. DOMAIN iterations' = 1..(Len(iterations) + 1)
  BY <1>2, LenProperties
<1>4. QED
  BY <1>1, <1>2, <1>3

LEMMA BeginKeeps ==
  ASSUME IInv, Begin
  PROVE  IInv'
<1>1. Researched
  BY DEF IInv
<1>2. Iteration(0) \in IterationRec
  BY ResearchAssumption DEF Iteration, IterationRec
<1>3. /\ iterations' \in Seq(IterationRec) /\ planning' \in SUBSET DOMAIN iterations'
      /\ DOMAIN iterations \subseteq DOMAIN iterations'
  BY <1>1, <1>2, StartIs DEF Begin, Researched
<1>4. events' \in EventsRec /\ events.seen \subseteq events'.seen /\ begin' \in BOOLEAN
  BY <1>1, OccurIs DEF Begin, Researched, Events
<1>5. UNCHANGED <<kind, queries, rows, completed, reports, response, mail>>
  BY DEF Begin
<1>6. Researched'
  BY <1>1, <1>3, <1>4, <1>5 DEF Researched, RowOf
<1>7. QED
  BY <1>4, <1>5, <1>6, ResearchLeavesReports DEF IInv

\* The queries that are planned come after those there are.
LEMMA PlanIs ==
  ASSUME Researched, NEW i \in planning, NEW n \in 0..MaxBreadth, Plan(i, n)
  PROVE  /\ n \in Nat /\ i \in DOMAIN iterations /\ i \in Nat
         /\ queries' \in Seq(QueryRec) /\ Len(queries') = Len(queries) + n
         /\ \A q \in DOMAIN queries : q \in DOMAIN queries' /\ queries'[q] = queries[q]
         /\ \A q \in DOMAIN queries' : q \notin DOMAIN queries => queries'[q] = Queued(i)
<1> DEFINE new == [k \in 1..n |-> Queued(i)]
<1>1. n \in Nat /\ i \in DOMAIN iterations /\ i \in Nat
  BY ResearchAssumption, LenProperties DEF Researched
<1>2. Queued(i) \in QueryRec
  BY <1>1 DEF Queued, QueryRec
<1>3. new \in Seq(QueryRec) /\ Len(new) = n
  BY <1>1, <1>2
<1>4. queries' = queries \o new
  BY DEF Plan
<1>5. /\ queries' \in Seq(QueryRec) /\ Len(queries') = Len(queries) + n
      /\ \A k \in 1..(Len(queries) + n) :
           queries'[k] = IF k <= Len(queries) THEN queries[k] ELSE new[k - Len(queries)]
  BY <1>1, <1>3, <1>4, ConcatProperties DEF Researched
<1>6. Len(queries) \in Nat /\ DOMAIN queries = 1..Len(queries) /\ DOMAIN queries' = 1..(Len(queries) + n)
  BY <1>1, <1>5, LenProperties DEF Researched
<1>7. /\ \A q \in DOMAIN queries : q \in DOMAIN queries' /\ queries'[q] = queries[q]
      /\ \A q \in DOMAIN queries' : q \notin DOMAIN queries => queries'[q] = Queued(i)
  <2>1. ASSUME NEW q \in DOMAIN queries', q \notin DOMAIN queries
        PROVE  queries'[q] = Queued(i)
    <3>1. q - Len(queries) \in 1..n /\ ~(q <= Len(queries))
      BY <1>1, <1>6, <2>1
    <3>2. QED
      BY <1>5, <1>6, <3>1
  <2>2. QED
    BY <1>1, <1>5, <1>6, <2>1
<1>8. QED
  BY <1>1, <1>5, <1>7

LEMMA PlanKeeps ==
  ASSUME IInv, NEW i \in planning, NEW n \in 0..MaxBreadth, Plan(i, n)
  PROVE  IInv'
<1>1. Researched
  BY DEF IInv
<1>2. /\ i \in DOMAIN iterations /\ i \in Nat /\ queries' \in Seq(QueryRec)
      /\ \A q \in DOMAIN queries : q \in DOMAIN queries' /\ queries'[q] = queries[q]
      /\ \A q \in DOMAIN queries' : q \notin DOMAIN queries => queries'[q] = Queued(i)
  BY <1>1, PlanIs
<1>8. events' \in EventsRec /\ events.seen \subseteq events'.seen /\ planning' \in SUBSET DOMAIN iterations
  BY <1>1, OccurIs DEF Plan, Researched, Events
<1>9. UNCHANGED <<kind, begin, iterations, rows, completed, reports, response, mail>>
  BY DEF Plan
<1>10. Researched'
  <2>1. ASSUME NEW q \in DOMAIN queries'
        PROVE  /\ queries'[q].of \in DOMAIN iterations
               /\ queries'[q].at = "searching" => [job |-> q, attempt |-> queries'[q].attempt] \in rows
    BY <1>1, <1>2 DEF Researched, Queued, RowOf
  <2>2. QED
    BY <1>1, <1>2, <1>8, <1>9, <2>1 DEF Researched, RowOf
<1>11. QED
  BY <1>8, <1>9, <1>10, ResearchLeavesReports DEF IInv

\* A query that moves, with the rows as they are after it.
LEMMA MoveKeeps ==
  ASSUME IInv, NEW q, NEW from,
         NEW to \in {"queued", "searching", "reviewed", "spawned", "enqueueing", "finished"},
         Moved(q, from, to), UNCHANGED begin,
         iterations' \in Seq(IterationRec), planning' \in SUBSET DOMAIN iterations',
         DOMAIN iterations \subseteq DOMAIN iterations',
         rows' = rows \/ rows' = rows \cup {RowOf(q)}, to = "searching" => RowOf(q) \in rows',
         completed' \in SUBSET rows', events' \in EventsRec
  PROVE  Researched'
<1>1. Researched /\ queries \in Seq(QueryRec)
  BY DEF IInv, Researched
<1>2. /\ q \in DOMAIN queries
      /\ queries' \in Seq(QueryRec) /\ DOMAIN queries' = DOMAIN queries /\ queries'[q].at = to
      /\ \A p \in DOMAIN queries : /\ queries'[p].of = queries[p].of
                                   /\ queries'[p].attempt = queries[p].attempt
                                   /\ p # q => queries'[p].at = queries[p].at
  BY <1>1, MovedIs
<1>3. RowOf(q) \in RowRec /\ RowOf(q).job = q /\ RowOf(q).attempt = queries[q].attempt
      /\ queries[q].attempt \in Nat
  BY <1>1, <1>2, QueriesAre DEF RowOf, RowRec
<1>4. \A p \in DOMAIN queries' : RowOf(p)' = RowOf(p)
  BY <1>2 DEF RowOf
<1>5. /\ rows' \in SUBSET RowRec
      /\ \A r \in rows' : r.job \in DOMAIN queries' /\ r.attempt <= queries'[r.job].attempt
  BY <1>1, <1>2, <1>3 DEF Researched
<1>6. \A p \in DOMAIN queries' : /\ queries'[p].of \in DOMAIN iterations'
                                 /\ queries'[p].at = "searching" => RowOf(p)' \in rows'
  BY <1>1, <1>2, <1>4 DEF Researched
<1>7. QED
  BY <1>1, <1>2, <1>5, <1>6 DEF Researched

LEMMA SearchKeeps ==
  ASSUME IInv, NEW q, Search(q)
  PROVE  IInv'
<1>1. /\ Moved(q, "queued", "searching") /\ rows' = rows \cup {RowOf(q)}
      /\ UNCHANGED <<kind, begin, iterations, planning, completed, reports, response, mail, events>>
  BY DEF Search
<1>2. Researched'
  BY <1>1, MoveKeeps DEF IInv, Researched
<1>3. QED
  BY <1>1, <1>2, ResearchLeavesReports DEF IInv

LEMMA ReviewKeeps ==
  ASSUME IInv, NEW q, Review(q)
  PROVE  IInv'
<1>1. /\ Moved(q, "searching", "reviewed") /\ completed' = completed \cup {RowOf(q)}
      /\ UNCHANGED <<kind, begin, iterations, planning, rows, reports, response, mail, events>>
  BY DEF Review
<1>2. RowOf(q) \in rows
  BY <1>1 DEF Moved, IInv, Researched
<1>3. Researched'
  BY <1>1, <1>2, MoveKeeps DEF IInv, Researched
<1>4. QED
  BY <1>1, <1>3, ResearchLeavesReports DEF IInv

LEMMA SpawnKeeps ==
  ASSUME IInv, NEW q, Spawn(q)
  PROVE  IInv'
<1> DEFINE i == iterations[queries[q].of]
<1>1. /\ Moved(q, "reviewed", "spawned")
      /\ IF i.depth < MaxDepth - 1 THEN Start(After(i)) ELSE UNCHANGED <<iterations, planning>>
      /\ UNCHANGED <<kind, begin, rows, completed, reports, response, mail, events>>
  BY DEF Spawn
<1>2. iterations \in Seq(IterationRec) /\ planning \in SUBSET DOMAIN iterations
  BY DEF IInv, Researched
<1>3. i \in IterationRec
  <2>1. queries[q].of \in DOMAIN iterations
    BY <1>1 DEF Moved, IInv, Researched
  <2>2. DOMAIN iterations = 1..Len(iterations) /\ iterations \in [1..Len(iterations) -> IterationRec]
    BY <1>2, LenProperties
  <2>3. QED
    BY <2>1, <2>2
<1>4. i.depth < MaxDepth - 1 => After(i) \in IterationRec
  BY <1>3, ResearchAssumption DEF After, Iteration, IterationRec
<1> HIDE DEF i
<1>5. /\ iterations' \in Seq(IterationRec) /\ planning' \in SUBSET DOMAIN iterations'
      /\ DOMAIN iterations \subseteq DOMAIN iterations'
  BY <1>1, <1>2, <1>4, StartIs
<1>6. Researched'
  BY <1>1, <1>5, MoveKeeps DEF IInv, Researched
<1>7. QED
  BY <1>1, <1>6, ResearchLeavesReports DEF IInv

LEMMA CheckKeeps ==
  ASSUME IInv, NEW q, Check(q)
  PROVE  IInv'
<1>1. /\ \E to \in {"enqueueing", "finished"} : Moved(q, "spawned", to)
      /\ UNCHANGED <<kind, begin, iterations, planning, rows, completed, reports, response, mail, events>>
  BY DEF Check
<1>2. Researched'
  BY <1>1, MoveKeeps DEF IInv, Researched
<1>3. QED
  BY <1>1, <1>2, ResearchLeavesReports DEF IInv

LEMMA FailKeeps ==
  ASSUME IInv, NEW q, Fail(q)
  PROVE  IInv'
<1> DEFINE d == [queries[q] EXCEPT !.at = "queued", !.attempt = queries[q].attempt + 1]
<1>1. Researched /\ q \in DOMAIN queries /\ queries[q] \in QueryRec /\ queries \in Seq(QueryRec)
      /\ \A r \in rows : r \in RowRec
  BY QueriesAre DEF Fail, IInv, Researched
<1>2. /\ d \in QueryRec /\ d.at = "queued" /\ d.of = queries[q].of
      /\ d.attempt = queries[q].attempt + 1 /\ queries[q].attempt \in Nat
  <2>1. queries[q].attempt \in Nat /\ queries[q].attempt + 1 \in Nat
    BY <1>1 DEF QueryRec
  <2>2. QED
    BY <1>1, <2>1 DEF QueryRec
<1>3. queries' = [queries EXCEPT ![q] = d]
  BY <1>1 DEF Fail
<1> HIDE DEF d
<1>4. /\ queries' \in Seq(QueryRec) /\ DOMAIN queries' = DOMAIN queries
      /\ queries'[q] = d /\ \A p \in DOMAIN queries : p # q => queries'[p] = queries[p]
  BY <1>1, <1>2, <1>3, QueryChanges
<1>5. events' \in EventsRec /\ events.seen \subseteq events'.seen
  <2>1. events.left["fail"] - 1 \in Nat
    BY <1>1 DEF Fail, Researched, EventsRec, Events
  <2>2. QED
    BY <1>1, <2>1 DEF Fail, Researched, EventsRec, Events
<1>6. UNCHANGED <<kind, begin, iterations, planning, rows, completed, reports, response, mail>>
  BY DEF Fail
<1>7. \A r \in rows : r.job \in DOMAIN queries' /\ r.attempt <= queries'[r.job].attempt
  <2>1. ASSUME NEW r \in rows
        PROVE  r.job \in DOMAIN queries' /\ r.attempt <= queries'[r.job].attempt
    <3>1. r.job \in DOMAIN queries /\ r.attempt <= queries[r.job].attempt /\ r.attempt \in Nat
      BY <1>1 DEF Researched, RowRec
    <3>2. QED
      BY <1>2, <1>4, <3>1
  <2>2. QED
    BY <2>1
<1>8. \A p \in DOMAIN queries' : /\ queries'[p].of \in DOMAIN iterations
                                 /\ queries'[p].at = "searching" => RowOf(p)' \in rows
  <2>1. ASSUME NEW p \in DOMAIN queries', p # q
        PROVE  RowOf(p)' = RowOf(p)
    BY <1>4, <2>1 DEF RowOf
  <2>2. QED
    BY <1>1, <1>2, <1>4, <2>1 DEF Researched
<1>9. Researched'
  BY <1>1, <1>4, <1>5, <1>6, <1>7, <1>8 DEF Researched
<1>10. QED
  BY <1>5, <1>6, <1>9, ResearchLeavesReports DEF IInv

-----------------------------------------------------------------------------
(***************************************************************************)
(* The report                                                              *)
(***************************************************************************)
\* A second job is one that two queries enqueued.
LEMMA EnqueueKeeps ==
  ASSUME IInv, NEW q, Enqueue(q)
  PROVE  IInv'
<1> DEFINE new == [at |-> "queued", from |-> {}]
<1>1. /\ Moved(q, "enqueueing", "finished") /\ reports' = Append(reports, new)
      /\ UNCHANGED <<kind, begin, iterations, planning, rows, completed, response, mail>>
  BY DEF Enqueue
<1>2. /\ events' \in EventsRec /\ events.seen \subseteq events'.seen
      /\ reports # <<>> => "raced" \in events'.seen
  BY NotingIs DEF Enqueue, IInv, Researched
<1>3. Researched'
  BY <1>1, <1>2, MoveKeeps DEF IInv, Researched
<1>4. new \in ReportRec(completed) /\ reports \in Seq(ReportRec(completed)) /\ Len(reports) \in Nat
      /\ DOMAIN reports = 1..Len(reports)
  BY ReportsAre DEF ReportRec, IInv, Reported
<1>5. /\ reports' \in Seq(ReportRec(completed)) /\ Len(reports') = Len(reports) + 1
      /\ \A r \in 1..Len(reports) : reports'[r] = reports[r]
      /\ reports'[Len(reports) + 1] = new /\ reports' # <<>>
  BY <1>1, <1>4, AppendProperties
<1>6. DOMAIN reports' = 1..(Len(reports) + 1)
  BY <1>5, LenProperties
<1>7. Reported'
  BY <1>1, <1>5 DEF IInv, Reported
<1>8. QuestionMailed'
  <2>1. ASSUME kind = "question", NEW r \in DOMAIN reports'
        PROVE  reports'[r].at # "mailed"
    <3>1. CASE r \in 1..Len(reports)
      BY <1>4, <1>5, <2>1, <3>1 DEF IInv, QuestionMailed
    <3>2. CASE r = Len(reports) + 1
      <4>1. new.at # "mailed"
        OBVIOUS
      <4>2. QED
        BY <1>5, <3>2, <4>1
    <3>3. QED
      BY <1>4, <1>6, <2>1, <3>1, <3>2
  <2>2. Without({"resend"})' => Without({"resend"})
    BY <1>2 DEF Without
  <2>3. SUFFICES ASSUME kind = "question"
                 PROVE  /\ mail.at = "none" <=> response = NULL
                        /\ mail.at = "none" => mail.sent = 0
                        /\ Without({"resend"})' => /\ mail.sent <= 1
                                                   /\ mail.at = "queued" => mail.sent = 0
    BY <1>1, <2>1 DEF QuestionMailed
  <2>4. QED
    BY <2>2, <2>3 DEF IInv, QuestionMailed
<1>9. DeliveryMailed'
  <2> SUFFICES ASSUME kind = "delivery"
               PROVE  /\ mail.at \in {"none", "done"}
                      /\ Without({"resend", "raced"})' =>
                           /\ Len(reports') <= 1 /\ mail.sent <= 1
                           /\ reports' = <<>> => mail.sent = 0
                           /\ \A r \in DOMAIN reports' :
                                reports'[r].at \in {"queued", "written"} => mail.sent = 0
    BY <1>1 DEF DeliveryMailed
  <2>1. Without({"resend", "raced"})' => Without({"resend", "raced"}) /\ reports = <<>>
    BY <1>2 DEF Without
  <2>2. reports = <<>> => Len(reports) = 0
    OBVIOUS
  <2>3. QED
    BY <1>5, <2>1, <2>2 DEF IInv, DeliveryMailed
<1>10. QED
  BY <1>3, <1>7, <1>8, <1>9 DEF IInv

\* What is reported does not change what is researched.
LEMMA ReportingLeavesResearch ==
  ASSUME IInv, UNCHANGED <<begin, iterations, planning, queries, rows, completed>>,
         events' \in EventsRec
  PROVE  Researched'
<1>1. \A q \in DOMAIN queries : RowOf(q)' = RowOf(q)
  BY DEF RowOf
<1>2. QED
  BY <1>1 DEF IInv, Researched

LEMMA WriteKeeps ==
  ASSUME IInv, NEW r, Write(r)
  PROVE  IInv'
<1> DEFINE d == IF kind = "question" /\ response # NULL THEN [reports[r] EXCEPT !.at = "done"]
                ELSE [at |-> "written", from |-> completed]
<1>1. /\ r \in DOMAIN reports /\ reports[r].at = "queued" /\ reports[r] \in ReportRec(completed)
      /\ reports' = [reports EXCEPT ![r] = d] /\ Reported
      /\ UNCHANGED <<kind, begin, iterations, planning, queries, rows, completed, response, mail, events>>
  BY ReportsAre DEF Write, At, IInv
<1>2. d \in ReportRec(completed) /\ d.at \in {"written", "done"}
  BY <1>1 DEF ReportRec
<1> HIDE DEF d
<1>3. /\ reports' \in Seq(ReportRec(completed)) /\ DOMAIN reports' = DOMAIN reports
      /\ Len(reports') = Len(reports)
      /\ reports'[r] = d /\ \A p \in DOMAIN reports : p # r => reports'[p] = reports[p]
  BY <1>1, <1>2, ReportChanges
<1>4. Researched' /\ Reported'
  BY <1>1, <1>3, ReportingLeavesResearch DEF IInv, Researched, Reported
<1>5. QuestionMailed'
  BY <1>1, <1>2, <1>3 DEF IInv, QuestionMailed, Without
<1>6. DeliveryMailed'
  <2>1. reports # <<>> /\ reports' # <<>>
    BY <1>1, <1>3
  <2>2. QED
    BY <1>1, <1>2, <1>3, <2>1 DEF IInv, DeliveryMailed, Without
<1>7. QED
  BY <1>4, <1>5, <1>6 DEF IInv

\* Only the first response queues the mail.
LEMMA RecordKeeps ==
  ASSUME IInv, NULL \notin SUBSET RowRec, NEW r, Record(r)
  PROVE  IInv'
<1> DEFINE d == [reports[r] EXCEPT !.at = "done"]
<1>1. /\ r \in DOMAIN reports /\ reports[r] \in ReportRec(completed) /\ kind = "question"
      /\ reports' = [reports EXCEPT ![r] = d] /\ Reported /\ completed \in SUBSET RowRec
      /\ UNCHANGED <<kind, begin, iterations, planning, queries, rows, completed, events>>
  BY ReportsAre DEF Record, At, IInv, Researched
<1>2. d \in ReportRec(completed) /\ d.at = "done" /\ reports[r].from \in SUBSET completed
  BY <1>1 DEF ReportRec
<1> HIDE DEF d
<1>3. /\ reports' \in Seq(ReportRec(completed)) /\ DOMAIN reports' = DOMAIN reports
      /\ reports'[r] = d /\ \A p \in DOMAIN reports : p # r => reports'[p] = reports[p]
  BY <1>1, <1>2, ReportChanges
<1>4. \/ response # NULL /\ UNCHANGED <<response, mail>>
      \/ /\ response = NULL /\ response' = reports[r].from /\ mail' = [mail EXCEPT !.at = "queued"]
         /\ response' # NULL /\ mail.at = "none"
  BY <1>1, <1>2 DEF Record, IInv, QuestionMailed
<1>5. /\ mail' \in MailRec
      /\ \/ mail' = mail /\ response' = response
         \/ /\ mail'.at = "queued" /\ mail'.sent = mail.sent
            /\ response' # NULL /\ mail.at = "none"
  BY <1>1, <1>4 DEF Reported, MailRec
<1>6. Researched' /\ Reported'
  BY <1>1, <1>2, <1>3, <1>4, <1>5, ReportingLeavesResearch DEF IInv, Researched, Reported
<1>7. QuestionMailed'
  <2>1. \A p \in DOMAIN reports' : reports'[p].at # "mailed"
    BY <1>1, <1>2, <1>3 DEF IInv, QuestionMailed
  <2>2. Without({"resend"})' = Without({"resend"})
    BY <1>1 DEF Without
  <2>3. QED
    BY <1>1, <1>5, <2>1, <2>2 DEF IInv, QuestionMailed
<1>8. DeliveryMailed'
  BY <1>1 DEF DeliveryMailed
<1>9. QED
  BY <1>6, <1>7, <1>8 DEF IInv

LEMMA SendKeeps ==
  ASSUME IInv, Send
  PROVE  IInv'
<1>1. /\ mail.at = "queued" /\ mail' = [at |-> "sent", sent |-> mail.sent + 1] /\ mail \in MailRec
      /\ UNCHANGED <<kind, begin, iterations, planning, queries, rows, completed, reports, response, events>>
  BY DEF Send, IInv, Reported
<1>2. kind = "question"
  BY <1>1 DEF IInv, Reported, DeliveryMailed
<1>3. mail' \in MailRec /\ mail'.at = "sent" /\ mail'.sent = mail.sent + 1 /\ mail.sent \in Nat
  BY <1>1 DEF MailRec
<1>4. Researched' /\ Reported'
  BY <1>1, <1>3, ReportingLeavesResearch DEF IInv, Researched, Reported
<1>5. Without({"resend"})' = Without({"resend"})
  BY <1>1 DEF Without
<1>6. QuestionMailed' /\ DeliveryMailed'
  BY <1>1, <1>2, <1>3, <1>5 DEF IInv, QuestionMailed, DeliveryMailed
<1>7. QED
  BY <1>4, <1>6 DEF IInv

LEMMA SaveIdKeeps ==
  ASSUME IInv, SaveId
  PROVE  IInv'
<1>1. /\ mail.at = "sent" /\ mail \in MailRec /\ events \in EventsRec
      /\ \/ mail' = [mail EXCEPT !.at = "done"] /\ UNCHANGED events
         \/ Occur("resend") /\ mail' = [mail EXCEPT !.at = "queued"]
      /\ UNCHANGED <<kind, begin, iterations, planning, queries, rows, completed, reports, response>>
  BY DEF SaveId, IInv, Reported, Researched
<1>2. kind = "question"
  BY <1>1 DEF IInv, Reported, DeliveryMailed
<1>3. /\ events' \in EventsRec /\ events.seen \subseteq events'.seen
      /\ mail' \in MailRec /\ mail'.sent = mail.sent
      /\ mail'.at = "done" \/ (mail'.at = "queued" /\ "resend" \in events'.seen)
  BY <1>1, OccurIs DEF MailRec, Events
<1>4. Researched' /\ Reported'
  BY <1>1, <1>3, ReportingLeavesResearch DEF IInv, Researched, Reported
<1>5. Without({"resend"})' => Without({"resend"}) /\ mail'.at = "done"
  BY <1>3 DEF Without
<1>6. QuestionMailed' /\ DeliveryMailed'
  BY <1>1, <1>2, <1>3, <1>5 DEF IInv, QuestionMailed, DeliveryMailed
<1>7. QED
  BY <1>4, <1>6 DEF IInv

\* A delivery's mail is sent by the job that has written it.
LEMMA PublishKeeps ==
  ASSUME IInv, NEW r, Publish(r)
  PROVE  IInv'
<1> DEFINE d == [reports[r] EXCEPT !.at = "mailed"]
<1>1. /\ r \in DOMAIN reports /\ reports[r] \in ReportRec(completed) /\ kind = "delivery"
      /\ reports[r].at = "written" /\ mail' = [at |-> "done", sent |-> mail.sent + 1]
      /\ reports' = [reports EXCEPT ![r] = d] /\ Reported /\ mail \in MailRec
      /\ UNCHANGED <<kind, begin, iterations, planning, queries, rows, completed, response, events>>
  BY ReportsAre DEF Publish, At, IInv, Reported
<1>2. d \in ReportRec(completed) /\ d.at = "mailed"
  BY <1>1 DEF ReportRec
<1> HIDE DEF d
<1>3. /\ reports' \in Seq(ReportRec(completed)) /\ DOMAIN reports' = DOMAIN reports
      /\ Len(reports') = Len(reports)
      /\ reports'[r] = d /\ \A p \in DOMAIN reports : p # r => reports'[p] = reports[p]
  BY <1>1, <1>2, ReportChanges
<1>4. mail' \in MailRec /\ mail'.at = "done" /\ mail'.sent = mail.sent + 1 /\ mail.sent \in Nat
  BY <1>1 DEF MailRec
<1>5. Researched' /\ Reported'
  BY <1>1, <1>3, <1>4, ReportingLeavesResearch DEF IInv, Researched, Reported
<1>6. DeliveryMailed'
  <2> SUFFICES ASSUME Without({"resend", "raced"})
               PROVE  /\ Len(reports') <= 1 /\ mail'.sent <= 1
                      /\ reports' = <<>> => mail'.sent = 0
                      /\ \A p \in DOMAIN reports' :
                           reports'[p].at \in {"queued", "written"} => mail'.sent = 0
    BY <1>1, <1>4 DEF DeliveryMailed, Without
  <2>1. Len(reports) <= 1 /\ mail.sent = 0
    BY <1>1 DEF IInv, DeliveryMailed
  <2>2. DOMAIN reports = 1..Len(reports) /\ Len(reports) \in Nat
    BY <1>1, ReportsAre
  <2>3. \A p \in DOMAIN reports' : p = r
    BY <1>1, <1>3, <2>1, <2>2
  <2>4. reports' # <<>>
    BY <1>1, <1>3
  <2>5. QED
    BY <1>2, <1>3, <1>4, <2>1, <2>3, <2>4
<1>7. QuestionMailed'
  BY <1>1 DEF QuestionMailed
<1>8. QED
  BY <1>5, <1>6, <1>7 DEF IInv

LEMMA DeliverKeeps ==
  ASSUME IInv, NEW r, Deliver(r)
  PROVE  IInv'
<1> DEFINE d == [reports[r] EXCEPT !.at = "done"]
<1>1. /\ r \in DOMAIN reports /\ reports[r] \in ReportRec(completed)
      /\ reports[r].at = "mailed" /\ response' = reports[r].from
      /\ reports' = [reports EXCEPT ![r] = d] /\ Reported
      /\ UNCHANGED <<kind, begin, iterations, planning, queries, rows, completed, mail, events>>
  BY ReportsAre DEF Deliver, At, IInv, Reported
<1>2. d \in ReportRec(completed) /\ d.at = "done" /\ response' \in SUBSET completed
  BY <1>1 DEF ReportRec
<1> HIDE DEF d
<1>3. /\ reports' \in Seq(ReportRec(completed)) /\ DOMAIN reports' = DOMAIN reports
      /\ Len(reports') = Len(reports)
      /\ reports'[r] = d /\ \A p \in DOMAIN reports : p # r => reports'[p] = reports[p]
  BY <1>1, <1>2, ReportChanges
<1>4. Researched' /\ Reported'
  BY <1>1, <1>2, <1>3, ReportingLeavesResearch DEF IInv, Researched, Reported
<1>5. kind = "delivery"
  BY <1>1 DEF IInv, Reported, QuestionMailed
<1>6. DeliveryMailed'
  <2>1. reports # <<>> /\ reports' # <<>>
    BY <1>1, <1>3
  <2>2. QED
    BY <1>1, <1>2, <1>3, <1>5, <2>1 DEF IInv, DeliveryMailed, Without
<1>7. QuestionMailed'
  BY <1>1, <1>5 DEF QuestionMailed
<1>8. QED
  BY <1>4, <1>6, <1>7 DEF IInv

LEMMA RewriteKeeps ==
  ASSUME IInv, NEW r, Rewrite(r)
  PROVE  IInv'
<1> DEFINE d == [reports[r] EXCEPT !.at = "queued"]
<1>1. /\ r \in DOMAIN reports /\ reports[r] \in ReportRec(completed)
      /\ reports[r].at \in {"written", "mailed"} /\ events \in EventsRec
      /\ Occur(IF At(r, "mailed") THEN "resend" ELSE "rewrite")
      /\ reports' = [reports EXCEPT ![r] = d] /\ Reported
      /\ UNCHANGED <<kind, begin, iterations, planning, queries, rows, completed, response, mail>>
  BY ReportsAre DEF Rewrite, At, IInv, Reported, Researched
<1>2. d \in ReportRec(completed) /\ d.at = "queued"
  BY <1>1 DEF ReportRec
<1> HIDE DEF d
<1>3. /\ reports' \in Seq(ReportRec(completed)) /\ DOMAIN reports' = DOMAIN reports
      /\ Len(reports') = Len(reports)
      /\ reports'[r] = d /\ \A p \in DOMAIN reports : p # r => reports'[p] = reports[p]
  BY <1>1, <1>2, ReportChanges
<1>4. /\ events' \in EventsRec /\ events.seen \subseteq events'.seen
      /\ reports[r].at = "mailed" => "resend" \in events'.seen
  <2>1. "resend" \in Events /\ "rewrite" \in Events
    BY DEF Events
  <2>2. QED
    BY <1>1, <2>1, OccurIs DEF At
<1>5. Researched' /\ Reported'
  BY <1>1, <1>3, <1>4, ReportingLeavesResearch DEF IInv, Researched, Reported
<1>6. QuestionMailed'
  <2>1. Without({"resend"})' => Without({"resend"})
    BY <1>4 DEF Without
  <2>2. QED
    BY <1>1, <1>2, <1>3, <2>1 DEF IInv, QuestionMailed
<1>7. DeliveryMailed'
  <2>1. Without({"resend", "raced"})' => Without({"resend", "raced"}) /\ reports[r].at = "written"
    BY <1>1, <1>4 DEF Without
  <2>2. reports # <<>> /\ reports' # <<>>
    BY <1>1, <1>3
  <2>3. QED
    BY <1>1, <1>2, <1>3, <2>1, <2>2 DEF IInv, DeliveryMailed
<1>8. QED
  BY <1>5, <1>6, <1>7 DEF IInv

-----------------------------------------------------------------------------
LEMMA InitHolds ==
  ASSUME Init
  PROVE  IInv
<1>1. events \in EventsRec /\ events.seen = {}
  BY ResearchAssumption DEF Init, EventsRec
<1>2. Researched
  BY <1>1 DEF Init, Researched
<1>3. Reported
  <2>1. reports \in Seq(ReportRec(completed))
    BY DEF Init
  <2>2. mail \in MailRec
    BY DEF Init, MailRec
  <2>3. QED
    BY <2>1, <2>2 DEF Init, Reported
<1>4. QuestionMailed /\ DeliveryMailed
  BY DEF Init, QuestionMailed, DeliveryMailed
<1>5. QED
  BY <1>2, <1>3, <1>4 DEF IInv

LEMMA StutterKeeps ==
  ASSUME IInv, UNCHANGED vars
  PROVE  IInv'
<1>1. UNCHANGED <<kind, begin, iterations, planning, queries, rows, completed, reports, response, mail, events>>
  BY DEF vars
<1>2. Researched /\ events' \in EventsRec /\ events.seen \subseteq events'.seen
  BY <1>1 DEF IInv, Researched
<1>3. Researched'
  BY <1>1, <1>2, ReportingLeavesResearch
<1>4. QED
  BY <1>1, <1>2, <1>3, ResearchLeavesReports DEF IInv

LEMMA NextKeeps ==
  ASSUME IInv, NULL \notin SUBSET RowRec, [Next]_vars
  PROVE  IInv'
<1>1. CASE Planning
  BY <1>1, BeginKeeps, PlanKeeps DEF Planning
<1>2. CASE \E q \in DOMAIN queries : Researching(q) \/ Fail(q)
  BY <1>2, SearchKeeps, ReviewKeeps, SpawnKeeps, CheckKeeps, EnqueueKeeps, FailKeeps DEF Researching
<1>3. CASE \E r \in DOMAIN reports : Reporting(r) \/ Rewrite(r)
  BY <1>3, WriteKeeps, RecordKeeps, PublishKeeps, DeliverKeeps, RewriteKeeps DEF Reporting
<1>4. CASE Send \/ SaveId
  BY <1>4, SendKeeps, SaveIdKeeps
<1>5. CASE UNCHANGED vars
  BY <1>5, StutterKeeps
<1>6. QED
  BY <1>1, <1>2, <1>3, <1>4, <1>5 DEF Next

LEMMA InvariantHolds ==
  ASSUME NULL \notin SUBSET RowRec
  PROVE  Spec => []IInv
<1>1. Init => IInv
  BY InitHolds
<1>2. IInv /\ [Next]_vars => IInv'
  BY NextKeeps
<1>3. QED
  BY <1>1, <1>2, PTL DEF Spec

LEMMA TypesImplyTypeOK ==
  ASSUME IInv
  PROVE  TypeOK
<1>1. /\ kind \in {"question", "delivery"} /\ begin \in BOOLEAN
      /\ planning \subseteq DOMAIN iterations /\ completed \subseteq rows
  BY DEF IInv, Researched, Reported
<1>2. iterations \in Seq([depth : 0..MaxDepth - 1])
  BY DEF IInv, Researched, IterationRec
<1>3. \A q \in DOMAIN queries :
        /\ queries[q].of \in DOMAIN iterations /\ queries[q].attempt \in Nat
        /\ queries[q].at \in {"queued", "searching", "reviewed", "spawned", "enqueueing", "finished"}
  BY QueriesAre DEF IInv, Researched, QueryRec
<1>4. \A r \in rows : r.job \in DOMAIN queries /\ r.attempt <= queries[r.job].attempt
  BY DEF IInv, Researched
<1>5. reports \in Seq([at : {"queued", "written", "mailed", "done"}, from : SUBSET completed])
  BY DEF IInv, Reported, ReportRec
<1>6. mail \in [at : {"none", "queued", "sent", "done"}, sent : Nat]
  BY DEF IInv, Reported, MailRec
<1>7. events.left \in [Events -> Nat]
  BY DEF IInv, Researched, EventsRec
<1>8. response = NULL \/ response \subseteq completed
  BY DEF IInv, Reported
<1>9. QED
  BY <1>1, <1>2, <1>3, <1>4, <1>5, <1>6, <1>7, <1>8 DEF TypeOK

\* Every variable keeps its shape: a query is of an iteration there is, a row of a query and
\* of an attempt there was, and no report is written from what is not completed.
THEOREM TypeCorrect ==
  ASSUME NULL \notin SUBSET RowRec
  PROVE  Spec => []TypeOK
<1>1. Spec => []IInv
  BY InvariantHolds
<1>2. IInv => TypeOK
  BY TypesImplyTypeOK
<1>3. QED
  BY <1>1, <1>2, PTL

\* The report of a question, and of a delivery whose job only one query enqueued, is mailed
\* once unless a worker dies between the mail and the row that says so.
THEOREM MailedOnceHolds ==
  ASSUME NULL \notin SUBSET RowRec
  PROVE  Spec => []MailedOnce
<1>1. Spec => []IInv
  BY InvariantHolds
<1>2. IInv => MailedOnce
  <2>1. ASSUME IInv, Without({"resend"}), kind = "question" \/ Without({"raced"})
        PROVE  mail.sent <= 1
    <3>1. CASE kind = "question"
      BY <2>1, <3>1 DEF IInv, QuestionMailed
    <3>2. CASE kind # "question"
      <4>1. kind = "delivery"
        BY <2>1, <3>2 DEF IInv, Reported
      <4>2. Without({"resend", "raced"})
        BY <2>1, <3>2 DEF Without
      <4>3. QED
        BY <2>1, <4>1, <4>2 DEF IInv, DeliveryMailed
    <3>3. QED
      BY <3>1, <3>2
  <2>2. QED
    BY <2>1 DEF MailedOnce
<1>3. QED
  BY <1>1, <1>2, PTL

-----------------------------------------------------------------------------
(***************************************************************************)
(* The report is whole. With queries that run one after the other either   *)
(* the row of an abandoned attempt keeps the research from being complete, *)
(* or everything happens in order.                                         *)
(***************************************************************************)
Quiet == MaxDepth <= 2 /\ Without({"parallel", "again", "fail"})

Reviewed == {"reviewed", "spawned", "enqueueing", "finished"}
EveryRow == {RowOf(q) : q \in DOMAIN queries}

\* The row of an attempt that is over is never completed.
Lost ==
  /\ \E r \in rows \ completed : r.attempt < queries[r.job].attempt
  /\ \A q \in DOMAIN queries : queries[q].at # "enqueueing"
  /\ reports = <<>> /\ response = NULL

\* An iteration has at most the one query of its number, and the next iteration starts
\* when that query spawns it.
Planned ==
  /\ begin <=> iterations = <<>>
  /\ Len(iterations) <= 2 /\ \A i \in DOMAIN iterations : iterations[i].depth = i - 1
  /\ \A q \in DOMAIN queries : queries[q].of = q /\ queries[q].attempt = 1
  /\ \A i \in planning : Len(queries) < i
  /\ 2 \in DOMAIN iterations <=> MaxDepth = 2 /\ 1 \in DOMAIN queries
                                 /\ queries[1].at \in Reviewed \ {"reviewed"}

Found ==
  /\ rows = {RowOf(q) : q \in {p \in DOMAIN queries : queries[p].at # "queued"}}
  /\ completed = {RowOf(q) : q \in {p \in DOMAIN queries : queries[p].at \in Reviewed}}

\* Nothing is planned any more when the report is enqueued.
Settled ==
  /\ planning = {} /\ queries # <<>> /\ Len(queries) = Len(iterations)
  /\ \A q \in DOMAIN queries : queries[q].at \in Reviewed
  /\ queries[1].at # "reviewed"

WrittenFrom ==
  /\ reports # <<>> \/ (\E q \in DOMAIN queries : queries[q].at = "enqueueing") => Settled
  /\ \A r \in DOMAIN reports : reports[r].at \in {"written", "mailed"} => reports[r].from = EveryRow
  /\ response # NULL => reports # <<>> /\ response = EveryRow

InOrder == Planned /\ Found /\ WrittenFrom

WholeInv == Quiet => Lost \/ InOrder

LEMMA QuietBefore ==
  ASSUME events.seen \subseteq events'.seen, Quiet'
  PROVE  Quiet
BY DEF Quiet, Without

LEMMA LostIncomplete ==
  ASSUME IInv, Lost
  PROVE  ~IsCompleted
<1>1. PICK r \in rows \ completed : r.attempt < queries[r.job].attempt
  BY DEF Lost
<1>2. r.job \in DOMAIN queries /\ queries[r.job].of \in DOMAIN iterations
  BY <1>1 DEF IInv, Researched
<1>3. QED
  BY <1>1, <1>2 DEF IsCompleted, RowsOf

\* Only the row of an attempt under way is completed.
LEMMA LostStays ==
  ASSUME IInv, Lost, rows \subseteq rows',
         \A q \in DOMAIN queries : q \in DOMAIN queries' /\ queries[q].attempt <= queries'[q].attempt
                                   /\ queries'[q].attempt \in Nat,
         \A r \in completed' \ completed : r.attempt = queries[r.job].attempt,
         \A q \in DOMAIN queries' : queries'[q].at # "enqueueing",
         UNCHANGED <<reports, response>>
  PROVE  Lost'
<1>1. PICK r \in rows \ completed : r.attempt < queries[r.job].attempt
  BY DEF Lost
<1>2. r.job \in DOMAIN queries /\ r.attempt \in Nat /\ queries[r.job].attempt \in Nat
  BY <1>1, QueriesAre DEF IInv, Researched, RowRec, QueryRec
<1>3. r \in rows' \ completed' /\ r.attempt < queries'[r.job].attempt
  BY <1>1, <1>2
<1>4. QED
  BY <1>3 DEF Lost

\* What moves keeps its row.
LEMMA MoveRows ==
  ASSUME IInv, NEW q, NEW from,
         NEW to \in {"queued", "searching", "reviewed", "spawned", "enqueueing", "finished"},
         Moved(q, from, to)
  PROVE  /\ q \in DOMAIN queries /\ queries[q].at = from
         /\ DOMAIN queries' = DOMAIN queries /\ Len(queries') = Len(queries)
         /\ queries'[q].at = to
         /\ \A p \in DOMAIN queries : /\ queries'[p].of = queries[p].of
                                      /\ queries'[p].attempt = queries[p].attempt
                                      /\ queries[p].attempt \in Nat
                                      /\ p # q => queries'[p].at = queries[p].at
                                      /\ RowOf(p)' = RowOf(p)
         /\ EveryRow' = EveryRow
<1>1. queries \in Seq(QueryRec)
  BY DEF IInv, Researched
<1>2. /\ q \in DOMAIN queries /\ queries[q].at = from
      /\ queries' \in Seq(QueryRec) /\ DOMAIN queries' = DOMAIN queries /\ queries'[q].at = to
      /\ \A p \in DOMAIN queries : /\ queries'[p].of = queries[p].of
                                   /\ queries'[p].attempt = queries[p].attempt
                                   /\ p # q => queries'[p].at = queries[p].at
  BY <1>1, MovedIs
<1>3. \A p \in DOMAIN queries : queries[p].attempt \in Nat
  BY <1>1, QueriesAre DEF QueryRec
<1>4. \A p \in DOMAIN queries : RowOf(p)' = RowOf(p)
  BY <1>2 DEF RowOf
<1>5. EveryRow' = EveryRow
  BY <1>2, <1>4 DEF EveryRow
<1>6. Len(queries') = Len(queries)
  <2>1. /\ Len(queries) \in Nat /\ DOMAIN queries = 1..Len(queries)
        /\ Len(queries') \in Nat /\ DOMAIN queries' = 1..Len(queries')
    BY <1>1, <1>2, LenProperties
  <2>2. QED
    BY <1>2, <2>1
<1>7. QED
  BY <1>2, <1>3, <1>4, <1>5, <1>6

\* With queries numbered as their iterations.
LEMMA OrderIs ==
  ASSUME IInv, Planned, Found
  PROVE  /\ Len(queries) \in Nat /\ DOMAIN queries = 1..Len(queries)
         /\ Len(iterations) \in 0..2 /\ DOMAIN iterations = 1..Len(iterations)
         /\ Len(queries) <= Len(iterations)
         /\ \A q \in DOMAIN queries : /\ RowOf(q) \in rows <=> queries[q].at # "queued"
                                      /\ RowOf(q) \in completed <=> queries[q].at \in Reviewed
         /\ \A r \in rows : r.job \in DOMAIN queries /\ r = RowOf(r.job)
<1>1. queries \in Seq(QueryRec) /\ iterations \in Seq(IterationRec)
  BY DEF IInv, Researched
<1>2. /\ Len(queries) \in Nat /\ DOMAIN queries = 1..Len(queries)
      /\ Len(iterations) \in Nat /\ DOMAIN iterations = 1..Len(iterations)
  BY <1>1, LenProperties
<1>3. Len(queries) <= Len(iterations)
  <2>1. CASE Len(queries) = 0
    BY <1>2, <2>1
  <2>2. CASE Len(queries) # 0
    <3>1. Len(queries) \in DOMAIN queries
      BY <1>2, <2>2
    <3>2. queries[Len(queries)].of = Len(queries) /\ queries[Len(queries)].of \in DOMAIN iterations
      BY <3>1 DEF Planned, IInv, Researched
    <3>3. QED
      BY <1>2, <3>2
  <2>3. QED
    BY <2>1, <2>2
<1>4. \A p, q \in DOMAIN queries : RowOf(p) = RowOf(q) => p = q
  <2>1. \A q \in DOMAIN queries : RowOf(q).job = q
    BY DEF RowOf
  <2>2. QED
    BY <2>1
<1>5. \A q \in DOMAIN queries : /\ RowOf(q) \in rows <=> queries[q].at # "queued"
                                /\ RowOf(q) \in completed <=> queries[q].at \in Reviewed
  BY <1>4 DEF Found
<1>6. \A r \in rows : r.job \in DOMAIN queries /\ r = RowOf(r.job)
  BY DEF Found, RowOf
<1>7. QED
  BY <1>2, <1>3, <1>5, <1>6 DEF Planned

LEMMA SettledRows ==
  ASSUME Found, Settled
  PROVE  completed = EveryRow
BY DEF Found, Settled, EveryRow

\* Before anything is settled nothing is reported.
LEMMA Unsettled ==
  ASSUME WrittenFrom, ~Settled
  PROVE  /\ reports = <<>> /\ response = NULL
         /\ \A q \in DOMAIN queries : queries[q].at # "enqueueing"
BY DEF WrittenFrom

LEMMA BeginWhole ==
  ASSUME IInv, WholeInv, Begin, Quiet'
  PROVE  Lost' \/ InOrder'
<1>1. /\ begin /\ Start(Iteration(0))
      /\ (begin' = FALSE /\ UNCHANGED events) \/ (Occur("again") /\ UNCHANGED begin)
      /\ UNCHANGED <<kind, queries, rows, completed, reports, response, mail>>
  BY DEF Begin
<1>2. events.seen \subseteq events'.seen /\ (Occur("again") => "again" \in events'.seen)
  BY <1>1, OccurIs DEF IInv, Researched, Events
<1>3. Quiet /\ begin' = FALSE
  BY <1>1, <1>2, QuietBefore DEF Quiet, Without
<1>4. CASE Lost
  BY <1>1, <1>4 DEF Lost
<1>5. CASE InOrder
  <2>1. Planned /\ Found /\ WrittenFrom
    BY <1>5 DEF InOrder
  <2>2. /\ DOMAIN queries = 1..Len(queries) /\ Len(queries) = 0 /\ iterations = <<>>
        /\ planning = {}
    BY <1>1, <2>1, OrderIs DEF Planned, IInv, Researched
  <2>3. /\ iterations' = <<Iteration(0)>> /\ planning' = {1}
    BY <1>1, <2>2 DEF Start
  <2>4. Planned'
    BY <1>1, <1>3, <2>2, <2>3 DEF Planned, Iteration
  <2>5. Found'
    BY <1>1, <2>1 DEF Found, RowOf
  <2>6. ~Settled
    BY <2>2 DEF Settled
  <2>7. WrittenFrom'
    BY <1>1, <2>1, <2>2, <2>6, Unsettled DEF WrittenFrom
  <2>8. QED
    BY <2>4, <2>5, <2>7 DEF InOrder
<1>6. QED
  BY <1>3, <1>4, <1>5 DEF WholeInv

LEMMA PlanWhole ==
  ASSUME IInv, WholeInv, NEW i \in planning, NEW n \in 0..MaxBreadth, Plan(i, n), Quiet'
  PROVE  Lost' \/ InOrder'
<1>1. /\ \/ n > 1 /\ Occur("parallel") /\ planning' = planning \ {i}
         \/ n = 1 /\ planning' = planning \ {i} /\ UNCHANGED events
         \/ n = 1 /\ Occur("again") /\ UNCHANGED planning
         \/ n = 0 /\ Occur("empty") /\ planning' = planning \ {i}
      /\ UNCHANGED <<kind, begin, iterations, rows, completed, reports, response, mail>>
  BY DEF Plan
<1>2. /\ events.seen \subseteq events'.seen
      /\ Occur("again") => "again" \in events'.seen
      /\ Occur("parallel") => "parallel" \in events'.seen
  BY <1>1, OccurIs DEF IInv, Researched, Events
<1>3. Quiet /\ n \in {0, 1} /\ planning' = planning \ {i}
  BY <1>1, <1>2, QuietBefore DEF Quiet, Without
<1>4. /\ i \in DOMAIN iterations /\ i \in Nat
      /\ queries' \in Seq(QueryRec) /\ Len(queries') = Len(queries) + n
      /\ \A q \in DOMAIN queries : q \in DOMAIN queries' /\ queries'[q] = queries[q]
      /\ \A q \in DOMAIN queries' : q \notin DOMAIN queries => queries'[q] = Queued(i)
  BY PlanIs DEF IInv
<1>5. /\ \A q \in DOMAIN queries : queries[q].attempt \in Nat
      /\ Queued(i).of = i /\ Queued(i).at = "queued" /\ Queued(i).attempt = 1
  BY QueriesAre DEF IInv, Researched, QueryRec, Queued
<1>6. CASE Lost
  <2>1. \A q \in DOMAIN queries' : queries'[q].at # "enqueueing"
    BY <1>4, <1>5, <1>6 DEF Lost
  <2>2. QED
    BY <1>1, <1>4, <1>5, <1>6, <2>1, LostStays
<1>7. CASE InOrder
  <2>1. Planned /\ Found /\ WrittenFrom
    BY <1>7 DEF InOrder
  <2>2. /\ Len(queries) \in Nat /\ DOMAIN queries = 1..Len(queries)
        /\ Len(iterations) \in 0..2 /\ DOMAIN iterations = 1..Len(iterations)
    BY <2>1, OrderIs
  <2>3. DOMAIN queries' = 1..(Len(queries) + n)
    BY <1>4, LenProperties
  <2>4. Len(queries) < i /\ i \in 1..2 /\ (i = 2 => 1 \in DOMAIN queries)
    BY <1>4, <2>1, <2>2 DEF Planned
  <2>5. i = Len(queries) + 1
    BY <2>2, <2>4
  <2>6. \A q \in DOMAIN queries' : queries'[q].of = q /\ queries'[q].attempt = 1
    <3>1. ASSUME NEW q \in DOMAIN queries', q \notin DOMAIN queries
          PROVE  q = i
      BY <1>3, <2>2, <2>3, <2>5, <3>1
    <3>2. QED
      BY <1>4, <1>5, <2>1, <3>1 DEF Planned
  <2>7. \A j \in planning' : Len(queries') < j
    <3>1. \A j \in planning : j \in Nat /\ Len(queries) < j
      BY <2>1, <2>2 DEF Planned, IInv, Researched
    <3>2. QED
      BY <1>3, <1>4, <2>2, <2>5, <3>1
  <2>8. (1 \in DOMAIN queries' /\ queries'[1].at \in Reviewed \ {"reviewed"})
        <=> (1 \in DOMAIN queries /\ queries[1].at \in Reviewed \ {"reviewed"})
    BY <1>4, <1>5 DEF Reviewed
  <2>9. Planned'
    BY <1>1, <2>1, <2>6, <2>7, <2>8 DEF Planned
  <2>10. Found'
    <3>1. \A q \in DOMAIN queries : RowOf(q)' = RowOf(q)
      BY <1>4 DEF RowOf
    <3>2. {p \in DOMAIN queries' : queries'[p].at # "queued"} = {p \in DOMAIN queries : queries[p].at # "queued"}
      BY <1>4, <1>5
    <3>3. {p \in DOMAIN queries' : queries'[p].at \in Reviewed} = {p \in DOMAIN queries : queries[p].at \in Reviewed}
      BY <1>4, <1>5 DEF Reviewed
    <3>4. /\ rows' = {RowOf(q)' : q \in {p \in DOMAIN queries : queries[p].at # "queued"}}
          /\ completed' = {RowOf(q)' : q \in {p \in DOMAIN queries : queries[p].at \in Reviewed}}
      BY <1>1, <2>1, <3>1 DEF Found
    <3>5. QED
      BY <3>2, <3>3, <3>4 DEF Found
  <2>11. reports' = <<>> /\ response' = NULL /\ \A q \in DOMAIN queries' : queries'[q].at # "enqueueing"
    BY <1>1, <1>4, <1>5, <2>1, Unsettled DEF Settled
  <2>12. WrittenFrom'
    BY <2>11 DEF WrittenFrom
  <2>13. QED
    BY <2>9, <2>10, <2>12 DEF InOrder
<1>8. QED
  BY <1>3, <1>6, <1>7 DEF WholeInv

\* A query that moves does not disturb the plan unless it spawns.
LEMMA MovePlanned ==
  ASSUME IInv, Planned, NEW q, NEW from,
         NEW to \in {"queued", "searching", "reviewed", "spawned", "enqueueing", "finished"},
         Moved(q, from, to), UNCHANGED <<begin, iterations, planning>>,
         from \in Reviewed \ {"reviewed"} <=> to \in Reviewed \ {"reviewed"}
  PROVE  Planned'
<1>1. /\ q \in DOMAIN queries /\ queries[q].at = from
      /\ DOMAIN queries' = DOMAIN queries /\ Len(queries') = Len(queries)
      /\ queries'[q].at = to
      /\ \A p \in DOMAIN queries : /\ queries'[p].of = queries[p].of
                                   /\ queries'[p].attempt = queries[p].attempt
                                   /\ p # q => queries'[p].at = queries[p].at
  BY MoveRows
<1>2. (1 \in DOMAIN queries' /\ queries'[1].at \in Reviewed \ {"reviewed"})
      <=> (1 \in DOMAIN queries /\ queries[1].at \in Reviewed \ {"reviewed"})
  <2>1. CASE q = 1
    BY <1>1, <2>1
  <2>2. CASE q # 1
    BY <1>1, <2>2
  <2>3. QED
    BY <2>1, <2>2
<1>3. QED
  BY <1>1, <1>2 DEF Planned

\* Rows are found by a search and completed by a review.
LEMMA MoveFound ==
  ASSUME IInv, Found, NEW q, NEW from,
         NEW to \in {"queued", "searching", "reviewed", "spawned", "enqueueing", "finished"},
         Moved(q, from, to), to # "queued",
         rows' = IF from = "queued" THEN rows \cup {RowOf(q)} ELSE rows,
         completed' = IF from \notin Reviewed /\ to \in Reviewed THEN completed \cup {RowOf(q)} ELSE completed,
         from \in Reviewed => to \in Reviewed
  PROVE  Found'
<1>1. /\ q \in DOMAIN queries /\ queries[q].at = from
      /\ DOMAIN queries' = DOMAIN queries /\ queries'[q].at = to
      /\ \A p \in DOMAIN queries : /\ p # q => queries'[p].at = queries[p].at
                                   /\ RowOf(p)' = RowOf(p)
  BY MoveRows
<1>2. rows' = {RowOf(p) : p \in {p \in DOMAIN queries : queries'[p].at # "queued"}}
  <2>1. CASE from = "queued"
    <3>1. {p \in DOMAIN queries : queries'[p].at # "queued"}
          = {p \in DOMAIN queries : queries[p].at # "queued"} \cup {q}
      BY <1>1
    <3>2. QED
      BY <2>1, <3>1 DEF Found
  <2>2. CASE from # "queued"
    <3>1. {p \in DOMAIN queries : queries'[p].at # "queued"} = {p \in DOMAIN queries : queries[p].at # "queued"}
      BY <1>1, <2>2
    <3>2. QED
      BY <2>2, <3>1 DEF Found
  <2>3. QED
    BY <2>1, <2>2
<1>3. completed' = {RowOf(p) : p \in {p \in DOMAIN queries : queries'[p].at \in Reviewed}}
  <2>1. CASE from \notin Reviewed /\ to \in Reviewed
    <3>1. {p \in DOMAIN queries : queries'[p].at \in Reviewed}
          = {p \in DOMAIN queries : queries[p].at \in Reviewed} \cup {q}
      BY <1>1, <2>1
    <3>2. QED
      BY <2>1, <3>1 DEF Found
  <2>2. CASE from \in Reviewed <=> to \in Reviewed
    <3>1. {p \in DOMAIN queries : queries'[p].at \in Reviewed} = {p \in DOMAIN queries : queries[p].at \in Reviewed}
      BY <1>1, <2>2
    <3>2. QED
      BY <2>2, <3>1 DEF Found
  <2>3. QED
    BY <2>1, <2>2
<1>4. /\ rows' = {RowOf(p)' : p \in {p \in DOMAIN queries : queries'[p].at # "queued"}}
      /\ completed' = {RowOf(p)' : p \in {p \in DOMAIN queries : queries'[p].at \in Reviewed}}
  BY <1>1, <1>2, <1>3
<1>5. QED
  BY <1>1, <1>4 DEF Found

LEMMA SearchWhole ==
  ASSUME IInv, WholeInv, NEW q, Search(q), Quiet'
  PROVE  Lost' \/ InOrder'
<1>1. /\ Moved(q, "queued", "searching") /\ rows' = rows \cup {RowOf(q)}
      /\ UNCHANGED <<kind, begin, iterations, planning, completed, reports, response, mail, events>>
  BY DEF Search
<1>2. Quiet
  BY <1>1, QuietBefore
<1>3. /\ q \in DOMAIN queries /\ queries[q].at = "queued"
      /\ DOMAIN queries' = DOMAIN queries /\ queries'[q].at = "searching"
      /\ \A p \in DOMAIN queries : /\ queries'[p].attempt = queries[p].attempt
                                   /\ queries[p].attempt \in Nat
                                   /\ p # q => queries'[p].at = queries[p].at
  BY <1>1, MoveRows
<1>4. CASE Lost
  <2>1. \A p \in DOMAIN queries' : queries'[p].at # "enqueueing"
    BY <1>3, <1>4 DEF Lost
  <2>2. QED
    BY <1>1, <1>3, <1>4, <2>1, LostStays
<1>5. CASE InOrder
  <2>1. Planned /\ Found /\ WrittenFrom
    BY <1>5 DEF InOrder
  <2>2. Planned'
    BY <1>1, <2>1, MovePlanned DEF Reviewed
  <2>3. Found'
    BY <1>1, <2>1, MoveFound DEF Reviewed
  <2>4. ~Settled
    BY <1>3 DEF Settled, Reviewed
  <2>5. WrittenFrom'
    BY <1>1, <1>3, <2>1, <2>4, Unsettled DEF WrittenFrom
  <2>6. QED
    BY <2>2, <2>3, <2>5 DEF InOrder
<1>6. QED
  BY <1>2, <1>4, <1>5 DEF WholeInv

LEMMA ReviewWhole ==
  ASSUME IInv, WholeInv, NEW q, Review(q), Quiet'
  PROVE  Lost' \/ InOrder'
<1>1. /\ Moved(q, "searching", "reviewed") /\ completed' = completed \cup {RowOf(q)}
      /\ UNCHANGED <<kind, begin, iterations, planning, rows, reports, response, mail, events>>
  BY DEF Review
<1>2. Quiet
  BY <1>1, QuietBefore
<1>3. /\ q \in DOMAIN queries /\ queries[q].at = "searching"
      /\ DOMAIN queries' = DOMAIN queries /\ queries'[q].at = "reviewed"
      /\ \A p \in DOMAIN queries : /\ queries'[p].attempt = queries[p].attempt
                                   /\ queries[p].attempt \in Nat
                                   /\ p # q => queries'[p].at = queries[p].at
  BY <1>1, MoveRows
<1>4. CASE Lost
  <2>1. \A p \in DOMAIN queries' : queries'[p].at # "enqueueing"
    BY <1>3, <1>4 DEF Lost
  <2>2. \A r \in completed' \ completed : r.attempt = queries[r.job].attempt
    BY <1>1 DEF RowOf
  <2>3. QED
    BY <1>1, <1>3, <1>4, <2>1, <2>2, LostStays
<1>5. CASE InOrder
  <2>1. Planned /\ Found /\ WrittenFrom
    BY <1>5 DEF InOrder
  <2>2. Planned'
    BY <1>1, <2>1, MovePlanned DEF Reviewed
  <2>3. Found'
    BY <1>1, <2>1, MoveFound DEF Reviewed
  <2>4. ~Settled
    BY <1>3 DEF Settled, Reviewed
  <2>5. WrittenFrom'
    BY <1>1, <1>3, <2>1, <2>4, Unsettled DEF WrittenFrom
  <2>6. QED
    BY <2>2, <2>3, <2>5 DEF InOrder
<1>6. QED
  BY <1>2, <1>4, <1>5 DEF WholeInv

\* The first query starts the second iteration, and the second query none.
LEMMA SpawnWhole ==
  ASSUME IInv, WholeInv, NEW q, Spawn(q), Quiet'
  PROVE  Lost' \/ InOrder'
<1> DEFINE i == iterations[queries[q].of]
<1>1. /\ Moved(q, "reviewed", "spawned")
      /\ IF i.depth < MaxDepth - 1 THEN Start(After(i)) ELSE UNCHANGED <<iterations, planning>>
      /\ UNCHANGED <<kind, begin, rows, completed, reports, response, mail, events>>
  BY DEF Spawn
<1>2. Quiet
  BY <1>1, QuietBefore
<1>3. /\ q \in DOMAIN queries /\ queries[q].at = "reviewed"
      /\ DOMAIN queries' = DOMAIN queries /\ Len(queries') = Len(queries) /\ queries'[q].at = "spawned"
      /\ \A p \in DOMAIN queries : /\ queries'[p].of = queries[p].of
                                   /\ queries'[p].attempt = queries[p].attempt
                                   /\ queries[p].attempt \in Nat
                                   /\ p # q => queries'[p].at = queries[p].at
      /\ EveryRow' = EveryRow
  BY <1>1, MoveRows
<1>4. CASE Lost
  <2>1. \A p \in DOMAIN queries' : queries'[p].at # "enqueueing"
    BY <1>3, <1>4 DEF Lost
  <2>2. QED
    BY <1>1, <1>3, <1>4, <2>1, LostStays
<1>5. CASE InOrder
  <2>1. Planned /\ Found /\ WrittenFrom
    BY <1>5 DEF InOrder
  <2>2. /\ Len(queries) \in Nat /\ DOMAIN queries = 1..Len(queries)
        /\ Len(iterations) \in 0..2 /\ DOMAIN iterations = 1..Len(iterations)
        /\ Len(queries) <= Len(iterations)
    BY <2>1, OrderIs
  <2>3. q \in 1..2 /\ q \in DOMAIN iterations /\ i.depth = q - 1
    BY <1>3, <2>1, <2>2 DEF Planned
  <2>4. Found'
    BY <1>1, <2>1, MoveFound DEF Reviewed
  <2>5. MaxDepth \in {1, 2}
    BY <1>2, ResearchAssumption DEF Quiet
  <2>6. CASE q = 1 /\ MaxDepth = 2
    <3>1. ~Settled
      BY <1>3, <2>6 DEF Settled
    <3>2. Len(iterations) = 1
      BY <1>3, <2>1, <2>2, <2>3, <2>6 DEF Planned
    <3>3. After(i).depth = 1 /\ Start(After(i))
      BY <1>1, <2>3, <2>6 DEF After, Iteration
    <3> DEFINE new == After(i)
    <3> HIDE DEF new
    <3>4. iterations' = Append(iterations, new) /\ planning' = planning \cup {2} /\ new.depth = 1
      BY <3>2, <3>3 DEF Start, new
    <3>5. /\ Len(iterations') = 2 /\ DOMAIN iterations' = 1..2
          /\ iterations'[1] = iterations[1] /\ iterations'[2] = new
      <4>1. iterations \in Seq(IterationRec) /\ iterations[queries[q].of] \in IterationRec
        BY <1>3, <2>1, <2>2, <2>3, LenProperties DEF Planned, IInv, Researched
      <4>2. new \in IterationRec
        BY <2>3, <2>6, <4>1, ResearchAssumption DEF new, After, Iteration, IterationRec
      <4>3. /\ iterations' \in Seq(IterationRec) /\ Len(iterations') = 2
            /\ iterations'[1] = iterations[1] /\ iterations'[2] = new
        <5>1. /\ Append(iterations, new) \in Seq(IterationRec)
              /\ Len(Append(iterations, new)) = Len(iterations) + 1
              /\ \A j \in 1..Len(iterations) : Append(iterations, new)[j] = iterations[j]
              /\ Append(iterations, new)[Len(iterations) + 1] = new
          BY <4>1, <4>2, AppendProperties
        <5>2. Len(iterations) + 1 = 2 /\ 1 \in 1..Len(iterations)
          BY <3>2
        <5>3. QED
          BY <3>4, <5>1, <5>2
      <4>4. DOMAIN iterations' = 1..2
        BY <4>3, LenProperties
      <4>5. QED
        BY <4>3, <4>4
    <3>6. iterations' # <<>> /\ iterations # <<>> /\ 2 \in DOMAIN iterations'
      BY <3>2, <3>5
    <3>7. \A j \in planning' : Len(queries') < j
      BY <1>3, <2>1, <2>2, <3>2, <3>4 DEF Planned
    <3>8. \A j \in DOMAIN iterations' : iterations'[j].depth = j - 1
      <4>1. iterations[1].depth = 0
        BY <2>1, <2>3, <2>6 DEF Planned
      <4>2. iterations'[1].depth = 1 - 1 /\ iterations'[2].depth = 2 - 1
        BY <3>4, <3>5, <4>1
      <4>3. \A j \in DOMAIN iterations' : j = 1 \/ j = 2
        BY <3>5
      <4>4. QED
        BY <4>2, <4>3
    <3>9. Planned'
      BY <1>1, <1>3, <2>1, <2>6, <3>5, <3>6, <3>7, <3>8 DEF Planned, Reviewed
    <3>10. WrittenFrom'
      BY <1>1, <1>3, <2>1, <3>1, Unsettled DEF WrittenFrom
    <3>11. QED
      BY <2>4, <3>9, <3>10 DEF InOrder
  <2>7. CASE ~(q = 1 /\ MaxDepth = 2)
    <3>1. ~(i.depth < MaxDepth - 1)
      BY <2>3, <2>5, <2>7
    <3>2. UNCHANGED <<iterations, planning>>
      BY <1>1, <3>1
    <3>3. Planned'
      <4>1. 2 \in DOMAIN iterations' <=> MaxDepth = 2 /\ 1 \in DOMAIN queries'
                                         /\ queries'[1].at \in Reviewed \ {"reviewed"}
        <5>1. CASE q = 1
          BY <2>1, <2>7, <3>2, <5>1 DEF Planned
        <5>2. CASE q # 1
          BY <1>3, <2>1, <3>2, <5>2 DEF Planned
        <5>3. QED
          BY <5>1, <5>2
      <4>2. QED
        BY <1>1, <1>3, <2>1, <3>2, <4>1 DEF Planned
    <3>4. Settled => Settled'
      BY <1>3, <3>2 DEF Settled, Reviewed
    <3>5. WrittenFrom'
      BY <1>1, <1>3, <2>1, <3>4 DEF WrittenFrom
    <3>6. QED
      BY <2>4, <3>3, <3>5 DEF InOrder
  <2>8. QED
    BY <2>6, <2>7
<1>6. QED
  BY <1>2, <1>4, <1>5 DEF WholeInv

\* What is complete has a query of every iteration, and all of them have spawned theirs.
LEMMA CompleteIsSettled ==
  ASSUME IInv, Planned, Found, IsCompleted, NEW q \in DOMAIN queries, queries[q].at = "spawned"
  PROVE  Settled
<1>1. /\ Len(queries) \in Nat /\ DOMAIN queries = 1..Len(queries)
      /\ Len(iterations) \in 0..2 /\ DOMAIN iterations = 1..Len(iterations)
      /\ Len(queries) <= Len(iterations)
      /\ \A p \in DOMAIN queries : RowOf(p) \in completed <=> queries[p].at \in Reviewed
      /\ \A r \in rows : r.job \in DOMAIN queries /\ r = RowOf(r.job)
  BY OrderIs
<1>2. \A p \in DOMAIN queries : queries[p].of = p
  BY DEF Planned
<1>3. iterations # <<>> /\ \A i \in DOMAIN iterations : i \in DOMAIN queries /\ queries[i].at \in Reviewed
  <2>1. ASSUME NEW i \in DOMAIN iterations
        PROVE  i \in DOMAIN queries /\ queries[i].at \in Reviewed
    <3>1. PICK r \in rows : queries[r.job].of = i /\ r \in completed
      BY <2>1 DEF IsCompleted, RowsOf
    <3>2. r.job = i /\ i \in DOMAIN queries /\ r = RowOf(i)
      BY <1>1, <1>2, <3>1
    <3>3. QED
      BY <1>1, <3>1, <3>2
  <2>2. QED
    BY <2>1 DEF IsCompleted
<1>4. Len(queries) = Len(iterations)
  <2>1. Len(iterations) # 0
    BY <1>1, <1>3 DEF IInv, Researched
  <2>2. Len(iterations) \in DOMAIN iterations
    BY <1>1, <2>1
  <2>3. QED
    <3>1. Len(iterations) \in 1..Len(queries)
      BY <1>1, <1>3, <2>2
    <3>2. Len(queries) \in Nat /\ Len(iterations) \in Nat /\ Len(queries) <= Len(iterations)
      BY <1>1
    <3>3. QED
      BY <3>1, <3>2
<1>5. planning = {}
  BY <1>1, <1>4 DEF Planned, IInv, Researched
<1>6. queries[1].at # "reviewed"
  <2>1. CASE q = 1
    BY <2>1
  <2>2. CASE q # 1
    <3>1. 2 \in DOMAIN iterations
      BY <1>1, <2>2
    <3>2. QED
      BY <3>1 DEF Planned
  <2>3. QED
    BY <2>1, <2>2
<1>7. QED
  BY <1>1, <1>3, <1>4, <1>5, <1>6 DEF Settled

LEMMA CheckWhole ==
  ASSUME IInv, WholeInv, NEW q, Check(q), Quiet'
  PROVE  Lost' \/ InOrder'
<1>1. /\ \E to \in {"enqueueing", "finished"} :
            Moved(q, "spawned", to) /\ (to = "enqueueing" => IsCompleted)
      /\ UNCHANGED <<kind, begin, iterations, planning, rows, completed, reports, response, mail, events>>
  BY DEF Check
<1>2. PICK to \in {"enqueueing", "finished"} : Moved(q, "spawned", to) /\ (to = "enqueueing" => IsCompleted)
  BY <1>1
<1>3. Quiet
  BY <1>1, QuietBefore
<1>4. /\ q \in DOMAIN queries /\ queries[q].at = "spawned"
      /\ DOMAIN queries' = DOMAIN queries /\ Len(queries') = Len(queries) /\ queries'[q].at = to
      /\ \A p \in DOMAIN queries : /\ queries'[p].attempt = queries[p].attempt
                                   /\ queries[p].attempt \in Nat
                                   /\ p # q => queries'[p].at = queries[p].at
      /\ EveryRow' = EveryRow
  BY <1>2, MoveRows
<1>5. CASE Lost
  <2>1. to = "finished"
    BY <1>2, <1>5, LostIncomplete
  <2>2. \A p \in DOMAIN queries' : queries'[p].at # "enqueueing"
    BY <1>4, <1>5, <2>1 DEF Lost
  <2>3. QED
    BY <1>1, <1>4, <1>5, <2>2, LostStays
<1>6. CASE InOrder
  <2>1. Planned /\ Found /\ WrittenFrom
    BY <1>6 DEF InOrder
  <2>2. Planned'
    BY <1>1, <1>2, <2>1, MovePlanned DEF Reviewed
  <2>3. Found'
    BY <1>1, <1>2, <2>1, MoveFound DEF Reviewed
  <2>4. to = "enqueueing" => Settled
    BY <1>2, <1>4, <2>1, CompleteIsSettled
  <2>5. Settled => Settled'
    BY <1>1, <1>4 DEF Settled, Reviewed
  <2>6. WrittenFrom'
    BY <1>1, <1>4, <2>1, <2>4, <2>5 DEF WrittenFrom
  <2>7. QED
    BY <2>2, <2>3, <2>6 DEF InOrder
<1>7. QED
  BY <1>3, <1>5, <1>6 DEF WholeInv

LEMMA EnqueueWhole ==
  ASSUME IInv, WholeInv, NEW q, Enqueue(q), Quiet'
  PROVE  Lost' \/ InOrder'
<1> DEFINE new == [at |-> "queued", from |-> {}]
<1>1. /\ Moved(q, "enqueueing", "finished") /\ reports' = Append(reports, new)
      /\ UNCHANGED <<kind, begin, iterations, planning, rows, completed, response, mail>>
  BY DEF Enqueue
<1>2. Quiet
  BY NotingIs, QuietBefore DEF Enqueue, IInv, Researched
<1>3. /\ q \in DOMAIN queries /\ queries[q].at = "enqueueing"
      /\ DOMAIN queries' = DOMAIN queries /\ Len(queries') = Len(queries) /\ queries'[q].at = "finished"
      /\ \A p \in DOMAIN queries : p # q => queries'[p].at = queries[p].at
      /\ EveryRow' = EveryRow
  BY <1>1, MoveRows
<1>4. Planned /\ Found /\ WrittenFrom
  BY <1>2, <1>3 DEF WholeInv, Lost, InOrder
<1>5. Planned'
  BY <1>1, <1>4, MovePlanned DEF Reviewed
<1>6. Found'
  BY <1>1, <1>4, MoveFound DEF Reviewed
<1>7. Settled
  BY <1>3, <1>4 DEF WrittenFrom
<1>8. Settled'
  <2>1. UNCHANGED <<planning, iterations>> /\ queries' # <<>>
    BY <1>1, <1>3, <1>7 DEF Settled
  <2>2. queries'[1].at # "reviewed"
    BY <1>3, <1>7 DEF Settled
  <2>3. \A p \in DOMAIN queries' : queries'[p].at \in Reviewed
    BY <1>3, <1>7 DEF Settled, Reviewed
  <2>4. QED
    BY <1>3, <1>7, <2>1, <2>2, <2>3 DEF Settled
<1>9. /\ reports' # <<>>
      /\ \A r \in DOMAIN reports' : \/ r \in DOMAIN reports /\ reports'[r] = reports[r]
                                    \/ reports'[r].at = "queued"
  <2>1. reports \in Seq(ReportRec(completed)) /\ new \in ReportRec(completed)
        /\ Len(reports) \in Nat /\ DOMAIN reports = 1..Len(reports) /\ new.at = "queued"
    BY ReportsAre DEF IInv, Reported, ReportRec
  <2> HIDE DEF new
  <2>2. /\ reports' # <<>> /\ DOMAIN reports' = 1..(Len(reports) + 1)
        /\ \A r \in 1..Len(reports) : reports'[r] = reports[r]
        /\ reports'[Len(reports) + 1] = new
    BY <1>1, <2>1, AppendProperties, LenProperties
  <2>3. \A r \in DOMAIN reports' : r \in DOMAIN reports \/ r = Len(reports) + 1
    BY <2>1, <2>2
  <2>4. QED
    BY <2>1, <2>2, <2>3
<1>10. WrittenFrom'
  BY <1>1, <1>3, <1>4, <1>8, <1>9 DEF WrittenFrom
<1>11. QED
  BY <1>5, <1>6, <1>10 DEF InOrder

\* A search that is abandoned leaves its row behind.
LEMMA FailWhole ==
  ASSUME IInv, WholeInv, NEW q, Fail(q), Quiet'
  PROVE  Lost' \/ InOrder'
<1>1. /\ q \in DOMAIN queries /\ queries \in Seq(QueryRec) /\ queries[q] \in QueryRec
      /\ queries' = [queries EXCEPT ![q].at = "queued", ![q].attempt = queries[q].attempt + 1]
      /\ events'.seen = events.seen \cup {IF queries[q].at = "searching" THEN "abandoned" ELSE "fail"}
      /\ UNCHANGED <<kind, begin, iterations, planning, rows, completed, reports, response, mail>>
  BY QueriesAre DEF Fail, IInv, Researched
<1>2. Quiet /\ queries[q].at = "searching"
  BY <1>1, QuietBefore DEF Quiet, Without
<1>3. /\ DOMAIN queries' = DOMAIN queries /\ queries'[q].at = "queued"
      /\ queries[q].attempt \in Nat /\ queries'[q].attempt = queries[q].attempt + 1
      /\ \A p \in DOMAIN queries : p # q => queries'[p] = queries[p]
  BY <1>1 DEF QueryRec
<1>4. CASE Lost
  <2>1. \A p \in DOMAIN queries' : queries'[p].at # "enqueueing"
    BY <1>3, <1>4 DEF Lost
  <2>2. ASSUME NEW p \in DOMAIN queries
        PROVE  queries[p].attempt <= queries'[p].attempt /\ queries'[p].attempt \in Nat
    <3>1. queries[p].attempt \in Nat
      BY <1>1, QueriesAre DEF QueryRec
    <3>2. CASE p = q
      BY <1>3, <3>2
    <3>3. CASE p # q
      BY <1>3, <3>1, <3>3
    <3>4. QED
      BY <3>2, <3>3
  <2>3. QED
    BY <1>1, <1>3, <1>4, <2>1, <2>2, LostStays
<1>5. CASE InOrder
  <2>1. Planned /\ Found /\ WrittenFrom
    BY <1>5 DEF InOrder
  <2>2. RowOf(q) \in rows \ completed
    BY <1>1, <1>2, <2>1, OrderIs DEF Reviewed
  <2>3. RowOf(q).job = q /\ RowOf(q).attempt < queries'[q].attempt
    BY <1>3 DEF RowOf
  <2>4. ~Settled
    BY <1>1, <1>2 DEF Settled, Reviewed
  <2>5. reports = <<>> /\ response = NULL /\ \A p \in DOMAIN queries : queries[p].at # "enqueueing"
    BY <2>1, <2>4, Unsettled
  <2>6. \A p \in DOMAIN queries' : queries'[p].at # "enqueueing"
    BY <1>3, <2>5
  <2>7. \E r \in rows' \ completed' : r.attempt < queries'[r.job].attempt
    BY <1>1, <2>2, <2>3
  <2>8. QED
    BY <1>1, <2>5, <2>6, <2>7 DEF Lost
<1>6. QED
  BY <1>2, <1>4, <1>5 DEF WholeInv

-----------------------------------------------------------------------------
\* What is reported does not change what is found.
LEMMA ReportingWhole ==
  ASSUME IInv, WholeInv, Quiet', events.seen \subseteq events'.seen,
         UNCHANGED <<begin, iterations, planning, queries, rows, completed>>,
         NEW r, NEW d \in ReportRec(completed), r \in DOMAIN reports,
         reports' = [reports EXCEPT ![r] = d],
         d.at \in {"written", "mailed"} => d.from \in {completed, reports[r].from},
         d.at \in {"written", "mailed"} /\ d.from # completed => reports[r].at \in {"written", "mailed"},
         response' # response => reports[r].at \in {"written", "mailed"} /\ response' = reports[r].from
  PROVE  Lost' \/ InOrder'
<1>1. Quiet
  BY QuietBefore
<1>2. /\ DOMAIN reports' = DOMAIN reports /\ Len(reports') = Len(reports)
      /\ reports'[r] = d /\ \A p \in DOMAIN reports : p # r => reports'[p] = reports[p]
  BY ReportChanges DEF IInv
<1>3. reports # <<>> /\ reports' # <<>>
  BY <1>2
<1>4. Planned /\ Found /\ WrittenFrom /\ Settled
  BY <1>1, <1>3 DEF WholeInv, Lost, InOrder, WrittenFrom
<1>5. \A q \in DOMAIN queries : RowOf(q)' = RowOf(q)
  BY DEF RowOf
<1>6. EveryRow' = EveryRow /\ completed = EveryRow
  BY <1>4, <1>5, SettledRows DEF EveryRow
<1>7. Planned' /\ Settled'
  BY <1>4 DEF Planned, Settled
<1>8. Found'
  BY <1>4, <1>5 DEF Found
<1>9. reports[r].at \in {"written", "mailed"} => reports[r].from = EveryRow
  BY <1>4 DEF WrittenFrom
<1>10. \A p \in DOMAIN reports' : reports'[p].at \in {"written", "mailed"} => reports'[p].from = EveryRow
  <2>1. d.at \in {"written", "mailed"} => d.from = EveryRow
    BY <1>6, <1>9
  <2>2. QED
    BY <1>2, <1>4, <2>1 DEF WrittenFrom
<1>11. response' # NULL => response' = EveryRow
  BY <1>4, <1>9 DEF WrittenFrom
<1>12. WrittenFrom'
  BY <1>3, <1>6, <1>7, <1>10, <1>11 DEF WrittenFrom
<1>13. QED
  BY <1>7, <1>8, <1>12 DEF InOrder

LEMMA ReportsWhole ==
  ASSUME IInv, WholeInv, Quiet', NEW r, Reporting(r) \/ Rewrite(r)
  PROVE  Lost' \/ InOrder'
<1>1. r \in DOMAIN reports /\ reports[r] \in ReportRec(completed)
      /\ UNCHANGED <<begin, iterations, planning, queries, rows, completed>>
  BY ReportsAre DEF Reporting, Write, Record, Publish, Deliver, Rewrite, At, IInv
<1>2. CASE Write(r)
  <2> DEFINE d == IF kind = "question" /\ response # NULL THEN [reports[r] EXCEPT !.at = "done"]
                  ELSE [at |-> "written", from |-> completed]
  <2>1. d \in ReportRec(completed) /\ (d.at = "done" \/ d.from = completed)
        /\ reports' = [reports EXCEPT ![r] = d] /\ UNCHANGED <<response, events>>
    BY <1>1, <1>2 DEF Write, ReportRec
  <2> HIDE DEF d
  <2>2. QED
    BY <1>1, <2>1, ReportingWhole
<1>3. CASE Record(r)
  <2> DEFINE d == [reports[r] EXCEPT !.at = "done"]
  <2>1. d \in ReportRec(completed) /\ d.at = "done" /\ reports' = [reports EXCEPT ![r] = d]
        /\ reports[r].at = "written" /\ response' \in {response, reports[r].from} /\ UNCHANGED events
    BY <1>1, <1>3 DEF Record, At, ReportRec
  <2> HIDE DEF d
  <2>2. QED
    BY <1>1, <2>1, ReportingWhole
<1>4. CASE Publish(r)
  <2> DEFINE d == [reports[r] EXCEPT !.at = "mailed"]
  <2>1. d \in ReportRec(completed) /\ d.from = reports[r].from /\ reports' = [reports EXCEPT ![r] = d]
        /\ reports[r].at = "written" /\ UNCHANGED <<response, events>>
    BY <1>1, <1>4 DEF Publish, At, ReportRec
  <2> HIDE DEF d
  <2>2. QED
    BY <1>1, <2>1, ReportingWhole
<1>5. CASE Deliver(r)
  <2> DEFINE d == [reports[r] EXCEPT !.at = "done"]
  <2>1. d \in ReportRec(completed) /\ d.at = "done" /\ reports' = [reports EXCEPT ![r] = d]
        /\ reports[r].at = "mailed" /\ response' = reports[r].from /\ UNCHANGED events
    BY <1>1, <1>5 DEF Deliver, At, ReportRec
  <2> HIDE DEF d
  <2>2. QED
    BY <1>1, <2>1, ReportingWhole
<1>6. CASE Rewrite(r)
  <2> DEFINE d == [reports[r] EXCEPT !.at = "queued"]
  <2>1. d \in ReportRec(completed) /\ d.at = "queued" /\ reports' = [reports EXCEPT ![r] = d]
        /\ UNCHANGED response
    BY <1>1, <1>6 DEF Rewrite, At, ReportRec
  <2>2. events.seen \subseteq events'.seen
    <3>1. "resend" \in Events /\ "rewrite" \in Events /\ events \in EventsRec
      BY DEF Events, IInv, Researched
    <3>2. QED
      BY <1>6, <3>1, OccurIs DEF Rewrite
  <2> HIDE DEF d
  <2>3. QED
    BY <1>1, <2>1, <2>2, ReportingWhole
<1>7. QED
  BY <1>2, <1>3, <1>4, <1>5, <1>6 DEF Reporting

LEMMA UnchangedWhole ==
  ASSUME WholeInv, Quiet', events.seen \subseteq events'.seen,
         UNCHANGED <<begin, iterations, planning, queries, rows, completed, reports, response>>
  PROVE  Lost' \/ InOrder'
<1>1. Quiet
  BY QuietBefore
<1>2. \A q \in DOMAIN queries : RowOf(q)' = RowOf(q)
  BY DEF RowOf
<1>3. EveryRow' = EveryRow
  BY <1>2 DEF EveryRow
<1>4. Lost => Lost'
  BY DEF Lost
<1>5. InOrder => InOrder'
  <2>1. Planned => Planned'
    BY DEF Planned
  <2>2. Found => Found'
    BY <1>2 DEF Found
  <2>3. WrittenFrom => WrittenFrom'
    BY <1>3 DEF WrittenFrom, Settled
  <2>4. QED
    BY <2>1, <2>2, <2>3 DEF InOrder
<1>6. QED
  BY <1>1, <1>4, <1>5 DEF WholeInv

LEMMA WholeKeeps ==
  ASSUME IInv, WholeInv, [Next]_vars
  PROVE  WholeInv'
<1> SUFFICES ASSUME Quiet'
             PROVE  Lost' \/ InOrder'
  BY DEF WholeInv
<1>1. CASE Planning
  BY <1>1, BeginWhole, PlanWhole DEF Planning
<1>2. CASE \E q \in DOMAIN queries : Researching(q) \/ Fail(q)
  BY <1>2, SearchWhole, ReviewWhole, SpawnWhole, CheckWhole, EnqueueWhole, FailWhole DEF Researching
<1>3. CASE \E r \in DOMAIN reports : Reporting(r) \/ Rewrite(r)
  BY <1>3, ReportsWhole
<1>4. CASE Send \/ SaveId
  <2>1. UNCHANGED <<begin, iterations, planning, queries, rows, completed, reports, response>>
    BY <1>4 DEF Send, SaveId
  <2>2. events.seen \subseteq events'.seen
    <3>1. "resend" \in Events /\ events \in EventsRec
      BY DEF Events, IInv, Researched
    <3>2. QED
      BY <1>4, <3>1, OccurIs DEF Send, SaveId
  <2>3. QED
    BY <2>1, <2>2, UnchangedWhole
<1>5. CASE UNCHANGED vars
  BY <1>5, UnchangedWhole DEF vars
<1>6. QED
  BY <1>1, <1>2, <1>3, <1>4, <1>5 DEF Next

\* To the depth that is used, the report of queries that run one after the other, none of
\* them twice, is written when nothing is planned any more and from the row of every query.
THEOREM ReportIsWholeHolds ==
  ASSUME NULL \notin SUBSET RowRec
  PROVE  Spec => []ReportIsWhole
<1>1. Spec => []IInv
  BY InvariantHolds
<1>2. Init => WholeInv
  <2>1. ASSUME Init
        PROVE  InOrder
    <3>1. Planned
      BY <2>1 DEF Init, Planned
    <3>2. Found
      BY <2>1 DEF Init, Found
    <3>3. WrittenFrom
      BY <2>1 DEF Init, WrittenFrom
    <3>4. QED
      BY <3>1, <3>2, <3>3 DEF InOrder
  <2>2. QED
    BY <2>1 DEF WholeInv
<1>3. IInv /\ WholeInv /\ [Next]_vars => WholeInv'
  BY WholeKeeps
<1>4. WholeInv => ReportIsWhole
  <2>1. ASSUME WholeInv, MaxDepth <= 2, Without({"parallel", "again", "fail"}), response # NULL
        PROVE  planning = {} /\ response = EveryRow
    BY <2>1 DEF WholeInv, Quiet, Lost, InOrder, WrittenFrom, Settled
  <2>2. QED
    BY <2>1 DEF ReportIsWhole, EveryRow
<1>5. QED
  BY <1>1, <1>2, <1>3, <1>4, PTL DEF Spec

=============================================================================
