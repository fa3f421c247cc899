------------------------------- MODULE Research -------------------------------
(***************************************************************************)
(* A research: iterations plan queries, each query is a job of its own     *)
(* that may start a deeper iteration, and the query that finds everything  *)
(* complete enqueues the job that writes and mails the report, of a        *)
(* question that was asked or of a delivery that was scheduled.            *)
(*                                                                         *)
(* Jobs run in parallel; an attempt that fails starts again.               *)
(***************************************************************************)
EXTENDS Naturals, Sequences, FiniteSets, SequencesExt

CONSTANTS
  MaxDepth,   (* Research.max_depth                                            *)
  MaxBreadth, (* bound: how many queries one plan has (Research.max_breadth)   *)
  MaxQueries, (* bound: how many query jobs there are                          *)
  Starts,     (* bounds: how often Events happen                               *)
  NULL

\* What may go wrong: `fail`: an attempt of a query job; `again`: a job that plans is
\* performed twice; `rewrite`, `resend`: a worker dies over the report or the mail;
\* `empty`: nothing is planned. And `parallel`: several queries are planned at once.
Events == {"fail", "again", "rewrite", "resend", "empty", "parallel"}

ASSUME ResearchAssumption ==
  /\ MaxDepth \in Nat \ {0} /\ MaxBreadth \in Nat \ {0} /\ MaxQueries \in Nat
  /\ Starts \subseteq [Events -> Nat]

VARIABLES
  kind,       (* "question" or "delivery": what the research is for            *)
  begin,      (* the ResearchJob waits                                         *)
  iterations, (* ResearchIteration: depth                                      *)
  planning,   (* the iterations whose job waits                                *)
  queries,    (* the query jobs: iteration, where they are, and which attempt  *)
  rows,       (* ResearchQuery: of which job and attempt                       *)
  completed,  (* those that are marked as completed                            *)
  reports,    (* the jobs that write the report, and whose learnings they read *)
  response,   (* the rows whose learnings the report has, NULL before          *)
  mail,       (* the job that mails it, and how often it was sent              *)
  events      (* how many events are left, which there have been               *)

vars == <<kind, begin, iterations, planning, queries, rows, completed, reports, response, mail, events>>

Occur(e) == events.left[e] > 0 /\ events' = [left |-> [events.left EXCEPT ![e] = @ - 1], seen |-> events.seen \cup {e}]
Noting(cond, e) == events' = IF cond THEN [events EXCEPT !.seen = @ \cup {e}] ELSE events

RowsOf(i) == {r \in rows : queries[r.job].of = i}

\* Research.is_completed: every iteration has a query, and all its queries are completed.
IsCompleted ==
  iterations # <<>> /\ \A i \in DOMAIN iterations : RowsOf(i) # {} /\ RowsOf(i) \subseteq completed

-----------------------------------------------------------------------------
(***************************************************************************)
(* ResearchJob and ResearchIterationJob.                                   *)
(***************************************************************************)
Iteration(depth) == [depth |-> depth]

Start(i) == iterations' = Append(iterations, i) /\ planning' = planning \cup {Len(iterations) + 1}

Begin ==
  /\ begin /\ Start(Iteration(0))
  /\ (begin' = FALSE /\ UNCHANGED events) \/ (Occur("again") /\ UNCHANGED begin)
  /\ UNCHANGED <<kind, queries, rows, completed, reports, response, mail>>

Queued(i) == [of |-> i, at |-> "queued", attempt |-> 1]

\* How many queries there should be (queries_count) only the prompt says.  A job that is
\* performed again plans other queries.
Plan(i, n) ==
  /\ i \in planning /\ Len(queries) + n <= MaxQueries
  /\ queries' = queries \o [k \in 1..n |-> Queued(i)]
  /\ \/ n > 1 /\ Occur("parallel") /\ planning' = planning \ {i}
     \/ n = 1 /\ planning' = planning \ {i} /\ UNCHANGED events
     \/ n = 1 /\ Occur("again") /\ UNCHANGED planning
     \/ n = 0 /\ Occur("empty") /\ planning' = planning \ {i}
  /\ UNCHANGED <<kind, begin, iterations, rows, completed, reports, response, mail>>

-----------------------------------------------------------------------------
(***************************************************************************)
(* ResearchQueryJob.                                                       *)
(***************************************************************************)
Moved(q, from, to) == q \in DOMAIN queries /\ queries[q].at = from /\ queries' = [queries EXCEPT ![q].at = to]

RowOf(q) == [job |-> q, attempt |-> queries[q].attempt]

Search(q) ==
  /\ Moved(q, "queued", "searching")
  /\ rows' = rows \cup {RowOf(q)}
  /\ UNCHANGED <<kind, begin, iterations, planning, completed, reports, response, mail, events>>

Review(q) ==
  /\ Moved(q, "searching", "reviewed")
  /\ completed' = completed \cup {RowOf(q)}
  /\ UNCHANGED <<kind, begin, iterations, planning, rows, reports, response, mail, events>>

After(i) == Iteration(i.depth + 1)

\* Variant: the job of the iteration is not enqueued.
SpawnOnly(q) ==
  /\ Moved(q, "reviewed", "spawned")
  /\ LET i == iterations[queries[q].of]
     IN  iterations' = IF i.depth < MaxDepth - 1 THEN Append(iterations, After(i)) ELSE iterations
  /\ UNCHANGED <<kind, begin, planning, rows, completed, reports, response, mail, events>>

\* Variant: the completion is looked for before the next iteration is started.
SpawnLast(q) ==
  /\ Moved(q, "reviewed", IF IsCompleted /\ response = NULL /\ reports = <<>> THEN "enqueueing" ELSE "spawned")
  /\ LET i == iterations[queries[q].of]
     IN  IF i.depth < MaxDepth - 1 THEN Start(After(i)) ELSE UNCHANGED <<iterations, planning>>
  /\ UNCHANGED <<kind, begin, rows, completed, reports, response, mail, events>>

Spawn(q) ==
  /\ Moved(q, "reviewed", "spawned")
  /\ LET i == iterations[queries[q].of]
     IN  IF i.depth < MaxDepth - 1 THEN Start(After(i)) ELSE UNCHANGED <<iterations, planning>>
  /\ UNCHANGED <<kind, begin, rows, completed, reports, response, mail, events>>

\* Of the jobs for this report, the newest is looked at.
Open == reports # <<>> /\ reports[Len(reports)].at # "done"

\* What is enqueued is unique, but only beside the job that is there when it is looked up.
Check(q) ==
  /\ Moved(q, "spawned", IF IsCompleted /\ response = NULL /\ ~Open THEN "enqueueing" ELSE "finished")
  /\ UNCHANGED <<kind, begin, iterations, planning, rows, completed, reports, response, mail, events>>

Enqueue(q) ==
  /\ Moved(q, "enqueueing", "finished")
  /\ reports' = Append(reports, [at |-> "queued", from |-> {}])
  /\ Noting(reports # <<>>, "raced")
  /\ UNCHANGED <<kind, begin, iterations, planning, rows, completed, response, mail>>

\* A search or a review raises, or the worker dies: the next attempt has a row of its own.
Fail(q) ==
  /\ q \in DOMAIN queries /\ queries[q].at \notin {"queued", "finished"}
  /\ events.left["fail"] > 0
  /\ events' = [left |-> [events.left EXCEPT !["fail"] = @ - 1],
                seen |-> events.seen \cup {IF queries[q].at = "searching" THEN "abandoned" ELSE "fail"}]
  /\ queries' = [queries EXCEPT ![q].at = "queued", ![q].attempt = @ + 1]
  /\ UNCHANGED <<kind, begin, iterations, planning, rows, completed, reports, response, mail>>

-----------------------------------------------------------------------------
(***************************************************************************)
(* ResearchQuestionCompleteJob and SendResearchQuestionEmailJob; for a     *)
(* delivery PublishScheduledResearchJob, which does the work of both.      *)
(***************************************************************************)
At(r, at) == r \in DOMAIN reports /\ reports[r].at = at

\* Variant: the learnings of every row are taken for there.
WriteAll(r) ==
  /\ At(r, "queued")
  /\ reports' = [reports EXCEPT ![r] = [at |-> "written", from |-> rows]]
  /\ UNCHANGED <<kind, begin, iterations, planning, queries, rows, completed, response, mail, events>>

\* Only a query that is completed has learnings.  A report that is there is not written again.
Write(r) ==
  /\ At(r, "queued")
  /\ reports' = [reports EXCEPT ![r] = IF kind = "question" /\ response # NULL THEN [@ EXCEPT !.at = "done"]
                                       ELSE [at |-> "written", from |-> completed]]
  /\ UNCHANGED <<kind, begin, iterations, planning, queries, rows, completed, response, mail, events>>

\* Under the lock of the question's row the first job records its report.
Record(r) ==
  /\ kind = "question" /\ At(r, "written")
  /\ reports' = [reports EXCEPT ![r].at = "done"]
  /\ IF response # NULL THEN UNCHANGED <<response, mail>>
     ELSE response' = reports[r].from /\ mail' = [mail EXCEPT !.at = "queued"]
  /\ UNCHANGED <<kind, begin, iterations, planning, queries, rows, completed, events>>

\* Variant: the job does not look whether the mail was sent, and comes again.
SendAnyway ==
  /\ mail.at \in {"queued", "done"} /\ mail.sent < 2
  /\ mail' = [at |-> "sent", sent |-> mail.sent + 1]
  /\ UNCHANGED <<kind, begin, iterations, planning, queries, rows, completed, reports, response, events>>

\* The mail, and then the id that says it was sent.
Send ==
  /\ mail.at = "queued"
  /\ mail' = [at |-> "sent", sent |-> mail.sent + 1]
  /\ UNCHANGED <<kind, begin, iterations, planning, queries, rows, completed, reports, response, events>>

SaveId ==
  /\ mail.at = "sent"
  /\ \/ mail' = [mail EXCEPT !.at = "done"] /\ UNCHANGED events
     \/ Occur("resend") /\ mail' = [mail EXCEPT !.at = "queued"]
  /\ UNCHANGED <<kind, begin, iterations, planning, queries, rows, completed, reports, response>>

\* A delivery is mailed and then marked, without a lock.
Publish(r) ==
  /\ kind = "delivery" /\ At(r, "written")
  /\ reports' = [reports EXCEPT ![r].at = "mailed"]
  /\ mail' = [at |-> "done", sent |-> mail.sent + 1]
  /\ UNCHANGED <<kind, begin, iterations, planning, queries, rows, completed, response, events>>

Deliver(r) ==
  /\ At(r, "mailed")
  /\ reports' = [reports EXCEPT ![r].at = "done"]
  /\ response' = reports[r].from
  /\ UNCHANGED <<kind, begin, iterations, planning, queries, rows, completed, mail, events>>

Rewrite(r) ==
  /\ At(r, "written") \/ At(r, "mailed")
  /\ Occur(IF At(r, "mailed") THEN "resend" ELSE "rewrite")
  /\ reports' = [reports EXCEPT ![r].at = "queued"]
  /\ UNCHANGED <<kind, begin, iterations, planning, queries, rows, completed, response, mail>>

-----------------------------------------------------------------------------
Init ==
  /\ kind \in {"question", "delivery"}
  /\ begin = TRUE /\ iterations = <<>> /\ planning = {} /\ queries = <<>>
  /\ rows = {} /\ completed = {}
  /\ reports = <<>> /\ response = NULL
  /\ mail = [at |-> "none", sent |-> 0]
  /\ \E left \in Starts : events = [left |-> left, seen |-> {}]

Planning == Begin \/ \E i \in planning, n \in 0..MaxBreadth : Plan(i, n)

Researching(q) == Search(q) \/ Review(q) \/ Spawn(q) \/ Check(q) \/ Enqueue(q)

Reporting(r) == Write(r) \/ Record(r) \/ Publish(r) \/ Deliver(r)

Next ==
  \/ Planning
  \/ \E q \in DOMAIN queries : Researching(q) \/ Fail(q)
  \/ \E r \in DOMAIN reports : Reporting(r) \/ Rewrite(r)
  \/ Send \/ SaveId

Spec == Init /\ [][Next]_vars

\* Every job is performed.
Fairness ==
  /\ WF_vars(Planning) /\ WF_vars(Send) /\ WF_vars(SaveId)
  /\ \A q \in 1..MaxQueries : WF_vars(Researching(q))
  /\ \A r \in 1..MaxQueries : WF_vars(Reporting(r))

FairSpec == Spec /\ Fairness

-----------------------------------------------------------------------------
(***************************************************************************)
(* Properties                                                              *)
(***************************************************************************)
\* The shape of every variable; what is reported is completed.
TypeOK ==
  /\ kind \in {"question", "delivery"} /\ begin \in BOOLEAN
  /\ iterations \in Seq([depth : 0..MaxDepth - 1]) /\ planning \subseteq DOMAIN iterations
  /\ \A q \in DOMAIN queries :
       /\ queries[q].of \in DOMAIN iterations /\ queries[q].attempt \in Nat
       /\ queries[q].at \in {"queued", "searching", "reviewed", "spawned", "enqueueing", "finished"}
  /\ \A r \in rows : r.job \in DOMAIN queries /\ r.attempt <= queries[r.job].attempt
  /\ completed \subseteq rows
  /\ reports \in Seq([at : {"queued", "written", "mailed", "done"}, from : SUBSET completed])
  /\ response = NULL \/ response \subseteq completed
  /\ mail \in [at : {"none", "queued", "sent", "done"}, sent : Nat]
  /\ events.left \in [Events -> Nat]

Without(kinds) == events.seen \cap kinds = {}

\* The report is mailed once; except when a worker dies between the mail and the row that
\* says so, and except a delivery's when two queries enqueue its job at the same time.
MailedOnce ==
  Without({"resend"}) /\ (kind = "question" \/ Without({"raced"})) => mail.sent <= 1

\* Every query that was planned is part of the report, when none runs beside another
\* and none had to run again, to the depth of DEFAULT_MAX_RESEARCH_DEPTH: a deeper query
\* would still plan when the one before it finds everything completed.
ReportIsWhole ==
  MaxDepth <= 2 /\ Without({"parallel", "again", "fail"}) /\ response # NULL
  => planning = {} /\ response = {RowOf(q) : q \in DOMAIN queries}

\* The report is written and mailed in the end, unless nothing was planned or a query's
\* first attempt left its row behind: then the research is never completed.
ReportArrives ==
  <>[](Without({"abandoned", "empty"}) /\ (planning = {} \/ Len(queries) < MaxQueries)
       => response # NULL /\ mail.sent > 0)

\* A research is not found completed while a query that is completed has yet to start the
\* iteration after its own: what the comment of Research.is_completed (content.py:1824)
\* says that looking at every iteration is for.
NoBranchIsMissed ==
  [][(\E q \in DOMAIN queries : queries[q].at = "spawned" /\ queries'[q].at = "enqueueing")
     => \A q \in DOMAIN queries : queries[q].at = "reviewed"
                                => iterations[queries[q].of].depth = MaxDepth - 1]_vars

=============================================================================
