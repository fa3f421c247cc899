-------------------------------- MODULE Jobs --------------------------------
(***************************************************************************)
(* The background-job engine of infra/jobs.py: rows of the Job table, the  *)
(* transactional outbox that turns rows into Cloud Tasks, the HTTP handler *)
(* Cloud Tasks calls (at least once, retried, cut off at a deadline), job  *)
(* groups with a completion callback, cancellation and rescheduling, and   *)
(* the two recurring jobs that repair what a crash leaves behind.          *)
(*                                                                         *)
(* A handler keeps its own in-memory copy of the row (`exec[w].mem`) and   *)
(* writes ALL columns back when it saves: copies go stale, saves overwrite.*)
(***************************************************************************)
EXTENDS Naturals, FiniteSets

CONSTANTS
  GroupJobs,      (* ids of the rows that may belong to the job group        *)
  Callbacks,      (* ids for rows of the group's callback job                *)
  LoneJobs,       (* ids of rows outside the group                           *)
  Poison,         (* jobs whose perform() may raise every time               *)
  Workers,        (* processes that serve Cloud Tasks' requests              *)
  Web,            (* the process that serves the user's request              *)
  Copies,         (* how many tasks one row may get (bound)                  *)
  RetryCount,     (* JobDefinition.retry_count                               *)
  MaxAttempts,    (* retry_config.max_attempts of the Cloud Tasks queue      *)
  Starts,         (* what the web request enqueues, with the faults there    *)
                  (* may be (bound): records [rows, faults]                  *)
  NULL

Faults == {"raise", "abort", "crash", "expire", "slow", "lose", "old",
           "cancel", "reschedule", "add"}

ASSUME JobsAssumption ==
  /\ Poison \subseteq GroupJobs \cup LoneJobs
  /\ Starts \subseteq [rows : SUBSET (GroupJobs \cup LoneJobs), faults : [Faults -> Nat]]
  /\ IsFiniteSet(GroupJobs)
  /\ GroupJobs \cap Callbacks = {} /\ GroupJobs \cap LoneJobs = {}
  /\ Callbacks \cap LoneJobs = {}
  /\ Web \notin Workers
  /\ Copies \in Nat \ {0} /\ RetryCount \in Nat /\ MaxAttempts \in Nat \ {0}
  /\ NULL \notin Workers /\ NULL \notin GroupJobs \cup Callbacks \cup LoneJobs

\* What history records: the faults, and "cut", work cut off inside a reschedule.
Marks == Faults \cup {"cut"}

Jobs  == GroupJobs \cup Callbacks \cup LoneJobs
Procs == Workers \cup {Web}
Tasks == Jobs \X (1 .. Copies)

VARIABLES
  row,      (* the Job table                                                 *)
  group,    (* the JobGroup row; `callback` is its newest callback job       *)
  task,     (* Cloud Tasks: state, failed attempts, handler holding the lease*)
  exec,     (* the handler each worker is running                            *)
  outbox,   (* JobsOutbox of each process: rows to enqueue, names to save    *)
  sweep,    (* EnqueueOutboxJob: rows it has read and not yet enqueued       *)
  reaper,   (* TerminateDeadCloudTasksJob: names it has read, rows it dooms  *)
  performed,(* history: rows whose perform() has returned at least once      *)
  faults    (* how many of each kind are left, which kinds there have been   *)

vars == <<row, group, task, exec, outbox, sweep, reaper, performed, faults>>

(***************************************************************************)
(* Rows.  `name` is task_name: 0 for NULL, else which task it names.       *)
(***************************************************************************)
Row == [exists: BOOLEAN, name: 0 .. Copies, started: BOOLEAN, completed: BOOLEAN,
        terminated: BOOLEAN, error: BOOLEAN, old: BOOLEAN]

NoRow == [exists |-> FALSE, name |-> 0, started |-> FALSE, completed |-> FALSE,
          terminated |-> FALSE, error |-> FALSE, old |-> FALSE]

NewRow == [NoRow EXCEPT !.exists = TRUE]

IsFinished(r) == r.completed \/ r.terminated          \* Job.is_completed
IsStarted(r)  == r.started /\ ~r.error /\ ~IsFinished(r)
IsDead(r)     == r.old /\ ~r.started /\ ~r.error /\ ~IsFinished(r)
IsFinishedOrDead(r) == IsFinished(r) \/ IsDead(r)

SetStarted(r)    == [r EXCEPT !.error = FALSE, !.started = TRUE]
SetSuccessful(r) == [r EXCEPT !.error = FALSE, !.completed = TRUE]
SetFailed(r)     == [r EXCEPT !.error = TRUE]
SetTerminated(r) == [r EXCEPT !.error = FALSE, !.terminated = TRUE]

(***************************************************************************)
(* RecordModel.save without update_fields: every column the instance holds *)
(* replaces the stored one.  The age of a row is not a column a save sets. *)
(***************************************************************************)
Saved(j, r) == [row EXCEPT ![j] = [r EXCEPT !.old = row[j].old]]

Spend(f) == /\ faults.left[f] > 0
            /\ faults' = [left |-> [faults.left EXCEPT ![f] = @ - 1],
                          seen |-> faults.seen \cup {f}]

\* ... and history records `marks` with it.
SpendMarking(f, marks) ==
  /\ faults.left[f] > 0
  /\ faults' = [left |-> [faults.left EXCEPT ![f] = @ - 1],
                seen |-> faults.seen \cup {f} \cup marks]

\* perform() raises: a job in Poison as often as it is run.
Raise(j) == IF j \in Poison THEN faults' = [faults EXCEPT !.seen = @ \cup {"raise"}]
                            ELSE Spend("raise")

(***************************************************************************)
(* JobGroup.update_status after the table has become `rows`: an atomic     *)
(* decrement that stops at zero, then, when nothing remains and no member  *)
(* carries an error, a unique callback job: a new row unless the newest    *)
(* one is neither completed nor dead.  `p` is the process whose outbox     *)
(* takes that row and the rows in `new`.  The ids in Callbacks are a       *)
(* bound: once they are used up no further callback row is created.        *)
(***************************************************************************)
\* Variant: the filter remaining_jobs__gt=0 is dropped.
DecrementedUnguarded == group.remaining - 1

Decremented == IF group.remaining > 0 THEN group.remaining - 1 ELSE 0

HasFailedJobs(rows) == \E j \in GroupJobs : rows[j].error

CallbackBusy(rows) ==
  /\ group.callback # NULL
  /\ ~IsFinishedOrDead(rows[group.callback])

FreeCallbacks == {c \in Callbacks : ~row[c].exists}

\* Variants: completeness is tested before the decrement; it is not tested.
CallbackDueTestedFirst(rows) ==
  group.remaining = 0 /\ ~HasFailedJobs(rows) /\ ~CallbackBusy(rows) /\ FreeCallbacks # {}
CallbackDueAnytime(rows) ==
  ~HasFailedJobs(rows) /\ ~CallbackBusy(rows) /\ FreeCallbacks # {}

CallbackDue(rows) ==
  /\ Decremented = 0
  /\ ~HasFailedJobs(rows)
  /\ ~CallbackBusy(rows)
  /\ FreeCallbacks # {}

UpdateStatus(p, j, rows, new) ==
  \/ /\ j \notin GroupJobs
     /\ row' = rows
     /\ outbox' = [outbox EXCEPT ![p].pending = @ \cup new]
     /\ UNCHANGED group
  \/ /\ j \in GroupJobs /\ ~CallbackDue(rows)
     /\ row' = rows
     /\ outbox' = [outbox EXCEPT ![p].pending = @ \cup new]
     /\ group' = [group EXCEPT !.remaining = Decremented]
  \/ /\ j \in GroupJobs /\ CallbackDue(rows)
     /\ \E c \in FreeCallbacks :
          /\ row' = [rows EXCEPT ![c] = NewRow]
          /\ outbox' = [outbox EXCEPT ![p].pending = @ \cup new \cup {c}]
          /\ group' = [group EXCEPT !.remaining = Decremented, !.callback = c]

\* A transaction is rolled back after its writes (would have) made the table `rows`:
\* JobsOutbox.add is not undone, so the entry of a callback row (or of `new` rows) may
\* stay behind.  NULL stands for the entries whose row does not exist.
OutboxAfterAbort(p, j, rows, new) ==
  \/ UNCHANGED outbox
  \/ /\ new # {} \/ (j \in GroupJobs /\ CallbackDue(rows))
     /\ outbox' = [outbox EXCEPT ![p].pending = @ \cup {NULL}]

-----------------------------------------------------------------------------
(***************************************************************************)
(* The outbox.  A request (or a run) ends by enqueueing its rows one after *)
(* the other at Cloud Tasks and then saving all their task names at once.  *)
(***************************************************************************)
NoTask == [state |-> "none", tries |-> 0, holder |-> NULL]
Queued == [NoTask EXCEPT !.state = "queued"]

EmptyOutbox == [pending |-> {}, named |-> {}]

MayFlush(p) == p # Web => exec[p].phase \in {"flush", "background"}

\* The k-th task of a row: created at most once, in order.
IsNextCopy(j, k) == /\ task[<<j, k>>].state = "none"
                    /\ \A i \in 1 .. Copies : i < k => task[<<j, i>>].state # "none"

CreateTask(p, j, k) ==
  /\ MayFlush(p)
  /\ j \in outbox[p].pending
  /\ IsNextCopy(j, k)
  /\ task' = [task EXCEPT ![<<j, k>>] = Queued]
  /\ outbox' = [outbox EXCEPT ![p].pending = @ \ {j}, ![p].named = @ \cup {<<j, k>>}]
  /\ UNCHANGED <<row, group, exec, sweep, reaper, performed, faults>>

\* The task of an entry that names no row: perform_job_endpoint answers each attempt
\* with 404, which changes nothing, until Cloud Tasks drops it; bulk_update finds no row.
CreateVoidTask(p) ==
  /\ MayFlush(p)
  /\ NULL \in outbox[p].pending
  /\ outbox' = [outbox EXCEPT ![p].pending = @ \ {NULL}]
  /\ UNCHANGED <<row, group, task, exec, sweep, reaper, performed, faults>>

NameFor(p, j) == (CHOOSE t \in outbox[p].named : t[1] = j)[2]

\* Variant: bulk_update writes every column of the instances the outbox holds.
SaveTaskNamesAllColumns(p) ==
  /\ MayFlush(p)
  /\ outbox[p].pending = {} /\ outbox[p].named # {}
  /\ row' = [j \in Jobs |->
               IF \E t \in outbox[p].named : t[1] = j
                 THEN [NewRow EXCEPT !.name = NameFor(p, j)] ELSE row[j]]
  /\ outbox' = [outbox EXCEPT ![p] = EmptyOutbox]
  /\ UNCHANGED <<group, task, exec, sweep, reaper, performed, faults>>

SaveTaskNames(p) ==
  /\ MayFlush(p)
  /\ outbox[p].pending = {} /\ outbox[p].named # {}
  /\ row' = [j \in Jobs |->
               IF \E t \in outbox[p].named : t[1] = j
                 THEN [row[j] EXCEPT !.name = NameFor(p, j)] ELSE row[j]]
  /\ outbox' = [outbox EXCEPT ![p] = EmptyOutbox]
  /\ UNCHANGED <<group, task, exec, sweep, reaper, performed, faults>>

-----------------------------------------------------------------------------
(***************************************************************************)
(* Cloud Tasks.  A task is dispatched to one handler at a time.  A failed  *)
(* attempt (error response, dead handler, deadline) makes it available     *)
(* again until the queue's max_attempts, then the task is dropped.         *)
(***************************************************************************)
AttemptFailed(t) ==
  IF task[t].tries + 1 < MaxAttempts
    THEN [task EXCEPT ![t] = [state |-> "queued", tries |-> @.tries + 1, holder |-> NULL]]
    ELSE [task EXCEPT ![t] = [NoTask EXCEPT !.state = "gone"]]

Deleted(t) == [task EXCEPT ![t] = [NoTask EXCEPT !.state = "gone"]]

Idle == [phase |-> "idle", job |-> NULL, copy |-> 0, mem |-> NoRow, fresh |-> NoRow, mode |-> "run", ok |-> TRUE]

Holds(w) == /\ exec[w].job # NULL
            /\ task[<<exec[w].job, exec[w].copy>>].holder = w

Goto(w, phase) == exec' = [exec EXCEPT ![w].phase = phase]

\* perform_job_endpoint up to the call of run(): load the row, answer 404 when it
\* is missing and 200 when it is finished, else choose by the retry counter.
Dispatch(w, t) ==
  LET j == t[1] IN
  /\ exec[w].phase = "idle"
  /\ task[t].state = "queued"
  /\ \/ /\ ~row[j].exists
        /\ task' = AttemptFailed(t)
        /\ UNCHANGED exec
     \/ /\ row[j].exists /\ IsFinished(row[j])
        /\ task' = Deleted(t)
        /\ UNCHANGED exec
     \/ /\ row[j].exists /\ ~IsFinished(row[j])
        /\ task' = [task EXCEPT ![t].state = "leased", ![t].holder = w]
        /\ exec' = [exec EXCEPT ![w] =
             [phase |-> IF task[t].tries > RetryCount THEN "terminate" ELSE "loaded",
              job |-> j, copy |-> t[2], mem |-> row[j], fresh |-> NoRow,
              mode |-> IF task[t].tries = RetryCount THEN "final"
                       ELSE IF task[t].tries > RetryCount THEN "exhausted" ELSE "run",
              ok |-> TRUE]]
  /\ UNCHANGED <<row, group, outbox, sweep, reaper, performed, faults>>

-----------------------------------------------------------------------------
(***************************************************************************)
(* Job.run.                                                                *)
(***************************************************************************)
\* set_status(STARTED); save() of the copy loaded by the endpoint.
Start(w) ==
  LET r == SetStarted(exec[w].mem) IN
  /\ exec[w].phase = "loaded"
  /\ row' = Saved(exec[w].job, r)
  /\ exec' = [exec EXCEPT ![w].phase = "performing", ![w].mem = r]
  /\ UNCHANGED <<group, task, outbox, sweep, reaper, performed, faults>>

PerformOk(w) ==
  /\ exec[w].phase = "performing"
  /\ Goto(w, "performed")
  /\ performed' = performed \cup {exec[w].job}
  /\ UNCHANGED <<row, group, task, outbox, sweep, reaper, faults>>

\* Variant: the exception is swallowed.
PerformRaisesSwallowed(w) ==
  /\ exec[w].phase = "performing"
  /\ Raise(exec[w].job)
  /\ Goto(w, "performed")
  /\ UNCHANGED <<row, group, task, outbox, sweep, reaper, performed>>

PerformRaises(w) ==
  /\ exec[w].phase = "performing"
  /\ Raise(exec[w].job)
  /\ Goto(w, "raised")
  /\ UNCHANGED <<row, group, task, outbox, sweep, reaper, performed>>

\* enqueue_job_in_group called by a member's perform().
AddToGroup(w) ==
  /\ exec[w].phase = "performing" /\ exec[w].job \in GroupJobs
  /\ Spend("add")
  /\ \E j \in GroupJobs :
       /\ ~row[j].exists
       /\ row' = [row EXCEPT ![j] = NewRow]
       /\ outbox' = [outbox EXCEPT ![w].pending = @ \cup {j}]
  /\ group' = [group EXCEPT !.total = @ + 1, !.remaining = @ + 1]
  /\ UNCHANGED <<task, exec, sweep, reaper, performed>>

\* A replacement is a job of the same definition.
Replacements(j) == {n \in LoneJobs : ~row[n].exists /\ (n \in Poison <=> j \in Poison)}

\* JobDefinition.reschedule called by perform(): on a fresh copy of the row,
\* CloudTasksJobs.cancel deletes the task, clears its name and terminates the row
\* (writing these two columns; nothing at all without a name) ...  One perform()
\* reschedules its job once (bound).
RescheduleCancel(w) ==
  LET j == exec[w].job
      r == IF row[j].name = 0 THEN row[j] ELSE [row[j] EXCEPT !.name = 0, !.terminated = TRUE]
  IN
  /\ exec[w].phase = "performing" /\ exec[w].fresh = NoRow
  /\ Replacements(j) # {}
  /\ Spend("reschedule")
  /\ task' = IF row[j].name = 0 THEN task ELSE Deleted(<<j, row[j].name>>)
  /\ row' = [row EXCEPT ![j] = r]
  /\ exec' = [exec EXCEPT ![w].phase = "rescheduling", ![w].fresh = r]
  /\ UNCHANGED <<group, outbox, sweep, reaper, performed>>

\* ... then one transaction inserts the replacement (never a group member), saves
\* that copy as terminated and counts the job as done in its group.
\* Variant: the replacement is a copy of the terminated row.
RescheduleReplaceCopy(w) ==
  LET j == exec[w].job
      r == SetTerminated(exec[w].fresh)
  IN
  /\ exec[w].phase = "rescheduling"
  /\ \E n \in Replacements(j) : UpdateStatus(w, j, [Saved(j, r) EXCEPT ![n] = r], {n})
  /\ exec' = [exec EXCEPT ![w].phase = "performing", ![w].fresh = SetTerminated(@)]
  /\ UNCHANGED <<task, sweep, reaper, performed, faults>>

RescheduleReplace(w) ==
  LET j == exec[w].job IN
  /\ exec[w].phase = "rescheduling"
  /\ \E n \in Replacements(j) :
       UpdateStatus(w, j, [Saved(j, SetTerminated(exec[w].fresh)) EXCEPT ![n] = NewRow], {n})
  /\ exec' = [exec EXCEPT ![w].phase = "performing", ![w].fresh = SetTerminated(@)]
  /\ UNCHANGED <<task, sweep, reaper, performed, faults>>

\* A handler has terminated its row and deleted its task, and has no replacement yet:
\* ending here cuts the work off, which history marks.
Cut(w) == IF exec[w].phase = "rescheduling" /\ exec[w].fresh.terminated THEN {"cut"} ELSE {}

\* The transaction fails and the exception leaves perform().
RescheduleAborts(w) ==
  LET j == exec[w].job IN
  /\ exec[w].phase = "rescheduling"
  /\ SpendMarking("abort", {"raise"} \cup Cut(w))
  /\ OutboxAfterAbort(w, j, Saved(j, SetTerminated(exec[w].fresh)), Replacements(j))
  /\ exec' = [exec EXCEPT ![w].phase = "raised"]
  /\ UNCHANGED <<row, group, task, sweep, reaper, performed>>

\* The closing transaction reads the row again ...
FinishRead(w) ==
  /\ exec[w].phase = "performed"
  /\ exec' = [exec EXCEPT ![w].mem = row[exec[w].job],
                          ![w].phase = IF IsStarted(row[exec[w].job]) THEN "read" ELSE "flush"]
  /\ UNCHANGED <<row, group, task, outbox, sweep, reaper, performed, faults>>

\* ... and, if it is still STARTED, saves it as successful and settles the group.
FinishCommit(w) ==
  LET r == SetSuccessful(exec[w].mem) IN
  /\ exec[w].phase = "read"
  /\ UpdateStatus(w, exec[w].job, Saved(exec[w].job, r), {})
  /\ exec' = [exec EXCEPT ![w].mem = r, ![w].phase = "flush"]
  /\ UNCHANGED <<task, sweep, reaper, performed, faults>>

\* The transaction fails: its writes are rolled back, the instance keeps the
\* completed_at it was given, and the exception takes the failure path.
FinishAborts(w) ==
  LET r == SetSuccessful(exec[w].mem) IN
  /\ exec[w].phase = "read"
  /\ Spend("abort")
  /\ OutboxAfterAbort(w, exec[w].job, Saved(exec[w].job, r), {})
  /\ exec' = [exec EXCEPT ![w].mem = r, ![w].phase = "raised"]
  /\ UNCHANGED <<row, group, task, sweep, reaper, performed>>

\* except Exception: save the instance as FAILED ...
FailSave(w) ==
  LET r == SetFailed(exec[w].mem) IN
  /\ exec[w].phase = "raised"
  /\ row' = Saved(exec[w].job, r)
  /\ exec' = [exec EXCEPT ![w].mem = r, ![w].phase = "failed", ![w].ok = FALSE]
  /\ UNCHANGED <<group, task, outbox, sweep, reaper, performed, faults>>

\* ... then count the attempt as done in the group (an error here is logged only).
FailSettle(w) ==
  /\ exec[w].phase = "failed"
  /\ UpdateStatus(w, exec[w].job, row, {})
  /\ Goto(w, "flush")
  /\ UNCHANGED <<task, sweep, reaper, performed, faults>>

FailSettleAborts(w) ==
  /\ exec[w].phase = "failed"
  /\ Spend("abort")
  /\ OutboxAfterAbort(w, exec[w].job, row, {})
  /\ Goto(w, "flush")
  /\ UNCHANGED <<row, group, task, sweep, reaper, performed>>

-----------------------------------------------------------------------------
(***************************************************************************)
(* The rest of perform_job_endpoint.                                       *)
(***************************************************************************)
Flushed(w) == outbox[w] = EmptyOutbox

\* Answering drops the task (2xx) or fails the attempt, if Cloud Tasks still waits.
Answer(w, ok) ==
  LET t == <<exec[w].job, exec[w].copy>> IN
  task' = IF ~Holds(w) THEN task ELSE IF ok THEN Deleted(t) ELSE AttemptFailed(t)

\* run() is over on an ordinary attempt: 200, or 500 after an exception.
RunReturns(w) ==
  /\ exec[w].phase = "flush" /\ exec[w].mode = "run" /\ Flushed(w)
  /\ Answer(w, exec[w].ok)
  /\ exec' = [exec EXCEPT ![w] = Idle]
  /\ UNCHANGED <<row, group, outbox, sweep, reaper, performed, faults>>

\* The final retry swallows the exception, refreshes and gives up unless done.
FinalCheck(w) ==
  LET r == row[exec[w].job] IN
  /\ exec[w].phase = "flush" /\ exec[w].mode = "final" /\ Flushed(w)
  /\ exec' = [exec EXCEPT ![w].mem = r,
                          ![w].phase = IF IsFinished(r) THEN "answer" ELSE "terminate"]
  /\ UNCHANGED <<row, group, task, outbox, sweep, reaper, performed, faults>>

\* Job.terminate on the handler's copy.
Terminate(w) ==
  LET r == SetTerminated(exec[w].mem) IN
  /\ exec[w].phase = "terminate"
  /\ UpdateStatus(w, exec[w].job, Saved(exec[w].job, r), {})
  /\ exec' = [exec EXCEPT ![w].mem = r, ![w].phase = "answer"]
  /\ UNCHANGED <<task, sweep, reaper, performed, faults>>

\* 200; the middleware's background task flushes what terminate() enqueued.
AnswerOk(w) ==
  /\ exec[w].phase = "answer"
  /\ Answer(w, TRUE)
  /\ exec' = [exec EXCEPT ![w] = [Idle EXCEPT !.phase = "background"]]
  /\ UNCHANGED <<row, group, outbox, sweep, reaper, performed, faults>>

BackgroundDone(w) ==
  /\ exec[w].phase = "background" /\ Flushed(w)
  /\ Goto(w, "idle")
  /\ UNCHANGED <<row, group, task, outbox, sweep, reaper, performed, faults>>

-----------------------------------------------------------------------------
(***************************************************************************)
(* Faults of processes and of Cloud Tasks.                                 *)
(***************************************************************************)
\* A worker dies: its memory and its outbox are lost, its attempt fails.
Crash(w) ==
  /\ exec[w].phase # "idle"
  /\ SpendMarking("crash", Cut(w))
  /\ task' = IF Holds(w) THEN AttemptFailed(<<exec[w].job, exec[w].copy>>) ELSE task
  /\ exec' = [exec EXCEPT ![w] = Idle]
  /\ outbox' = [outbox EXCEPT ![w] = EmptyOutbox]
  /\ UNCHANGED <<row, group, sweep, reaper, performed>>

CrashWeb ==
  /\ outbox[Web] # EmptyOutbox
  /\ Spend("crash")
  /\ outbox' = [outbox EXCEPT ![Web] = EmptyOutbox]
  /\ UNCHANGED <<row, group, task, exec, sweep, reaper, performed>>

\* The dispatch deadline passes while the handler goes on running.
Expire(t) ==
  /\ task[t].state = "leased"
  /\ Spend("expire")
  /\ task' = AttemptFailed(t)
  /\ UNCHANGED <<row, group, exec, outbox, sweep, reaper, performed>>

\* A task vanishes from its queue (purged, or deleted by hand).
Lose(t) ==
  /\ task[t].state = "queued"
  /\ Spend("lose")
  /\ task' = Deleted(t)
  /\ UNCHANGED <<row, group, exec, outbox, sweep, reaper, performed>>

\* A row that never started passes dead_job_interval_hours.
Age(j) ==
  /\ row[j].exists /\ ~row[j].started /\ ~row[j].old
  /\ Spend("old")
  /\ row' = [row EXCEPT ![j].old = TRUE]
  /\ UNCHANGED <<group, task, exec, outbox, sweep, reaper, performed>>

\* cancel_job on a fresh copy of a row outside the group (an unscheduled draft):
\* nothing without a task name, else delete the task and write two columns.
Cancel(j) ==
  /\ row[j].exists /\ row[j].name # 0 /\ ~IsFinished(row[j])
  /\ Spend("cancel")
  /\ task' = Deleted(<<j, row[j].name>>)
  /\ row' = [row EXCEPT ![j].name = 0, ![j].terminated = TRUE]
  /\ UNCHANGED <<group, exec, outbox, sweep, reaper, performed>>

-----------------------------------------------------------------------------
(***************************************************************************)
(* EnqueueOutboxJob: read the rows that look unenqueued, enqueue each, save *)
(* no task name.  A row looks unenqueued only job_timeout_seconds after it  *)
(* was created: one that is still being flushed by then, or whose task      *)
(* still waits for its first start, is a "slow" fault.                      *)
(***************************************************************************)
Unenqueued == {j \in Jobs : /\ row[j].exists /\ row[j].name = 0 /\ ~row[j].started
                            /\ ~IsFinished(row[j])}

InFlush(j) == \E p \in Procs : \/ j \in outbox[p].pending
                               \/ \E t \in outbox[p].named : t[1] = j

HasTask(j) == \E k \in 1 .. Copies : task[<<j, k>>].state \in {"queued", "leased"}

SweepRead ==
  /\ sweep = {}
  /\ LET lost == {j \in Unenqueued : ~InFlush(j) /\ ~HasTask(j)} IN
     \/ /\ lost # {} /\ sweep' = lost /\ UNCHANGED faults
     \/ /\ Unenqueued # lost /\ sweep' = Unenqueued /\ Spend("slow")
  /\ UNCHANGED <<row, group, task, exec, outbox, reaper, performed>>

SweepEnqueue(j) ==
  /\ j \in sweep
  /\ \/ \E k \in 1 .. Copies :
          /\ task[<<j, k>>].state = "none"
          /\ task' = [task EXCEPT ![<<j, k>>] = Queued]
     \/ /\ \A k \in 1 .. Copies : task[<<j, k>>].state # "none"     \* bound
        /\ UNCHANGED task
  /\ sweep' = sweep \ {j}
  /\ UNCHANGED <<row, group, exec, outbox, reaper, performed, faults>>

(***************************************************************************)
(* TerminateDeadCloudTasksJob: for each named unfinished row whose task    *)
(* Cloud Tasks does not find, refresh and, unless finished by now, write   *)
(* terminated_at only; the row's group is not told.                        *)
(***************************************************************************)
EnqueuedNotCompleted == {j \in Jobs : row[j].name # 0 /\ ~IsFinished(row[j])}

ReapRead ==
  /\ reaper.queue = {} /\ reaper.doomed = NULL
  /\ \E j \in EnqueuedNotCompleted : task[<<j, row[j].name>>].state = "gone"
  /\ reaper' = [reaper EXCEPT !.queue = {<<j, row[j].name>> : j \in EnqueuedNotCompleted}]
  /\ UNCHANGED <<row, group, task, exec, outbox, sweep, performed, faults>>

ReapProbe(t) ==
  /\ reaper.doomed = NULL /\ t \in reaper.queue
  /\ reaper' = [queue |-> reaper.queue \ {t},
                doomed |-> IF task[t].state = "gone" /\ ~IsFinished(row[t[1]])
                             THEN t[1] ELSE NULL]
  /\ UNCHANGED <<row, group, task, exec, outbox, sweep, performed, faults>>

ReapTerminate(j) ==
  /\ reaper.doomed = j
  /\ row' = [row EXCEPT ![j].terminated = TRUE]
  /\ reaper' = [reaper EXCEPT !.doomed = NULL]
  /\ UNCHANGED <<group, task, exec, outbox, sweep, performed, faults>>

-----------------------------------------------------------------------------
\* The web request has committed its rows (enqueue_job_group, enqueue_job) and
\* is about to flush its outbox.
InitWith(first, limit) ==
  LET members == Cardinality(first \cap GroupJobs) IN
  /\ row = [j \in Jobs |-> IF j \in first THEN NewRow ELSE NoRow]
  /\ group = [total |-> members, remaining |-> members, callback |-> NULL]
  /\ task = [t \in Tasks |-> NoTask]
  /\ exec = [w \in Workers |-> Idle]
  /\ outbox = [p \in Procs |-> IF p = Web THEN [pending |-> first, named |-> {}]
                                          ELSE EmptyOutbox]
  /\ sweep = {}
  /\ reaper = [queue |-> {}, doomed |-> NULL]
  /\ performed = {}
  /\ faults = [left |-> limit, seen |-> {}]

Init == \E s \in Starts : InitWith(s.rows, s.faults)

Handler(w) ==
  \/ Start(w) \/ PerformOk(w) \/ PerformRaises(w) \/ AddToGroup(w)
  \/ RescheduleCancel(w) \/ RescheduleReplace(w) \/ RescheduleAborts(w)
  \/ FinishRead(w) \/ FinishCommit(w) \/ FinishAborts(w)
  \/ FailSave(w) \/ FailSettle(w) \/ FailSettleAborts(w)
  \/ RunReturns(w) \/ FinalCheck(w) \/ Terminate(w) \/ AnswerOk(w) \/ BackgroundDone(w)

Flush(p) == \/ \E j \in Jobs, k \in 1 .. Copies : CreateTask(p, j, k)
            \/ CreateVoidTask(p)
            \/ SaveTaskNames(p)

Sweeper == SweepRead \/ \E j \in Jobs : SweepEnqueue(j)
Reaper  == ReapRead \/ (\E t \in Tasks : ReapProbe(t)) \/ (\E j \in Jobs : ReapTerminate(j))

Environment ==
  \/ \E w \in Workers : Crash(w)
  \/ CrashWeb
  \/ \E t \in Tasks : Expire(t) \/ Lose(t)
  \/ \E j \in Jobs : Age(j)
  \/ \E j \in LoneJobs : Cancel(j)

Next ==
  \/ \E w \in Workers, t \in Tasks : Dispatch(w, t)
  \/ \E w \in Workers : Handler(w)
  \/ \E p \in Procs : Flush(p)
  \/ Sweeper \/ Reaper
  \/ Environment

Spec == Init /\ [][Next]_vars

-----------------------------------------------------------------------------
(***************************************************************************)
(* Fairness.  A handler that is not killed runs on, and so does a flush;    *)
(* Cloud Tasks goes on dispatching while a task is queued and a worker is   *)
(* free (which task it prefers is left open); Cloud Scheduler calls both    *)
(* recurring jobs forever.  No fault is ever forced.                        *)
(***************************************************************************)
Fairness ==
  /\ \A w \in Workers : WF_vars(Handler(w))
  /\ \A p \in Procs : WF_vars(Flush(p))
  /\ WF_vars(\E w \in Workers, t \in Tasks : Dispatch(w, t))
  /\ WF_vars(Sweeper)
  /\ WF_vars(Reaper)

FairSpec == Spec /\ Fairness

-----------------------------------------------------------------------------
(***************************************************************************)
(* Properties.                                                             *)
(***************************************************************************)
Phases == {"idle", "loaded", "performing", "rescheduling", "performed", "read", "raised",
           "failed", "flush", "terminate", "answer", "background"}

Exec == [phase: Phases, job: Jobs \cup {NULL}, copy: 0 .. Copies, mem: Row, fresh: Row,
         mode: {"run", "final", "exhausted"}, ok: BOOLEAN]

\* The shape of every variable: which values the table, the queue and the handlers hold.
TypeOK ==
  /\ row \in [Jobs -> Row]
  /\ group \in [total: Nat, remaining: Nat, callback: Callbacks \cup {NULL}]
  /\ task \in [Tasks -> [state: {"none", "queued", "leased", "gone"}, tries: Nat,
                         holder: Workers \cup {NULL}]]
  /\ exec \in [Workers -> Exec]
  /\ outbox \in [Procs -> [pending: SUBSET (Jobs \cup {NULL}), named: SUBSET Tasks]]
  /\ sweep \in SUBSET Jobs
  /\ reaper \in [queue: SUBSET Tasks, doomed: Jobs \cup {NULL}]
  /\ performed \in SUBSET Jobs
  /\ faults \in [left: [Faults -> Nat], seen: SUBSET Marks]

\* Job.run: whatever copies of a row are in memory and however they overwrite each
\* other, completed_at is only ever stored for a job whose perform() has returned.
CompletedMeansPerformed == \A j \in Jobs : row[j].completed => j \in performed

Without(kinds) == faults.seen \cap kinds = {}

\* No perform() has raised and no attempt was repeated while it ran; and no two writers
\* have had a reason to hold copies of the same row: a job that reschedules itself holds
\* two, and an exception saves the older one.
NoneFails == Without({"raise", "expire", "slow"})
NoOverlap == /\ Without({"expire", "slow", "cancel"})
             /\ (Without({"reschedule"}) \/ Without({"raise"}))

\* JobGroup.update_status: a callback row is only inserted when every member that
\* exists by then is finished (completed or terminated) and none of them failed.
CallbackIsBarrier ==
  [][ \A c \in Callbacks : (NoneFails /\ ~row[c].exists /\ row'[c].exists) =>
        \A j \in GroupJobs : row'[j].exists => IsFinished(row'[j]) /\ ~row'[j].error ]_vars

\* A finished job stays finished: no stale copy takes completed_at or terminated_at back.
FinishedStaysFinished ==
  [][ NoOverlap => \A j \in Jobs : IsFinished(row[j]) => IsFinished(row'[j]) ]_vars

\* JobDefinition.reschedule: the work of a lone job is completed in the end, by the job
\* itself or by a replacement, unless the handler that reschedules it dies, or its
\* transaction fails, after the row was terminated and before its replacement is there.
WorkGetsDone ==
  (\E n \in LoneJobs \ Poison : row[n].exists)
  ~> ((\E n \in LoneJobs \ Poison : row[n].completed) \/ "cut" \in faults.seen)

\* The group's callback is performed once all members have completed, unless its task
\* vanishes.
CallbackRuns ==
  (/\ \E j \in GroupJobs : row[j].exists
   /\ \A j \in GroupJobs : row[j].exists => row[j].completed)
  ~> (\/ \E c \in Callbacks : row[c].completed
      \/ ~Without({"lose"}))

=============================================================================
