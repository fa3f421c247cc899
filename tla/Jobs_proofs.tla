----------------------------- MODULE Jobs_proofs -----------------------------
(***************************************************************************)
(* Proofs about Jobs for any set of rows, workers and faults: the type      *)
(* invariant, CompletedMeansPerformed, and, from the invariant Sole (one    *)
(* task and one handler per row), FinishedStaysFinished; with the count of  *)
(* the members a group still owes (Counted), CallbackIsBarrier.            *)
(***************************************************************************)
EXTENDS Jobs, FiniteSetTheorems, TLAPS

TaskRec == [state: {"none", "queued", "leased", "gone"}, tries: Nat, holder: Workers \cup {NULL}]
OutboxRec == [pending: SUBSET (Jobs \cup {NULL}), named: SUBSET Tasks]
FaultsRec == [left: [Faults -> Nat], seen: SUBSET Marks]
GroupRec == [total: Nat, remaining: Nat, callback: Callbacks \cup {NULL}]

-----------------------------------------------------------------------------
(***************************************************************************)
(* Rows keep their type under every operation on them.                     *)
(***************************************************************************)
LEMMA RowOps ==
  /\ NoRow \in Row /\ NewRow \in Row
  /\ ~NoRow.completed /\ ~NewRow.completed
  /\ \A r \in Row : /\ SetStarted(r) \in Row /\ SetSuccessful(r) \in Row
                    /\ SetFailed(r) \in Row /\ SetTerminated(r) \in Row
                    /\ SetStarted(r).completed = r.completed
                    /\ SetFailed(r).completed = r.completed
                    /\ SetTerminated(r).completed = r.completed
<1>1. Copies \in Nat /\ 0 \in 0 .. Copies
  BY JobsAssumption
<1>2. QED
  BY <1>1 DEF Row, NoRow, NewRow, SetStarted, SetSuccessful, SetFailed, SetTerminated

\* A full-column save stores the given row, its age excepted.
LEMMA SavedType ==
  ASSUME row \in [Jobs -> Row], NEW j \in Jobs, NEW r \in Row
  PROVE  /\ Saved(j, r) \in [Jobs -> Row]
         /\ Saved(j, r)[j].completed = r.completed
         /\ \A i \in Jobs : i # j => Saved(j, r)[i] = row[i]
<1>1. [r EXCEPT !.old = row[j].old] \in Row
  BY DEF Row
<1>2. [r EXCEPT !.old = row[j].old].completed = r.completed
  BY DEF Row
<1>3. QED
  BY <1>1, <1>2 DEF Saved

\* update_status keeps the types and stores the rows it is given, plus at most one
\* fresh callback row.
LEMMA UpdateStatusType ==
  ASSUME TypeOK, NEW p \in Procs, NEW j \in Jobs, NEW rows \in [Jobs -> Row],
         NEW new \in SUBSET Jobs, UpdateStatus(p, j, rows, new)
  PROVE  /\ row' \in [Jobs -> Row]
         /\ group' \in GroupRec
         /\ outbox' \in [Procs -> OutboxRec]
         /\ \A i \in Jobs : row'[i].completed => rows[i].completed
<1> USE DEF TypeOK, GroupRec, OutboxRec
<1>1. Decremented \in Nat
  BY DEF Decremented
<1>2. ASSUME NEW S \in SUBSET Jobs
      PROVE  [outbox EXCEPT ![p].pending = @ \cup S] \in [Procs -> OutboxRec]
  OBVIOUS
<1>3. CASE /\ j \notin GroupJobs /\ row' = rows
           /\ outbox' = [outbox EXCEPT ![p].pending = @ \cup new] /\ UNCHANGED group
  BY <1>2, <1>3
<1>4. CASE /\ j \in GroupJobs /\ row' = rows
           /\ outbox' = [outbox EXCEPT ![p].pending = @ \cup new]
           /\ group' = [group EXCEPT !.remaining = Decremented]
  BY <1>1, <1>2, <1>4
<1>5. ASSUME NEW c \in FreeCallbacks,
             row' = [rows EXCEPT ![c] = NewRow],
             outbox' = [outbox EXCEPT ![p].pending = @ \cup new \cup {c}],
             group' = [group EXCEPT !.remaining = Decremented, !.callback = c]
      PROVE  /\ row' \in [Jobs -> Row]
             /\ group' \in GroupRec
             /\ outbox' \in [Procs -> OutboxRec]
             /\ \A i \in Jobs : row'[i].completed => rows[i].completed
  <2>1. c \in Callbacks /\ c \in Jobs
    BY DEF FreeCallbacks, Jobs
  <2>2. outbox' = [outbox EXCEPT ![p].pending = @ \cup (new \cup {c})]
    BY <1>5
  <2>3. outbox' \in [Procs -> OutboxRec]
    BY <1>2, <2>1, <2>2
  <2>4. group' \in GroupRec
    BY <1>1, <1>5, <2>1
  <2>5. row' \in [Jobs -> Row] /\ \A i \in Jobs : row'[i].completed => rows[i].completed
    BY <1>5, <2>1, RowOps
  <2>6. QED
    BY <2>3, <2>4, <2>5
<1>6. QED
  BY <1>3, <1>4, <1>5 DEF UpdateStatus

-----------------------------------------------------------------------------
(***************************************************************************)
(* The type invariant.                                                     *)
(***************************************************************************)
LEMMA IdleType == Idle \in Exec /\ [Idle EXCEPT !.phase = "background"] \in Exec
<1>1. NoRow \in Row /\ 0 \in 0 .. Copies
  BY RowOps, JobsAssumption
<1>2. Idle \in Exec
  BY <1>1 DEF Idle, Exec, Phases
<1>3. QED
  BY <1>2 DEF Exec, Phases

LEMMA TaskOps ==
  ASSUME task \in [Tasks -> TaskRec], NEW t \in Tasks
  PROVE  /\ NoTask \in TaskRec /\ Queued \in TaskRec
         /\ AttemptFailed(t) \in [Tasks -> TaskRec]
         /\ Deleted(t) \in [Tasks -> TaskRec]
<1>1. NoTask \in TaskRec /\ Queued \in TaskRec /\ [NoTask EXCEPT !.state = "gone"] \in TaskRec
  BY DEF NoTask, Queued, TaskRec
<1>2. [state |-> "queued", tries |-> task[t].tries + 1, holder |-> NULL] \in TaskRec
  BY DEF TaskRec
<1>3. QED
  BY <1>1, <1>2 DEF AttemptFailed, Deleted

LEMMA TypeInit == Init => TypeOK
<1> SUFFICES ASSUME NEW s \in Starts, InitWith(s.rows, s.faults) PROVE TypeOK
  BY DEF Init
<1>0. s.rows \in SUBSET (GroupJobs \cup LoneJobs) /\ s.faults \in [Faults -> Nat]
  BY JobsAssumption
<1>1. row \in [Jobs -> Row]
  BY RowOps DEF InitWith
<1>2. group \in GroupRec
  <2>1. IsFiniteSet(s.rows \cap GroupJobs)
    BY FS_Subset, JobsAssumption
  <2>2. Cardinality(s.rows \cap GroupJobs) \in Nat
    BY <2>1, FS_CardinalityType
  <2>3. QED
    BY <2>2 DEF InitWith, GroupRec
<1>3. task \in [Tasks -> TaskRec]
  BY DEF InitWith, NoTask, TaskRec
<1>4. exec \in [Workers -> Exec]
  BY IdleType DEF InitWith
<1>5. outbox \in [Procs -> OutboxRec]
  BY <1>0 DEF InitWith, OutboxRec, EmptyOutbox, Jobs
<1>6. sweep \in SUBSET Jobs /\ performed \in SUBSET Jobs
  BY DEF InitWith
<1>7. reaper \in [queue: SUBSET Tasks, doomed: Jobs \cup {NULL}]
  BY DEF InitWith
<1>8. faults \in FaultsRec
  BY <1>0 DEF InitWith, FaultsRec
<1>9. QED
  BY <1>1, <1>2, <1>3, <1>4, <1>5, <1>6, <1>7, <1>8 DEF TypeOK, GroupRec, TaskRec, OutboxRec, FaultsRec

\* After a rollback an outbox may hold one more entry, which names no row.
LEMMA AfterAbort ==
  ASSUME TypeOK, NEW p \in Procs, NEW j, NEW rows, NEW new, OutboxAfterAbort(p, j, rows, new)
  PROVE  /\ outbox' \in [Procs -> OutboxRec]
         /\ \A q \in Procs : /\ outbox'[q].named = outbox[q].named
                            /\ \A i \in Jobs : i \in outbox'[q].pending <=> i \in outbox[q].pending
<1>1. NULL \notin Jobs /\ outbox \in [Procs -> OutboxRec]
  BY JobsAssumption DEF Jobs, TypeOK, OutboxRec
<1>2. CASE UNCHANGED outbox
  BY <1>1, <1>2
<1>3. CASE outbox' = [outbox EXCEPT ![p].pending = @ \cup {NULL}]
  BY <1>1, <1>3 DEF OutboxRec
<1>4. QED
  BY <1>2, <1>3 DEF OutboxAfterAbort

\* Creating the task of an entry that names no row takes that entry only.
LEMMA VoidTask ==
  ASSUME TypeOK, NEW p \in Procs, CreateVoidTask(p)
  PROVE  /\ outbox' \in [Procs -> OutboxRec]
         /\ \A q \in Procs : /\ outbox'[q].named = outbox[q].named
                            /\ \A i \in Jobs : i \in outbox'[q].pending <=> i \in outbox[q].pending
<1>1. NULL \notin Jobs /\ outbox \in [Procs -> OutboxRec]
  BY JobsAssumption DEF Jobs, TypeOK, OutboxRec
<1>2. outbox' = [outbox EXCEPT ![p].pending = @ \ {NULL}]
  BY DEF CreateVoidTask
<1>3. QED
  BY <1>1, <1>2 DEF OutboxRec

\* A handler past its dispatch works on a row, for one of the row's tasks.
HasJob == \A w \in Workers :
            /\ exec[w].phase \notin {"idle", "background"} => exec[w].job \in Jobs
            /\ exec[w].job # NULL => exec[w].copy \in 1 .. Copies

LEMMA HasJobInit == Init => HasJob /\ \A w \in Workers : exec[w] = Idle
  BY DEF Init, InitWith, HasJob, Idle

\* The task a handler holds has one of the row's task names.
LEMMA LeasedTask ==
  ASSUME HasJob, NEW w \in Workers, exec[w].job \in Jobs
  PROVE  <<exec[w].job, exec[w].copy>> \in Tasks
  BY JobsAssumption DEF HasJob, Tasks, Jobs

LEMMA TypeStep ==
  ASSUME TypeOK, HasJob, [Next]_vars
  PROVE  TypeOK' /\ HasJob'
<1> DEFINE ExecOK == exec' \in [Workers -> Exec] /\ HasJob'
           Good == /\ row' \in [Jobs -> Row] /\ group' \in GroupRec
                   /\ task' \in [Tasks -> TaskRec]
                   /\ ExecOK /\ outbox' \in [Procs -> OutboxRec]
                   /\ sweep' \in SUBSET Jobs
                   /\ reaper' \in [queue: SUBSET Tasks, doomed: Jobs \cup {NULL}]
                   /\ performed' \in SUBSET Jobs /\ faults' \in FaultsRec
<1>1. /\ row \in [Jobs -> Row] /\ group \in GroupRec /\ task \in [Tasks -> TaskRec]
      /\ exec \in [Workers -> Exec] /\ outbox \in [Procs -> OutboxRec]
      /\ sweep \in SUBSET Jobs
      /\ reaper \in [queue: SUBSET Tasks, doomed: Jobs \cup {NULL}]
      /\ performed \in SUBSET Jobs /\ faults \in FaultsRec
  BY DEF TypeOK, GroupRec, TaskRec, OutboxRec, FaultsRec
<1>goal. SUFFICES Good
  BY DEF TypeOK, GroupRec, TaskRec, OutboxRec, FaultsRec
<1>spend. ASSUME NEW f \in Faults, Spend(f) PROVE faults' \in FaultsRec
  BY <1>1, <1>spend DEF Spend, FaultsRec, Marks
<1>marking. ASSUME NEW f \in Faults, NEW m \in SUBSET Marks, SpendMarking(f, m) PROVE faults' \in FaultsRec
  BY <1>1, <1>marking DEF SpendMarking, FaultsRec, Marks
<1>cut. ASSUME NEW w \in Workers PROVE Cut(w) \in SUBSET Marks
  BY DEF Cut, Marks
<1>raise. ASSUME NEW j \in Jobs, Raise(j) PROVE faults' \in FaultsRec
  BY <1>1, <1>spend, <1>raise DEF Raise, FaultsRec, Faults, Marks
<1>goto. ASSUME NEW w \in Workers, NEW ph \in Phases, exec[w].job \in Jobs \/ ph = "idle", Goto(w, ph)
         PROVE  ExecOK
  BY <1>1, <1>goto DEF Goto, Exec, HasJob
<1>exec. ASSUME NEW w \in Workers, NEW e \in Exec, exec' = [exec EXCEPT ![w] = e],
                e.phase \notin {"idle", "background"} => e.job \in Jobs,
                e.job # NULL => e.copy \in 1 .. Copies
         PROVE  ExecOK
  BY <1>1, <1>exec DEF HasJob
<1>job. ASSUME NEW w \in Workers, exec[w].phase \notin {"idle", "background"}
        PROVE  /\ exec[w].job \in Jobs /\ exec[w].mem \in Row /\ exec[w].fresh \in Row
               /\ exec[w].copy \in 1 .. Copies
  BY <1>1, <1>job, JobsAssumption DEF HasJob, Exec, Jobs
<1>proc. /\ Workers \subseteq Procs /\ Web \in Procs
         /\ LoneJobs \subseteq Jobs /\ GroupJobs \subseteq Jobs /\ Callbacks \subseteq Jobs
  BY DEF Procs, Jobs
<1>10. ASSUME NEW w \in Workers, NEW t \in Tasks, Dispatch(w, t)
      PROVE  Good
  <2>1. t[1] \in Jobs /\ t[2] \in 1 .. Copies /\ t[2] \in 0 .. Copies /\ row[t[1]] \in Row
    BY <1>1, JobsAssumption DEF Tasks
  <2>2. CASE exec' = exec /\ (task' = AttemptFailed(t) \/ task' = Deleted(t))
    <3>1. ExecOK
      BY <1>1, <2>2 DEF HasJob
    <3>2. QED
      BY <1>1, <2>2, <3>1, TaskOps, <1>10 DEF Dispatch
  <2>3. CASE /\ task' = [task EXCEPT ![t].state = "leased", ![t].holder = w]
             /\ exec' = [exec EXCEPT ![w] =
                  [phase |-> IF task[t].tries > RetryCount THEN "terminate" ELSE "loaded",
                   job |-> t[1], copy |-> t[2], mem |-> row[t[1]], fresh |-> NoRow,
                   mode |-> IF task[t].tries = RetryCount THEN "final"
                            ELSE IF task[t].tries > RetryCount THEN "exhausted" ELSE "run",
                   ok |-> TRUE]]
    <3> DEFINE e == [phase |-> IF task[t].tries > RetryCount THEN "terminate" ELSE "loaded",
                   job |-> t[1], copy |-> t[2], mem |-> row[t[1]], fresh |-> NoRow,
                   mode |-> IF task[t].tries = RetryCount THEN "final"
                            ELSE IF task[t].tries > RetryCount THEN "exhausted" ELSE "run",
                   ok |-> TRUE]
    <3>1. e \in Exec /\ e.job \in Jobs /\ e.copy \in 1 .. Copies
      BY <2>1, RowOps DEF Exec, Phases
    <3>2. ExecOK
      BY <1>exec, <2>3, <3>1
    <3>3. task' \in [Tasks -> TaskRec]
      <4>1. [task[t] EXCEPT !.state = "leased", !.holder = w] \in TaskRec
        BY <1>1 DEF TaskRec
      <4>2. task' = [task EXCEPT ![t] = [task[t] EXCEPT !.state = "leased", !.holder = w]]
        BY <1>1, <2>3
      <4>3. QED
        BY <1>1, <4>1, <4>2
    <3>4. QED
      BY <1>1, <2>3, <3>2, <3>3, <1>10 DEF Dispatch
  <2>4. QED
    BY <2>2, <2>3, <1>10 DEF Dispatch
<1>11. ASSUME NEW w \in Workers, Start(w)
      PROVE  Good
  <2> DEFINE e == [exec[w] EXCEPT !.phase = "performing", !.mem = SetStarted(exec[w].mem)]
  <2>1. exec[w].job \in Jobs /\ exec[w].copy \in 1 .. Copies /\ exec[w].mem \in Row /\ exec[w].fresh \in Row /\ exec[w] \in Exec
    BY <1>1, <1>job, <1>11 DEF Start
  <2>s. Saved(exec[w].job, SetStarted(exec[w].mem)) \in [Jobs -> Row]
    BY <1>1, <2>1, RowOps, SavedType
  <2>2. e \in Exec /\ e.job \in Jobs /\ e.copy \in 1 .. Copies
    BY <2>1, RowOps, <1>11 DEF Exec, Phases, Start
  <2>3. exec' = [exec EXCEPT ![w] = e]
    BY <1>1, <1>11 DEF Start
  <2>4. ExecOK
    BY <1>exec, <2>2, <2>3
  <2> HIDE DEF e
  <2>5. QED
    BY <1>1, <2>1, <2>4, <2>s, <1>11 DEF Start, HasJob
<1>12. ASSUME NEW w \in Workers, PerformOk(w)
      PROVE  Good
  <2>1. exec[w].job \in Jobs /\ exec[w].copy \in 1 .. Copies /\ "performed" \in Phases
    BY <1>job, <1>12 DEF PerformOk, Phases
  <2>2. ExecOK
    BY <1>goto, <2>1, <1>12 DEF PerformOk
  <2>3. QED
    BY <1>1, <2>1, <2>2, <1>12 DEF PerformOk, HasJob, Faults
<1>13. ASSUME NEW w \in Workers, PerformRaises(w)
      PROVE  Good
  <2>1. exec[w].job \in Jobs /\ exec[w].copy \in 1 .. Copies /\ "raised" \in Phases
    BY <1>job, <1>13 DEF PerformRaises, Phases
  <2>2. ExecOK
    BY <1>goto, <2>1, <1>13 DEF PerformRaises
  <2>3. QED
    BY <1>1, <2>1, <2>2, <1>raise, <1>13 DEF PerformRaises, HasJob, Faults
<1>14. ASSUME NEW w \in Workers, AddToGroup(w)
      PROVE  Good
  <2>1. PICK j \in GroupJobs : /\ row' = [row EXCEPT ![j] = NewRow]
                              /\ outbox' = [outbox EXCEPT ![w].pending = @ \cup {j}]
    BY <1>14 DEF AddToGroup
  <2>2. row' \in [Jobs -> Row]
    BY <1>1, <1>proc, <2>1, RowOps
  <2>3. outbox' \in [Procs -> OutboxRec]
    BY <1>1, <1>proc, <2>1 DEF OutboxRec
  <2>4. group' \in GroupRec
    <3>1. group.total + 1 \in Nat /\ group.remaining + 1 \in Nat
      BY <1>1 DEF GroupRec
    <3>2. group' = [group EXCEPT !.total = @ + 1, !.remaining = @ + 1]
      BY <1>14 DEF AddToGroup
    <3>3. QED
      BY <1>1, <3>1, <3>2 DEF GroupRec
  <2>5. ExecOK
    BY <1>1, <1>14 DEF AddToGroup, HasJob
  <2>6. QED
    BY <1>1, <1>spend, <2>2, <2>3, <2>4, <2>5, <1>14 DEF AddToGroup, Faults
<1>15. ASSUME NEW w \in Workers, RescheduleCancel(w)
      PROVE  Good
  <2> DEFINE j == exec[w].job
             r == IF row[j].name = 0 THEN row[j]
                  ELSE [row[j] EXCEPT !.name = 0, !.terminated = TRUE]
             e == [exec[w] EXCEPT !.phase = "rescheduling", !.fresh = r]
  <2>1. j \in Jobs /\ exec[w].copy \in 1 .. Copies /\ row[j] \in Row /\ exec[w] \in Exec
    BY <1>1, <1>job, <1>15 DEF RescheduleCancel
  <2>2. r \in Row
    <3>1. 0 \in 0 .. Copies
      BY JobsAssumption
    <3>2. [row[j] EXCEPT !.name = 0, !.terminated = TRUE] \in Row
      BY <2>1, <3>1 DEF Row
    <3>3. QED
      BY <2>1, <3>2
  <2>3. e \in Exec /\ e.job \in Jobs /\ e.copy \in 1 .. Copies
    BY <2>1, <2>2 DEF Exec, Phases
  <2>4. ExecOK
    <3>1. exec' = [exec EXCEPT ![w] = e]
      BY <1>1, <1>15 DEF RescheduleCancel
    <3>2. QED
      BY <1>exec, <2>3, <3>1
  <2>5. row' \in [Jobs -> Row]
    BY <1>1, <2>1, <2>2, <1>15 DEF RescheduleCancel
  <2>6. task' \in [Tasks -> TaskRec]
    <3>1. row[j].name # 0 => <<j, row[j].name>> \in Tasks
      BY <2>1, JobsAssumption DEF Tasks, Row
    <3>2. QED
      BY <1>1, <3>1, TaskOps, <1>15 DEF RescheduleCancel
  <2>7. QED
    BY <1>1, <1>spend, <2>4, <2>5, <2>6, <1>15 DEF RescheduleCancel, Faults
<1>16. ASSUME NEW w \in Workers, RescheduleReplace(w)
      PROVE  Good
  <2> DEFINE e == [exec[w] EXCEPT !.phase = "performing", !.fresh = SetTerminated(exec[w].fresh)]
  <2>1. exec[w].job \in Jobs /\ exec[w].copy \in 1 .. Copies /\ exec[w].fresh \in Row /\ exec[w] \in Exec
    BY <1>1, <1>job, <1>16 DEF RescheduleReplace
  <2>2. PICK n \in LoneJobs :
          UpdateStatus(w, exec[w].job,
            [Saved(exec[w].job, SetTerminated(exec[w].fresh)) EXCEPT ![n] = NewRow], {n})
    BY <1>16 DEF RescheduleReplace, Replacements
  <2>3. [Saved(exec[w].job, SetTerminated(exec[w].fresh)) EXCEPT ![n] = NewRow] \in [Jobs -> Row]
    <3>1. Saved(exec[w].job, SetTerminated(exec[w].fresh)) \in [Jobs -> Row]
      BY <1>1, <2>1, RowOps, SavedType
    <3>2. QED
      BY <3>1, RowOps
  <2>4. row' \in [Jobs -> Row] /\ group' \in GroupRec /\ outbox' \in [Procs -> OutboxRec]
    BY <1>proc, <2>1, <2>2, <2>3, UpdateStatusType
  <2>5. e \in Exec /\ e.job \in Jobs /\ e.copy \in 1 .. Copies
    BY <2>1, RowOps DEF Exec, Phases
  <2>6. ExecOK
    <3>1. exec' = [exec EXCEPT ![w] = e]
      BY <1>1, <1>16 DEF RescheduleReplace
    <3>2. QED
      BY <1>exec, <2>5, <3>1
  <2>7. QED
    BY <1>1, <2>4, <2>6, <1>16 DEF RescheduleReplace
<1>17. ASSUME NEW w \in Workers, RescheduleAborts(w)
      PROVE  Good
  <2> DEFINE e == [exec[w] EXCEPT !.phase = "raised"]
  <2>1. exec[w].job \in Jobs /\ exec[w].copy \in 1 .. Copies /\ exec[w].mem \in Row /\ exec[w].fresh \in Row /\ exec[w] \in Exec
    BY <1>1, <1>job, <1>17 DEF RescheduleAborts
  <2>2. e \in Exec /\ e.job \in Jobs /\ e.copy \in 1 .. Copies
    BY <2>1, RowOps, <1>17 DEF Exec, Phases, RescheduleAborts
  <2>3. exec' = [exec EXCEPT ![w] = e]
    BY <1>1, <1>17 DEF RescheduleAborts
  <2>4. ExecOK
    BY <1>exec, <2>2, <2>3
  <2> HIDE DEF e
  <2>5. QED
    <3>1. faults' \in FaultsRec
      <4>1. "abort" \in Faults /\ {"raise"} \cup Cut(w) \in SUBSET Marks
        BY <1>cut DEF Marks, Faults
      <4>2. SpendMarking("abort", {"raise"} \cup Cut(w))
        BY <1>17 DEF RescheduleAborts
      <4>3. QED
        BY <1>marking, <4>1, <4>2
    <3>2. outbox' \in [Procs -> OutboxRec]
      BY <1>proc, <1>17, AfterAbort DEF RescheduleAborts
    <3>3. QED
      BY <1>1, <2>4, <3>1, <3>2, <1>17 DEF RescheduleAborts
<1>18. ASSUME NEW w \in Workers, FinishRead(w)
      PROVE  Good
  <2> DEFINE e == [exec[w] EXCEPT !.mem = row[exec[w].job], !.phase = IF IsStarted(row[exec[w].job]) THEN "read" ELSE "flush"]
  <2>1. exec[w].job \in Jobs /\ exec[w].copy \in 1 .. Copies /\ exec[w].mem \in Row /\ exec[w].fresh \in Row /\ exec[w] \in Exec
    BY <1>1, <1>job, <1>18 DEF FinishRead
  <2>r. row[exec[w].job] \in Row
    BY <1>1, <2>1
  <2>2. e \in Exec /\ e.job \in Jobs /\ e.copy \in 1 .. Copies
    BY <2>1, <2>r DEF Exec, Phases
  <2>3. exec' = [exec EXCEPT ![w] = e]
    BY <1>1, <1>18 DEF FinishRead
  <2>4. ExecOK
    BY <1>exec, <2>2, <2>3
  <2> HIDE DEF e
  <2>5. QED
    BY <1>1, <2>1, <2>4, <1>18 DEF FinishRead, HasJob
<1>19. ASSUME NEW w \in Workers, FinishCommit(w)
      PROVE  Good
  <2> DEFINE e == [exec[w] EXCEPT !.mem = SetSuccessful(exec[w].mem), !.phase = "flush"]
  <2>1. exec[w].job \in Jobs /\ exec[w].copy \in 1 .. Copies /\ exec[w].mem \in Row /\ exec[w].fresh \in Row /\ exec[w] \in Exec
    BY <1>1, <1>job, <1>19 DEF FinishCommit
  <2>s. Saved(exec[w].job, SetSuccessful(exec[w].mem)) \in [Jobs -> Row]
    BY <1>1, <2>1, RowOps, SavedType
  <2>u. row' \in [Jobs -> Row] /\ group' \in GroupRec /\ outbox' \in [Procs -> OutboxRec]
    BY <1>proc, <2>1, <2>s, UpdateStatusType, <1>19 DEF FinishCommit
  <2>2. e \in Exec /\ e.job \in Jobs /\ e.copy \in 1 .. Copies
    BY <2>1, RowOps, <1>19 DEF Exec, Phases, FinishCommit
  <2>3. exec' = [exec EXCEPT ![w] = e]
    BY <1>1, <1>19 DEF FinishCommit
  <2>4. ExecOK
    BY <1>exec, <2>2, <2>3
  <2> HIDE DEF e
  <2>5. QED
    BY <1>1, <2>1, <2>4, <2>u, <1>19 DEF FinishCommit, HasJob
<1>20. ASSUME NEW w \in Workers, FinishAborts(w)
      PROVE  Good
  <2> DEFINE e == [exec[w] EXCEPT !.mem = SetSuccessful(exec[w].mem), !.phase = "raised"]
  <2>1. exec[w].job \in Jobs /\ exec[w].copy \in 1 .. Copies /\ exec[w].mem \in Row /\ exec[w].fresh \in Row /\ exec[w] \in Exec
    BY <1>1, <1>job, <1>20 DEF FinishAborts
  <2>2. e \in Exec /\ e.job \in Jobs /\ e.copy \in 1 .. Copies
    BY <2>1, RowOps, <1>20 DEF Exec, Phases, FinishAborts
  <2>3. exec' = [exec EXCEPT ![w] = e]
    BY <1>1, <1>20 DEF FinishAborts
  <2>4. ExecOK
    BY <1>exec, <2>2, <2>3
  <2> HIDE DEF e
  <2>5. outbox' \in [Procs -> OutboxRec]
    BY <1>proc, <1>20, AfterAbort DEF FinishAborts
  <2>6. QED
    BY <1>1, <2>1, <2>4, <2>5, <1>spend, <1>20 DEF FinishAborts, HasJob, Faults
<1>21. ASSUME NEW w \in Workers, FailSave(w)
      PROVE  Good
  <2> DEFINE e == [exec[w] EXCEPT !.mem = SetFailed(exec[w].mem), !.phase = "failed", !.ok = FALSE]
  <2>1. exec[w].job \in Jobs /\ exec[w].copy \in 1 .. Copies /\ exec[w].mem \in Row /\ exec[w].fresh \in Row /\ exec[w] \in Exec
    BY <1>1, <1>job, <1>21 DEF FailSave
  <2>s. Saved(exec[w].job, SetFailed(exec[w].mem)) \in [Jobs -> Row]
    BY <1>1, <2>1, RowOps, SavedType
  <2>2. e \in Exec /\ e.job \in Jobs /\ e.copy \in 1 .. Copies
    BY <2>1, RowOps, <1>21 DEF Exec, Phases, FailSave
  <2>3. exec' = [exec EXCEPT ![w] = e]
    BY <1>1, <1>21 DEF FailSave
  <2>4. ExecOK
    BY <1>exec, <2>2, <2>3
  <2> HIDE DEF e
  <2>5. QED
    BY <1>1, <2>1, <2>4, <2>s, <1>21 DEF FailSave, HasJob
<1>22. ASSUME NEW w \in Workers, FailSettle(w)
      PROVE  Good
  <2>1. exec[w].job \in Jobs /\ exec[w].copy \in 1 .. Copies /\ "flush" \in Phases
    BY <1>job, <1>22 DEF FailSettle, Phases
  <2>2. ExecOK
    BY <1>goto, <2>1, <1>22 DEF FailSettle
  <2>3. row' \in [Jobs -> Row] /\ group' \in GroupRec /\ outbox' \in [Procs -> OutboxRec]
    BY <1>1, <1>proc, <2>1, UpdateStatusType, <1>22 DEF FailSettle
  <2>4. QED
    BY <1>1, <2>2, <2>3, <1>22 DEF FailSettle
<1>23. ASSUME NEW w \in Workers, FailSettleAborts(w)
      PROVE  Good
  <2>1. exec[w].job \in Jobs /\ exec[w].copy \in 1 .. Copies /\ "flush" \in Phases
    BY <1>job, <1>23 DEF FailSettleAborts, Phases
  <2>2. ExecOK
    BY <1>goto, <2>1, <1>23 DEF FailSettleAborts
  <2>3. outbox' \in [Procs -> OutboxRec]
    BY <1>proc, <1>23, AfterAbort DEF FailSettleAborts
  <2>4. QED
    BY <1>1, <2>1, <2>2, <2>3, <1>spend, <1>23 DEF FailSettleAborts, HasJob, Faults
<1>24. ASSUME NEW w \in Workers, RunReturns(w)
      PROVE  Good
  <2>1. exec[w].job \in Jobs /\ exec[w].copy \in 1 .. Copies /\ exec[w] \in Exec
    BY <1>1, <1>job, <1>24 DEF RunReturns
  <2>2. task' \in [Tasks -> TaskRec]
    <3>1. CASE Holds(w)
      <4>1. <<exec[w].job, exec[w].copy>> \in Tasks
        BY LeasedTask, <2>1, <3>1
      <4>2. QED
        BY <1>1, <3>1, <4>1, TaskOps, <1>24 DEF RunReturns, Answer
    <3>2. CASE ~Holds(w)
      BY <1>1, <3>2, <1>24 DEF RunReturns, Answer
    <3>3. QED
      BY <3>1, <3>2
  <2>3. ExecOK
    BY <1>exec, IdleType, <1>24 DEF RunReturns, Idle
  <2>4. QED
    BY <1>1, <2>2, <2>3, <1>24 DEF RunReturns
<1>25. ASSUME NEW w \in Workers, FinalCheck(w)
      PROVE  Good
  <2> DEFINE e == [exec[w] EXCEPT !.mem = row[exec[w].job], !.phase = IF IsFinished(row[exec[w].job]) THEN "answer" ELSE "terminate"]
  <2>1. exec[w].job \in Jobs /\ exec[w].copy \in 1 .. Copies /\ exec[w].mem \in Row /\ exec[w].fresh \in Row /\ exec[w] \in Exec
    BY <1>1, <1>job, <1>25 DEF FinalCheck
  <2>r. row[exec[w].job] \in Row
    BY <1>1, <2>1
  <2>2. e \in Exec /\ e.job \in Jobs /\ e.copy \in 1 .. Copies
    BY <2>1, <2>r DEF Exec, Phases
  <2>3. exec' = [exec EXCEPT ![w] = e]
    BY <1>1, <1>25 DEF FinalCheck
  <2>4. ExecOK
    BY <1>exec, <2>2, <2>3
  <2> HIDE DEF e
  <2>5. QED
    BY <1>1, <2>1, <2>4, <1>25 DEF FinalCheck, HasJob
<1>26. ASSUME NEW w \in Workers, Terminate(w)
      PROVE  Good
  <2> DEFINE e == [exec[w] EXCEPT !.mem = SetTerminated(exec[w].mem), !.phase = "answer"]
  <2>1. exec[w].job \in Jobs /\ exec[w].copy \in 1 .. Copies /\ exec[w].mem \in Row /\ exec[w].fresh \in Row /\ exec[w] \in Exec
    BY <1>1, <1>job, <1>26 DEF Terminate
  <2>s. Saved(exec[w].job, SetTerminated(exec[w].mem)) \in [Jobs -> Row]
    BY <1>1, <2>1, RowOps, SavedType
  <2>u. row' \in [Jobs -> Row] /\ group' \in GroupRec /\ outbox' \in [Procs -> OutboxRec]
    BY <1>proc, <2>1, <2>s, UpdateStatusType, <1>26 DEF Terminate
  <2>2. e \in Exec /\ e.job \in Jobs /\ e.copy \in 1 .. Copies
    BY <2>1, RowOps, <1>26 DEF Exec, Phases, Terminate
  <2>3. exec' = [exec EXCEPT ![w] = e]
    BY <1>1, <1>26 DEF Terminate
  <2>4. ExecOK
    BY <1>exec, <2>2, <2>3
  <2> HIDE DEF e
  <2>5. QED
    BY <1>1, <2>1, <2>4, <2>u, <1>26 DEF Terminate, HasJob
<1>27. ASSUME NEW w \in Workers, AnswerOk(w)
      PROVE  Good
  <2>1. exec[w].job \in Jobs /\ exec[w].copy \in 1 .. Copies /\ exec[w] \in Exec
    BY <1>1, <1>job, <1>27 DEF AnswerOk
  <2>2. task' \in [Tasks -> TaskRec]
    <3>1. CASE Holds(w)
      <4>1. <<exec[w].job, exec[w].copy>> \in Tasks
        BY LeasedTask, <2>1, <3>1
      <4>2. QED
        BY <1>1, <3>1, <4>1, TaskOps, <1>27 DEF AnswerOk, Answer
    <3>2. CASE ~Holds(w)
      BY <1>1, <3>2, <1>27 DEF AnswerOk, Answer
    <3>3. QED
      BY <3>1, <3>2
  <2>3. ExecOK
    BY <1>exec, IdleType, <1>27 DEF AnswerOk, Idle
  <2>4. QED
    BY <1>1, <2>2, <2>3, <1>27 DEF AnswerOk
<1>28. ASSUME NEW w \in Workers, BackgroundDone(w)
      PROVE  Good
  <2>1. ExecOK
    BY <1>goto, <1>28 DEF BackgroundDone, Phases
  <2>2. QED
    BY <1>1, <2>1, <1>28 DEF BackgroundDone
<1>29. ASSUME NEW p \in Procs, NEW j \in Jobs, NEW k \in 1 .. Copies, CreateTask(p, j, k)
      PROVE  Good
  <2>1. <<j, k>> \in Tasks
    BY DEF Tasks
  <2>2. task' \in [Tasks -> TaskRec]
    <3>1. task' = [task EXCEPT ![<<j, k>>] = Queued] /\ Queued \in TaskRec
      BY <1>1, <2>1, TaskOps, <1>29 DEF CreateTask
    <3>2. QED
      BY <1>1, <2>1, <3>1
  <2>3. outbox' \in [Procs -> OutboxRec]
    <3>1. [outbox[p] EXCEPT !.pending = @ \ {j}, !.named = @ \cup {<<j, k>>}] \in OutboxRec
      <4>1. outbox[p] \in OutboxRec
        BY <1>1
      <4>2. /\ outbox[p].pending \ {j} \in SUBSET (Jobs \cup {NULL})
            /\ outbox[p].named \cup {<<j, k>>} \in SUBSET Tasks
        BY <2>1, <4>1 DEF OutboxRec
      <4>3. QED
        BY <4>1, <4>2 DEF OutboxRec
    <3>2. outbox' = [outbox EXCEPT ![p] =
                       [outbox[p] EXCEPT !.pending = @ \ {j}, !.named = @ \cup {<<j, k>>}]]
      BY <1>1, <1>29 DEF CreateTask
    <3>3. QED
      BY <1>1, <3>1, <3>2
  <2>4. ExecOK
    BY <1>1, <1>29 DEF CreateTask, HasJob
  <2>5. QED
    BY <1>1, <2>2, <2>3, <2>4, <1>29 DEF CreateTask
<1>void. ASSUME NEW p \in Procs, CreateVoidTask(p)
      PROVE  Good
  <2>1. ExecOK
    BY <1>1, <1>void DEF CreateVoidTask, HasJob
  <2>2. QED
    BY <1>1, <1>void, <2>1, VoidTask DEF CreateVoidTask
<1>30. ASSUME NEW p \in Procs, SaveTaskNames(p)
      PROVE  Good
  <2>1. ASSUME NEW j \in Jobs PROVE row'[j] \in Row
    <3>1. CASE \E t \in outbox[p].named : t[1] = j
      <4>1. (CHOOSE t \in outbox[p].named : t[1] = j) \in outbox[p].named
        BY <3>1
      <4>2. NameFor(p, j) \in 1 .. Copies
        BY <1>1, <4>1 DEF NameFor, OutboxRec, Tasks
      <4>3. row'[j] = [row[j] EXCEPT !.name = NameFor(p, j)]
        BY <3>1, <1>30 DEF SaveTaskNames
      <4>4. row[j] \in Row /\ NameFor(p, j) \in 0 .. Copies
        BY <1>1, <4>2, JobsAssumption
      <4>5. QED
        BY <4>3, <4>4 DEF Row
    <3>2. CASE ~\E t \in outbox[p].named : t[1] = j
      BY <1>1, <3>2, <1>30 DEF SaveTaskNames
    <3>3. QED
      BY <3>1, <3>2
  <2>2. row' \in [Jobs -> Row]
    BY <2>1, <1>30 DEF SaveTaskNames
  <2>3. outbox' \in [Procs -> OutboxRec]
    BY <1>1, <1>30 DEF SaveTaskNames, OutboxRec, EmptyOutbox
  <2>4. ExecOK
    BY <1>1, <1>30 DEF SaveTaskNames, HasJob
  <2>5. QED
    BY <1>1, <2>2, <2>3, <2>4, <1>30 DEF SaveTaskNames
<1>31. ASSUME NEW w \in Workers, Crash(w)
      PROVE  Good
  <2>1. task' \in [Tasks -> TaskRec]
    <3>1. CASE Holds(w)
      <4>1. <<exec[w].job, exec[w].copy>> \in Tasks
        <5>1. exec[w].job \in Jobs
          BY <1>1, <3>1 DEF Holds, Exec
        <5>2. QED
          BY LeasedTask, <5>1, <3>1
      <4>2. QED
        BY <1>1, <3>1, <4>1, TaskOps, <1>31 DEF Crash
    <3>2. CASE ~Holds(w)
      BY <1>1, <3>2, <1>31 DEF Crash
    <3>3. QED
      BY <3>1, <3>2
  <2>2. outbox' \in [Procs -> OutboxRec]
    BY <1>1, <1>proc, <1>31 DEF Crash, OutboxRec, EmptyOutbox
  <2>3. ExecOK
    BY <1>exec, IdleType, <1>31 DEF Crash, Idle
  <2>4. faults' \in FaultsRec
    BY <1>marking, <1>cut, <1>31 DEF Crash, Faults
  <2>5. QED
    BY <1>1, <2>1, <2>2, <2>3, <2>4, <1>31 DEF Crash
<1>32. ASSUME CrashWeb
      PROVE  Good
  <2>1. outbox' \in [Procs -> OutboxRec]
    BY <1>1, <1>proc, <1>32 DEF CrashWeb, OutboxRec, EmptyOutbox
  <2>2. ExecOK
    BY <1>1, <1>32 DEF CrashWeb, HasJob
  <2>3. QED
    BY <1>1, <1>spend, <2>1, <2>2, <1>32 DEF CrashWeb, Faults
<1>33. ASSUME NEW t \in Tasks, Expire(t) \/ Lose(t)
      PROVE  Good
  <2>1. ExecOK
    BY <1>1, <1>33 DEF Expire, Lose, HasJob
  <2>2. QED
    BY <1>1, <1>spend, <2>1, TaskOps, <1>33 DEF Expire, Lose, Faults
<1>34. ASSUME NEW j \in Jobs, Age(j)
      PROVE  Good
  <2>1. ExecOK
    BY <1>1, <1>34 DEF Age, HasJob
  <2>2. row' \in [Jobs -> Row]
    <3>1. row[j] \in Row /\ [row[j] EXCEPT !.old = TRUE] \in Row
      BY <1>1 DEF Row
    <3>2. row' = [row EXCEPT ![j] = [row[j] EXCEPT !.old = TRUE]]
      BY <1>1, <1>34 DEF Age
    <3>3. QED
      BY <1>1, <3>1, <3>2
  <2>3. faults' \in FaultsRec
    <3>1. Spend("old") /\ "old" \in Faults
      BY <1>34 DEF Age, Faults
    <3>2. QED
      BY <1>spend, <3>1
  <2>4. /\ group' = group /\ task' = task /\ outbox' = outbox /\ sweep' = sweep
        /\ reaper' = reaper /\ performed' = performed
    BY <1>34 DEF Age
  <2>5. QED
    BY <1>1, <2>1, <2>2, <2>3, <2>4
<1>35. ASSUME NEW j \in LoneJobs, Cancel(j)
      PROVE  Good
  <2>1. ExecOK
    BY <1>1, <1>35 DEF Cancel, HasJob
  <2>2. row' \in [Jobs -> Row]
    <3>1. 0 \in 0 .. Copies /\ row[j] \in Row
      BY <1>1, <1>proc, JobsAssumption
    <3>2. [row[j] EXCEPT !.name = 0, !.terminated = TRUE] \in Row
      BY <3>1 DEF Row
    <3>3. row' = [row EXCEPT ![j] = [row[j] EXCEPT !.name = 0, !.terminated = TRUE]]
      BY <1>1, <1>proc, <1>35 DEF Cancel
    <3>4. QED
      BY <1>1, <1>proc, <3>2, <3>3
  <2>3. task' \in [Tasks -> TaskRec]
    <3>1. <<j, row[j].name>> \in Tasks
      BY <1>1, <1>proc, JobsAssumption, <1>35 DEF Cancel, Tasks, Row
    <3>2. QED
      BY <1>1, <3>1, TaskOps, <1>35 DEF Cancel
  <2>4. QED
    BY <1>1, <1>spend, <2>1, <2>2, <2>3, <1>35 DEF Cancel, Faults
<1>36. ASSUME Sweeper
      PROVE  Good
  <2>1. ExecOK
    BY <1>1, <1>36 DEF Sweeper, SweepRead, SweepEnqueue, HasJob
  <2>2. CASE SweepRead
    BY <1>1, <1>spend, <2>1, <2>2 DEF SweepRead, Unenqueued, Faults
  <2>3. ASSUME NEW j \in Jobs, SweepEnqueue(j) PROVE task' \in [Tasks -> TaskRec]
    <3>1. \A k \in 1 .. Copies : <<j, k>> \in Tasks
      BY DEF Tasks
    <3>2. QED
      BY <1>1, <2>3, <3>1, TaskOps DEF SweepEnqueue
  <2>4. ASSUME NEW j \in Jobs, SweepEnqueue(j) PROVE sweep' \in SUBSET Jobs
    BY <1>1, <2>4 DEF SweepEnqueue
  <2>5. CASE \E j \in Jobs : SweepEnqueue(j)
    BY <1>1, <2>1, <2>3, <2>4, <2>5 DEF SweepEnqueue
  <2>6. QED
    BY <2>2, <2>5, <1>36 DEF Sweeper
<1>37. ASSUME Reaper
      PROVE  Good
  <2>1. ExecOK
    BY <1>1, <1>37 DEF Reaper, ReapRead, ReapProbe, ReapTerminate, HasJob
  <2>2. CASE ReapRead
    <3>1. ASSUME NEW j \in EnqueuedNotCompleted PROVE <<j, row[j].name>> \in Tasks
      BY <1>1, JobsAssumption DEF EnqueuedNotCompleted, Tasks, Row
    <3>2. {<<j, row[j].name>> : j \in EnqueuedNotCompleted} \in SUBSET Tasks
      BY <3>1
    <3>3. QED
      BY <1>1, <2>1, <2>2, <3>2 DEF ReapRead
  <2>3. ASSUME NEW t \in Tasks, ReapProbe(t)
        PROVE  reaper' \in [queue: SUBSET Tasks, doomed: Jobs \cup {NULL}]
    BY <1>1, <2>3 DEF ReapProbe, Tasks
  <2>4. ASSUME NEW j \in Jobs, ReapTerminate(j)
        PROVE  /\ reaper' \in [queue: SUBSET Tasks, doomed: Jobs \cup {NULL}]
               /\ row' \in [Jobs -> Row]
    <3>1. row[j] \in Row /\ [row[j] EXCEPT !.terminated = TRUE] \in Row
      BY <1>1 DEF Row
    <3>2. row' = [row EXCEPT ![j] = [row[j] EXCEPT !.terminated = TRUE]]
      BY <1>1, <2>4 DEF ReapTerminate
    <3>3. reaper' = [reaper EXCEPT !.doomed = NULL]
      BY <2>4 DEF ReapTerminate
    <3>4. QED
      BY <1>1, <3>1, <3>2, <3>3
  <2>5. QED
    BY <1>1, <2>1, <2>2, <2>3, <2>4, <1>37 DEF Reaper, ReapProbe, ReapTerminate
<1>38. CASE UNCHANGED vars
  BY <1>1, <1>38 DEF vars, HasJob
<1>h. ASSUME NEW w \in Workers, Handler(w)
      PROVE  Good
  BY <1>h, <1>11, <1>12, <1>13, <1>14, <1>15, <1>16, <1>17, <1>18, <1>19, <1>20, <1>21, <1>22, <1>23, <1>24, <1>25, <1>26, <1>27, <1>28 DEF Handler
<1>q. QED
  BY <1>h, <1>10, <1>29, <1>void, <1>30, <1>31, <1>32, <1>33, <1>34, <1>35, <1>36, <1>37, <1>38
     DEF Next, Flush, Environment

\* The shape of every variable, in every reachable state.
THEOREM TypeCorrect == Spec => []TypeOK
<1>1. Init => TypeOK /\ HasJob
  BY TypeInit, HasJobInit
<1>2. (TypeOK /\ HasJob) /\ [Next]_vars => (TypeOK /\ HasJob)'
  BY TypeStep
<1>3. QED
  BY <1>1, <1>2, PTL DEF Spec

-----------------------------------------------------------------------------
(***************************************************************************)
(* CompletedMeansPerformed.  The property alone is not inductive: a copy in *)
(* some handler's memory could carry completed_at to the table.            *)
(***************************************************************************)
\* A copy of a row that says "completed", or a handler about to save one, belongs
\* to a job whose perform() has returned.
HonestMemory ==
  \A w \in Workers :
    /\ exec[w].mem.completed \/ exec[w].fresh.completed => exec[w].job \in performed
    /\ exec[w].phase \in {"performed", "read"} => exec[w].job \in performed

CompletedInv == TypeOK /\ HasJob /\ CompletedMeansPerformed /\ HonestMemory

LEMMA CompletedStep ==
  ASSUME CompletedInv, [Next]_vars
  PROVE  CompletedMeansPerformed' /\ HonestMemory'
<1> USE DEF CompletedInv
<1>1. /\ TypeOK /\ HasJob
      /\ row \in [Jobs -> Row] /\ exec \in [Workers -> Exec] /\ performed \in SUBSET Jobs
  BY DEF TypeOK
<1>row. ASSUME performed \subseteq performed',
               \A i \in Jobs : row'[i].completed => row[i].completed \/ i \in performed'
        PROVE  CompletedMeansPerformed'
  BY <1>row DEF CompletedMeansPerformed
<1>exec. ASSUME performed \subseteq performed', NEW w \in Workers, NEW e,
                exec' = [exec EXCEPT ![w] = e],
                e.mem.completed \/ e.fresh.completed => e.job \in performed',
                e.phase \in {"performed", "read"} => e.job \in performed'
         PROVE  HonestMemory'
  BY <1>1, <1>exec DEF HonestMemory
<1>same. ASSUME UNCHANGED <<exec, performed>> PROVE HonestMemory'
  BY <1>same DEF HonestMemory
<1>work. ASSUME NEW w \in Workers, exec[w].phase \notin {"idle", "background"}
         PROVE  /\ exec[w] \in Exec /\ exec[w].job \in Jobs /\ exec[w].mem \in Row
                /\ exec[w].fresh \in Row /\ row[exec[w].job] \in Row
                /\ exec[w].mem.completed => exec[w].job \in performed
                /\ exec[w].fresh.completed => exec[w].job \in performed
                /\ row[exec[w].job].completed => exec[w].job \in performed
                /\ exec[w].phase \in {"performed", "read"} => exec[w].job \in performed
  BY <1>1, <1>work DEF HasJob, Exec, HonestMemory, CompletedMeansPerformed
<1>idle. /\ ~Idle.mem.completed /\ ~Idle.fresh.completed
         /\ Idle.phase \notin {"performed", "read"}
         /\ LET b == [Idle EXCEPT !.phase = "background"] IN
              /\ ~b.mem.completed /\ ~b.fresh.completed
              /\ b.phase \notin {"performed", "read"}
  BY RowOps DEF Idle
<1>saved. ASSUME NEW j \in Jobs, NEW r \in Row, r.completed => j \in performed
          PROVE  /\ Saved(j, r) \in [Jobs -> Row]
                 /\ \A i \in Jobs : Saved(j, r)[i].completed => row[i].completed \/ i \in performed
  <2>1. /\ Saved(j, r) \in [Jobs -> Row] /\ Saved(j, r)[j].completed = r.completed
        /\ \A i \in Jobs : i # j => Saved(j, r)[i] = row[i]
    BY <1>1, SavedType
  <2> HIDE DEF CompletedInv
  <2>2. ASSUME NEW i \in Jobs, Saved(j, r)[i].completed PROVE row[i].completed \/ i \in performed
    BY <1>saved, <2>1, <2>2, Zenon
  <2>3. QED
    BY <2>1, <2>2
<1>proc. Workers \subseteq Procs /\ LoneJobs \subseteq Jobs /\ GroupJobs \subseteq Jobs
  BY DEF Procs, Jobs
<1>10. ASSUME NEW w \in Workers, NEW t \in Tasks, Dispatch(w, t)
      PROVE  CompletedMeansPerformed' /\ HonestMemory'
  <2>1. row' = row /\ performed' = performed /\ row[t[1]] \in Row /\ t[1] \in Jobs
    BY <1>1, <1>10 DEF Dispatch, Tasks
  <2>2. CASE exec' = exec
    BY <1>row, <1>same, <2>1, <2>2
  <2>3. CASE exec' # exec
    <3> DEFINE e == [phase |-> IF task[t].tries > RetryCount THEN "terminate" ELSE "loaded",
                   job |-> t[1], copy |-> t[2], mem |-> row[t[1]], fresh |-> NoRow,
                   mode |-> IF task[t].tries = RetryCount THEN "final"
                            ELSE IF task[t].tries > RetryCount THEN "exhausted" ELSE "run",
                   ok |-> TRUE]
    <3>1. /\ exec' = [exec EXCEPT ![w] = e]
          /\ e.job = t[1] /\ e.mem = row[t[1]] /\ e.fresh = NoRow
          /\ e.phase \in {"terminate", "loaded"}
      BY <2>3, <1>10 DEF Dispatch
    <3> HIDE DEF e
    <3>2. e.mem.completed \/ e.fresh.completed => e.job \in performed'
      BY <2>1, <3>1, RowOps DEF CompletedMeansPerformed
    <3>3. QED
      BY <1>row, <1>exec, <2>1, <3>1, <3>2
  <2>4. QED
    BY <2>2, <2>3
<1>11. ASSUME NEW w \in Workers, Start(w)
      PROVE  CompletedMeansPerformed' /\ HonestMemory'
  <2> DEFINE e == [exec[w] EXCEPT !.phase = "performing", !.mem = SetStarted(exec[w].mem)]
  <2>1. exec' = [exec EXCEPT ![w] = e] /\ performed \subseteq performed'
    BY <1>1, <1>11 DEF Start
  <2>2. /\ e.mem.completed \/ e.fresh.completed => e.job \in performed'
        /\ e.phase \in {"performed", "read"} => e.job \in performed'
    BY <1>work, RowOps, <1>11 DEF Exec, Start
  <2>3. HonestMemory'
    BY <1>exec, <2>1, <2>2
  <2> DEFINE r == SetStarted(exec[w].mem)
  <2>4. r \in Row /\ (r.completed => exec[w].job \in performed) /\ exec[w].job \in Jobs
    BY <1>work, RowOps, <1>11 DEF Start
  <2>5. /\ Saved(exec[w].job, r) \in [Jobs -> Row]
        /\ \A i \in Jobs : Saved(exec[w].job, r)[i].completed => row[i].completed \/ i \in performed
    BY <1>saved, <2>4
  <2>6. row' = Saved(exec[w].job, r)
    BY <1>11 DEF Start
  <2>7. QED
    BY <1>row, <2>1, <2>3, <2>5, <2>6
<1>12. ASSUME NEW w \in Workers, PerformOk(w)
      PROVE  CompletedMeansPerformed' /\ HonestMemory'
  <2> DEFINE e == [exec[w] EXCEPT !.phase = "performed"]
  <2>1. exec' = [exec EXCEPT ![w] = e] /\ performed \subseteq performed'
    BY <1>1, <1>12 DEF PerformOk, Goto
  <2>2. /\ e.mem.completed \/ e.fresh.completed => e.job \in performed'
        /\ e.phase \in {"performed", "read"} => e.job \in performed'
    BY <1>work, <2>1, <1>12 DEF Exec, PerformOk, Goto
  <2>3. HonestMemory'
    BY <1>exec, <2>1, <2>2
  <2>4. row' = row
    BY <1>12 DEF PerformOk
  <2>5. QED
    BY <1>row, <2>1, <2>3, <2>4
<1>13. ASSUME NEW w \in Workers, PerformRaises(w)
      PROVE  CompletedMeansPerformed' /\ HonestMemory'
  <2> DEFINE e == [exec[w] EXCEPT !.phase = "raised"]
  <2>1. exec' = [exec EXCEPT ![w] = e] /\ performed \subseteq performed'
    BY <1>1, <1>13 DEF PerformRaises, Goto
  <2>2. /\ e.mem.completed \/ e.fresh.completed => e.job \in performed'
        /\ e.phase \in {"performed", "read"} => e.job \in performed'
    BY <1>work, <2>1, <1>13 DEF Exec, PerformRaises, Goto
  <2>3. HonestMemory'
    BY <1>exec, <2>1, <2>2
  <2>4. row' = row
    BY <1>13 DEF PerformRaises
  <2>5. QED
    BY <1>row, <2>1, <2>3, <2>4
<1>14. ASSUME NEW w \in Workers, AddToGroup(w)
      PROVE  CompletedMeansPerformed' /\ HonestMemory'
  <2>1. PICK j \in GroupJobs : row' = [row EXCEPT ![j] = NewRow]
    BY <1>14 DEF AddToGroup
  <2>2. \A i \in Jobs : row'[i].completed => row[i].completed
    BY <1>1, <1>proc, <2>1, RowOps
  <2>3. QED
    BY <1>row, <1>same, <2>2, <1>14 DEF AddToGroup
<1>15. ASSUME NEW w \in Workers, RescheduleCancel(w)
      PROVE  CompletedMeansPerformed' /\ HonestMemory'
  <2> DEFINE j == exec[w].job
             r == IF row[j].name = 0 THEN row[j]
                  ELSE [row[j] EXCEPT !.name = 0, !.terminated = TRUE]
             e == [exec[w] EXCEPT !.phase = "rescheduling", !.fresh = r]
  <2>1. exec' = [exec EXCEPT ![w] = e] /\ row' = [row EXCEPT ![j] = r] /\ performed' = performed
    BY <1>1, <1>15 DEF RescheduleCancel
  <2>2. r.completed = row[j].completed /\ j \in Jobs
    BY <1>work, <1>15 DEF RescheduleCancel, Row
  <2>3. /\ e.mem.completed \/ e.fresh.completed => e.job \in performed'
        /\ e.phase \notin {"performed", "read"}
    BY <1>work, <2>1, <2>2, <1>15 DEF Exec, RescheduleCancel
  <2>4. QED
    BY <1>1, <1>row, <1>exec, <2>1, <2>2, <2>3
<1>16. ASSUME NEW w \in Workers, RescheduleReplace(w)
      PROVE  CompletedMeansPerformed' /\ HonestMemory'
  <2> DEFINE j == exec[w].job
             r == SetTerminated(exec[w].fresh)
             e == [exec[w] EXCEPT !.phase = "performing", !.fresh = SetTerminated(exec[w].fresh)]
  <2>1. exec' = [exec EXCEPT ![w] = e] /\ performed' = performed
    BY <1>1, <1>16 DEF RescheduleReplace
  <2>2. /\ e.mem.completed \/ e.fresh.completed => e.job \in performed'
        /\ e.phase \notin {"performed", "read"}
    BY <1>work, <2>1, RowOps, <1>16 DEF Exec, RescheduleReplace
  <2>3. r \in Row /\ (r.completed => j \in performed) /\ j \in Jobs
    BY <1>work, RowOps, <1>16 DEF RescheduleReplace
  <2>4. /\ Saved(j, r) \in [Jobs -> Row]
        /\ \A i \in Jobs : Saved(j, r)[i].completed => row[i].completed \/ i \in performed
    BY <1>saved, <2>3
  <2>5. PICK m \in LoneJobs : UpdateStatus(w, j, [Saved(j, r) EXCEPT ![m] = NewRow], {m})
    BY <1>16 DEF RescheduleReplace, Replacements
  <2> DEFINE rows == [Saved(j, r) EXCEPT ![m] = NewRow]
  <2>6. /\ rows \in [Jobs -> Row] /\ {m} \in SUBSET Jobs /\ w \in Procs
        /\ \A i \in Jobs : rows[i].completed => Saved(j, r)[i].completed
    BY <1>proc, <2>4, RowOps
  <2> HIDE DEF rows
  <2>7. UpdateStatus(w, j, rows, {m})
    BY <2>5 DEF rows
  <2>8. \A i \in Jobs : row'[i].completed => rows[i].completed
    BY <1>1, <2>3, <2>6, <2>7, UpdateStatusType
  <2>9. \A i \in Jobs : row'[i].completed => row[i].completed \/ i \in performed'
    BY <2>1, <2>4, <2>6, <2>8
  <2>10. QED
    BY <1>row, <1>exec, <2>1, <2>2, <2>9
<1>17. ASSUME NEW w \in Workers, RescheduleAborts(w)
      PROVE  CompletedMeansPerformed' /\ HonestMemory'
  <2> DEFINE e == [exec[w] EXCEPT !.phase = "raised"]
  <2>1. exec' = [exec EXCEPT ![w] = e] /\ performed \subseteq performed'
    BY <1>1, <1>17 DEF RescheduleAborts
  <2>2. /\ e.mem.completed \/ e.fresh.completed => e.job \in performed'
        /\ e.phase \in {"performed", "read"} => e.job \in performed'
    BY <1>work, RowOps, <1>17 DEF Exec, RescheduleAborts
  <2>3. HonestMemory'
    BY <1>exec, <2>1, <2>2
  <2>4. row' = row
    BY <1>17 DEF RescheduleAborts
  <2>5. QED
    BY <1>row, <2>1, <2>3, <2>4
<1>18. ASSUME NEW w \in Workers, FinishRead(w)
      PROVE  CompletedMeansPerformed' /\ HonestMemory'
  <2> DEFINE e == [exec[w] EXCEPT !.mem = row[exec[w].job],
                      !.phase = IF IsStarted(row[exec[w].job]) THEN "read" ELSE "flush"]
  <2>1. exec' = [exec EXCEPT ![w] = e] /\ performed \subseteq performed'
    BY <1>1, <1>18 DEF FinishRead
  <2>2. /\ e.mem.completed \/ e.fresh.completed => e.job \in performed'
        /\ e.phase \in {"performed", "read"} => e.job \in performed'
    BY <1>work, RowOps, <1>18 DEF Exec, FinishRead
  <2>3. HonestMemory'
    BY <1>exec, <2>1, <2>2
  <2>4. row' = row
    BY <1>18 DEF FinishRead
  <2>5. QED
    BY <1>row, <2>1, <2>3, <2>4
<1>19. ASSUME NEW w \in Workers, FinishCommit(w)
      PROVE  CompletedMeansPerformed' /\ HonestMemory'
  <2> DEFINE e == [exec[w] EXCEPT !.mem = SetSuccessful(exec[w].mem), !.phase = "flush"]
  <2>1. exec' = [exec EXCEPT ![w] = e] /\ performed \subseteq performed'
    BY <1>1, <1>19 DEF FinishCommit
  <2>2. /\ e.mem.completed \/ e.fresh.completed => e.job \in performed'
        /\ e.phase \in {"performed", "read"} => e.job \in performed'
    BY <1>work, RowOps, <1>19 DEF Exec, FinishCommit
  <2>3. HonestMemory'
    BY <1>exec, <2>1, <2>2
  <2> DEFINE r == SetSuccessful(exec[w].mem)
  <2>4. r \in Row /\ (r.completed => exec[w].job \in performed) /\ exec[w].job \in Jobs
    BY <1>work, RowOps, <1>19 DEF FinishCommit
  <2>5. /\ Saved(exec[w].job, r) \in [Jobs -> Row]
        /\ \A i \in Jobs : Saved(exec[w].job, r)[i].completed => row[i].completed \/ i \in performed
    BY <1>saved, <2>4
  <2>6. \A i \in Jobs : row'[i].completed => Saved(exec[w].job, r)[i].completed
    BY <1>1, <1>proc, <2>4, <2>5, UpdateStatusType, <1>19 DEF FinishCommit
  <2>7. QED
    BY <1>row, <2>1, <2>3, <2>5, <2>6
<1>20. ASSUME NEW w \in Workers, FinishAborts(w)
      PROVE  CompletedMeansPerformed' /\ HonestMemory'
  <2> DEFINE e == [exec[w] EXCEPT !.mem = SetSuccessful(exec[w].mem), !.phase = "raised"]
  <2>1. exec' = [exec EXCEPT ![w] = e] /\ performed \subseteq performed'
    BY <1>1, <1>20 DEF FinishAborts
  <2>2. /\ e.mem.completed \/ e.fresh.completed => e.job \in performed'
        /\ e.phase \in {"performed", "read"} => e.job \in performed'
    BY <1>work, RowOps, <1>20 DEF Exec, FinishAborts
  <2>3. HonestMemory'
    BY <1>exec, <2>1, <2>2
  <2>4. row' = row
    BY <1>20 DEF FinishAborts
  <2>5. QED
    BY <1>row, <2>1, <2>3, <2>4
<1>21. ASSUME NEW w \in Workers, FailSave(w)
      PROVE  CompletedMeansPerformed' /\ HonestMemory'
  <2> DEFINE e == [exec[w] EXCEPT !.mem = SetFailed(exec[w].mem), !.phase = "failed", !.ok = FALSE]
  <2>1. exec' = [exec EXCEPT ![w] = e] /\ performed \subseteq performed'
    BY <1>1, <1>21 DEF FailSave
  <2>2. /\ e.mem.completed \/ e.fresh.completed => e.job \in performed'
        /\ e.phase \in {"performed", "read"} => e.job \in performed'
    BY <1>work, RowOps, <1>21 DEF Exec, FailSave
  <2>3. HonestMemory'
    BY <1>exec, <2>1, <2>2
  <2> DEFINE r == SetFailed(exec[w].mem)
  <2>4. r \in Row /\ (r.completed => exec[w].job \in performed) /\ exec[w].job \in Jobs
    BY <1>work, RowOps, <1>21 DEF FailSave
  <2>5. /\ Saved(exec[w].job, r) \in [Jobs -> Row]
        /\ \A i \in Jobs : Saved(exec[w].job, r)[i].completed => row[i].completed \/ i \in performed
    BY <1>saved, <2>4
  <2>6. row' = Saved(exec[w].job, r)
    BY <1>21 DEF FailSave
  <2>7. QED
    BY <1>row, <2>1, <2>3, <2>5, <2>6
<1>22. ASSUME NEW w \in Workers, FailSettle(w)
      PROVE  CompletedMeansPerformed' /\ HonestMemory'
  <2> DEFINE e == [exec[w] EXCEPT !.phase = "flush"]
  <2>1. exec' = [exec EXCEPT ![w] = e] /\ performed' = performed
    BY <1>1, <1>22 DEF FailSettle, Goto
  <2>2. /\ e.mem.completed \/ e.fresh.completed => e.job \in performed'
        /\ e.phase \notin {"performed", "read"}
    BY <1>work, <2>1, <1>22 DEF Exec, FailSettle
  <2>3. \A i \in Jobs : row'[i].completed => row[i].completed
    BY <1>1, <1>proc, <1>work, UpdateStatusType, <1>22 DEF FailSettle
  <2>4. QED
    BY <1>row, <1>exec, <2>1, <2>2, <2>3
<1>23. ASSUME NEW w \in Workers, FailSettleAborts(w)
      PROVE  CompletedMeansPerformed' /\ HonestMemory'
  <2> DEFINE e == [exec[w] EXCEPT !.phase = "flush"]
  <2>1. exec' = [exec EXCEPT ![w] = e] /\ performed \subseteq performed'
    BY <1>1, <1>23 DEF FailSettleAborts, Goto
  <2>2. /\ e.mem.completed \/ e.fresh.completed => e.job \in performed'
        /\ e.phase \in {"performed", "read"} => e.job \in performed'
    BY <1>work, <2>1, <1>23 DEF Exec, FailSettleAborts, Goto
  <2>3. HonestMemory'
    BY <1>exec, <2>1, <2>2
  <2>4. row' = row
    BY <1>23 DEF FailSettleAborts
  <2>5. QED
    BY <1>row, <2>1, <2>3, <2>4
<1>24. ASSUME NEW w \in Workers, RunReturns(w)
      PROVE  CompletedMeansPerformed' /\ HonestMemory'
  BY <1>row, <1>exec, <1>idle, <1>24 DEF RunReturns
<1>25. ASSUME NEW w \in Workers, FinalCheck(w)
      PROVE  CompletedMeansPerformed' /\ HonestMemory'
  <2> DEFINE e == [exec[w] EXCEPT !.mem = row[exec[w].job],
                      !.phase = IF IsFinished(row[exec[w].job]) THEN "answer" ELSE "terminate"]
  <2>1. exec' = [exec EXCEPT ![w] = e] /\ performed \subseteq performed'
    BY <1>1, <1>25 DEF FinalCheck
  <2>2. /\ e.mem.completed \/ e.fresh.completed => e.job \in performed'
        /\ e.phase \in {"performed", "read"} => e.job \in performed'
    BY <1>work, RowOps, <1>25 DEF Exec, FinalCheck
  <2>3. HonestMemory'
    BY <1>exec, <2>1, <2>2
  <2>4. row' = row
    BY <1>25 DEF FinalCheck
  <2>5. QED
    BY <1>row, <2>1, <2>3, <2>4
<1>26. ASSUME NEW w \in Workers, Terminate(w)
      PROVE  CompletedMeansPerformed' /\ HonestMemory'
  <2> DEFINE e == [exec[w] EXCEPT !.mem = SetTerminated(exec[w].mem), !.phase = "answer"]
  <2>1. exec' = [exec EXCEPT ![w] = e] /\ performed \subseteq performed'
    BY <1>1, <1>26 DEF Terminate
  <2>2. /\ e.mem.completed \/ e.fresh.completed => e.job \in performed'
        /\ e.phase \in {"performed", "read"} => e.job \in performed'
    BY <1>work, RowOps, <1>26 DEF Exec, Terminate
  <2>3. HonestMemory'
    BY <1>exec, <2>1, <2>2
  <2> DEFINE r == SetTerminated(exec[w].mem)
  <2>4. r \in Row /\ (r.completed => exec[w].job \in performed) /\ exec[w].job \in Jobs
    BY <1>work, RowOps, <1>26 DEF Terminate
  <2>5. /\ Saved(exec[w].job, r) \in [Jobs -> Row]
        /\ \A i \in Jobs : Saved(exec[w].job, r)[i].completed => row[i].completed \/ i \in performed
    BY <1>saved, <2>4
  <2>6. \A i \in Jobs : row'[i].completed => Saved(exec[w].job, r)[i].completed
    BY <1>1, <1>proc, <2>4, <2>5, UpdateStatusType, <1>26 DEF Terminate
  <2>7. QED
    BY <1>row, <2>1, <2>3, <2>5, <2>6
<1>27. ASSUME NEW w \in Workers, AnswerOk(w)
      PROVE  CompletedMeansPerformed' /\ HonestMemory'
  BY <1>row, <1>exec, <1>idle, <1>27 DEF AnswerOk
<1>28. ASSUME NEW w \in Workers, BackgroundDone(w)
      PROVE  CompletedMeansPerformed' /\ HonestMemory'
  <2> DEFINE e == [exec[w] EXCEPT !.phase = "idle"]
  <2>1. exec' = [exec EXCEPT ![w] = e] /\ performed' = performed /\ row' = row
    BY <1>1, <1>28 DEF BackgroundDone, Goto
  <2>2. /\ e.mem.completed \/ e.fresh.completed => e.job \in performed'
        /\ e.phase \notin {"performed", "read"}
    BY <1>1, <2>1 DEF HonestMemory, Exec
  <2>3. QED
    BY <1>row, <1>exec, <2>1, <2>2
<1>29. ASSUME NEW p \in Procs, NEW j \in Jobs, NEW k \in 1 .. Copies, CreateTask(p, j, k)
      PROVE  CompletedMeansPerformed' /\ HonestMemory'
  BY <1>row, <1>same, <1>29 DEF CreateTask
<1>void. ASSUME NEW p \in Procs, CreateVoidTask(p)
      PROVE  CompletedMeansPerformed' /\ HonestMemory'
  BY <1>row, <1>same, <1>void DEF CreateVoidTask
<1>30. ASSUME NEW p \in Procs, SaveTaskNames(p)
      PROVE  CompletedMeansPerformed' /\ HonestMemory'
  <2>1. ASSUME NEW i \in Jobs PROVE row'[i].completed = row[i].completed
    <3>1. row[i] \in Row
      BY <1>1
    <3>2. row'[i] = row[i] \/ row'[i] = [row[i] EXCEPT !.name = NameFor(p, i)]
      BY <1>30 DEF SaveTaskNames
    <3>3. QED
      BY <3>1, <3>2 DEF Row
  <2>2. QED
    BY <1>row, <1>same, <2>1, <1>30 DEF SaveTaskNames
<1>31. ASSUME NEW w \in Workers, Crash(w)
      PROVE  CompletedMeansPerformed' /\ HonestMemory'
  BY <1>row, <1>exec, <1>idle, <1>31 DEF Crash
<1>32. ASSUME CrashWeb
      PROVE  CompletedMeansPerformed' /\ HonestMemory'
  BY <1>row, <1>same, <1>32 DEF CrashWeb
<1>33. ASSUME NEW t \in Tasks, Expire(t) \/ Lose(t)
      PROVE  CompletedMeansPerformed' /\ HonestMemory'
  BY <1>row, <1>same, <1>33 DEF Expire, Lose
<1>34. ASSUME NEW j \in Jobs, Age(j)
      PROVE  CompletedMeansPerformed' /\ HonestMemory'
  <2>1. \A i \in Jobs : row'[i].completed = row[i].completed
    BY <1>1, <1>34 DEF Age, Row
  <2>2. QED
    BY <1>row, <1>same, <2>1, <1>34 DEF Age
<1>35. ASSUME NEW j \in LoneJobs, Cancel(j)
      PROVE  CompletedMeansPerformed' /\ HonestMemory'
  <2>1. \A i \in Jobs : row'[i].completed = row[i].completed
    BY <1>1, <1>proc, <1>35 DEF Cancel, Row
  <2>2. QED
    BY <1>row, <1>same, <2>1, <1>35 DEF Cancel
<1>36. ASSUME Sweeper
      PROVE  CompletedMeansPerformed' /\ HonestMemory'
  BY <1>row, <1>same, <1>36 DEF Sweeper, SweepRead, SweepEnqueue
<1>37. ASSUME Reaper
      PROVE  CompletedMeansPerformed' /\ HonestMemory'
  <2>1. ASSUME NEW j \in Jobs, ReapTerminate(j)
        PROVE  \A i \in Jobs : row'[i].completed = row[i].completed
    BY <1>1, <2>1 DEF ReapTerminate, Row
  <2>2. QED
    BY <1>row, <1>same, <2>1, <1>37 DEF Reaper, ReapRead, ReapProbe, ReapTerminate
<1>38. ASSUME UNCHANGED vars
      PROVE  CompletedMeansPerformed' /\ HonestMemory'
  BY <1>row, <1>same, <1>38 DEF vars
<1>h. ASSUME NEW w \in Workers, Handler(w)
      PROVE  CompletedMeansPerformed' /\ HonestMemory'
  BY <1>h, <1>11, <1>12, <1>13, <1>14, <1>15, <1>16, <1>17, <1>18, <1>19, <1>20, <1>21,
     <1>22, <1>23, <1>24, <1>25, <1>26, <1>27, <1>28 DEF Handler
<1>q. QED
  BY <1>h, <1>10, <1>29, <1>void, <1>30, <1>31, <1>32, <1>33, <1>34, <1>35, <1>36, <1>37, <1>38 DEF Next, Flush, Environment

\* Job.run: completed_at is only ever stored for a job whose perform() has returned,
\* for any number of rows, workers, task copies, retries and faults.
THEOREM CompletedCorrect == Spec => []CompletedMeansPerformed
<1>1. Init => CompletedInv
  <2> SUFFICES ASSUME Init PROVE CompletedInv
    OBVIOUS
  <2>1. CompletedMeansPerformed
    <3>1. PICK s \in Starts : InitWith(s.rows, s.faults)
      BY DEF Init
    <3>2. QED
      BY <3>1, RowOps DEF InitWith, CompletedMeansPerformed
  <2>2. HonestMemory
    BY HasJobInit, RowOps DEF HonestMemory, Idle
  <2>3. QED
    BY <2>1, <2>2, TypeInit, HasJobInit DEF CompletedInv
<1>2. CompletedInv /\ [Next]_vars => CompletedInv'
  BY TypeStep, CompletedStep DEF CompletedInv
<1>3. CompletedInv => CompletedMeansPerformed
  BY DEF CompletedInv
<1>4. QED
  BY <1>1, <1>2, <1>3, PTL DEF Spec

-----------------------------------------------------------------------------
(***************************************************************************)
(* One task, one handler: what holds of a row as long as nothing has given *)
(* two writers a copy of it.  The parts that follow are about one row j.   *)
(***************************************************************************)
Live(t) == task[t].state \in {"queued", "leased"}
NoLive(j) == \A k \in 1 .. Copies : ~Live(<<j, k>>)

\* No outbox and no sweep is going to give the row another task.
Resting(j) == j \notin sweep /\ \A p \in Procs : j \notin outbox[p].pending

\* No outbox holds the row's name.
Unnamed(j) == \A p \in Procs, k \in 1 .. Copies : <<j, k>> \notin outbox[p].named

\* The sweeper does not take the row.
Tagged(j) == row[j].name # 0 \/ row[j].started \/ IsFinished(row[j])

\* Task k is the only one the row has or will get.
Only(j, k) == Resting(j) /\ \A i \in 1 .. Copies : i # k => ~Live(<<j, i>>)

\* A row that does not exist has left no trace.
Unborn(j) == ~row[j].exists =>
  /\ row[j] = NoRow /\ Resting(j) /\ Unnamed(j) /\ NoLive(j)
  /\ reaper.doomed # j /\ \A k \in 1 .. Copies : <<j, k>> \notin reaper.queue

OneTask(j) == \A i, k \in 1 .. Copies : Live(<<j, i>>) /\ Live(<<j, k>>) => i = k

Swept(j) == j \in sweep =>
  /\ NoLive(j) /\ Unnamed(j) /\ \A p \in Procs : j \notin outbox[p].pending

Awaiting(j) == \A p \in Procs : j \in outbox[p].pending =>
  /\ NoLive(j) /\ Unnamed(j) /\ \A q \in Procs : j \in outbox[q].pending => q = p

Named(j) == \A k \in 1 .. Copies :
  /\ row[j].name = k => Only(j, k)
  /\ \A p \in Procs : <<j, k>> \in outbox[p].named => Only(j, k)
  /\ <<j, k>> \in reaper.queue => Only(j, k) /\ Tagged(j)

Doomed(j) == reaper.doomed = j => NoLive(j) /\ Resting(j) /\ Tagged(j)

OneHandler(j) == \A v, w \in Workers : exec[v].job = j /\ exec[w].job = j => v = w

\* Handler w runs row j: it holds the row's only task, or that task is gone because
\* the job has rescheduled itself; its copies of the row name no other task; and until
\* it has saved its result the row is unfinished, unless it has rescheduled itself.
Leasing(j, w) ==
  \/ task[<<j, exec[w].copy>>].state = "leased" /\ task[<<j, exec[w].copy>>].holder = w
  \/ /\ task[<<j, exec[w].copy>>].state = "gone" /\ task[<<j, exec[w].copy>>].holder = NULL
     /\ IsFinished(row[j])

Unsaved(j, w) ==
  /\ exec[w].phase \in {"loaded", "read", "raised", "terminate"} => ~IsFinished(row[j])
  /\ exec[w].phase \in {"performing", "performed"} => ~IsFinished(row[j]) \/ exec[w].fresh # NoRow

Copying(j, w) ==
  /\ exec[w].mem.exists /\ exec[w].mem.name \in {0, exec[w].copy}
  /\ exec[w].phase = "loaded" => ~IsFinished(exec[w].mem)
  /\ exec[w].phase \in {"performing", "performed", "rescheduling", "read", "raised"} => exec[w].mem.started
  /\ exec[w].phase = "rescheduling" => exec[w].fresh # NoRow
  /\ exec[w].fresh # NoRow => "reschedule" \in faults.seen /\ exec[w].fresh.exists /\ exec[w].fresh.name = 0

Naming(j, w) ==
  /\ row[j].name \in {0, exec[w].copy}
  /\ \A p \in Procs, k \in 1 .. Copies : <<j, k>> \in outbox[p].named => k = exec[w].copy

Handled(j, w) ==
  /\ Only(j, exec[w].copy) /\ reaper.doomed # j /\ row[j].exists /\ Naming(j, w)
  /\ Leasing(j, w) /\ Unsaved(j, w) /\ Copying(j, w)

Sound(j) ==
  /\ Unborn(j) /\ OneTask(j) /\ Swept(j) /\ Awaiting(j) /\ Named(j) /\ Doomed(j) /\ OneHandler(j)
  /\ \A w \in Workers : exec[w].job = j => Handled(j, w)

Calm(j) == /\ Without({"expire", "slow"})
           /\ j \in LoneJobs => Without({"cancel"})
           /\ (Without({"reschedule"}) \/ Without({"raise"}))

Sole == \A j \in Jobs : Calm(j) => Sound(j)

-----------------------------------------------------------------------------
LEMMA RowFacts ==
  \A r \in Row :
    /\ /\ SetStarted(r).exists = r.exists /\ SetStarted(r).name = r.name /\ SetStarted(r).started
       /\ IsFinished(SetStarted(r)) = IsFinished(r)
    /\ /\ SetSuccessful(r).exists = r.exists /\ SetSuccessful(r).name = r.name
       /\ SetSuccessful(r).started = r.started /\ IsFinished(SetSuccessful(r))
       /\ ~SetSuccessful(r).error
    /\ /\ SetFailed(r).exists = r.exists /\ SetFailed(r).name = r.name
       /\ SetFailed(r).started = r.started /\ IsFinished(SetFailed(r)) = IsFinished(r)
    /\ /\ SetTerminated(r).exists = r.exists /\ SetTerminated(r).name = r.name
       /\ SetTerminated(r).started = r.started /\ IsFinished(SetTerminated(r))
       /\ ~SetTerminated(r).error
<1>1. SUFFICES ASSUME NEW r \in Row
      PROVE /\ /\ SetStarted(r).exists = r.exists /\ SetStarted(r).name = r.name /\ SetStarted(r).started
               /\ IsFinished(SetStarted(r)) = IsFinished(r)
            /\ /\ SetSuccessful(r).exists = r.exists /\ SetSuccessful(r).name = r.name
               /\ SetSuccessful(r).started = r.started /\ IsFinished(SetSuccessful(r))
               /\ ~SetSuccessful(r).error
            /\ /\ SetFailed(r).exists = r.exists /\ SetFailed(r).name = r.name
               /\ SetFailed(r).started = r.started /\ IsFinished(SetFailed(r)) = IsFinished(r)
            /\ /\ SetTerminated(r).exists = r.exists /\ SetTerminated(r).name = r.name
               /\ SetTerminated(r).started = r.started /\ IsFinished(SetTerminated(r))
               /\ ~SetTerminated(r).error
  OBVIOUS
<1>2. QED
  BY <1>1 DEF Row, SetStarted, SetSuccessful, SetFailed, SetTerminated, IsFinished

LEMMA SavedFacts ==
  ASSUME row \in [Jobs -> Row], NEW j \in Jobs, NEW r \in Row
  PROVE  /\ Saved(j, r)[j].exists = r.exists /\ Saved(j, r)[j].name = r.name
         /\ Saved(j, r)[j].started = r.started
         /\ Saved(j, r)[j].error = r.error
         /\ IsFinished(Saved(j, r)[j]) = IsFinished(r)
         /\ \A i \in Jobs : i # j => Saved(j, r)[i] = row[i]
<1>1. Saved(j, r)[j] = [r EXCEPT !.old = row[j].old]
  BY DEF Saved
<1>2. /\ [r EXCEPT !.old = row[j].old].exists = r.exists
      /\ [r EXCEPT !.old = row[j].old].name = r.name
      /\ [r EXCEPT !.old = row[j].old].started = r.started
      /\ [r EXCEPT !.old = row[j].old].error = r.error
      /\ [r EXCEPT !.old = row[j].old].completed = r.completed
      /\ [r EXCEPT !.old = row[j].old].terminated = r.terminated
  BY DEF Row
<1>3. QED
  BY <1>1, <1>2 DEF Saved, IsFinished

\* What update_status does to rows and outboxes: besides `rows` and `new` it adds a
\* callback row, if it is due.
LEMMA UpdateStatusEffect ==
  ASSUME TypeOK, NEW p \in Procs, NEW j \in Jobs, NEW rows \in [Jobs -> Row],
         NEW new \in SUBSET Jobs, UpdateStatus(p, j, rows, new)
  PROVE  \E N \in SUBSET Callbacks :
           /\ \A c \in N : ~row[c].exists /\ row'[c] = NewRow
           /\ \A i \in Jobs : i \notin N => row'[i] = rows[i]
           /\ outbox' = [outbox EXCEPT ![p].pending = @ \cup (new \cup N)]
           /\ j \in GroupJobs => group'.remaining = Decremented
           /\ j \notin GroupJobs => N = {} /\ group' = group
           /\ N # {} => CallbackDue(rows)
<1>1. CASE /\ j \notin GroupJobs /\ row' = rows
           /\ outbox' = [outbox EXCEPT ![p].pending = @ \cup new] /\ UNCHANGED group
  <2>1. outbox' = [outbox EXCEPT ![p].pending = @ \cup (new \cup {})]
    BY <1>1
  <2>2. QED
    BY <1>1, <2>1
<1>2. CASE /\ j \in GroupJobs /\ row' = rows
           /\ outbox' = [outbox EXCEPT ![p].pending = @ \cup new]
           /\ group' = [group EXCEPT !.remaining = Decremented]
  <2>1. outbox' = [outbox EXCEPT ![p].pending = @ \cup (new \cup {})]
    BY <1>2
  <2>2. group'.remaining = Decremented
    BY <1>2 DEF TypeOK
  <2>3. QED
    BY <1>2, <2>1, <2>2
<1>3. ASSUME NEW c \in FreeCallbacks, CallbackDue(rows), j \in GroupJobs,
             row' = [rows EXCEPT ![c] = NewRow],
             outbox' = [outbox EXCEPT ![p].pending = @ \cup new \cup {c}],
             group' = [group EXCEPT !.remaining = Decremented, !.callback = c]
      PROVE  /\ \A d \in {c} : ~row[d].exists /\ row'[d] = NewRow
             /\ \A i \in Jobs : i \notin {c} => row'[i] = rows[i]
             /\ outbox' = [outbox EXCEPT ![p].pending = @ \cup (new \cup {c})]
             /\ group'.remaining = Decremented
             /\ {c} \in SUBSET Callbacks
  <2>1. c \in Callbacks /\ c \in Jobs /\ ~row[c].exists
    BY DEF FreeCallbacks, Jobs
  <2>2. group'.remaining = Decremented
    BY <1>3 DEF TypeOK
  <2>3. outbox' = [outbox EXCEPT ![p].pending = @ \cup (new \cup {c})]
    BY <1>3
  <2>4. QED
    BY <1>3, <2>1, <2>2, <2>3
<1>4. CASE \E c \in FreeCallbacks :
             /\ CallbackDue(rows) /\ j \in GroupJobs
             /\ row' = [rows EXCEPT ![c] = NewRow]
             /\ outbox' = [outbox EXCEPT ![p].pending = @ \cup new \cup {c}]
             /\ group' = [group EXCEPT !.remaining = Decremented, !.callback = c]
  <2>1. PICK c \in FreeCallbacks :
             /\ CallbackDue(rows) /\ j \in GroupJobs
             /\ row' = [rows EXCEPT ![c] = NewRow]
             /\ outbox' = [outbox EXCEPT ![p].pending = @ \cup new \cup {c}]
             /\ group' = [group EXCEPT !.remaining = Decremented, !.callback = c]
    BY <1>4
  <2>2. /\ \A d \in {c} : ~row[d].exists /\ row'[d] = NewRow
        /\ \A i \in Jobs : i \notin {c} => row'[i] = rows[i]
        /\ outbox' = [outbox EXCEPT ![p].pending = @ \cup (new \cup {c})]
        /\ group'.remaining = Decremented
        /\ {c} \in SUBSET Callbacks
    BY <1>3, <2>1
  <2>3. QED
    BY <2>1, <2>2
<1>5. QED
  BY <1>1, <1>2, <1>4 DEF UpdateStatus

\* Nothing is ever forgotten about the faults there have been.
LEMMA SeenGrows ==
  ASSUME TypeOK, [Next]_vars
  PROVE  /\ faults.seen \subseteq faults'.seen
         /\ \A j \in Jobs : Calm(j)' => Calm(j)
<1> DEFINE Grows == faults.seen \subseteq faults'.seen
<1>0. faults \in FaultsRec
  BY DEF TypeOK, FaultsRec
<1>s. ASSUME NEW f \in Faults, Spend(f) PROVE Grows
  BY <1>s DEF Spend
<1>m. ASSUME NEW f \in Faults, NEW m, SpendMarking(f, m) PROVE Grows
  BY <1>m DEF SpendMarking
<1>u. faults' = faults => Grows
  OBVIOUS
<1>p. ASSUME NEW w \in Workers, PerformRaises(w) PROVE Grows
  <2>1. CASE exec[w].job \in Poison
    BY <1>0, <1>p, <2>1 DEF Raise, FaultsRec, PerformRaises
  <2>2. CASE exec[w].job \notin Poison
    BY <1>s, <1>p, <2>2 DEF Raise, Faults, PerformRaises
  <2>3. QED
    BY <2>1, <2>2
<1> HIDE DEF Grows
<1>f. /\ "add" \in Faults /\ "reschedule" \in Faults /\ "abort" \in Faults /\ "crash" \in Faults
      /\ "expire" \in Faults /\ "lose" \in Faults /\ "old" \in Faults /\ "cancel" \in Faults
      /\ "slow" \in Faults
  BY DEF Faults
<1>1. ASSUME NEW w \in Workers, Handler(w) PROVE Grows
  <2>1. CASE Start(w) \/ PerformOk(w)
    BY <1>u, <2>1 DEF Start, PerformOk
  <2>2. CASE AddToGroup(w) \/ RescheduleCancel(w) \/ FinishAborts(w) \/ FailSettleAborts(w)
    BY <1>s, <1>f, <2>2 DEF AddToGroup, RescheduleCancel, FinishAborts, FailSettleAborts
  <2>3. CASE RescheduleAborts(w)
    BY <1>m, <1>f, <2>3 DEF RescheduleAborts
  <2>4. CASE \/ RescheduleReplace(w) \/ FinishRead(w) \/ FinishCommit(w) \/ FailSave(w)
             \/ FailSettle(w)
    BY <1>u, <2>4 DEF RescheduleReplace, FinishRead, FinishCommit, FailSave, FailSettle
  <2>5. CASE RunReturns(w) \/ FinalCheck(w) \/ Terminate(w) \/ AnswerOk(w) \/ BackgroundDone(w)
    BY <1>u, <2>5 DEF RunReturns, FinalCheck, Terminate, AnswerOk, BackgroundDone
  <2>6. QED
    BY <1>1, <1>p, <2>1, <2>2, <2>3, <2>4, <2>5 DEF Handler
<1>2. ASSUME Environment PROVE Grows
  BY <1>2, <1>s, <1>m, <1>f DEF Environment, Crash, CrashWeb, Expire, Lose, Age, Cancel
<1>3. ASSUME Sweeper \/ Reaper PROVE Grows
  BY <1>3, <1>s, <1>f, <1>u DEF Sweeper, SweepRead, SweepEnqueue, Reaper, ReapRead, ReapProbe, ReapTerminate
<1>4. ASSUME NEW p \in Procs, Flush(p) PROVE Grows
  BY <1>4, <1>u DEF Flush, CreateTask, CreateVoidTask, SaveTaskNames
<1>5. ASSUME NEW w \in Workers, NEW t \in Tasks, Dispatch(w, t) PROVE Grows
  BY <1>5, <1>u DEF Dispatch
<1>6. UNCHANGED vars => Grows
  BY <1>u DEF vars
<1>7. Grows
  BY <1>1, <1>2, <1>3, <1>4, <1>5, <1>6 DEF Next
<1>8. QED
  BY <1>7 DEF Calm, Without, Grows

(***************************************************************************)
(* What a step can do to one row.  It may leave the row alone or take       *)
(* something away from it ...                                              *)
(***************************************************************************)
KeepsRow(j) ==
  \/ row'[j] = row[j]
  \/ /\ row[j].exists /\ row'[j].exists /\ row'[j].name = row[j].name
     /\ row'[j].started = row[j].started
     /\ IsFinished(row[j]) => IsFinished(row'[j])
     /\ \A v \in Workers : exec'[v].job = j => IsFinished(row'[j]) = IsFinished(row[j])

AddsNothing(j) ==
  /\ \A k \in 1 .. Copies : Live(<<j, k>>)' => Live(<<j, k>>)
  /\ \A p \in Procs : j \in outbox'[p].pending => j \in outbox[p].pending
  /\ \A p \in Procs, k \in 1 .. Copies : <<j, k>> \in outbox'[p].named => <<j, k>> \in outbox[p].named
  /\ j \in sweep' => j \in sweep
  /\ \A k \in 1 .. Copies : <<j, k>> \in reaper'.queue => <<j, k>> \in reaper.queue
  /\ reaper'.doomed = j => reaper.doomed = j

KeepsHandlers(j) ==
  \A v \in Workers : exec'[v].job = j =>
    /\ exec'[v] = exec[v] \/ exec'[v] = [exec[v] EXCEPT !.phase = "idle"]
    /\ task'[<<j, exec[v].copy>>] = task[<<j, exec[v].copy>>]

LEMMA QuietStep ==
  ASSUME TypeOK, NEW j \in Jobs, Sound(j), faults.seen \subseteq faults'.seen,
         KeepsRow(j), AddsNothing(j), KeepsHandlers(j)
  PROVE  Sound(j)'
<1>1. Resting(j) => Resting(j)'
  BY DEF Resting, AddsNothing
<1>2. NoLive(j) => NoLive(j)'
  BY DEF NoLive, AddsNothing
<1>3. Unnamed(j) => Unnamed(j)'
  BY DEF Unnamed, AddsNothing
<1>4. Tagged(j) => Tagged(j)'
  BY DEF Tagged, KeepsRow
<1>5. \A k : Only(j, k) => Only(j, k)'
  BY <1>1 DEF Only, AddsNothing
<1>6. row'[j].exists = row[j].exists /\ row'[j].name = row[j].name
  BY DEF KeepsRow
<1>7. ~row[j].exists => row'[j] = row[j]
  BY DEF KeepsRow
<1>8. Unborn(j)'
  BY <1>1, <1>2, <1>3, <1>6, <1>7 DEF Sound, Unborn, AddsNothing
<1>9. OneTask(j)'
  BY DEF Sound, OneTask, AddsNothing
<1>10. Swept(j)'
  BY <1>2, <1>3 DEF Sound, Swept, AddsNothing
<1>11. Awaiting(j)'
  BY <1>2, <1>3 DEF Sound, Awaiting, AddsNothing
<1>12. Named(j)'
  BY <1>4, <1>5, <1>6 DEF Sound, Named, AddsNothing
<1>13. Doomed(j)'
  BY <1>1, <1>2, <1>4 DEF Sound, Doomed, AddsNothing
<1>h. ASSUME NEW w \in Workers, exec'[w].job = j
      PROVE  /\ exec[w].job = j /\ exec'[w].copy = exec[w].copy /\ exec'[w].mem = exec[w].mem
             /\ exec'[w].fresh = exec[w].fresh
             /\ exec'[w].phase = exec[w].phase \/ exec'[w].phase = "idle"
             /\ task'[<<j, exec[w].copy>>] = task[<<j, exec[w].copy>>]
  <2>1. exec[w] \in Exec
    BY DEF TypeOK
  <2>2. /\ exec'[w] = exec[w] \/ exec'[w] = [exec[w] EXCEPT !.phase = "idle"]
        /\ task'[<<j, exec[w].copy>>] = task[<<j, exec[w].copy>>]
    BY <1>h DEF KeepsHandlers
  <2>3. QED
    BY <1>h, <2>1, <2>2 DEF Exec
<1>14. OneHandler(j)'
  BY <1>h DEF Sound, OneHandler
<1>15. ASSUME NEW w \in Workers, exec'[w].job = j PROVE Handled(j, w)'
  <2>1. /\ exec[w].job = j /\ exec'[w].copy = exec[w].copy /\ exec'[w].mem = exec[w].mem
        /\ exec'[w].fresh = exec[w].fresh
        /\ exec'[w].phase = exec[w].phase \/ exec'[w].phase = "idle"
        /\ task'[<<j, exec[w].copy>>] = task[<<j, exec[w].copy>>]
    BY <1>h, <1>15
  <2>2. Handled(j, w)
    BY <1>15, <2>1 DEF Sound
  <2>3. IsFinished(row'[j]) = IsFinished(row[j])
    BY <1>15 DEF KeepsRow
  <2>4. Only(j, exec[w].copy)' /\ reaper'.doomed # j /\ row'[j].exists
    BY <1>5, <1>6, <2>1, <2>2 DEF Handled, AddsNothing
  <2>5. Leasing(j, w)'
    BY <2>1, <2>2, <2>3 DEF Handled, Leasing
  <2>6. Unsaved(j, w)'
    BY <2>1, <2>2, <2>3 DEF Handled, Unsaved
  <2>7. Copying(j, w)'
    BY <2>1, <2>2 DEF Handled, Copying
  <2>8. Naming(j, w)'
    BY <1>6, <2>1, <2>2 DEF Handled, Naming, AddsNothing
  <2>9. QED
    BY <2>1, <2>4, <2>5, <2>6, <2>7, <2>8 DEF Handled, Only
<1>16. QED
  BY <1>8, <1>9, <1>10, <1>11, <1>12, <1>13, <1>14, <1>15 DEF Sound

(***************************************************************************)
(* ... its handler may take a step of its own: with the task it holds and   *)
(* no other, on a row that keeps the name of that task or has none ...      *)
(***************************************************************************)
Frame(j) ==
  /\ \A k \in 1 .. Copies : Live(<<j, k>>)' => Live(<<j, k>>)
  /\ \A p \in Procs : j \in outbox'[p].pending <=> j \in outbox[p].pending
  /\ \A p \in Procs, k \in 1 .. Copies : <<j, k>> \in outbox'[p].named <=> <<j, k>> \in outbox[p].named
  /\ j \in sweep' <=> j \in sweep
  /\ reaper' = reaper

OwnStep(j, w) ==
  /\ exec[w].job = j /\ exec'[w].job = j /\ exec'[w].copy = exec[w].copy
  /\ \A v \in Workers : v # w => exec'[v] = exec[v]
  /\ row'[j].exists /\ row'[j].name \in {0, exec[w].copy}
  /\ Tagged(j) => Tagged(j)'
  /\ IsFinished(row[j]) => IsFinished(row'[j])

LEMMA HandlerStep ==
  ASSUME NEW j \in Jobs, Sound(j), NEW w \in Workers, exec[w].copy \in 1 .. Copies,
         Frame(j), OwnStep(j, w), Leasing(j, w)', Unsaved(j, w)', Copying(j, w)'
  PROVE  Sound(j)'
<1>1. Handled(j, w)
  BY DEF Sound, OwnStep
<1>2. Resting(j)' /\ (NoLive(j) => NoLive(j)') /\ (Unnamed(j) => Unnamed(j)')
  BY <1>1 DEF Handled, Only, Resting, NoLive, Unnamed, Frame, Live
<1>3. \A k : Only(j, k) => Only(j, k)'
  BY <1>2 DEF Only, Frame, Live
<1>4. Only(j, exec[w].copy)' /\ reaper'.doomed # j
  <2>1. PICK c \in 1 .. Copies : c = exec[w].copy
    OBVIOUS
  <2>2. Only(j, c) /\ reaper.doomed # j
    BY <1>1, <2>1 DEF Handled
  <2>3. Only(j, c)'
    BY <1>3, <2>2
  <2>4. exec'[w].copy = c
    BY <2>1 DEF OwnStep
  <2>5. QED
    BY <2>2, <2>3, <2>4 DEF Frame, Only
<1>5. Unborn(j)'
  BY DEF Unborn, OwnStep
<1>6. OneTask(j)'
  BY DEF Sound, OneTask, Frame, Live
<1>7. Swept(j)' /\ Awaiting(j)'
  BY <1>2 DEF Swept, Awaiting, Resting
<1>8. Named(j)'
  <2>1. ASSUME NEW k \in 1 .. Copies, row'[j].name = k PROVE Only(j, k)'
    BY <1>4, <2>1 DEF OwnStep
  <2>2. ASSUME NEW k \in 1 .. Copies, NEW p \in Procs, <<j, k>> \in outbox'[p].named
        PROVE  Only(j, k)'
    BY <1>3, <2>2 DEF Sound, Named, Frame
  <2>3. ASSUME NEW k \in 1 .. Copies, <<j, k>> \in reaper'.queue
        PROVE  Only(j, k)' /\ Tagged(j)'
    BY <1>3, <2>3 DEF Sound, Named, Frame, OwnStep
  <2>4. QED
    BY <2>1, <2>2, <2>3 DEF Named
<1>9. Doomed(j)'
  BY <1>4 DEF Doomed
<1>10. ASSUME NEW v \in Workers, exec'[v].job = j PROVE v = w
  BY <1>10 DEF Sound, OneHandler, OwnStep
<1>11. Naming(j, w)'
  BY <1>1 DEF Handled, Naming, OwnStep, Frame
<1>12. Handled(j, w)'
  BY <1>4, <1>11 DEF Handled, OwnStep, Only
<1>13. OneHandler(j)'
  BY <1>10 DEF OneHandler
<1>14. QED
  BY <1>5, <1>6, <1>7, <1>8, <1>9, <1>10, <1>12, <1>13 DEF Sound

(***************************************************************************)
(* ... or it may be inserted, by a process that is going to enqueue it.     *)
(***************************************************************************)
Inserted(j, p) ==
  /\ ~row[j].exists /\ row'[j] = NewRow
  /\ \A k \in 1 .. Copies : task'[<<j, k>>] = task[<<j, k>>]
  /\ \A q \in Procs : j \in outbox'[q].pending <=> (j \in outbox[q].pending \/ q = p)
  /\ \A q \in Procs, k \in 1 .. Copies : <<j, k>> \in outbox'[q].named <=> <<j, k>> \in outbox[q].named
  /\ j \in sweep' <=> j \in sweep
  /\ reaper' = reaper

LEMMA InsertStep ==
  ASSUME NEW j \in Jobs, Sound(j), NEW p \in Procs, Inserted(j, p),
         \A v \in Workers : exec'[v].job = j => exec[v].job = j
  PROVE  Sound(j)'
<1>1. /\ Resting(j) /\ Unnamed(j) /\ NoLive(j) /\ reaper.doomed # j
      /\ \A k \in 1 .. Copies : <<j, k>> \notin reaper.queue
  BY DEF Sound, Unborn, Inserted
<1>2. ASSUME NEW w \in Workers PROVE exec'[w].job # j
  BY DEF Sound, Handled, Inserted
<1>3. NoLive(j)' /\ Unnamed(j)' /\ j \notin sweep' /\ reaper'.doomed # j
  BY <1>1 DEF Inserted, NoLive, Unnamed, Live, Resting
<1>4. row'[j].exists /\ row'[j].name = 0
  BY DEF Inserted, NewRow, NoRow
<1>5. Unborn(j)' /\ Swept(j)' /\ Doomed(j)' /\ OneHandler(j)' /\ OneTask(j)'
  BY <1>2, <1>3, <1>4 DEF Unborn, Swept, Doomed, OneHandler, OneTask, NoLive
<1>6. Awaiting(j)'
  BY <1>1, <1>3 DEF Awaiting, Inserted, Resting
<1>7. Named(j)'
  BY <1>1, <1>3, <1>4 DEF Named, Unnamed, Inserted
<1>8. QED
  BY <1>2, <1>5, <1>6, <1>7 DEF Sound

(***************************************************************************)
(* A handler's step, for all rows: the one it runs, the rows in N it        *)
(* inserts, and the others, which it leaves alone.                         *)
(***************************************************************************)
OutboxGains(w, N) ==
  \A q \in Procs : /\ outbox'[q].named = outbox[q].named
                  /\ \A j \in Jobs : j \in outbox'[q].pending <=>
                                     (j \in outbox[q].pending \/ (q = w /\ j \in N))

WorkerAct(w, i, N) ==
  /\ exec[w].job = i /\ exec'[w].job = i /\ exec'[w].copy = exec[w].copy
  /\ \A v \in Workers : v # w => exec'[v] = exec[v]
  /\ sweep' = sweep /\ reaper' = reaper
  /\ \A n \in N : ~row[n].exists /\ row'[n] = NewRow
  /\ \A j \in Jobs : j \notin N /\ j # i => row'[j] = row[j]
  /\ OutboxGains(w, N)

\* What the handler of a sound row does to that row.
Proceeds(i, w) ==
  /\ row'[i].exists /\ row'[i].name \in {0, exec[w].copy}
  /\ Tagged(i) => Tagged(i)'
  /\ IsFinished(row[i]) => IsFinished(row'[i])
  /\ Leasing(i, w)' /\ Unsaved(i, w)' /\ Copying(i, w)'

LEMMA WorkerStep ==
  ASSUME TypeOK, HasJob, Sole, NEW w \in Workers, NEW i \in Jobs, NEW N \in SUBSET Jobs,
         exec[w].copy \in 1 .. Copies, WorkerAct(w, i, N),
         faults.seen \subseteq faults'.seen, \A j \in Jobs : Calm(j)' => Calm(j),
         \A k \in 1 .. Copies : Live(<<i, k>>)' => Live(<<i, k>>),
         \A t \in Tasks : t[1] # i => task'[t] = task[t],
         Calm(i) /\ Calm(i)' /\ Handled(i, w) => Proceeds(i, w)
  PROVE  Sole'
<1> SUFFICES ASSUME NEW j \in Jobs, Calm(j)' PROVE Sound(j)'
  BY DEF Sole
<1>1. Calm(j) /\ Sound(j)
  BY DEF Sole
<1>2. w \in Procs /\ \A q \in Procs : outbox[q] \in OutboxRec
  BY DEF Procs, TypeOK, OutboxRec
<1>3. \A q \in Procs : /\ outbox'[q].named = outbox[q].named
                       /\ j \in outbox'[q].pending <=> (j \in outbox[q].pending \/ (q = w /\ j \in N))
  BY DEF WorkerAct, OutboxGains
<1>4. CASE j = i
  <2>1. Handled(i, w)
    BY <1>1, <1>4 DEF Sound, WorkerAct
  <2>2. Proceeds(i, w)
    BY <1>1, <1>4, <2>1
  <2>3. i \notin N
    BY <2>1 DEF Handled, WorkerAct
  <2>4. Frame(j)
    BY <1>3, <1>4, <2>3 DEF Frame, WorkerAct
  <2>5. OwnStep(j, w)
    BY <1>4, <2>2 DEF OwnStep, Proceeds, WorkerAct
  <2>6. Leasing(j, w)' /\ Unsaved(j, w)' /\ Copying(j, w)'
    BY <1>4, <2>2 DEF Proceeds
  <2>7. QED
    BY <1>1, <2>4, <2>5, <2>6, HandlerStep
<1>5. CASE j # i
  <2>1. \A v \in Workers : exec'[v].job = j => v # w /\ exec'[v] = exec[v] /\ exec[v].job = j
    BY <1>5 DEF WorkerAct
  <2>2. ASSUME NEW k \in 1 .. Copies PROVE task'[<<j, k>>] = task[<<j, k>>]
    <3>1. <<j, k>> \in Tasks /\ <<j, k>>[1] = j
      BY DEF Tasks
    <3>2. QED
      BY <1>5, <3>1
  <2>3. CASE j \in N
    <3>1. Inserted(j, w)
      BY <1>2, <1>3, <2>2, <2>3 DEF Inserted, WorkerAct
    <3>2. QED
      BY <1>1, <1>2, <2>1, <3>1, InsertStep
  <2>4. CASE j \notin N
    <3>1. KeepsRow(j)
      BY <1>5, <2>4 DEF KeepsRow, WorkerAct
    <3>2. AddsNothing(j)
      BY <1>3, <2>2, <2>4 DEF AddsNothing, WorkerAct, Live
    <3>3. ASSUME NEW v \in Workers, exec'[v].job = j
          PROVE  exec'[v] = exec[v] /\ task'[<<j, exec[v].copy>>] = task[<<j, exec[v].copy>>]
      <4>2. exec[v].copy \in 1 .. Copies
        BY <2>1, <3>3, JobsAssumption DEF HasJob, Jobs
      <4>3. QED
        BY <2>1, <2>2, <3>3, <4>2
    <3>4. QED
      BY <1>1, <3>1, <3>2, <3>3, QuietStep DEF KeepsHandlers
  <2>5. QED
    BY <2>3, <2>4
<1>6. QED
  BY <1>4, <1>5

\* What a handler's step is given.
LEMMA WorkerFacts ==
  ASSUME TypeOK, HasJob, NEW w \in Workers, exec[w].phase \notin {"idle", "background"}
  PROVE  /\ exec[w] \in Exec /\ exec[w].job \in Jobs /\ exec[w].copy \in 1 .. Copies
         /\ exec[w].mem \in Row /\ exec[w].fresh \in Row /\ row[exec[w].job] \in Row
         /\ w \in Procs
<1>1. exec[w] \in Exec /\ exec[w].job \in Jobs /\ row \in [Jobs -> Row]
  BY DEF TypeOK, HasJob
<1>2. exec[w].job # NULL
  BY <1>1, JobsAssumption DEF Jobs
<1>3. exec[w].copy \in 1 .. Copies
  BY <1>2 DEF HasJob
<1>4. exec[w].mem \in Row /\ exec[w].fresh \in Row /\ row[exec[w].job] \in Row /\ w \in Procs
  BY <1>1 DEF Exec, Procs
<1>5. QED
  BY <1>1, <1>3, <1>4

\* What an outbox gains when rows are added to it, and when a transaction fails.
LEMMA Gains ==
  ASSUME TypeOK, NEW w \in Workers, NEW N \in SUBSET Jobs,
         outbox' = [outbox EXCEPT ![w].pending = @ \cup N]
  PROVE  OutboxGains(w, N)
<1>1. w \in Procs /\ \A q \in Procs : outbox[q] \in OutboxRec
  BY DEF Procs, TypeOK, OutboxRec
<1>2. QED
  BY <1>1 DEF OutboxGains, TypeOK

LEMMA NoInsert ==
  ASSUME TypeOK, NEW w \in Workers,
         \/ outbox' = outbox
         \/ \E j, rows, new : OutboxAfterAbort(w, j, rows, new)
  PROVE  OutboxGains(w, {})
<1>1. w \in Procs
  BY DEF Procs
<1>2. QED
  BY <1>1, AfterAbort DEF OutboxGains

\* Steps that only change the handler's own copy of the row.
LEMMA MemorySteps ==
  ASSUME TypeOK, HasJob, Sole, [Next]_vars, NEW w \in Workers,
         \/ PerformOk(w) \/ PerformRaises(w) \/ RescheduleAborts(w) \/ FinishRead(w)
         \/ FinishAborts(w) \/ FailSettleAborts(w) \/ FinalCheck(w)
  PROVE  Sole'
<1>1. exec[w].phase \notin {"idle", "background"}
  BY DEF PerformOk, PerformRaises, RescheduleAborts, FinishRead, FinishAborts, FailSettleAborts, FinalCheck
<1>i. PICK i \in Jobs : i = exec[w].job
  BY <1>1, WorkerFacts
<1>2. /\ exec[w] \in Exec /\ i = exec[w].job /\ exec[w].copy \in 1 .. Copies
      /\ exec[w].mem \in Row /\ exec[w].fresh \in Row /\ row[i] \in Row /\ w \in Procs
  BY <1>1, <1>i, WorkerFacts
<1>3. faults.seen \subseteq faults'.seen /\ \A j \in Jobs : Calm(j)' => Calm(j)
  BY SeenGrows
<1>4. /\ row' = row /\ task' = task /\ sweep' = sweep /\ reaper' = reaper
  BY DEF PerformOk, PerformRaises, RescheduleAborts, FinishRead, FinishAborts, FailSettleAborts, FinalCheck
<1>o. OutboxGains(w, {})
  <2>1. CASE PerformOk(w) \/ PerformRaises(w) \/ FinishRead(w) \/ FinalCheck(w)
    BY <2>1, NoInsert DEF PerformOk, PerformRaises, FinishRead, FinalCheck
  <2>2. CASE RescheduleAborts(w) \/ FinishAborts(w) \/ FailSettleAborts(w)
    BY <2>2, NoInsert DEF RescheduleAborts, FinishAborts, FailSettleAborts
  <2>3. QED
    BY <2>1, <2>2
<1>e. exec \in [Workers -> Exec]
  BY DEF TypeOK
<1>5. /\ exec'[w].job = i /\ exec'[w].copy = exec[w].copy /\ exec'[w].fresh = exec[w].fresh
      /\ \A v \in Workers : v # w => exec'[v] = exec[v]
  BY <1>e, <1>2 DEF PerformOk, PerformRaises, RescheduleAborts, FinishRead, FinishAborts, FailSettleAborts,
     FinalCheck, Goto, Exec
<1>6. WorkerAct(w, i, {})
  BY <1>i, <1>4, <1>5, <1>o DEF WorkerAct
<1>7. ASSUME Calm(i), Calm(i)', Handled(i, w) PROVE Proceeds(i, w)
  <2>1. Leasing(i, w)'
    BY <1>4, <1>5, <1>7 DEF Handled, Leasing
  <2>2. row'[i].exists /\ row'[i].name \in {0, exec[w].copy}
    BY <1>4, <1>7 DEF Handled, Naming
  <2>3. Unsaved(i, w)' /\ Copying(i, w)'
    <3>u. Unsaved(i, w) /\ Copying(i, w)
      BY <1>7 DEF Handled
    <3>1. CASE PerformOk(w)
      <4>1. exec'[w].phase = "performed" /\ exec'[w].mem = exec[w].mem
        BY <1>e, <3>1 DEF PerformOk, Goto, Exec
      <4>2. QED
        BY <1>3, <1>4, <1>5, <3>u, <3>1, <4>1 DEF Unsaved, Copying, PerformOk
    <3>2. CASE PerformRaises(w) \/ RescheduleAborts(w)
      <4>1. exec'[w].phase = "raised" /\ exec'[w].mem = exec[w].mem
        BY <1>e, <3>2 DEF PerformRaises, RescheduleAborts, Goto, Exec
      <4>2. "raise" \in faults'.seen
        <5>1. faults \in FaultsRec
          BY DEF TypeOK, FaultsRec
        <5>2. CASE RescheduleAborts(w)
          BY <5>2 DEF RescheduleAborts, SpendMarking
        <5>3. CASE PerformRaises(w) /\ i \in Poison
          BY <1>i, <5>1, <5>3 DEF PerformRaises, Raise, FaultsRec
        <5>4. CASE PerformRaises(w) /\ i \notin Poison
          BY <1>i, <5>4 DEF PerformRaises, Raise, Spend
        <5>5. QED
          BY <3>2, <5>2, <5>3, <5>4
      <4>3. "reschedule" \notin faults.seen
        BY <1>3, <1>7, <4>2 DEF Calm, Without
      <4>4. exec[w].fresh = NoRow /\ exec[w].phase = "performing"
        BY <3>u, <3>2, <4>3 DEF Copying, PerformRaises, RescheduleAborts
      <4>5. QED
        BY <1>4, <1>5, <3>u, <4>1, <4>4 DEF Unsaved, Copying
    <3>3. CASE FinishRead(w)
      <4>1. /\ exec'[w].phase = IF IsStarted(row[i]) THEN "read" ELSE "flush"
            /\ exec'[w].mem = row[i]
        BY <1>e, <3>3 DEF FinishRead, Exec
      <4>2. QED
        BY <1>3, <1>4, <1>5, <1>7, <2>2, <3>u, <4>1 DEF Unsaved, Copying, IsStarted
    <3>4. CASE FinishAborts(w)
      <4>1. exec'[w].phase = "raised" /\ exec'[w].mem = SetSuccessful(exec[w].mem) /\ exec[w].phase = "read"
        BY <1>e, <3>4 DEF FinishAborts, Exec
      <4>2. QED
        BY <1>2, <1>3, <1>4, <1>5, <3>u, <4>1, RowFacts DEF Unsaved, Copying
    <3>5. CASE FailSettleAborts(w)
      <4>1. exec'[w].phase = "flush" /\ exec'[w].mem = exec[w].mem
        BY <1>e, <3>5 DEF FailSettleAborts, Goto, Exec
      <4>2. QED
        BY <1>3, <1>4, <1>5, <3>u, <4>1 DEF Unsaved, Copying
    <3>6. CASE FinalCheck(w)
      <4>1. /\ exec'[w].phase = IF IsFinished(row[i]) THEN "answer" ELSE "terminate"
            /\ exec'[w].mem = row[i]
        BY <1>e, <3>6 DEF FinalCheck, Exec
      <4>2. QED
        BY <1>3, <1>4, <1>5, <1>7, <2>2, <3>u, <4>1 DEF Unsaved, Copying
    <3>7. QED
      BY <3>1, <3>2, <3>3, <3>4, <3>5, <3>6
  <2>4. QED
    BY <1>4, <2>1, <2>2, <2>3 DEF Proceeds, Tagged
<1>8. QED
  <2>1. \A k \in 1 .. Copies : Live(<<i, k>>)' => Live(<<i, k>>)
    BY <1>4 DEF Live
  <2>2. \A t \in Tasks : t[1] # i => task'[t] = task[t]
    BY <1>4
  <2>3. QED
    BY <1>2, <1>3, <1>6, <1>7, <2>1, <2>2, WorkerStep

\* Steps that save the handler's copy and tell nobody.
LEMMA SaveSteps ==
  ASSUME TypeOK, HasJob, Sole, [Next]_vars, NEW w \in Workers, Start(w) \/ FailSave(w)
  PROVE  Sole'
<1>1. exec[w].phase \notin {"idle", "background"}
  BY DEF Start, FailSave
<1>i. PICK i \in Jobs : i = exec[w].job
  BY <1>1, WorkerFacts
<1>2. /\ exec[w] \in Exec /\ exec[w].copy \in 1 .. Copies
      /\ exec[w].mem \in Row /\ row[i] \in Row /\ w \in Procs
  BY <1>1, <1>i, WorkerFacts
<1>3. faults.seen \subseteq faults'.seen /\ \A j \in Jobs : Calm(j)' => Calm(j)
  BY SeenGrows
<1>4. /\ task' = task /\ outbox' = outbox /\ sweep' = sweep /\ reaper' = reaper
  BY DEF Start, FailSave
<1>e. exec \in [Workers -> Exec] /\ row \in [Jobs -> Row]
  BY DEF TypeOK
<1>5. /\ exec'[w].job = i /\ exec'[w].copy = exec[w].copy /\ exec'[w].fresh = exec[w].fresh
      /\ \A v \in Workers : v # w => exec'[v] = exec[v]
  BY <1>e, <1>i, <1>2 DEF Start, FailSave, Exec
<1>6. PICK r \in Row : /\ row' = Saved(i, r) /\ exec'[w].mem = r
                       /\ \/ r = SetStarted(exec[w].mem) /\ exec[w].phase = "loaded"
                             /\ exec'[w].phase = "performing"
                          \/ r = SetFailed(exec[w].mem) /\ exec[w].phase = "raised"
                             /\ exec'[w].phase = "failed"
  <2>1. CASE Start(w)
    BY <1>e, <1>i, <1>2, <2>1, RowOps DEF Start, Exec
  <2>2. CASE FailSave(w)
    BY <1>e, <1>i, <1>2, <2>2, RowOps DEF FailSave, Exec
  <2>3. QED
    BY <2>1, <2>2
<1>7. /\ row'[i].exists = r.exists /\ row'[i].name = r.name
      /\ row'[i].started = r.started /\ IsFinished(row'[i]) = IsFinished(r)
      /\ \A j \in Jobs : j # i => row'[j] = row[j]
  BY <1>e, <1>6, SavedFacts
<1>8. /\ r.exists = exec[w].mem.exists /\ r.name = exec[w].mem.name
      /\ exec[w].mem.started => r.started
      /\ IsFinished(r) = IsFinished(exec[w].mem)
      /\ exec[w].phase = "loaded" => r.started
  BY <1>2, <1>6, RowFacts
<1>9. WorkerAct(w, i, {})
  BY <1>i, <1>4, <1>5, <1>7, NoInsert DEF WorkerAct
<1>10. ASSUME Calm(i), Calm(i)', Handled(i, w) PROVE Proceeds(i, w)
  <2>1. Unsaved(i, w) /\ Copying(i, w) /\ Leasing(i, w)
    BY <1>10 DEF Handled
  <2>2. row'[i].exists /\ row'[i].name \in {0, exec[w].copy}
    BY <1>7, <1>8, <2>1 DEF Copying
  <2>3. r.started
    BY <1>6, <1>8, <2>1 DEF Copying
  <2>4. ~IsFinished(row[i])
    BY <1>6, <2>1 DEF Unsaved
  <2>5. Leasing(i, w)'
    BY <1>4, <1>5, <2>1, <2>4 DEF Leasing
  <2>6. Unsaved(i, w)' /\ Copying(i, w)'
    <3>1. CASE exec[w].phase = "loaded" /\ exec'[w].phase = "performing"
      BY <1>3, <1>5, <1>6, <1>7, <1>8, <2>1, <2>3, <3>1 DEF Unsaved, Copying
    <3>2. CASE exec'[w].phase = "failed"
      BY <1>3, <1>5, <1>6, <1>7, <1>8, <2>1, <2>3, <3>2 DEF Unsaved, Copying
    <3>3. QED
      BY <1>6, <3>1, <3>2
  <2>7. Tagged(i)'
    BY <1>7, <2>3 DEF Tagged
  <2>8. QED
    BY <2>2, <2>4, <2>5, <2>6, <2>7 DEF Proceeds
<1>11. QED
  <2>1. \A k \in 1 .. Copies : Live(<<i, k>>)' => Live(<<i, k>>)
    BY <1>4 DEF Live
  <2>2. \A t \in Tasks : t[1] # i => task'[t] = task[t]
    BY <1>4
  <2>3. QED
    BY <1>2, <1>3, <1>9, <1>10, <2>1, <2>2, WorkerStep

\* What a step does that settles the job in its group: the transaction writes rows[i] for
\* the job and new rows in S, update_status a new callback row in N.
Settles(w, i, rows, S) ==
  /\ UpdateStatus(w, i, rows, S)
  /\ \A n \in S : ~row[n].exists /\ rows[n] = NewRow
  /\ \A j \in Jobs : j \notin S /\ j # i => rows[j] = row[j]
  /\ \/ FailSettle(w) /\ rows = row
     \/ FinishCommit(w) /\ rows = Saved(i, SetSuccessful(exec[w].mem))
     \/ Terminate(w) /\ rows = Saved(i, SetTerminated(exec[w].mem))
     \/ /\ RescheduleReplace(w)
        /\ i \notin S => rows[i] = Saved(i, SetTerminated(exec[w].fresh))[i]

Inserts(w, i, rows, S, N) ==
  /\ \A c \in N : ~row[c].exists /\ row'[c] = NewRow
  /\ \A j \in Jobs : j \notin N => row'[j] = rows[j]
  /\ outbox' = [outbox EXCEPT ![w].pending = @ \cup (S \cup N)]
  /\ i \in GroupJobs => group'.remaining = Decremented
  /\ i \notin GroupJobs => N = {} /\ group' = group
  /\ N # {} => CallbackDue(rows)

LEMMA SettleEffect ==
  ASSUME TypeOK, HasJob, NEW w \in Workers, NEW i \in Jobs, i = exec[w].job,
         FinishCommit(w) \/ Terminate(w) \/ RescheduleReplace(w) \/ FailSettle(w)
  PROVE  \E rows \in [Jobs -> Row], S \in SUBSET LoneJobs, N \in SUBSET Callbacks :
           Settles(w, i, rows, S) /\ Inserts(w, i, rows, S, N)
<1>1. exec[w].phase \notin {"idle", "background"}
  BY DEF FinishCommit, Terminate, RescheduleReplace, FailSettle
<1>2. exec[w].mem \in Row /\ exec[w].fresh \in Row /\ w \in Procs
  BY <1>1, WorkerFacts
<1>e. row \in [Jobs -> Row]
  BY DEF TypeOK
<1>6. PICK rows \in [Jobs -> Row], S \in SUBSET LoneJobs : Settles(w, i, rows, S)
  <2>1. CASE FailSettle(w)
    <3>1. UpdateStatus(w, i, row, {})
      BY <2>1 DEF FailSettle
    <3>2. QED
      BY <1>e, <2>1, <3>1 DEF Settles
  <2>2. CASE FinishCommit(w)
    <3> DEFINE r == exec[w].mem
    <3>1. Saved(i, SetSuccessful(r)) \in [Jobs -> Row] /\ \A j \in Jobs : j # i => Saved(i, SetSuccessful(r))[j] = row[j]
      BY <1>e, <1>2, RowOps, SavedType
    <3>2. UpdateStatus(w, i, Saved(i, SetSuccessful(r)), {})
      BY <2>2 DEF FinishCommit
    <3>3. QED
      BY <2>2, <3>1, <3>2 DEF Settles
  <2>3. CASE Terminate(w)
    <3> DEFINE r == exec[w].mem
    <3>1. Saved(i, SetTerminated(r)) \in [Jobs -> Row] /\ \A j \in Jobs : j # i => Saved(i, SetTerminated(r))[j] = row[j]
      BY <1>e, <1>2, RowOps, SavedType
    <3>2. UpdateStatus(w, i, Saved(i, SetTerminated(r)), {})
      BY <2>3 DEF Terminate
    <3>3. QED
      BY <2>3, <3>1, <3>2 DEF Settles
  <2>4. CASE RescheduleReplace(w)
    <3> DEFINE r == exec[w].fresh
    <3>1. Saved(i, SetTerminated(r)) \in [Jobs -> Row] /\ \A j \in Jobs : j # i => Saved(i, SetTerminated(r))[j] = row[j]
      BY <1>e, <1>2, RowOps, SavedType
    <3>2. PICK n \in LoneJobs : /\ ~row[n].exists
                                /\ UpdateStatus(w, i, [Saved(i, SetTerminated(r)) EXCEPT ![n] = NewRow], {n})
      BY <2>4 DEF RescheduleReplace, Replacements
    <3> DEFINE rows == [Saved(i, SetTerminated(r)) EXCEPT ![n] = NewRow]
    <3>3. /\ rows \in [Jobs -> Row] /\ n \in Jobs
          /\ rows[n] = NewRow /\ \A j \in Jobs : j # n => rows[j] = Saved(i, SetTerminated(r))[j]
      BY <3>1, RowOps DEF Jobs
    <3>4. UpdateStatus(w, i, rows, {n})
      BY <3>2
    <3> HIDE DEF rows
    <3>5. QED
      BY <2>4, <3>1, <3>2, <3>3, <3>4 DEF Settles
  <2>5. QED
    BY <2>1, <2>2, <2>3, <2>4
<1>7. \E N \in SUBSET Callbacks : Inserts(w, i, rows, S, N)
  <2>1. /\ S \in SUBSET Jobs /\ UpdateStatus(w, i, rows, S)
        /\ w \in Procs /\ rows \in [Jobs -> Row]
    BY <1>2, <1>6 DEF Jobs, Settles
  <2>2. QED
    <3>1. PICK N \in SUBSET Callbacks :
           /\ \A c \in N : ~row[c].exists /\ row'[c] = NewRow
           /\ \A j \in Jobs : j \notin N => row'[j] = rows[j]
           /\ outbox' = [outbox EXCEPT ![w].pending = @ \cup (S \cup N)]
           /\ i \in GroupJobs => group'.remaining = Decremented
           /\ i \notin GroupJobs => N = {} /\ group' = group
           /\ N # {} => CallbackDue(rows)
      BY ONLY TypeOK, <2>1, UpdateStatusEffect, Z3
    <3>2. QED
      BY <3>1 DEF Inserts
<1>8. QED
  BY <1>6, <1>7

\* Steps that settle the job in its group, and may insert rows.
LEMMA SettleSteps ==
  ASSUME TypeOK, HasJob, Sole, [Next]_vars, NEW w \in Workers,
         FinishCommit(w) \/ Terminate(w) \/ RescheduleReplace(w) \/ FailSettle(w)
  PROVE  Sole'
<1>1. exec[w].phase \notin {"idle", "background"}
  BY DEF FinishCommit, Terminate, RescheduleReplace, FailSettle
<1>i. PICK i \in Jobs : i = exec[w].job
  BY <1>1, WorkerFacts
<1>2. /\ exec[w] \in Exec /\ exec[w].copy \in 1 .. Copies
      /\ exec[w].mem \in Row /\ exec[w].fresh \in Row /\ row[i] \in Row /\ w \in Procs
  BY <1>1, <1>i, WorkerFacts
<1>3. faults.seen \subseteq faults'.seen /\ \A j \in Jobs : Calm(j)' => Calm(j)
  BY SeenGrows
<1>4. /\ task' = task /\ sweep' = sweep /\ reaper' = reaper
  BY DEF FinishCommit, Terminate, RescheduleReplace, FailSettle
<1>e. exec \in [Workers -> Exec] /\ row \in [Jobs -> Row]
  BY DEF TypeOK
<1>5. /\ exec'[w].job = i /\ exec'[w].copy = exec[w].copy
      /\ \A v \in Workers : v # w => exec'[v] = exec[v]
  BY <1>e, <1>i, <1>2 DEF FinishCommit, Terminate, RescheduleReplace, FailSettle, Goto, Exec
<1>6. PICK rows \in [Jobs -> Row], S \in SUBSET LoneJobs, N \in SUBSET Callbacks :
        Settles(w, i, rows, S) /\ Inserts(w, i, rows, S, N)
  BY <1>i, SettleEffect
<1>7. /\ \A n \in S : ~row[n].exists /\ rows[n] = NewRow
      /\ \A j \in Jobs : j \notin S /\ j # i => rows[j] = row[j]
      /\ \A c \in N : ~row[c].exists /\ row'[c] = NewRow
      /\ \A j \in Jobs : j \notin N => row'[j] = rows[j]
      /\ outbox' = [outbox EXCEPT ![w].pending = @ \cup (S \cup N)]
  BY <1>6 DEF Settles, Inserts
<1>8. S \cup N \in SUBSET Jobs /\ S \cap N = {}
  BY JobsAssumption DEF Jobs
<1>9. WorkerAct(w, i, S \cup N)
  <2>1. ASSUME NEW n \in S \cup N PROVE ~row[n].exists /\ row'[n] = NewRow
    <3>1. CASE n \in N
      BY <1>7, <3>1
    <3>2. CASE n \in S
      BY <1>7, <1>8, <3>2 DEF Jobs
    <3>3. QED
      BY <3>1, <3>2
  <2>2. ASSUME NEW j \in Jobs, j \notin S \cup N, j # i PROVE row'[j] = row[j]
    BY <1>7, <2>2
  <2>3. QED
    BY <1>i, <1>4, <1>5, <1>7, <1>8, <2>1, <2>2, Gains DEF WorkerAct
<1>10. ASSUME Calm(i), Calm(i)', Handled(i, w) PROVE Proceeds(i, w)
  <2>1. Unsaved(i, w) /\ Copying(i, w) /\ Leasing(i, w) /\ Naming(i, w) /\ row[i].exists
    BY <1>10 DEF Handled
  <2>2. row'[i] = rows[i] /\ i \notin S
    BY <1>7, <2>1
  <2>3. ASSUME NEW r \in Row, NEW q \in Row, rows[i] = Saved(i, q)[i],
               q = SetSuccessful(r) \/ q = SetTerminated(r),
               r.exists, r.name \in {0, exec[w].copy}
        PROVE  row'[i].exists /\ row'[i].name \in {0, exec[w].copy} /\ IsFinished(row'[i])
    <3>1. q.exists /\ q.name \in {0, exec[w].copy} /\ IsFinished(q)
      BY <2>3, RowFacts
    <3>2. QED
      BY <1>e, <2>2, <2>3, <3>1, SavedFacts
  <2>4. ASSUME IsFinished(row'[i]) PROVE Tagged(i)' /\ (Leasing(i, w)' /\ (IsFinished(row[i]) => IsFinished(row'[i])))
    BY <1>4, <1>5, <2>1, <2>4 DEF Tagged, Leasing
  <2>5. CASE FailSettle(w) /\ rows = row
    <3>1. exec'[w].phase = "flush" /\ exec'[w].mem = exec[w].mem /\ exec'[w].fresh = exec[w].fresh
      BY <1>e, <2>5 DEF FailSettle, Goto, Exec
    <3>2. Unsaved(i, w)' /\ Copying(i, w)'
      BY <1>3, <1>5, <2>1, <3>1 DEF Unsaved, Copying
    <3>3. row'[i] = row[i] /\ Leasing(i, w)'
      BY <1>4, <1>5, <2>1, <2>2, <2>5 DEF Leasing
    <3>4. QED
      BY <2>1, <3>2, <3>3 DEF Proceeds, Naming, Tagged
  <2>6. CASE FinishCommit(w) /\ rows = Saved(i, SetSuccessful(exec[w].mem))
    <3>1. /\ exec'[w].phase = "flush" /\ exec'[w].mem = SetSuccessful(exec[w].mem)
          /\ exec'[w].fresh = exec[w].fresh
      BY <1>e, <2>6 DEF FinishCommit, Exec
    <3>2. Unsaved(i, w)' /\ Copying(i, w)'
      BY <1>2, <1>3, <1>5, <2>1, <3>1, RowFacts DEF Unsaved, Copying
    <3>3. row'[i].exists /\ row'[i].name \in {0, exec[w].copy} /\ IsFinished(row'[i])
      BY <1>2, <2>1, <2>3, <2>6, RowOps DEF Copying
    <3>4. QED
      BY <2>4, <3>2, <3>3 DEF Proceeds
  <2>7. CASE Terminate(w) /\ rows = Saved(i, SetTerminated(exec[w].mem))
    <3>1. /\ exec'[w].phase = "answer" /\ exec'[w].mem = SetTerminated(exec[w].mem)
          /\ exec'[w].fresh = exec[w].fresh
      BY <1>e, <2>7 DEF Terminate, Exec
    <3>2. Unsaved(i, w)' /\ Copying(i, w)'
      BY <1>2, <1>3, <1>5, <2>1, <3>1, RowFacts DEF Unsaved, Copying
    <3>3. row'[i].exists /\ row'[i].name \in {0, exec[w].copy} /\ IsFinished(row'[i])
      BY <1>2, <2>1, <2>3, <2>7, RowOps DEF Copying
    <3>4. QED
      BY <2>4, <3>2, <3>3 DEF Proceeds
  <2>8. CASE RescheduleReplace(w) /\ rows[i] = Saved(i, SetTerminated(exec[w].fresh))[i]
    <3>1. /\ exec'[w].phase = "performing" /\ exec'[w].mem = exec[w].mem
          /\ exec'[w].fresh = SetTerminated(exec[w].fresh) /\ exec[w].phase = "rescheduling"
      BY <1>e, <2>8 DEF RescheduleReplace, Exec
    <3>2. exec[w].fresh.exists /\ exec[w].fresh.name = 0 /\ exec[w].mem.started
      BY <2>1, <3>1 DEF Copying
    <3>3. exec'[w].fresh.exists /\ exec'[w].fresh.name = 0 /\ exec'[w].fresh # NoRow
      BY <1>2, <3>1, <3>2, RowFacts DEF NoRow
    <3>4. Unsaved(i, w)' /\ Copying(i, w)'
      BY <1>3, <1>5, <2>1, <3>1, <3>2, <3>3 DEF Unsaved, Copying
    <3>5. row'[i].exists /\ row'[i].name \in {0, exec[w].copy} /\ IsFinished(row'[i])
      BY <1>2, <2>3, <2>8, <3>2, RowOps
    <3>6. QED
      BY <2>4, <3>4, <3>5 DEF Proceeds
  <2>9. QED
    BY <1>6, <2>2, <2>5, <2>6, <2>7, <2>8 DEF Settles
<1>11. QED
  <2>1. \A k \in 1 .. Copies : Live(<<i, k>>)' => Live(<<i, k>>)
    BY <1>4 DEF Live
  <2>2. \A t \in Tasks : t[1] # i => task'[t] = task[t]
    BY <1>4
  <2>3. QED
    BY <1>2, <1>3, <1>8, <1>9, <1>10, <2>1, <2>2, WorkerStep

\* enqueue_job_in_group: a new row, and nothing happens to the member that calls it.
LEMMA AddStep ==
  ASSUME TypeOK, HasJob, Sole, [Next]_vars, NEW w \in Workers, AddToGroup(w)
  PROVE  Sole'
<1>1. exec[w].phase \notin {"idle", "background"}
  BY DEF AddToGroup
<1>i. PICK i \in Jobs : i = exec[w].job
  BY <1>1, WorkerFacts
<1>2. exec[w].copy \in 1 .. Copies
  BY <1>1, WorkerFacts
<1>3. faults.seen \subseteq faults'.seen /\ \A j \in Jobs : Calm(j)' => Calm(j)
  BY SeenGrows
<1>4. /\ task' = task /\ exec' = exec /\ sweep' = sweep /\ reaper' = reaper
  BY DEF AddToGroup
<1>5. PICK n \in GroupJobs : /\ ~row[n].exists /\ row' = [row EXCEPT ![n] = NewRow]
                             /\ outbox' = [outbox EXCEPT ![w].pending = @ \cup {n}]
  BY DEF AddToGroup
<1>6. n \in Jobs /\ row \in [Jobs -> Row]
  BY DEF Jobs, TypeOK
<1>7. WorkerAct(w, i, {n})
  BY <1>i, <1>4, <1>5, <1>6, Gains DEF WorkerAct
<1>8. ASSUME Calm(i), Calm(i)', Handled(i, w) PROVE Proceeds(i, w)
  <2>1. Unsaved(i, w) /\ Copying(i, w) /\ Leasing(i, w) /\ Naming(i, w) /\ row[i].exists
    BY <1>8 DEF Handled
  <2>2. row'[i] = row[i]
    BY <1>5, <1>6, <2>1
  <2>3. QED
    BY <1>3, <1>4, <2>1, <2>2 DEF Proceeds, Unsaved, Copying, Leasing, Naming, Tagged
<1>9. QED
  <2>1. \A k \in 1 .. Copies : Live(<<i, k>>)' => Live(<<i, k>>)
    BY <1>4 DEF Live
  <2>2. \A t \in Tasks : t[1] # i => task'[t] = task[t]
    BY <1>4
  <2>3. QED
    BY <1>2, <1>3, <1>6, <1>7, <1>8, <2>1, <2>2, WorkerStep

\* A deleted task is gone, the others stay what they are.
LEMMA DeletedFacts ==
  ASSUME TypeOK, NEW t \in Tasks
  PROVE  /\ Deleted(t)[t].state = "gone" /\ Deleted(t)[t].holder = NULL
         /\ \A u \in Tasks : u # t => Deleted(t)[u] = task[u]
BY DEF TypeOK, Deleted, NoTask

\* CloudTasksJobs.cancel on the job's own row: its task is deleted and the row
\* terminated, or, without a name, neither.
LEMMA RescheduleStep ==
  ASSUME TypeOK, HasJob, Sole, [Next]_vars, NEW w \in Workers, RescheduleCancel(w)
  PROVE  Sole'
<1>1. exec[w].phase = "performing" /\ exec[w].fresh = NoRow
  BY DEF RescheduleCancel
<1>i. PICK i \in Jobs : i = exec[w].job
  BY <1>1, WorkerFacts
<1>2. /\ exec[w] \in Exec /\ exec[w].copy \in 1 .. Copies /\ exec[w].mem \in Row /\ row[i] \in Row
  BY <1>1, <1>i, WorkerFacts
<1>3. faults.seen \subseteq faults'.seen /\ \A j \in Jobs : Calm(j)' => Calm(j)
  BY SeenGrows
<1>s. "reschedule" \in faults'.seen
  BY DEF RescheduleCancel, Spend
<1>4. /\ outbox' = outbox /\ sweep' = sweep /\ reaper' = reaper
  BY DEF RescheduleCancel
<1>e. exec \in [Workers -> Exec] /\ row \in [Jobs -> Row]
  BY DEF TypeOK
<1> DEFINE r == IF row[i].name = 0 THEN row[i] ELSE [row[i] EXCEPT !.name = 0, !.terminated = TRUE]
<1>5. /\ row' = [row EXCEPT ![i] = r]
      /\ task' = IF row[i].name = 0 THEN task ELSE Deleted(<<i, row[i].name>>)
      /\ exec' = [exec EXCEPT ![w].phase = "rescheduling", ![w].fresh = r]
  BY <1>i DEF RescheduleCancel
<1>6. /\ r.name = 0 /\ r.exists = row[i].exists
      /\ r = row[i] \/ IsFinished(r)
      /\ IsFinished(row[i]) => IsFinished(r)
      /\ row[i].name # 0 => IsFinished(r)
  BY <1>2 DEF Row, IsFinished
<1> HIDE DEF r
<1>7. row'[i] = r /\ \A j \in Jobs : j # i => row'[j] = row[j]
  BY <1>e, <1>5
<1>8. /\ exec'[w].job = i /\ exec'[w].copy = exec[w].copy /\ exec'[w].mem = exec[w].mem
      /\ exec'[w].phase = "rescheduling" /\ exec'[w].fresh = r
      /\ \A v \in Workers : v # w => exec'[v] = exec[v]
  BY <1>e, <1>i, <1>5 DEF Exec
<1>t. row[i].name # 0 =>
        /\ <<i, row[i].name>> \in Tasks
        /\ task'[<<i, row[i].name>>].state = "gone" /\ task'[<<i, row[i].name>>].holder = NULL
        /\ \A u \in Tasks : u # <<i, row[i].name>> => task'[u] = task[u]
  <2>1. row[i].name # 0 => <<i, row[i].name>> \in Tasks
    BY <1>2, JobsAssumption DEF Row, Tasks
  <2>2. QED
    BY <1>5, <2>1, DeletedFacts
<1>9. WorkerAct(w, i, {})
  BY <1>i, <1>4, <1>7, <1>8, NoInsert DEF WorkerAct
<1>10. ASSUME Calm(i), Calm(i)', Handled(i, w) PROVE Proceeds(i, w)
  <2>1. Unsaved(i, w) /\ Copying(i, w) /\ Leasing(i, w) /\ Naming(i, w) /\ row[i].exists
    BY <1>10 DEF Handled
  <2>2. Leasing(i, w)'
    <3>1. CASE row[i].name = 0
      BY <1>5, <1>6, <1>7, <1>8, <2>1, <3>1 DEF Leasing
    <3>2. CASE row[i].name # 0
      BY <1>6, <1>7, <1>8, <1>t, <2>1, <3>2 DEF Leasing, Naming
    <3>3. QED
      BY <3>1, <3>2
  <2>3. Unsaved(i, w)'
    BY <1>8 DEF Unsaved
  <2>4. Copying(i, w)'
    <3>1. r # NoRow
      <4>1. r.exists = TRUE /\ NoRow.exists = FALSE
        BY <1>2, <1>6, <2>1 DEF NoRow, Row
      <4>2. QED
        BY <4>1
    <3>2. QED
      BY <1>1, <1>6, <1>8, <1>s, <2>1, <3>1 DEF Copying
  <2>5. Tagged(i) => Tagged(i)'
    BY <1>6, <1>7 DEF Tagged
  <2>6. QED
    BY <1>6, <1>7, <2>1, <2>2, <2>3, <2>4, <2>5 DEF Proceeds
<1>11. QED
  <2>1. \A k \in 1 .. Copies : Live(<<i, k>>)' => Live(<<i, k>>)
    <3>1. SUFFICES ASSUME NEW k \in 1 .. Copies, Live(<<i, k>>)' PROVE Live(<<i, k>>)
      OBVIOUS
    <3>2. <<i, k>> \in Tasks
      BY DEF Tasks
    <3>3. CASE row[i].name = 0
      BY <1>5, <3>1, <3>3 DEF Live
    <3>4. CASE row[i].name # 0
      <4>1. <<i, k>> # <<i, row[i].name>>
        BY <1>t, <3>1, <3>4 DEF Live
      <4>2. QED
        BY <1>t, <3>1, <3>2, <3>4, <4>1 DEF Live
    <3>5. QED
      BY <3>3, <3>4
  <2>2. \A t \in Tasks : t[1] # i => task'[t] = task[t]
    BY <1>5, <1>t
  <2>3. QED
    BY <1>2, <1>3, <1>9, <1>10, <2>1, <2>2, WorkerStep

\* A handler leaves: it answers or dies.
LEMMA LeaveSteps ==
  ASSUME TypeOK, HasJob, Sole, [Next]_vars, NEW w \in Workers,
         RunReturns(w) \/ AnswerOk(w) \/ Crash(w) \/ BackgroundDone(w)
  PROVE  Sole'
<1>1. faults.seen \subseteq faults'.seen /\ \A j \in Jobs : Calm(j)' => Calm(j)
  BY SeenGrows
<1>2. row' = row /\ sweep' = sweep /\ reaper' = reaper
  BY DEF RunReturns, AnswerOk, Crash, BackgroundDone
<1>e. exec \in [Workers -> Exec] /\ task \in [Tasks -> TaskRec] /\ outbox \in [Procs -> OutboxRec]
  BY DEF TypeOK, TaskRec, OutboxRec
<1>3. \A p \in Procs : outbox'[p] = outbox[p] \/ outbox'[p] = EmptyOutbox
  BY <1>e DEF RunReturns, AnswerOk, Crash, BackgroundDone
<1>4. /\ \A v \in Workers : v # w => exec'[v] = exec[v]
      /\ exec'[w].job = NULL \/ (BackgroundDone(w) /\ exec'[w] = [exec[w] EXCEPT !.phase = "idle"])
  <2>1. CASE BackgroundDone(w)
    BY <1>e, <2>1 DEF BackgroundDone, Goto
  <2>2. CASE RunReturns(w) \/ Crash(w)
    BY <1>e, <2>2 DEF RunReturns, Crash, Idle
  <2>3. CASE AnswerOk(w)
    BY <1>e, <2>3 DEF AnswerOk, Idle
  <2>4. QED
    BY <2>1, <2>2, <2>3
<1>5. ASSUME NEW t \in Tasks
      PROVE  task'[t] = task[t] \/ (exec[w].job # NULL /\ t = <<exec[w].job, exec[w].copy>>)
  <2>1. ASSUME NEW ok, Answer(w, ok) PROVE task'[t] = task[t] \/ (exec[w].job # NULL /\ t = <<exec[w].job, exec[w].copy>>)
    BY <1>e, <2>1 DEF Answer, Holds, Deleted, AttemptFailed
  <2>2. QED
    BY <1>e, <2>1 DEF RunReturns, AnswerOk, Crash, BackgroundDone, Holds, AttemptFailed
<1>6. BackgroundDone(w) => task' = task
  BY DEF BackgroundDone
<1>7. SUFFICES ASSUME NEW j \in Jobs, Calm(j)' PROVE Sound(j)'
  BY DEF Sole
<1>8. Calm(j) /\ Sound(j)
  BY <1>1, <1>7 DEF Sole
<1>9. ASSUME NEW v \in Workers, exec'[v].job = j
      PROVE  /\ exec'[v] = exec[v] \/ exec'[v] = [exec[v] EXCEPT !.phase = "idle"]
             /\ task'[<<j, exec[v].copy>>] = task[<<j, exec[v].copy>>]
  <2>1. j # NULL /\ exec[v] \in Exec
    BY <1>e, JobsAssumption DEF Jobs
  <2>2. CASE v = w
    BY <1>4, <1>6, <1>9, <2>1, <2>2
  <2>3. CASE v # w
    <3>1. exec'[v] = exec[v] /\ exec[v].job = j
      BY <1>4, <1>9, <2>3
    <3>2. <<j, exec[v].copy>> \in Tasks
      BY <2>1, <3>1, LeasedTask
    <3>3. exec[w].job # j
      BY <1>8, <2>3, <3>1 DEF Sound, OneHandler
    <3>4. QED
      BY <1>5, <3>1, <3>2, <3>3
  <2>4. QED
    BY <2>2, <2>3
<1>10. ASSUME NEW k \in 1 .. Copies, Live(<<j, k>>)' PROVE Live(<<j, k>>)
  <2>1. <<j, k>> \in Tasks /\ j # NULL
    BY JobsAssumption DEF Tasks, Jobs
  <2>2. CASE task'[<<j, k>>] = task[<<j, k>>]
    BY <1>10, <2>2 DEF Live
  <2>3. CASE <<j, k>> = <<exec[w].job, exec[w].copy>>
    <3>1. Handled(j, w)
      BY <1>8, <2>3 DEF Sound
    <3>2. CASE task[<<j, exec[w].copy>>].state = "leased"
      BY <2>3, <3>2 DEF Live
    <3>3. CASE task[<<j, exec[w].copy>>].holder = NULL
      <4>1. ~Holds(w)
        BY <2>3, <3>3, JobsAssumption DEF Holds
      <4>2. task' = task
        BY <4>1 DEF RunReturns, AnswerOk, Crash, BackgroundDone, Answer
      <4>3. QED
        BY <1>10, <4>2 DEF Live
    <3>4. QED
      BY <3>1, <3>2, <3>3 DEF Handled, Leasing
  <2>4. QED
    BY <1>5, <2>1, <2>2, <2>3
<1>11. QED
  <2>1. KeepsRow(j)
    BY <1>2 DEF KeepsRow
  <2>2. AddsNothing(j)
    BY <1>2, <1>3, <1>10 DEF AddsNothing, EmptyOutbox
  <2>3. KeepsHandlers(j)
    BY <1>9 DEF KeepsHandlers
  <2>4. QED
    BY <1>1, <1>8, <2>1, <2>2, <2>3, QuietStep

\* The endpoint loads a row: the task it was called for is the only one.
LEMMA DispatchStep ==
  ASSUME TypeOK, HasJob, Sole, [Next]_vars, NEW w \in Workers, NEW t \in Tasks, Dispatch(w, t)
  PROVE  Sole'
<1>1. faults.seen \subseteq faults'.seen /\ \A j \in Jobs : Calm(j)' => Calm(j)
  BY SeenGrows
<1>2. row' = row /\ outbox' = outbox /\ sweep' = sweep /\ reaper' = reaper
  BY DEF Dispatch
<1>e. exec \in [Workers -> Exec] /\ task \in [Tasks -> TaskRec]
  BY DEF TypeOK, TaskRec
<1>3. PICK i \in Jobs, c \in 1 .. Copies : t = <<i, c>>
  BY DEF Tasks
<1>4. /\ \A u \in Tasks : u # t => task'[u] = task[u]
      /\ \A v \in Workers : v # w => exec'[v] = exec[v]
      /\ task[t].state = "queued" /\ exec[w].phase = "idle"
  BY <1>e DEF Dispatch, AttemptFailed, Deleted
<1>5. \/ /\ exec' = exec /\ (task'[t].state = "queued" \/ task'[t].state = "gone")
      \/ /\ row[i].exists /\ ~IsFinished(row[i])
         /\ task'[t].state = "leased" /\ task'[t].holder = w
         /\ exec'[w].job = i /\ exec'[w].copy = c /\ exec'[w].mem = row[i]
         /\ exec'[w].fresh = NoRow /\ exec'[w].phase \in {"terminate", "loaded"}
  <2>1. t[1] = i /\ t[2] = c
    BY <1>3
  <2>2. CASE exec' = exec /\ (task' = AttemptFailed(t) \/ task' = Deleted(t))
    BY <1>e, <2>2 DEF AttemptFailed, Deleted, NoTask
  <2>3. CASE /\ row[i].exists /\ ~IsFinished(row[i])
             /\ task' = [task EXCEPT ![t].state = "leased", ![t].holder = w]
             /\ exec' = [exec EXCEPT ![w] =
                  [phase |-> IF task[t].tries > RetryCount THEN "terminate" ELSE "loaded",
                   job |-> i, copy |-> c, mem |-> row[i], fresh |-> NoRow,
                   mode |-> IF task[t].tries = RetryCount THEN "final"
                            ELSE IF task[t].tries > RetryCount THEN "exhausted" ELSE "run",
                   ok |-> TRUE]]
    <3>1. task'[t].state = "leased" /\ task'[t].holder = w
      BY <1>e, <2>3 DEF TaskRec
    <3>2. /\ exec'[w].job = i /\ exec'[w].copy = c /\ exec'[w].mem = row[i]
          /\ exec'[w].fresh = NoRow /\ exec'[w].phase \in {"terminate", "loaded"}
      BY <1>e, <2>3
    <3>3. QED
      BY <2>3, <3>1, <3>2
  <2>4. QED
    BY <2>1, <2>2, <2>3 DEF Dispatch
<1>6. SUFFICES ASSUME NEW j \in Jobs, Calm(j)' PROVE Sound(j)'
  BY DEF Sole
<1>7. Calm(j) /\ Sound(j)
  BY <1>1, <1>6 DEF Sole
<1>8. ASSUME NEW k \in 1 .. Copies, Live(<<j, k>>)' PROVE Live(<<j, k>>)
  <2>1. <<j, k>> \in Tasks
    BY DEF Tasks
  <2>2. QED
    BY <1>4, <1>8, <2>1 DEF Live
\* No handler holds a queued task.
<1>9. ASSUME NEW v \in Workers, exec[v].job = j PROVE <<j, exec[v].copy>> \in Tasks /\ <<j, exec[v].copy>> # t
  <2>1. <<j, exec[v].copy>> \in Tasks
    BY <1>9, LeasedTask
  <2>2. Leasing(j, v)
    BY <1>7, <1>9 DEF Sound, Handled
  <2>3. QED
    BY <1>4, <2>1, <2>2 DEF Leasing
<1>10. CASE j # i \/ exec' = exec
  <2>1. KeepsRow(j)
    BY <1>2 DEF KeepsRow
  <2>2. AddsNothing(j)
    BY <1>2, <1>8 DEF AddsNothing
  <2>3. ASSUME NEW v \in Workers, exec'[v].job = j
        PROVE  exec'[v] = exec[v] /\ task'[<<j, exec[v].copy>>] = task[<<j, exec[v].copy>>]
    <3>1. exec'[v] = exec[v]
      BY <1>4, <1>5, <1>10, <2>3
    <3>2. QED
      BY <1>4, <1>9, <2>3, <3>1
  <2>4. KeepsHandlers(j)
    BY <2>3 DEF KeepsHandlers
  <2>5. QED
    BY <1>1, <1>7, <2>1, <2>2, <2>4, QuietStep
<1>11. CASE /\ j = i /\ row[i].exists /\ ~IsFinished(row[i])
            /\ task'[t].state = "leased" /\ task'[t].holder = w
            /\ exec'[w].job = i /\ exec'[w].copy = c /\ exec'[w].mem = row[i]
            /\ exec'[w].fresh = NoRow /\ exec'[w].phase \in {"terminate", "loaded"}
  <2>0. Live(<<j, c>>) /\ t = <<j, c>> /\ row[j] \in Row
    BY <1>3, <1>4, <1>11 DEF Live, TypeOK
  <2>1. ~NoLive(j)
    BY <2>0 DEF NoLive
  <2>2. Only(j, c)
    BY <1>7, <2>0, <2>1 DEF Sound, OneTask, Only, Resting, Swept, Awaiting
  <2>3. \A k \in 1 .. Copies : Only(j, k) => k = c
    BY <2>0 DEF Only
  <2>4. reaper.doomed # j
    BY <1>7, <2>1 DEF Sound, Doomed
  <2>5. row[j].name \in {0, c} /\ \A p \in Procs, k \in 1 .. Copies : <<j, k>> \in outbox[p].named => k = c
    <3>1. row[j].name \in 0 .. Copies
      BY <2>0 DEF Row
    <3>2. row[j].name = 0 \/ row[j].name \in 1 .. Copies
      BY <3>1, JobsAssumption
    <3>3. QED
      BY <1>7, <2>3, <3>2 DEF Sound, Named
  <2>6. ASSUME NEW v \in Workers, exec[v].job = j PROVE FALSE
    <3>1. exec[v].copy \in 1 .. Copies
      BY <2>6, JobsAssumption DEF HasJob, Jobs
    <3>2. exec[v].copy = c
      BY <1>7, <2>3, <2>6, <3>1 DEF Sound, Handled
    <3>3. QED
      BY <1>9, <2>0, <2>6, <3>2
  <2>7. \A k \in 1 .. Copies : Only(j, k) => Only(j, k)'
    BY <1>2, <1>8 DEF Only, Resting
  <2>8. Tagged(j) => Tagged(j)'
    BY <1>2 DEF Tagged
  <2>9. Unborn(j)' /\ Swept(j)' /\ Awaiting(j)' /\ Doomed(j)'
    <3>1. Resting(j)'
      BY <1>2, <2>2 DEF Only, Resting
    <3>2. QED
      BY <1>2, <1>11, <2>4, <3>1 DEF Unborn, Swept, Awaiting, Doomed, Resting
  <2>10. OneTask(j)'
    BY <1>7, <1>8 DEF Sound, OneTask
  <2>11. Named(j)'
    BY <1>2, <1>7, <2>7, <2>8 DEF Sound, Named
  <2>12. \A v \in Workers : exec'[v].job = j => v = w
    BY <1>4, <2>6
  <2>13. Leasing(j, w)' /\ Naming(j, w)'
    BY <1>2, <1>11, <2>0, <2>5 DEF Leasing, Naming
  <2>14. Unsaved(j, w)' /\ Copying(j, w)'
    BY <1>2, <1>11, <2>5 DEF Unsaved, Copying
  <2>15. Handled(j, w)'
    <3>1. Only(j, c)'
      BY <2>2, <2>7
    <3>2. QED
      BY <1>2, <1>11, <2>4, <2>13, <2>14, <3>1 DEF Handled, Only
  <2>16. QED
    BY <2>9, <2>10, <2>11, <2>12, <2>15 DEF Sound, OneHandler
<1>12. QED
  BY <1>5, <1>10, <1>11

\* Nothing of a row that waits for a task is anywhere else.
LEMMA NoOneHas ==
  ASSUME NEW j \in Jobs, Sound(j), NoLive(j), ~Resting(j)
  PROVE  /\ \A v \in Workers : exec[v].job # j
         /\ reaper.doomed # j
         /\ \A k \in 1 .. Copies : row[j].name # k /\ <<j, k>> \notin reaper.queue
         /\ Unnamed(j)
<1>1. ASSUME NEW v \in Workers, exec[v].job = j PROVE FALSE
  BY <1>1 DEF Sound, Handled, Only
<1>2. QED
  BY <1>1 DEF Sound, Doomed, Named, Only, Unnamed

\* Cloud Tasks accepts a task for a row that waits in an outbox or in the sweep.
LEMMA EnqueueOne ==
  ASSUME TypeOK, NEW j \in Jobs, Sound(j), NoLive(j), ~Resting(j), Resting(j)',
         row' = row, exec' = exec, reaper' = reaper, row[j].exists,
         NEW k \in 1 .. Copies,
         \A i \in 1 .. Copies : i # k => ~Live(<<j, i>>)',
         \A p \in Procs, i \in 1 .. Copies : <<j, i>> \in outbox'[p].named => i = k
  PROVE  Sound(j)'
<1>1. /\ \A v \in Workers : exec'[v].job # j
      /\ reaper'.doomed # j
      /\ \A i \in 1 .. Copies : row'[j].name # i /\ <<j, i>> \notin reaper'.queue
  BY NoOneHas
<1>2. Only(j, k)'
  BY DEF Only
<1>3. Unborn(j)' /\ Swept(j)' /\ Awaiting(j)' /\ Doomed(j)' /\ OneHandler(j)'
  BY <1>1 DEF Unborn, Swept, Awaiting, Doomed, OneHandler, Resting
<1>4. OneTask(j)'
  BY <1>2 DEF OneTask, Only
<1>5. Named(j)'
  BY <1>1, <1>2 DEF Named
<1>6. QED
  BY <1>1, <1>3, <1>4, <1>5 DEF Sound

LEMMA CreateVoidStep ==
  ASSUME TypeOK, HasJob, Sole, [Next]_vars, NEW p \in Procs, CreateVoidTask(p)
  PROVE  Sole'
<1>1. faults.seen \subseteq faults'.seen /\ \A j \in Jobs : Calm(j)' => Calm(j)
  BY SeenGrows
<1>2. row' = row /\ task' = task /\ exec' = exec /\ sweep' = sweep /\ reaper' = reaper
  BY DEF CreateVoidTask
<1>3. SUFFICES ASSUME NEW j \in Jobs, Calm(j)' PROVE Sound(j)'
  BY DEF Sole
<1>4. Calm(j) /\ Sound(j)
  BY <1>1, <1>3 DEF Sole
<1>5. KeepsRow(j) /\ AddsNothing(j) /\ KeepsHandlers(j)
  BY <1>2, VoidTask DEF KeepsRow, AddsNothing, KeepsHandlers, Live
<1>6. QED
  BY <1>1, <1>4, <1>5, QuietStep

LEMMA CreateTaskStep ==
  ASSUME TypeOK, HasJob, Sole, [Next]_vars, NEW p \in Procs, NEW i \in Jobs, NEW c \in 1 .. Copies,
         CreateTask(p, i, c)
  PROVE  Sole'
<1>1. faults.seen \subseteq faults'.seen /\ \A j \in Jobs : Calm(j)' => Calm(j)
  BY SeenGrows
<1>2. row' = row /\ exec' = exec /\ sweep' = sweep /\ reaper' = reaper
  BY DEF CreateTask
<1>e. outbox \in [Procs -> OutboxRec] /\ task \in [Tasks -> TaskRec] /\ <<i, c>> \in Tasks
  BY DEF TypeOK, TaskRec, OutboxRec, Tasks
<1>3. /\ i \in outbox[p].pending
      /\ \A u \in Tasks : u # <<i, c>> => task'[u] = task[u]
      /\ outbox'[p].pending = outbox[p].pending \ {i}
      /\ outbox'[p].named = outbox[p].named \cup {<<i, c>>}
      /\ \A q \in Procs : q # p => outbox'[q] = outbox[q]
  BY <1>e DEF CreateTask, OutboxRec
<1>4. SUFFICES ASSUME NEW j \in Jobs, Calm(j)' PROVE Sound(j)'
  BY DEF Sole
<1>5. Calm(j) /\ Sound(j)
  BY <1>1, <1>4 DEF Sole
<1>6. CASE j # i
  <2>1. \A k \in 1 .. Copies : task'[<<j, k>>] = task[<<j, k>>]
    BY <1>3, <1>6 DEF Tasks
  <2>2. KeepsRow(j)
    BY <1>2 DEF KeepsRow
  <2>3. AddsNothing(j)
    BY <1>2, <1>3, <1>6, <2>1 DEF AddsNothing, Live
  <2>4. KeepsHandlers(j)
    <3>1. ASSUME NEW v \in Workers, exec[v].job = j PROVE exec[v].copy \in 1 .. Copies
      BY <3>1, JobsAssumption DEF HasJob, Jobs
    <3>2. QED
      BY <1>2, <2>1, <3>1 DEF KeepsHandlers
  <2>5. QED
    BY <1>1, <1>5, <2>2, <2>3, <2>4, QuietStep
<1>7. CASE j = i
  <2>1. ~Resting(j) /\ NoLive(j) /\ Unnamed(j) /\ row[j].exists
    BY <1>3, <1>5, <1>7 DEF Resting, Sound, Awaiting, Unborn
  <2>2. Resting(j)'
    BY <1>2, <1>3, <1>5, <1>7 DEF Sound, Awaiting, Swept, Resting
  <2>3. \A k \in 1 .. Copies : k # c => ~Live(<<j, k>>)'
    BY <1>3, <1>7, <2>1 DEF NoLive, Live, Tasks
  <2>4. \A q \in Procs, k \in 1 .. Copies : <<j, k>> \in outbox'[q].named => k = c
    BY <1>3, <1>7, <2>1 DEF Unnamed
  <2>5. QED
    BY <1>2, <1>5, <2>1, <2>2, <2>3, <2>4, EnqueueOne
<1>8. QED
  BY <1>6, <1>7

\* A name that an outbox saves is the name of the row's only task.
LEMMA SaveNamesStep ==
  ASSUME TypeOK, HasJob, Sole, [Next]_vars, NEW p \in Procs, SaveTaskNames(p)
  PROVE  Sole'
<1>1. faults.seen \subseteq faults'.seen /\ \A j \in Jobs : Calm(j)' => Calm(j)
  BY SeenGrows
<1>2. task' = task /\ exec' = exec /\ sweep' = sweep /\ reaper' = reaper
  BY DEF SaveTaskNames
<1>e. outbox \in [Procs -> OutboxRec] /\ row \in [Jobs -> Row] /\ exec \in [Workers -> Exec]
  BY DEF TypeOK, OutboxRec
<1>3. /\ outbox'[p] = EmptyOutbox
      /\ \A q \in Procs : q # p => outbox'[q] = outbox[q]
  BY <1>e DEF SaveTaskNames
<1>4. SUFFICES ASSUME NEW j \in Jobs, Calm(j)' PROVE Sound(j)'
  BY DEF Sole
<1>5. Calm(j) /\ Sound(j)
  BY <1>1, <1>4 DEF Sole
<1>6. AddsNothing(j)
  BY <1>2, <1>3 DEF AddsNothing, EmptyOutbox, Live
<1>c. ASSUME NEW v \in Workers, exec[v].job = j PROVE exec[v].copy \in 1 .. Copies
  BY <1>c, JobsAssumption DEF HasJob, Jobs
<1>7. CASE ~ \E t \in outbox[p].named : t[1] = j
  <2>1. row'[j] = row[j]
    BY <1>7 DEF SaveTaskNames
  <2>2. KeepsRow(j) /\ KeepsHandlers(j)
    BY <1>2, <2>1 DEF KeepsRow, KeepsHandlers
  <2>3. QED
    BY <1>1, <1>5, <1>6, <2>2, QuietStep
<1>8. CASE \E t \in outbox[p].named : t[1] = j
  <2>1. NameFor(p, j) \in 1 .. Copies /\ <<j, NameFor(p, j)>> \in outbox[p].named
    <3>1. PICK t \in outbox[p].named : t[1] = j
      BY <1>8
    <3>2. PICK u : u = (CHOOSE x \in outbox[p].named : x[1] = j)
      OBVIOUS
    <3>3. u \in outbox[p].named /\ u[1] = j
      BY <3>1, <3>2
    <3>4. u \in Tasks
      BY <1>e, <3>3 DEF OutboxRec
    <3>5. NameFor(p, j) = u[2]
      BY <3>2 DEF NameFor
    <3>6. QED
      BY <3>3, <3>4, <3>5 DEF Tasks
  <2>2. PICK n \in 1 .. Copies : n = NameFor(p, j)
    BY <2>1
  <2>3. row'[j] = [row[j] EXCEPT !.name = n]
    BY <1>8, <2>2 DEF SaveTaskNames
  <2>4. /\ row'[j].name = n /\ row'[j].exists = row[j].exists
        /\ row'[j].started = row[j].started /\ IsFinished(row'[j]) = IsFinished(row[j])
    BY <1>e, <2>3 DEF Row, IsFinished
  <2>5. Only(j, n) /\ row[j].exists
    BY <1>5, <2>1, <2>2 DEF Sound, Named, Unborn, Unnamed
  <2>6. Tagged(j)'
    BY <2>4, JobsAssumption DEF Tagged
  <2>7. \A k : Only(j, k) => Only(j, k)'
    BY <1>2, <1>6 DEF Only, AddsNothing, Resting
  <2>8. Resting(j)'
    BY <2>5, <2>7 DEF Only
  <2>9. Unborn(j)' /\ Swept(j)' /\ Awaiting(j)'
    BY <2>4, <2>5, <2>8 DEF Unborn, Swept, Awaiting, Resting
  <2>10. OneTask(j)' /\ OneHandler(j)' /\ Doomed(j)'
    BY <1>2, <1>5, <2>6, <2>8 DEF Sound, OneTask, OneHandler, Doomed, NoLive, Live
  <2>11. Named(j)'
    BY <1>2, <1>5, <1>6, <2>4, <2>5, <2>6, <2>7 DEF Sound, Named, AddsNothing
  <2>12. ASSUME NEW w \in Workers, exec'[w].job = j PROVE Handled(j, w)'
    <3>1. Handled(j, w)
      BY <1>2, <1>5, <2>12 DEF Sound
    <3>2. PICK c \in 1 .. Copies : c = exec[w].copy
      BY <1>2, <1>c, <2>12
    <3>3. n = c
      BY <2>1, <2>2, <3>1, <3>2 DEF Handled, Naming
    <3>4. Only(j, c)'
      BY <2>7, <3>1, <3>2 DEF Handled
    <3>5. Naming(j, w)'
      BY <1>2, <1>6, <2>4, <3>1, <3>2, <3>3 DEF Handled, Naming, AddsNothing
    <3>6. Leasing(j, w)' /\ Unsaved(j, w)' /\ Copying(j, w)'
      BY <1>1, <1>2, <2>4, <3>1 DEF Handled, Leasing, Unsaved, Copying
    <3>7. QED
      BY <1>2, <2>4, <2>5, <3>1, <3>2, <3>4, <3>5, <3>6 DEF Handled, Only
  <2>13. QED
    BY <2>9, <2>10, <2>11, <2>12 DEF Sound
<1>9. QED
  BY <1>7, <1>8

\* Faults that take something away.
LEMMA LossSteps ==
  ASSUME TypeOK, HasJob, Sole, [Next]_vars,
         \/ CrashWeb \/ (\E t \in Tasks : Lose(t)) \/ (\E i \in Jobs : Age(i)) \/ UNCHANGED vars
  PROVE  Sole'
<1>1. faults.seen \subseteq faults'.seen /\ \A j \in Jobs : Calm(j)' => Calm(j)
  BY SeenGrows
<1>2. exec' = exec /\ sweep' = sweep /\ reaper' = reaper
  BY DEF CrashWeb, Lose, Age, vars
<1>e. /\ outbox \in [Procs -> OutboxRec] /\ row \in [Jobs -> Row] /\ task \in [Tasks -> TaskRec]
  BY DEF TypeOK, OutboxRec, TaskRec
<1>3. SUFFICES ASSUME NEW j \in Jobs, Calm(j)' PROVE Sound(j)'
  BY DEF Sole
<1>4. Calm(j) /\ Sound(j)
  BY <1>1, <1>3 DEF Sole
<1>5. KeepsRow(j)
  <2>1. CASE row' = row
    BY <2>1 DEF KeepsRow
  <2>2. ASSUME NEW i \in Jobs, Age(i) PROVE KeepsRow(j)
    <3>1. row' = [row EXCEPT ![i].old = TRUE] /\ row[i].exists
      BY <2>2 DEF Age
    <3>2. CASE i # j
      BY <1>e, <3>1, <3>2 DEF KeepsRow
    <3>3. CASE i = j
      <4>1. row'[j] = [row[j] EXCEPT !.old = TRUE] /\ row[j] \in Row
        BY <1>e, <3>1, <3>3
      <4>2. /\ row'[j].exists = row[j].exists /\ row'[j].name = row[j].name
            /\ row'[j].started = row[j].started /\ IsFinished(row'[j]) = IsFinished(row[j])
        BY <4>1 DEF Row, IsFinished
      <4>3. QED
        BY <3>1, <3>3, <4>2 DEF KeepsRow
    <3>4. QED
      BY <3>2, <3>3
  <2>3. QED
    BY <2>1, <2>2 DEF CrashWeb, Lose, vars
<1>6. \A t \in Tasks : task'[t] = task[t] \/ (task[t].state = "queued" /\ task'[t].state = "gone")
  <2>1. ASSUME NEW u \in Tasks, Lose(u)
        PROVE  \A t \in Tasks : task'[t] = task[t] \/ (task[t].state = "queued" /\ task'[t].state = "gone")
    <3>1. task' = Deleted(u) /\ task[u].state = "queued"
      BY <2>1 DEF Lose
    <3>2. QED
      BY <3>1, DeletedFacts
  <2>2. QED
    BY <2>1 DEF CrashWeb, Age, vars
<1>7. \A q \in Procs : outbox'[q] = outbox[q] \/ outbox'[q] = EmptyOutbox
  BY <1>e DEF CrashWeb, Lose, Age, vars
<1>8. AddsNothing(j)
  BY <1>2, <1>6, <1>7 DEF AddsNothing, EmptyOutbox, Live, Tasks
<1>9. KeepsHandlers(j)
  <2>1. SUFFICES ASSUME NEW v \in Workers, exec[v].job = j
        PROVE  task'[<<j, exec[v].copy>>] = task[<<j, exec[v].copy>>]
    BY <1>2 DEF KeepsHandlers
  <2>2. <<j, exec[v].copy>> \in Tasks
    BY <2>1, LeasedTask
  <2>3. Leasing(j, v)
    BY <1>4, <2>1 DEF Sound, Handled
  <2>4. QED
    BY <1>6, <2>2, <2>3 DEF Leasing
<1>10. QED
  BY <1>1, <1>4, <1>5, <1>8, <1>9, QuietStep

\* A deadline ends the calm; so does a cancellation, for the row it cancels.
LEMMA StormSteps ==
  ASSUME TypeOK, HasJob, Sole, [Next]_vars,
         (\E t \in Tasks : Expire(t)) \/ (\E i \in LoneJobs : Cancel(i))
  PROVE  Sole'
<1>1. faults.seen \subseteq faults'.seen /\ \A j \in Jobs : Calm(j)' => Calm(j)
  BY SeenGrows
<1>2. CASE \E t \in Tasks : Expire(t)
  <2>1. "expire" \in faults'.seen
    BY <1>2 DEF Expire, Spend
  <2>2. QED
    BY <2>1 DEF Sole, Calm, Without
<1>3. ASSUME NEW i \in LoneJobs, Cancel(i) PROVE Sole'
  <2>1. "cancel" \in faults'.seen /\ exec' = exec /\ outbox' = outbox /\ sweep' = sweep /\ reaper' = reaper
    BY <1>3 DEF Cancel, Spend
  <2>2. SUFFICES ASSUME NEW j \in Jobs, Calm(j)' PROVE Sound(j)'
    BY DEF Sole
  <2>3. Calm(j) /\ Sound(j) /\ j # i
    BY <1>1, <2>1, <2>2 DEF Sole, Calm, Without
  <2>4. row'[j] = row[j]
    BY <2>3, <1>3 DEF Cancel, TypeOK
  <2>5. \A t \in Tasks : t[1] = j => task'[t] = task[t]
    <3>1. task' = [task EXCEPT ![<<i, row[i].name>>] = [NoTask EXCEPT !.state = "gone"]]
      BY <1>3 DEF Cancel, Deleted
    <3>2. QED
      BY <2>3, <3>1 DEF TypeOK
  <2>6. \A k \in 1 .. Copies : task'[<<j, k>>] = task[<<j, k>>]
    BY <2>5 DEF Tasks
  <2>7. KeepsRow(j) /\ AddsNothing(j)
    BY <2>1, <2>4, <2>6 DEF KeepsRow, AddsNothing, Live
  <2>8. KeepsHandlers(j)
    <3>1. ASSUME NEW v \in Workers, exec[v].job = j PROVE exec[v].copy \in 1 .. Copies
      BY <3>1, JobsAssumption DEF HasJob, Jobs
    <3>2. QED
      BY <2>1, <2>6, <3>1 DEF KeepsHandlers
  <2>9. QED
    BY <1>1, <2>3, <2>7, <2>8, QuietStep
<1>4. QED
  BY <1>2, <1>3

\* What EnqueueOutboxJob reads has no task and is in nobody's hands.
LEMMA SweepReadStep ==
  ASSUME TypeOK, HasJob, Sole, [Next]_vars, SweepRead
  PROVE  Sole'
<1>1. faults.seen \subseteq faults'.seen /\ \A j \in Jobs : Calm(j)' => Calm(j)
  BY SeenGrows
<1>2. /\ row' = row /\ task' = task /\ exec' = exec /\ outbox' = outbox /\ reaper' = reaper
      /\ sweep = {}
  BY DEF SweepRead
<1>3. CASE Spend("slow")
  <2>1. "slow" \in faults'.seen
    BY <1>3 DEF Spend
  <2>2. QED
    BY <2>1 DEF Sole, Calm, Without
<1>4. CASE sweep' = {j \in Unenqueued : ~InFlush(j) /\ ~HasTask(j)}
  <2>1. SUFFICES ASSUME NEW j \in Jobs, Calm(j)' PROVE Sound(j)'
    BY DEF Sole
  <2>2. Calm(j) /\ Sound(j)
    BY <1>1, <2>1 DEF Sole
  <2>3. CASE j \notin sweep'
    <3>1. KeepsRow(j) /\ AddsNothing(j) /\ KeepsHandlers(j)
      BY <1>2, <2>3 DEF KeepsRow, AddsNothing, KeepsHandlers, Live
    <3>2. QED
      BY <1>1, <2>2, <3>1, QuietStep
  <2>4. CASE j \in sweep'
    <3>1. /\ row[j].exists /\ row[j].name = 0 /\ ~row[j].started /\ ~IsFinished(row[j])
          /\ ~InFlush(j) /\ ~HasTask(j)
      BY <1>4, <2>4 DEF Unenqueued
    <3>2. NoLive(j) /\ Unnamed(j) /\ \A p \in Procs : j \notin outbox[p].pending
      <4>1. \A k \in 1 .. Copies : <<j, k>>[1] = j
        OBVIOUS
      <4>2. QED
        BY <3>1, <4>1 DEF HasTask, NoLive, Live, InFlush, Unnamed
    <3>3. ~Tagged(j)
      BY <3>1 DEF Tagged
    <3>4. reaper.doomed # j /\ \A k \in 1 .. Copies : <<j, k>> \notin reaper.queue
      BY <2>2, <3>3 DEF Sound, Doomed, Named
    <3>5. ASSUME NEW v \in Workers, exec[v].job = j PROVE FALSE
      <4>1. Leasing(j, v) /\ exec[v].copy \in 1 .. Copies
        BY <2>2, <3>5, JobsAssumption DEF Sound, Handled, HasJob, Jobs
      <4>2. ~Live(<<j, exec[v].copy>>)
        BY <3>2, <4>1 DEF NoLive
      <4>3. QED
        BY <3>1, <4>1, <4>2 DEF Leasing, Live
    <3>6. \A k \in 1 .. Copies : row[j].name # k
      BY <3>1
    <3>7. NoLive(j)' /\ Unnamed(j)' /\ \A p \in Procs : j \notin outbox'[p].pending
      BY <1>2, <3>2 DEF NoLive, Live, Unnamed
    <3>8. Unborn(j)' /\ Swept(j)' /\ Awaiting(j)' /\ Doomed(j)' /\ OneTask(j)' /\ OneHandler(j)'
      BY <1>2, <3>1, <3>4, <3>5, <3>7 DEF Unborn, Swept, Awaiting, Doomed, OneTask, OneHandler, NoLive
    <3>9. Named(j)'
      BY <1>2, <3>4, <3>6, <3>7 DEF Named, Unnamed
    <3>10. QED
      BY <1>2, <3>5, <3>8, <3>9 DEF Sound
  <2>5. QED
    BY <2>3, <2>4
<1>5. QED
  BY <1>3, <1>4 DEF SweepRead

LEMMA SweepEnqueueStep ==
  ASSUME TypeOK, HasJob, Sole, [Next]_vars, NEW i \in Jobs, SweepEnqueue(i)
  PROVE  Sole'
<1>1. faults.seen \subseteq faults'.seen /\ \A j \in Jobs : Calm(j)' => Calm(j)
  BY SeenGrows
<1>2. /\ row' = row /\ exec' = exec /\ outbox' = outbox /\ reaper' = reaper
      /\ i \in sweep /\ sweep' = sweep \ {i}
  BY DEF SweepEnqueue
<1>3. PICK c \in 1 .. Copies : \A t \in Tasks : t # <<i, c>> => task'[t] = task[t]
  <2>1. CASE \E k \in 1 .. Copies : task' = [task EXCEPT ![<<i, k>>] = Queued]
    BY <2>1 DEF TypeOK
  <2>2. CASE task' = task
    BY <2>2, JobsAssumption
  <2>3. QED
    BY <2>1, <2>2 DEF SweepEnqueue
<1>4. SUFFICES ASSUME NEW j \in Jobs, Calm(j)' PROVE Sound(j)'
  BY DEF Sole
<1>5. Calm(j) /\ Sound(j)
  BY <1>1, <1>4 DEF Sole
<1>6. CASE j # i
  <2>1. \A k \in 1 .. Copies : task'[<<j, k>>] = task[<<j, k>>]
    BY <1>3, <1>6 DEF Tasks
  <2>2. KeepsRow(j) /\ AddsNothing(j)
    BY <1>2, <1>6, <2>1 DEF KeepsRow, AddsNothing, Live
  <2>3. KeepsHandlers(j)
    <3>1. ASSUME NEW v \in Workers, exec[v].job = j PROVE exec[v].copy \in 1 .. Copies
      BY <3>1, JobsAssumption DEF HasJob, Jobs
    <3>2. QED
      BY <1>2, <2>1, <3>1 DEF KeepsHandlers
  <2>4. QED
    BY <1>1, <1>5, <2>2, <2>3, QuietStep
<1>7. CASE j = i
  <2>1. ~Resting(j) /\ NoLive(j) /\ Unnamed(j) /\ row[j].exists
    BY <1>2, <1>5, <1>7 DEF Resting, Sound, Swept, Unborn
  <2>2. Resting(j)'
    BY <1>2, <1>5, <1>7 DEF Sound, Swept, Resting
  <2>3. \A k \in 1 .. Copies : k # c => ~Live(<<j, k>>)'
    BY <1>3, <1>7, <2>1 DEF NoLive, Live, Tasks
  <2>4. \A q \in Procs, k \in 1 .. Copies : <<j, k>> \in outbox'[q].named => k = c
    BY <1>2, <1>7, <2>1 DEF Unnamed
  <2>5. QED
    BY <1>2, <1>5, <2>1, <2>2, <2>3, <2>4, EnqueueOne
<1>8. QED
  BY <1>6, <1>7

\* TerminateDeadCloudTasksJob reads the names of rows whose only task they are ...
LEMMA ReapReadStep ==
  ASSUME TypeOK, HasJob, Sole, [Next]_vars, ReapRead
  PROVE  Sole'
<1>1. faults.seen \subseteq faults'.seen /\ \A j \in Jobs : Calm(j)' => Calm(j)
  BY SeenGrows
<1>2. /\ row' = row /\ task' = task /\ exec' = exec /\ outbox' = outbox /\ sweep' = sweep
      /\ reaper'.queue = {<<j, row[j].name>> : j \in EnqueuedNotCompleted}
      /\ reaper'.doomed = reaper.doomed /\ reaper.doomed = NULL
  BY DEF ReapRead, TypeOK
<1>3. SUFFICES ASSUME NEW j \in Jobs, Calm(j)' PROVE Sound(j)'
  BY DEF Sole
<1>4. Calm(j) /\ Sound(j)
  BY <1>1, <1>3 DEF Sole
<1>5. \A k : (Only(j, k)' <=> Only(j, k)) /\ (Tagged(j)' <=> Tagged(j))
  BY <1>2 DEF Only, Tagged, Resting, Live
<1>6. ASSUME NEW k \in 1 .. Copies, <<j, k>> \in reaper'.queue
      PROVE  Only(j, k)' /\ Tagged(j)' /\ row[j].exists
  <2>1. row[j].name = k /\ row[j].name # 0
    BY <1>2, <1>6 DEF EnqueuedNotCompleted
  <2>2. Only(j, k) /\ Tagged(j)
    BY <1>4, <2>1 DEF Sound, Named, Tagged
  <2>3. row[j].exists
    <3>1. NoRow.name = 0
      BY DEF NoRow
    <3>2. QED
      BY <1>4, <2>1, <3>1 DEF Sound, Unborn
  <2>4. QED
    BY <1>5, <2>2, <2>3
<1>7. Unborn(j)'
  BY <1>2, <1>4, <1>6 DEF Sound, Unborn, Resting, Unnamed, NoLive, Live
<1>8. Named(j)'
  BY <1>2, <1>4, <1>5, <1>6 DEF Sound, Named
<1>9. OneTask(j)' /\ Swept(j)' /\ Awaiting(j)' /\ Doomed(j)' /\ OneHandler(j)'
  BY <1>2, <1>4 DEF Sound, OneTask, Swept, Awaiting, Doomed, OneHandler, NoLive, Live, Unnamed, Resting, Tagged
<1>10. ASSUME NEW v \in Workers, exec'[v].job = j PROVE Handled(j, v)'
  BY <1>1, <1>2, <1>4, <1>10 DEF Sound, Handled, Only, Resting, Live, Naming, Leasing, Unsaved, Copying
<1>11. QED
  BY <1>7, <1>8, <1>9, <1>10 DEF Sound

\* ... finds the task gone, so that no handler runs the row ...
LEMMA ReapProbeStep ==
  ASSUME TypeOK, HasJob, Sole, [Next]_vars, NEW t \in Tasks, ReapProbe(t)
  PROVE  Sole'
<1>1. faults.seen \subseteq faults'.seen /\ \A j \in Jobs : Calm(j)' => Calm(j)
  BY SeenGrows
<1>2. /\ row' = row /\ task' = task /\ exec' = exec /\ outbox' = outbox /\ sweep' = sweep
      /\ reaper'.queue \subseteq reaper.queue /\ t \in reaper.queue
      /\ reaper'.doomed = IF task[t].state = "gone" /\ ~IsFinished(row[t[1]]) THEN t[1] ELSE NULL
  BY DEF ReapProbe
<1>3. SUFFICES ASSUME NEW j \in Jobs, Calm(j)' PROVE Sound(j)'
  BY DEF Sole
<1>4. Calm(j) /\ Sound(j)
  BY <1>1, <1>3 DEF Sole
<1>5. CASE reaper'.doomed # j
  <2>1. KeepsRow(j) /\ AddsNothing(j) /\ KeepsHandlers(j)
    BY <1>2, <1>5 DEF KeepsRow, AddsNothing, KeepsHandlers, Live
  <2>2. QED
    BY <1>1, <1>4, <2>1, QuietStep
<1>6. CASE reaper'.doomed = j
  <2>0. j # NULL
    BY JobsAssumption DEF Jobs
  <2>1. PICK c \in 1 .. Copies : t = <<j, c>>
    BY <1>2, <1>6, <2>0 DEF Tasks
  <2>2. task[<<j, c>>].state = "gone" /\ ~IsFinished(row[j])
    BY <1>2, <1>6, <2>0, <2>1
  <2>3. Only(j, c) /\ Tagged(j) /\ row[j].exists
    BY <1>2, <1>4, <2>1 DEF Sound, Named, Unborn
  <2>4. NoLive(j) /\ Resting(j)
    BY <2>2, <2>3 DEF Only, NoLive, Live
  <2>5. ASSUME NEW v \in Workers, exec[v].job = j PROVE FALSE
    <3>1. Leasing(j, v) /\ exec[v].copy \in 1 .. Copies
      BY <1>4, <2>5, JobsAssumption DEF Sound, Handled, HasJob, Jobs
    <3>2. ~Live(<<j, exec[v].copy>>)
      BY <2>4, <3>1 DEF NoLive
    <3>3. QED
      BY <2>2, <3>1, <3>2 DEF Leasing, Live
  <2>6. Unborn(j)' /\ OneTask(j)' /\ Swept(j)' /\ Awaiting(j)' /\ Doomed(j)' /\ OneHandler(j)'
    BY <1>2, <1>4, <2>3, <2>4 DEF Sound, Unborn, OneTask, Swept, Awaiting, Doomed, OneHandler, NoLive, Live,
       Unnamed, Resting, Tagged
  <2>7. Named(j)'
    BY <1>2, <1>4 DEF Sound, Named, Only, Resting, Live, Tagged
  <2>8. QED
    BY <1>2, <2>5, <2>6, <2>7 DEF Sound
<1>7. QED
  BY <1>5, <1>6

\* ... and terminates it.
LEMMA ReapTerminateStep ==
  ASSUME TypeOK, HasJob, Sole, [Next]_vars, NEW i \in Jobs, ReapTerminate(i)
  PROVE  Sole'
<1>1. faults.seen \subseteq faults'.seen /\ \A j \in Jobs : Calm(j)' => Calm(j)
  BY SeenGrows
<1>2. /\ task' = task /\ exec' = exec /\ outbox' = outbox /\ sweep' = sweep
      /\ reaper.doomed = i /\ reaper'.queue = reaper.queue /\ reaper'.doomed = NULL
      /\ row' = [row EXCEPT ![i].terminated = TRUE]
  BY DEF ReapTerminate, TypeOK
<1>3. SUFFICES ASSUME NEW j \in Jobs, Calm(j)' PROVE Sound(j)'
  BY DEF Sole
<1>4. Calm(j) /\ Sound(j) /\ j # NULL
  BY <1>1, <1>3, JobsAssumption DEF Sole, Jobs
<1>5. AddsNothing(j) /\ KeepsHandlers(j)
  BY <1>2, <1>4 DEF AddsNothing, KeepsHandlers, Live
<1>6. KeepsRow(j)
  <2>1. CASE j # i
    BY <1>2, <2>1 DEF KeepsRow, TypeOK
  <2>2. CASE j = i
    <3>1. row'[j] = [row[j] EXCEPT !.terminated = TRUE] /\ row[j] \in Row
      BY <1>2, <2>2 DEF TypeOK
    <3>2. /\ row'[j].exists = row[j].exists /\ row'[j].name = row[j].name
          /\ row'[j].started = row[j].started /\ IsFinished(row'[j])
      BY <3>1 DEF Row, IsFinished
    <3>3. row[j].exists
      BY <1>2, <1>4, <2>2 DEF Sound, Unborn
    <3>4. \A v \in Workers : exec'[v].job # j
      BY <1>2, <1>4, <2>2 DEF Sound, Handled
    <3>5. QED
      BY <3>2, <3>3, <3>4 DEF KeepsRow
  <2>3. QED
    BY <2>1, <2>2
<1>7. QED
  BY <1>1, <1>4, <1>5, <1>6, QuietStep

\* Every step keeps calm rows sound.
LEMMA SoleStep ==
  ASSUME TypeOK, HasJob, Sole, [Next]_vars
  PROVE  Sole'
<1>1. ASSUME NEW w \in Workers, Handler(w) PROVE Sole'
  BY <1>1, MemorySteps, SaveSteps, SettleSteps, AddStep, RescheduleStep, LeaveSteps DEF Handler
<1>2. ASSUME NEW p \in Procs, Flush(p) PROVE Sole'
  BY <1>2, CreateTaskStep, CreateVoidStep, SaveNamesStep DEF Flush
<1>3. ASSUME Sweeper \/ Reaper PROVE Sole'
  BY <1>3, SweepReadStep, SweepEnqueueStep, ReapReadStep, ReapProbeStep, ReapTerminateStep DEF Sweeper, Reaper
<1>4. ASSUME Environment PROVE Sole'
  BY <1>4, LeaveSteps, LossSteps, StormSteps DEF Environment
<1>5. ASSUME UNCHANGED vars PROVE Sole'
  BY <1>5, LossSteps
<1>6. QED
  BY <1>1, <1>2, <1>3, <1>4, <1>5, DispatchStep DEF Next

LEMMA SoleInit == Init => Sole
<1> SUFFICES ASSUME NEW s \in Starts, InitWith(s.rows, s.faults), NEW j \in Jobs PROVE Sound(j)
  BY DEF Init, Sole
<1>1. /\ row = [i \in Jobs |-> IF i \in s.rows THEN NewRow ELSE NoRow]
      /\ task = [t \in Tasks |-> NoTask] /\ exec = [w \in Workers |-> Idle]
      /\ outbox = [p \in Procs |-> IF p = Web THEN [pending |-> s.rows, named |-> {}]
                                              ELSE EmptyOutbox]
      /\ sweep = {} /\ reaper = [queue |-> {}, doomed |-> NULL]
  BY DEF InitWith
<1>2. j # NULL /\ \A w \in Workers : exec[w].job # j
  BY <1>1, JobsAssumption DEF Jobs, Idle
<1>3. NoLive(j)
  BY <1>1 DEF NoLive, Live, NoTask, Tasks
<1>4. \A p \in Procs : outbox[p].named = {} /\ (j \in outbox[p].pending => p = Web /\ j \in s.rows)
  BY <1>1 DEF EmptyOutbox
<1>5. row[j].name = 0 /\ (j \in s.rows => row[j].exists) /\ (j \notin s.rows => row[j] = NoRow)
  BY <1>1 DEF NewRow, NoRow
<1>6. \A k \in 1 .. Copies : row[j].name # k
  BY <1>5
<1>7. Unnamed(j)
  BY <1>4 DEF Unnamed
<1>8. Unborn(j) /\ OneTask(j) /\ Swept(j) /\ Awaiting(j) /\ Doomed(j) /\ OneHandler(j)
  BY <1>1, <1>2, <1>3, <1>4, <1>5, <1>7 DEF Unborn, OneTask, Swept, Awaiting, Doomed, OneHandler, Resting, NoLive
<1>9. Named(j)
  BY <1>1, <1>4, <1>6 DEF Named
<1>10. QED
  BY <1>2, <1>8, <1>9 DEF Sound

-----------------------------------------------------------------------------
(***************************************************************************)
(* A finished row stays finished: whoever saves a copy of it has a copy    *)
(* that is finished too, or an unfinished row under it.                    *)
(***************************************************************************)
LEMMA FinishedStep ==
  ASSUME TypeOK, HasJob, Sole, [Next]_vars, NEW j \in Jobs, Calm(j), IsFinished(row[j])
  PROVE  IsFinished(row'[j])
<1>e. row \in [Jobs -> Row]
  BY DEF TypeOK
<1>1. row[j].exists
  BY DEF Sole, Sound, Unborn, IsFinished, NoRow
<1>2. ASSUME row'[j] = row[j] PROVE IsFinished(row'[j])
  BY <1>2
<1>3. ASSUME NEW w \in Workers, Start(w) \/ FailSave(w) PROVE IsFinished(row'[j])
  <2>1. exec[w].phase \in {"loaded", "raised"}
    BY <1>3 DEF Start, FailSave
  <2>2. exec[w].job # j
    BY <2>1 DEF Sole, Sound, Handled, Unsaved
  <2>3. exec[w].job \in Jobs /\ exec[w].mem \in Row
    BY <2>1, WorkerFacts
  <2>4. row' = Saved(exec[w].job, SetStarted(exec[w].mem)) \/ row' = Saved(exec[w].job, SetFailed(exec[w].mem))
    BY <1>3 DEF Start, FailSave
  <2>5. SetStarted(exec[w].mem) \in Row /\ SetFailed(exec[w].mem) \in Row
    BY <2>3, RowOps
  <2>6. row'[j] = row[j]
    BY <1>e, <2>2, <2>3, <2>4, <2>5, SavedFacts
  <2>7. QED
    BY <2>6
<1>4. ASSUME NEW w \in Workers,
             FinishCommit(w) \/ Terminate(w) \/ RescheduleReplace(w) \/ FailSettle(w)
      PROVE  IsFinished(row'[j])
  <2>1. exec[w].phase \notin {"idle", "background"}
    BY <1>4 DEF FinishCommit, Terminate, RescheduleReplace, FailSettle
  <2>2. PICK i \in Jobs : i = exec[w].job
    BY <2>1, WorkerFacts
  <2>3. exec[w].mem \in Row /\ exec[w].fresh \in Row
    BY <2>1, WorkerFacts
  <2>4. PICK rows \in [Jobs -> Row], S \in SUBSET LoneJobs, N \in SUBSET Callbacks :
          Settles(w, i, rows, S) /\ Inserts(w, i, rows, S, N)
    BY <1>4, <2>2, SettleEffect
  <2>5. j \notin S /\ row'[j] = rows[j]
    BY <1>1, <2>4 DEF Settles, Inserts
  <2>6. CASE j # i
    BY <2>4, <2>5, <2>6 DEF Settles
  <2>7. CASE j = i
    <3>1. /\ SetSuccessful(exec[w].mem) \in Row /\ SetTerminated(exec[w].mem) \in Row
          /\ SetTerminated(exec[w].fresh) \in Row
          /\ IsFinished(SetSuccessful(exec[w].mem)) /\ IsFinished(SetTerminated(exec[w].mem))
          /\ IsFinished(SetTerminated(exec[w].fresh))
      BY <2>3, RowOps, RowFacts
    <3>2. \/ rows = row \/ rows[i] = Saved(i, SetSuccessful(exec[w].mem))[i]
          \/ rows[i] = Saved(i, SetTerminated(exec[w].mem))[i]
          \/ rows[i] = Saved(i, SetTerminated(exec[w].fresh))[i]
      BY <2>4, <2>5, <2>7 DEF Settles
    <3>3. QED
      BY <1>e, <2>5, <2>7, <3>1, <3>2, SavedFacts
  <2>8. QED
    BY <2>6, <2>7
<1>5. ASSUME NEW w \in Workers, AddToGroup(w) PROVE IsFinished(row'[j])
  <2>1. PICK n \in GroupJobs : ~row[n].exists /\ row' = [row EXCEPT ![n] = NewRow]
    BY <1>5 DEF AddToGroup
  <2>2. row'[j] = row[j]
    BY <1>e, <1>1, <2>1
  <2>3. QED
    BY <2>2
<1>6. ASSUME NEW i \in Jobs, NEW n \in 0 .. Copies,
             row' = [row EXCEPT ![i].name = n, ![i].terminated = TRUE]
      PROVE  IsFinished(row'[j])
  BY <1>e, <1>6 DEF Row, IsFinished
<1>7. ASSUME NEW w \in Workers, RescheduleCancel(w) PROVE IsFinished(row'[j])
  <2>1. PICK i \in Jobs : i = exec[w].job
    BY <1>7, WorkerFacts DEF RescheduleCancel
  <2>2. CASE row[i].name = 0
    <3>1. row' = [row EXCEPT ![i] = row[i]]
      BY <1>7, <2>1, <2>2 DEF RescheduleCancel
    <3>2. row'[j] = row[j]
      BY <1>e, <3>1
    <3>3. QED
      BY <3>2
  <2>3. CASE row[i].name # 0
    <3>1. row' = [row EXCEPT ![i] = [row[i] EXCEPT !.name = 0, !.terminated = TRUE]]
      BY <1>7, <2>1, <2>3 DEF RescheduleCancel
    <3>2. IsFinished([row[i] EXCEPT !.name = 0, !.terminated = TRUE])
      BY <1>e DEF Row, IsFinished
    <3>3. QED
      BY <1>e, <3>1, <3>2
  <2>4. QED
    BY <2>2, <2>3
<1>8. ASSUME NEW p \in Procs, Flush(p) PROVE IsFinished(row'[j])
  <2>1. CASE row' = row
    BY <2>1
  <2>2. CASE SaveTaskNames(p)
    <3>1. row'[j] = row[j] \/ row'[j] = [row[j] EXCEPT !.name = NameFor(p, j)]
      BY <2>2 DEF SaveTaskNames
    <3>2. QED
      BY <1>e, <3>1 DEF Row, IsFinished
  <2>3. QED
    BY <1>8, <2>1, <2>2 DEF Flush, CreateTask, CreateVoidTask
<1>9. ASSUME Sweeper \/ Reaper PROVE IsFinished(row'[j])
  <2>1. ASSUME NEW i \in Jobs, ReapTerminate(i) PROVE IsFinished(row'[j])
    BY <1>e, <2>1 DEF ReapTerminate, Row, IsFinished
  <2>2. CASE row' = row
    BY <2>2
  <2>3. QED
    BY <1>9, <2>1, <2>2 DEF Sweeper, Reaper, SweepRead, SweepEnqueue, ReapRead, ReapProbe
<1>10. ASSUME Environment PROVE IsFinished(row'[j])
  <2>1. ASSUME NEW i \in Jobs, Age(i) PROVE IsFinished(row'[j])
    BY <1>e, <2>1 DEF Age, Row, IsFinished
  <2>2. ASSUME NEW i \in LoneJobs, Cancel(i) PROVE IsFinished(row'[j])
    <3>1. i \in Jobs /\ 0 \in 0 .. Copies
      BY JobsAssumption DEF Jobs
    <3>2. QED
      BY <1>6, <2>2, <3>1 DEF Cancel
  <2>3. CASE row' = row
    BY <2>3
  <2>4. QED
    BY <1>10, <2>1, <2>2, <2>3 DEF Environment, Crash, CrashWeb, Expire, Lose
<1>11. ASSUME NEW w \in Workers, Handler(w) PROVE IsFinished(row'[j])
  BY <1>2, <1>3, <1>4, <1>5, <1>7, <1>11 DEF Handler, PerformOk, PerformRaises, RescheduleAborts, FinishRead,
     FinishAborts, FailSettleAborts, RunReturns, FinalCheck, AnswerOk, BackgroundDone
<1>12. ASSUME NEW w \in Workers, NEW t \in Tasks, Dispatch(w, t) PROVE IsFinished(row'[j])
  BY <1>2, <1>12 DEF Dispatch
<1>13. ASSUME UNCHANGED vars PROVE IsFinished(row'[j])
  BY <1>2, <1>13 DEF vars
<1>14. QED
  BY <1>8, <1>9, <1>10, <1>11, <1>12, <1>13 DEF Next

LEMMA OverlapCalm == NoOverlap => \A j \in Jobs : Calm(j)
  BY DEF NoOverlap, Calm, Without

SoleInv == TypeOK /\ HasJob /\ Sole

LEMMA SoleInvariant == Spec => []SoleInv
<1>1. Init => SoleInv
  BY TypeInit, HasJobInit, SoleInit DEF SoleInv
<1>2. SoleInv /\ [Next]_vars => SoleInv'
  BY TypeStep, SoleStep DEF SoleInv
<1>3. QED
  BY <1>1, <1>2, PTL DEF Spec

\* As long as no attempt is repeated while it runs, a row has at most one task that Cloud
\* Tasks may still dispatch and at most one handler, which holds that task, whatever
\* crashes, retries, lost tasks and repairs by the two recurring jobs there have been.
THEOREM SoleHolds == Spec => []Sole
  BY SoleInvariant, PTL DEF SoleInv

\* Job.save writes every column of a copy that may be stale; even so no finished job is
\* taken back to an unfinished state, unless something has given two writers a copy.
THEOREM FinishedStaysFinishedHolds == Spec => FinishedStaysFinished
<1> DEFINE Stays == NoOverlap => \A j \in Jobs : IsFinished(row[j]) => IsFinished(row'[j])
<1>1. SoleInv /\ [Next]_vars => [Stays]_vars
  BY FinishedStep, OverlapCalm DEF SoleInv
<1>2. QED
  BY <1>1, SoleInvariant, PTL DEF Spec, FinishedStaysFinished

-----------------------------------------------------------------------------
(***************************************************************************)
(* The group's counter.  A member is owed to the counter until the step    *)
(* that settles it; the counter is never below what is still owed.         *)
(***************************************************************************)
Owed == {j \in GroupJobs :
           /\ row[j].exists
           /\ \/ ~IsFinished(row[j])
              \/ \E w \in Workers : exec[w].job = j /\ exec[w].phase \in {"rescheduling", "failed"}}

\* Without an exception of perform() a member only fails when its closing transaction
\* has aborted, and what it then saves is finished.
Aborting == \A w \in Workers : exec[w].job \in GroupJobs =>
  /\ exec[w].phase = "raised" => IsFinished(exec[w].mem)
  /\ exec[w].phase = "failed" => IsFinished(row[exec[w].job])

Counted == NoneFails => Aborting /\ Cardinality(Owed) <= group.remaining

LEMMA MemberCalm == NoneFails => \A j \in GroupJobs : j \in Jobs /\ Calm(j)
  BY JobsAssumption DEF NoneFails, Calm, Without, Jobs

LEMMA OwedFinite ==
  /\ IsFiniteSet(Owed) /\ Cardinality(Owed) \in Nat
  /\ \A S : S \subseteq Owed => IsFiniteSet(S) /\ Cardinality(S) \in Nat /\ Cardinality(S) <= Cardinality(Owed)
<1>1. IsFiniteSet(Owed)
  <2>1. Owed \subseteq GroupJobs
    BY DEF Owed
  <2>2. QED
    BY <2>1, FS_Subset, JobsAssumption
<1>2. QED
  BY <1>1, FS_CardinalityType, FS_Subset

\* Nothing comes to be owed when no member is inserted and a handler that enters a
\* settling phase has a member that was owed already.
LEMMA OwedKeeps ==
  ASSUME TypeOK, HasJob, Sole, [Next]_vars, NoneFails,
         \A j \in GroupJobs : row'[j].exists => row[j].exists,
         \A v \in Workers : exec'[v].phase \in {"rescheduling", "failed"} =>
           exec'[v] = exec[v] \/ exec'[v].job \in Owed
  PROVE  Owed' \subseteq Owed
<1>1. SUFFICES ASSUME NEW j \in GroupJobs, j \in Owed' PROVE j \in Owed
  BY DEF Owed
<1>2. row'[j].exists /\ row[j].exists /\ j \in Jobs /\ Calm(j)
  BY <1>1, MemberCalm DEF Owed
<1>3. CASE ~IsFinished(row'[j])
  <2>1. ~IsFinished(row[j])
    BY <1>2, <1>3, FinishedStep
  <2>2. QED
    BY <1>2, <2>1 DEF Owed
<1>4. CASE \E v \in Workers : exec'[v].job = j /\ exec'[v].phase \in {"rescheduling", "failed"}
  <2>1. PICK v \in Workers : exec'[v].job = j /\ exec'[v].phase \in {"rescheduling", "failed"}
    BY <1>4
  <2>2. CASE exec'[v] = exec[v]
    BY <1>2, <2>1, <2>2 DEF Owed
  <2>3. CASE exec'[v].job \in Owed
    BY <2>1, <2>3
  <2>4. QED
    BY <2>1, <2>2, <2>3
<1>5. QED
  BY <1>1, <1>3, <1>4 DEF Owed

\* A step after which no handler has begun to fail leaves Aborting as it is.
LEMMA AbortingKeeps ==
  ASSUME TypeOK, HasJob, Sole, [Next]_vars, NoneFails, Aborting,
         \A v \in Workers : exec'[v].phase \in {"raised", "failed"} => exec'[v] = exec[v]
  PROVE  Aborting'
<1> SUFFICES ASSUME NEW v \in Workers, exec'[v].job \in GroupJobs
    PROVE  /\ exec'[v].phase = "raised" => IsFinished(exec'[v].mem)
           /\ exec'[v].phase = "failed" => IsFinished(row'[exec'[v].job])
  BY DEF Aborting
<1>1. CASE exec'[v].phase = "raised"
  BY <1>1 DEF Aborting
<1>2. CASE exec'[v].phase = "failed"
  <2>1. PICK j \in GroupJobs : j = exec'[v].job
    OBVIOUS
  <2>2. exec'[v] = exec[v] /\ IsFinished(row[j]) /\ j \in Jobs /\ Calm(j)
    BY <1>2, <2>1, MemberCalm DEF Aborting
  <2>3. QED
    BY <2>1, <2>2, <1>2, FinishedStep
<1>3. QED
  BY <1>1, <1>2

\* Steps of the counter: what settles a member takes it off what is owed.
LEMMA SettleCounts ==
  ASSUME TypeOK, HasJob, Sole, [Next]_vars, NoneFails, Aborting, NEW w \in Workers,
         FinishCommit(w) \/ Terminate(w) \/ RescheduleReplace(w) \/ FailSettle(w)
  PROVE  /\ Owed' \subseteq Owed /\ Aborting'
         /\ exec[w].job \in GroupJobs => exec[w].job \in Owed /\ exec[w].job \notin Owed'
<1>1. exec[w].phase \notin {"idle", "background"}
  BY DEF FinishCommit, Terminate, RescheduleReplace, FailSettle
<1>2. PICK i \in Jobs : i = exec[w].job
  BY <1>1, WorkerFacts
<1>3. exec[w].mem \in Row /\ exec[w].fresh \in Row
  BY <1>1, WorkerFacts
<1>e. exec \in [Workers -> Exec] /\ row \in [Jobs -> Row]
  BY DEF TypeOK
<1>4. /\ exec'[w].job = i /\ exec'[w].phase \in {"flush", "answer", "performing"}
      /\ \A v \in Workers : v # w => exec'[v] = exec[v]
  BY <1>e, <1>2 DEF FinishCommit, Terminate, RescheduleReplace, FailSettle, Goto, Exec
<1>5. PICK rows \in [Jobs -> Row], S \in SUBSET LoneJobs, N \in SUBSET Callbacks :
        Settles(w, i, rows, S) /\ Inserts(w, i, rows, S, N)
  BY <1>2, SettleEffect
<1>6. ASSUME NEW j \in GroupJobs
      PROVE  j \in Jobs /\ j \notin S /\ row'[j] = rows[j] /\ (j # i => row'[j] = row[j])
  <2>1. j \in Jobs /\ j \notin S /\ j \notin N
    BY JobsAssumption DEF Jobs
  <2>2. QED
    BY <1>5, <2>1 DEF Settles, Inserts
<1>7. ASSUME i \in GroupJobs
      PROVE  /\ row[i].exists /\ i \in Owed /\ IsFinished(row'[i])
             /\ \A v \in Workers : exec[v].job = i => v = w
  <2>1. Handled(i, w) /\ OneHandler(i)
    BY <1>2, <1>7, MemberCalm DEF Sole, Sound
  <2>2. i \in Owed
    <3>1. row[i].exists
      BY <2>1 DEF Handled
    <3>2. CASE exec[w].phase \in {"rescheduling", "failed"}
      BY <1>2, <1>7, <3>1, <3>2 DEF Owed
    <3>3. CASE exec[w].phase \in {"read", "terminate"}
      BY <1>2, <1>7, <2>1, <3>1, <3>3 DEF Owed, Handled, Unsaved
    <3>4. QED
      BY <3>2, <3>3 DEF FinishCommit, Terminate, RescheduleReplace, FailSettle
  <2>3. IsFinished(row'[i])
    <3>1. /\ SetSuccessful(exec[w].mem) \in Row /\ SetTerminated(exec[w].mem) \in Row
          /\ SetTerminated(exec[w].fresh) \in Row
          /\ IsFinished(SetSuccessful(exec[w].mem)) /\ IsFinished(SetTerminated(exec[w].mem))
          /\ IsFinished(SetTerminated(exec[w].fresh))
      BY <1>3, RowOps, RowFacts
    <3>2. CASE FailSettle(w) /\ rows = row
      BY <1>2, <1>6, <1>7, <3>2 DEF Aborting, FailSettle
    <3>3. CASE \/ rows[i] = Saved(i, SetSuccessful(exec[w].mem))[i]
               \/ rows[i] = Saved(i, SetTerminated(exec[w].mem))[i]
               \/ rows[i] = Saved(i, SetTerminated(exec[w].fresh))[i]
      BY <1>e, <1>6, <1>7, <3>1, <3>3, SavedFacts
    <3>4. QED
      BY <1>5, <1>6, <1>7, <3>2, <3>3 DEF Settles
  <2>4. QED
    BY <1>2, <2>1, <2>2, <2>3 DEF Handled, OneHandler
<1>8. Owed' \subseteq Owed
  <2>1. \A j \in GroupJobs : row'[j].exists => row[j].exists
    BY <1>6, <1>7
  <2>2. \A v \in Workers : exec'[v].phase \in {"rescheduling", "failed"} => exec'[v] = exec[v]
    BY <1>4
  <2>3. QED
    BY <2>1, <2>2, OwedKeeps
<1>9. Aborting'
  BY <1>4, AbortingKeeps
<1>10. ASSUME i \in GroupJobs PROVE i \notin Owed'
  <2>1. ASSUME NEW v \in Workers, exec'[v].job = i PROVE exec'[v].phase \notin {"rescheduling", "failed"}
    BY <1>4, <1>7, <1>10, <2>1
  <2>2. QED
    BY <1>7, <1>10, <2>1 DEF Owed
<1>11. QED
  <2>1. i \in GroupJobs => i \in Owed /\ i \notin Owed'
    BY <1>7, <1>10
  <2>2. exec[w].job = i
    BY <1>2
  <2>3. QED
    BY <1>8, <1>9, <2>1, <2>2

LEMMA SettleBounds ==
  ASSUME TypeOK, HasJob, Sole, [Next]_vars, NoneFails, Counted, NEW w \in Workers,
         FinishCommit(w) \/ Terminate(w) \/ RescheduleReplace(w) \/ FailSettle(w)
  PROVE  Aborting' /\ Cardinality(Owed') <= group'.remaining
<1>1. /\ Owed' \subseteq Owed /\ Aborting'
      /\ exec[w].job \in GroupJobs => exec[w].job \in Owed /\ exec[w].job \notin Owed'
      /\ Cardinality(Owed) <= group.remaining
  BY SettleCounts DEF Counted
<1>2. exec[w].phase \notin {"idle", "background"}
  BY DEF FinishCommit, Terminate, RescheduleReplace, FailSettle
<1>3. PICK i \in Jobs : i = exec[w].job
  BY <1>2, WorkerFacts
<1>4. (i \in GroupJobs => group'.remaining = Decremented) /\ (i \notin GroupJobs => group' = group)
  BY <1>3, SettleEffect DEF Inserts
<1>5. group.remaining \in Nat
  BY DEF TypeOK
<1>6. PICK O : O = Owed
  OBVIOUS
<1>7. /\ IsFiniteSet(O) /\ Cardinality(O) \in Nat /\ Cardinality(O) <= group.remaining
      /\ IsFiniteSet(Owed') /\ Cardinality(Owed') \in Nat /\ Cardinality(Owed') <= Cardinality(O)
  BY <1>1, <1>6, OwedFinite
<1>8. CASE i \notin GroupJobs
  BY <1>1, <1>4, <1>5, <1>7, <1>8
<1>9. CASE i \in GroupJobs
  <2>1. i \in O /\ Owed' \subseteq O \ {i}
    BY <1>1, <1>3, <1>6, <1>9
  <2>2. IsFiniteSet(O \ {i}) /\ Cardinality(O \ {i}) = Cardinality(O) - 1
    BY <1>7, <2>1, FS_RemoveElement
  <2>3. Cardinality(Owed') <= Cardinality(O \ {i})
    BY <2>1, <2>2, FS_Subset
  <2>4. group'.remaining = IF group.remaining > 0 THEN group.remaining - 1 ELSE 0
    BY <1>4, <1>9 DEF Decremented
  <2>5. group.remaining > 0
    <3>1. Cardinality(O \ {i}) \in Nat
      BY <2>2, FS_CardinalityType
    <3>2. QED
      BY <1>5, <1>7, <2>2, <3>1
  <2>6. QED
    BY <1>1, <1>5, <1>7, <2>2, <2>3, <2>4, <2>5
<1>10. QED
  BY <1>8, <1>9

\* The counter is at least what is owed, after every step.
LEMMA CountedStep ==
  ASSUME TypeOK, HasJob, Sole, Counted, [Next]_vars
  PROVE  Counted'
<1> SUFFICES ASSUME NoneFails' PROVE Aborting' /\ Cardinality(Owed') <= group'.remaining
  BY DEF Counted
<1>1. NoneFails
  BY SeenGrows DEF NoneFails, Without
<1>2. Aborting /\ Cardinality(Owed) <= group.remaining
  BY <1>1 DEF Counted
<1>e. exec \in [Workers -> Exec] /\ row \in [Jobs -> Row] /\ group.remaining \in Nat
  BY DEF TypeOK
<1>3. ASSUME Owed' \subseteq Owed, group' = group PROVE Cardinality(Owed') <= group'.remaining
  <2>1. PICK O, n : O = Owed /\ n = Cardinality(Owed)
    OBVIOUS
  <2>2. Cardinality(Owed') \in Nat /\ Cardinality(Owed') <= n /\ n \in Nat
    BY <1>3, <2>1, OwedFinite
  <2>3. QED
    BY <1>e, <1>2, <1>3, <2>1, <2>2
\* Steps that insert no member and after which no handler has begun to settle.
<1>4. ASSUME group' = group,
             \A j \in GroupJobs : row'[j].exists => row[j].exists,
             \A v \in Workers : exec'[v].phase \in {"raised", "rescheduling", "failed"} => exec'[v] = exec[v]
      PROVE  Aborting' /\ Cardinality(Owed') <= group'.remaining
  BY <1>1, <1>2, <1>3, <1>4, OwedKeeps, AbortingKeeps
\* What a handler runs, when it runs a member.
<1>5. ASSUME NEW w \in Workers, NEW j \in GroupJobs, exec[w].job = j
      PROVE  j \in Jobs /\ Calm(j) /\ Handled(j, w) /\ row[j].exists
  BY <1>1, <1>5, MemberCalm DEF Sole, Sound, Handled
<1>6. ASSUME NEW w \in Workers, NEW j \in GroupJobs, exec[w].job = j, ~IsFinished(row[j])
      PROVE  j \in Owed
  BY <1>5, <1>6 DEF Owed
<1>7. ASSUME NEW w \in Workers, Handler(w)
      PROVE  Aborting' /\ Cardinality(Owed') <= group'.remaining
  <2>1. CASE Start(w)
    <3>1. exec[w].job \in Jobs /\ exec[w].mem \in Row /\ SetStarted(exec[w].mem) \in Row
      BY <2>1, WorkerFacts, RowOps DEF Start
    <3>2. \A j \in GroupJobs : row'[j].exists => row[j].exists
      <4>1. SUFFICES ASSUME NEW j \in GroupJobs, row'[j].exists PROVE row[j].exists
        OBVIOUS
      <4>2. CASE j = exec[w].job
        BY <1>5, <4>2
      <4>3. CASE j # exec[w].job
        BY <1>e, <2>1, <3>1, <4>1, <4>3, SavedFacts, MemberCalm, <1>1 DEF Start
      <4>4. QED
        BY <4>2, <4>3
    <3>3. \A v \in Workers : exec'[v].phase \in {"raised", "rescheduling", "failed"} => exec'[v] = exec[v]
      BY <1>e, <2>1 DEF Start, Exec
    <3>4. QED
      BY <1>4, <2>1, <3>2, <3>3 DEF Start
  <2>2. CASE PerformOk(w) \/ FinishRead(w) \/ FinalCheck(w) \/ FailSettleAborts(w)
    <3>1. \A v \in Workers : exec'[v].phase \in {"raised", "rescheduling", "failed"} => exec'[v] = exec[v]
      BY <1>e, <2>2 DEF PerformOk, FinishRead, FinalCheck, FailSettleAborts, Goto, Exec
    <3>2. row' = row /\ group' = group
      BY <2>2 DEF PerformOk, FinishRead, FinalCheck, FailSettleAborts
    <3>3. QED
      BY <1>4, <3>1, <3>2
  <2>3. CASE PerformRaises(w) \/ RescheduleAborts(w)
    <3>1. "raise" \in faults'.seen
      <4>1. CASE PerformRaises(w)
        <5>1. CASE exec[w].job \in Poison
          BY <4>1, <5>1 DEF PerformRaises, Raise, TypeOK
        <5>2. CASE exec[w].job \notin Poison
          BY <4>1, <5>2 DEF PerformRaises, Raise, Spend
        <5>3. QED
          BY <5>1, <5>2
      <4>2. CASE RescheduleAborts(w)
        BY <4>2 DEF RescheduleAborts, SpendMarking
      <4>3. QED
        BY <2>3, <4>1, <4>2
    <3>2. QED
      BY <3>1 DEF NoneFails, Without
  <2>4. CASE AddToGroup(w)
    <3>1. PICK n \in GroupJobs : row' = [row EXCEPT ![n] = NewRow]
      BY <2>4 DEF AddToGroup
    <3>2. exec' = exec /\ group' = [group EXCEPT !.total = @ + 1, !.remaining = @ + 1]
      BY <2>4 DEF AddToGroup
    <3>3. group'.remaining = group.remaining + 1
      BY <3>2 DEF TypeOK
    <3>4. Aborting'
      BY <1>1, <1>2, <3>2, AbortingKeeps
    <3>5. Owed' \subseteq Owed \cup {n}
      <4>1. SUFFICES ASSUME NEW j \in GroupJobs, j \in Owed', j # n PROVE j \in Owed
        BY DEF Owed
      <4>2. row'[j] = row[j]
        BY <1>e, <3>1, <4>1
      <4>3. QED
        BY <3>2, <4>1, <4>2 DEF Owed
    <3>6. PICK O, k : O = Owed /\ k = Cardinality(O)
      OBVIOUS
    <3>7. IsFiniteSet(O) /\ k \in Nat /\ k <= group.remaining
      BY <1>2, <3>6, OwedFinite
    <3>8. IsFiniteSet(O \cup {n}) /\ Cardinality(O \cup {n}) \in Nat /\ Cardinality(O \cup {n}) <= k + 1
      <4>1. /\ IsFiniteSet(O \cup {n})
            /\ Cardinality(O \cup {n}) = IF n \in O THEN Cardinality(O) ELSE Cardinality(O) + 1
        BY <3>7, FS_AddElement
      <4>2. QED
        BY <3>6, <3>7, <4>1
    <3>9. Cardinality(Owed') <= Cardinality(O \cup {n}) /\ Cardinality(Owed') \in Nat
      <4>1. Owed' \subseteq O \cup {n}
        BY <3>5, <3>6
      <4>2. QED
        BY <3>8, <4>1, FS_Subset, FS_CardinalityType
    <3>10. QED
      BY <1>e, <3>3, <3>4, <3>7, <3>8, <3>9
  <2>5. CASE RescheduleCancel(w)
    <3>1. PICK i \in Jobs : i = exec[w].job
      BY <2>5, WorkerFacts DEF RescheduleCancel
    <3>2. \A j \in GroupJobs : row'[j].exists => row[j].exists
      <4>1. SUFFICES ASSUME NEW j \in GroupJobs, row'[j].exists PROVE row[j].exists
        OBVIOUS
      <4>2. CASE j = i
        BY <1>5, <3>1, <4>2
      <4>3. CASE j # i
        <5>1. \E r : row' = [row EXCEPT ![i] = r]
          BY <2>5, <3>1 DEF RescheduleCancel
        <5>2. QED
          BY <1>e, <4>1, <4>3, <5>1, <1>1, MemberCalm
      <4>4. QED
        BY <4>2, <4>3
    <3>3. /\ exec'[w].job = i /\ exec'[w].phase = "rescheduling"
          /\ \A v \in Workers : v # w => exec'[v] = exec[v]
      BY <1>e, <2>5, <3>1 DEF RescheduleCancel, Exec
    <3>4. \A v \in Workers : exec'[v].phase \in {"raised", "failed"} => exec'[v] = exec[v]
      BY <3>3
    <3>5. i \in GroupJobs => i \in Owed
      BY <1>5, <1>6, <2>5, <3>1 DEF Handled, Unsaved, RescheduleCancel
    <3>6. Aborting' /\ group' = group
      BY <1>1, <1>2, <2>5, <3>4, AbortingKeeps DEF RescheduleCancel
    <3>7. Owed' \subseteq Owed
      <4>1. CASE i \in GroupJobs
        BY <1>1, <3>2, <3>3, <3>5, <4>1, OwedKeeps
      <4>2. CASE i \notin GroupJobs
        <5>1. SUFFICES ASSUME NEW j \in GroupJobs, j \in Owed' PROVE j \in Owed
          BY DEF Owed
        <5>2. j \in Jobs /\ row'[j] = row[j]
          <6>1. \E r : row' = [row EXCEPT ![i] = r]
            BY <2>5, <3>1 DEF RescheduleCancel
          <6>2. QED
            BY <1>e, <4>2, <6>1, <1>1, MemberCalm
        <5>3. ASSUME NEW v \in Workers, exec'[v].job = j PROVE exec'[v] = exec[v]
          BY <3>3, <4>2, <5>3
        <5>4. QED
          BY <5>1, <5>2, <5>3 DEF Owed
      <4>3. QED
        BY <4>1, <4>2
    <3>8. QED
      BY <1>3, <3>6, <3>7
  <2>6. CASE FinishAborts(w)
    <3>1. PICK i \in Jobs : i = exec[w].job
      BY <2>6, WorkerFacts DEF FinishAborts
    <3>2. exec[w].mem \in Row
      BY <2>6, WorkerFacts DEF FinishAborts
    <3>3. /\ row' = row /\ group' = group
          /\ exec'[w].phase = "raised" /\ exec'[w].mem = SetSuccessful(exec[w].mem)
          /\ \A v \in Workers : v # w => exec'[v] = exec[v]
      BY <1>e, <2>6 DEF FinishAborts, Exec
    <3>4. Owed' \subseteq Owed
      <4>1. \A v \in Workers : exec'[v].phase \in {"rescheduling", "failed"} => exec'[v] = exec[v]
        BY <3>3
      <4>2. QED
        BY <1>1, <3>3, <4>1, OwedKeeps
    <3>5. IsFinished(exec'[w].mem)
      BY <3>2, <3>3, RowFacts
    <3>6. Aborting'
      BY <1>2, <3>3, <3>5 DEF Aborting
    <3>7. QED
      BY <1>3, <3>3, <3>4, <3>6
  <2>7. CASE FailSave(w)
    <3>1. PICK i \in Jobs : i = exec[w].job
      BY <2>7, WorkerFacts DEF FailSave
    <3>2. exec[w].mem \in Row /\ SetFailed(exec[w].mem) \in Row /\ exec[w].phase = "raised"
      BY <2>7, WorkerFacts, RowOps DEF FailSave
    <3>3. /\ row' = Saved(i, SetFailed(exec[w].mem)) /\ group' = group
          /\ exec'[w].phase = "failed" /\ exec'[w].job = i
          /\ \A v \in Workers : v # w => exec'[v] = exec[v]
      BY <1>e, <2>7, <3>1 DEF FailSave, Exec
    <3>4. /\ IsFinished(row'[i]) = IsFinished(SetFailed(exec[w].mem))
          /\ \A j \in Jobs : j # i => row'[j] = row[j]
      BY <1>e, <3>2, <3>3, SavedFacts
    <3>5. i \in GroupJobs => IsFinished(row'[i]) /\ i \in Owed
      BY <1>2, <1>5, <1>6, <3>1, <3>2, <3>4, RowFacts DEF Aborting, Handled, Unsaved
    <3>6. Aborting'
      <4>1. SUFFICES ASSUME NEW v \in Workers, exec'[v].job \in GroupJobs
            PROVE  /\ exec'[v].phase = "raised" => IsFinished(exec'[v].mem)
                   /\ exec'[v].phase = "failed" => IsFinished(row'[exec'[v].job])
        BY DEF Aborting
      <4>2. CASE v = w
        BY <3>3, <3>5, <4>1, <4>2
      <4>3. CASE v # w
        <5>1. PICK j \in GroupJobs : j = exec'[v].job
          BY <4>1
        <5>2. exec'[v] = exec[v] /\ exec[v].job = j
          BY <3>3, <4>3, <5>1
        <5>3. j \in Jobs /\ (j = i \/ row'[j] = row[j])
          BY <1>5, <3>4, <5>2
        <5>4. QED
          BY <1>2, <3>5, <5>1, <5>2, <5>3 DEF Aborting
      <4>4. QED
        BY <4>2, <4>3
    <3>7. Owed' \subseteq Owed
      <4>1. SUFFICES ASSUME NEW j \in GroupJobs, j \in Owed', j # i PROVE j \in Owed
        BY <3>5 DEF Owed
      <4>2. j \in Jobs /\ row'[j] = row[j]
        BY <1>1, <3>4, <4>1, MemberCalm
      <4>3. \A v \in Workers : exec'[v].job = j => exec'[v] = exec[v]
        BY <3>3, <4>1
      <4>4. QED
        BY <4>1, <4>2, <4>3 DEF Owed
    <3>8. QED
      BY <1>3, <3>3, <3>6, <3>7
  <2>8. CASE FinishCommit(w) \/ Terminate(w) \/ RescheduleReplace(w) \/ FailSettle(w)
    BY <1>1, <2>8, SettleBounds
  <2>9. CASE RunReturns(w) \/ AnswerOk(w) \/ BackgroundDone(w)
    <3>1. \A v \in Workers : exec'[v].phase \in {"raised", "rescheduling", "failed"} => exec'[v] = exec[v]
      <4>1. CASE RunReturns(w)
        BY <1>e, <4>1 DEF RunReturns, Idle
      <4>2. CASE AnswerOk(w)
        BY <1>e, <4>2 DEF AnswerOk, Idle
      <4>3. CASE BackgroundDone(w)
        BY <1>e, <4>3 DEF BackgroundDone, Goto, Exec
      <4>4. QED
        BY <2>9, <4>1, <4>2, <4>3
    <3>2. row' = row /\ group' = group
      BY <2>9 DEF RunReturns, AnswerOk, BackgroundDone
    <3>3. QED
      BY <1>4, <3>1, <3>2
  <2>10. QED
    BY <1>7, <2>1, <2>2, <2>3, <2>4, <2>5, <2>6, <2>7, <2>8, <2>9 DEF Handler
<1>8. ASSUME group' = group, exec' = exec, \A j \in GroupJobs : row'[j].exists = row[j].exists
      PROVE  Aborting' /\ Cardinality(Owed') <= group'.remaining
  BY <1>4, <1>8
<1>9. ASSUME NEW p \in Procs, Flush(p)
      PROVE  Aborting' /\ Cardinality(Owed') <= group'.remaining
  <2>1. CASE SaveTaskNames(p)
    <3>1. ASSUME NEW j \in GroupJobs PROVE row'[j].exists = row[j].exists
      <4>1. j \in Jobs
        BY DEF Jobs
      <4>2. row'[j] = row[j] \/ row'[j] = [row[j] EXCEPT !.name = NameFor(p, j)]
        BY <2>1, <4>1 DEF SaveTaskNames
      <4>3. QED
        BY <1>e, <4>1, <4>2 DEF Row
    <3>2. QED
      BY <1>8, <2>1, <3>1 DEF SaveTaskNames
  <2>2. QED
    BY <1>8, <1>9, <2>1 DEF Flush, CreateTask, CreateVoidTask
<1>10. ASSUME Sweeper \/ Reaper
       PROVE  Aborting' /\ Cardinality(Owed') <= group'.remaining
  <2>1. ASSUME NEW i \in Jobs, ReapTerminate(i) PROVE \A j \in GroupJobs : row'[j].exists = row[j].exists
    BY <1>e, <2>1 DEF ReapTerminate, Row, Jobs
  <2>2. group' = group /\ exec' = exec
    BY <1>10 DEF Sweeper, Reaper, SweepRead, SweepEnqueue, ReapRead, ReapProbe, ReapTerminate
  <2>3. \A j \in GroupJobs : row'[j].exists = row[j].exists
    BY <1>10, <2>1 DEF Sweeper, Reaper, SweepRead, SweepEnqueue, ReapRead, ReapProbe
  <2>4. QED
    BY <1>8, <2>2, <2>3
<1>11. ASSUME Environment
       PROVE  Aborting' /\ Cardinality(Owed') <= group'.remaining
  <2>1. ASSUME NEW w \in Workers, Crash(w) PROVE Aborting' /\ Cardinality(Owed') <= group'.remaining
    <3>1. \A v \in Workers : exec'[v].phase \in {"raised", "rescheduling", "failed"} => exec'[v] = exec[v]
      BY <1>e, <2>1 DEF Crash, Idle
    <3>2. QED
      BY <1>4, <2>1, <3>1 DEF Crash
  <2>2. ASSUME NEW i \in Jobs, Age(i) PROVE Aborting' /\ Cardinality(Owed') <= group'.remaining
    <3>1. \A j \in GroupJobs : row'[j].exists = row[j].exists
      BY <1>e, <2>2 DEF Age, Row, Jobs
    <3>2. QED
      BY <1>8, <2>2, <3>1 DEF Age
  <2>3. ASSUME NEW i \in LoneJobs, Cancel(i) PROVE Aborting' /\ Cardinality(Owed') <= group'.remaining
    <3>1. \A j \in GroupJobs : row'[j].exists = row[j].exists
      BY <1>e, <2>3 DEF Cancel, Row, Jobs
    <3>2. QED
      BY <1>8, <2>3, <3>1 DEF Cancel
  <2>4. QED
    BY <1>8, <1>11, <2>1, <2>2, <2>3 DEF Environment, CrashWeb, Expire, Lose
<1>12. ASSUME NEW w \in Workers, NEW t \in Tasks, Dispatch(w, t)
       PROVE  Aborting' /\ Cardinality(Owed') <= group'.remaining
  <2>1. exec' = exec \/ (exec'[w].phase \in {"terminate", "loaded"} /\ \A v \in Workers : v # w => exec'[v] = exec[v])
    BY <1>e, <1>12 DEF Dispatch
  <2>2. \A v \in Workers : exec'[v].phase \in {"raised", "rescheduling", "failed"} => exec'[v] = exec[v]
    BY <2>1
  <2>3. QED
    BY <1>4, <1>12, <2>2 DEF Dispatch
<1>13. ASSUME UNCHANGED vars PROVE Aborting' /\ Cardinality(Owed') <= group'.remaining
  BY <1>8, <1>13 DEF vars
<1>14. QED
  BY <1>7, <1>9, <1>10, <1>11, <1>12, <1>13 DEF Next

LEMMA CountedInit == Init => Counted
<1> SUFFICES ASSUME NEW s \in Starts, InitWith(s.rows, s.faults) PROVE Aborting /\ Cardinality(Owed) <= group.remaining
  BY DEF Init, Counted
<1>1. row = [j \in Jobs |-> IF j \in s.rows THEN NewRow ELSE NoRow]
  BY DEF InitWith
<1>2. \A w \in Workers : exec[w] = Idle
  BY DEF InitWith
<1>3. Aborting
  BY <1>2, JobsAssumption DEF Aborting, Idle
<1>4. Owed \subseteq s.rows \cap GroupJobs
  BY <1>1 DEF Owed, NoRow, Jobs
<1>5. IsFiniteSet(s.rows \cap GroupJobs)
  BY FS_Subset, JobsAssumption
<1>6. Cardinality(Owed) <= Cardinality(s.rows \cap GroupJobs)
  BY <1>4, <1>5, FS_Subset
<1>7. group.remaining = Cardinality(s.rows \cap GroupJobs)
  BY DEF InitWith
<1>8. QED
  BY <1>3, <1>6, <1>7

CountInv == SoleInv /\ Counted

\* A callback row is inserted by the step that settles the last member that was owed.
LEMMA BarrierStep ==
  ASSUME TypeOK, HasJob, Sole, Counted, [Next]_vars, NoneFails,
         NEW c \in Callbacks, ~row[c].exists, row'[c].exists
  PROVE  \A j \in GroupJobs : row'[j].exists => IsFinished(row'[j]) /\ ~row'[j].error
<1>e. exec \in [Workers -> Exec] /\ row \in [Jobs -> Row]
  BY DEF TypeOK
<1>c. c \in Jobs /\ c \notin GroupJobs /\ c \notin LoneJobs
  BY JobsAssumption DEF Jobs
<1>1. \A w \in Workers : exec[w].job # c
  <2>1. Calm(c)
    BY <1>c DEF NoneFails, Calm, Without
  <2>2. QED
    BY <1>c, <2>1 DEF Sole, Sound, Handled
<1>2. row'[c] # row[c] /\ row' # row
  OBVIOUS
<1>3. ASSUME NEW w \in Workers,
             FinishCommit(w) \/ Terminate(w) \/ RescheduleReplace(w) \/ FailSettle(w)
      PROVE  \A j \in GroupJobs : row'[j].exists => IsFinished(row'[j]) /\ ~row'[j].error
  <2>1. exec[w].phase \notin {"idle", "background"}
    BY <1>3 DEF FinishCommit, Terminate, RescheduleReplace, FailSettle
  <2>2. PICK i \in Jobs : i = exec[w].job
    BY <2>1, WorkerFacts
  <2>3. PICK rows \in [Jobs -> Row], S \in SUBSET LoneJobs, N \in SUBSET Callbacks :
          Settles(w, i, rows, S) /\ Inserts(w, i, rows, S, N)
    BY <1>3, <2>2, SettleEffect
  <2>4. c \in N
    BY <1>c, <1>1, <1>2, <2>2, <2>3 DEF Settles, Inserts
  <2>5. i \in GroupJobs /\ group'.remaining = Decremented /\ CallbackDue(rows)
    BY <2>3, <2>4 DEF Inserts
  <2>6. Owed' = {}
    <3>1. Cardinality(Owed') <= group'.remaining
      BY <1>3, SettleBounds
    <3>2. group'.remaining = 0
      BY <2>5 DEF CallbackDue
    <3>3. Owed' \subseteq Owed
      BY <1>3, SettleCounts DEF Counted
    <3>4. IsFiniteSet(Owed') /\ Cardinality(Owed') \in Nat
      BY <3>3, OwedFinite
    <3>5. Cardinality(Owed') = 0
      BY <3>1, <3>2, <3>4
    <3>6. QED
      BY <3>4, <3>5, FS_EmptySet
  <2>7. ASSUME NEW j \in GroupJobs, row'[j].exists PROVE IsFinished(row'[j]) /\ ~row'[j].error
    <3>1. IsFinished(row'[j])
      BY <2>6, <2>7 DEF Owed
    <3>2. row'[j] = rows[j]
      BY <2>3, JobsAssumption DEF Inserts, Jobs
    <3>3. ~rows[j].error
      BY <2>5 DEF CallbackDue, HasFailedJobs
    <3>4. QED
      BY <3>1, <3>2, <3>3
  <2>8. QED
    BY <2>7
<1>4. ASSUME NEW i \in Jobs, i # c, \A j \in Jobs : j # i => row'[j] = row[j] PROVE FALSE
  BY <1>c, <1>2, <1>4
<1>5. ASSUME row'[c].exists = row[c].exists PROVE FALSE
  BY <1>5
<1>6. ASSUME NEW w \in Workers, Start(w) \/ FailSave(w) \/ RescheduleCancel(w) PROVE FALSE
  <2>1. PICK i \in Jobs : i = exec[w].job
    BY <1>6, WorkerFacts DEF Start, FailSave, RescheduleCancel
  <2>2. \E r : row' = [row EXCEPT ![i] = r]
    BY <1>6, <2>1 DEF Start, FailSave, RescheduleCancel, Saved
  <2>3. QED
    BY <1>e, <1>1, <1>4, <2>1, <2>2
<1>7. ASSUME NEW w \in Workers, AddToGroup(w) PROVE FALSE
  <2>1. PICK n \in GroupJobs : row' = [row EXCEPT ![n] = NewRow]
    BY <1>7 DEF AddToGroup
  <2>2. row'[c] = row[c]
    BY <1>e, <1>c, <2>1
  <2>3. QED
    BY <1>2, <2>2
<1>8. ASSUME NEW p \in Procs, Flush(p) PROVE FALSE
  <2>1. ASSUME SaveTaskNames(p) PROVE FALSE
    <3>1. row'[c] = row[c] \/ row'[c] = [row[c] EXCEPT !.name = NameFor(p, c)]
      BY <1>c, <2>1 DEF SaveTaskNames
    <3>2. row'[c].exists = row[c].exists
      BY <1>e, <1>c, <3>1 DEF Row
    <3>3. QED
      BY <1>5, <3>2
  <2>2. QED
    BY <1>2, <1>8, <2>1 DEF Flush, CreateTask, CreateVoidTask
<1>9. ASSUME Sweeper \/ Reaper PROVE FALSE
  <2>1. ASSUME NEW i \in Jobs, ReapTerminate(i) PROVE FALSE
    <3>1. row'[c].exists = row[c].exists
      BY <1>e, <1>c, <2>1 DEF ReapTerminate, Row
    <3>2. QED
      BY <1>5, <3>1
  <2>2. QED
    BY <1>2, <1>9, <2>1 DEF Sweeper, Reaper, SweepRead, SweepEnqueue, ReapRead, ReapProbe
<1>10. ASSUME Environment PROVE FALSE
  <2>1. ASSUME NEW i \in Jobs, Age(i) PROVE FALSE
    <3>1. row'[c].exists = row[c].exists
      BY <1>e, <1>c, <2>1 DEF Age, Row
    <3>2. QED
      BY <1>5, <3>1
  <2>2. ASSUME NEW i \in LoneJobs, Cancel(i) PROVE FALSE
    <3>1. row'[c] = row[c]
      BY <1>e, <1>c, <2>2 DEF Cancel
    <3>2. QED
      BY <1>2, <3>1
  <2>3. QED
    BY <1>2, <1>10, <2>1, <2>2 DEF Environment, Crash, CrashWeb, Expire, Lose
<1>11. ASSUME NEW w \in Workers, NEW t \in Tasks, Dispatch(w, t) PROVE FALSE
  BY <1>2, <1>11 DEF Dispatch
<1>12. ASSUME NEW w \in Workers, Handler(w)
       PROVE  \A j \in GroupJobs : row'[j].exists => IsFinished(row'[j]) /\ ~row'[j].error
  BY <1>2, <1>3, <1>6, <1>7, <1>12 DEF Handler, PerformOk, PerformRaises, RescheduleAborts, FinishRead,
     FinishAborts, FailSettleAborts, RunReturns, FinalCheck, AnswerOk, BackgroundDone
<1>13. UNCHANGED vars => row' = row
  BY DEF vars
<1>14. QED
  BY <1>2, <1>8, <1>9, <1>10, <1>11, <1>12, <1>13 DEF Next

LEMMA CountInvariant == Spec => []CountInv
<1>1. Init => CountInv
  BY TypeInit, HasJobInit, SoleInit, CountedInit DEF CountInv, SoleInv
<1>2. CountInv /\ [Next]_vars => CountInv'
  BY TypeStep, SoleStep, CountedStep DEF CountInv, SoleInv
<1>3. QED
  BY <1>1, <1>2, PTL DEF Spec

\* JobGroup.remaining_jobs: the counter never runs ahead of the members, so that it does
\* not reach zero while one is unfinished or has still to be counted.
THEOREM CountedHolds == Spec => []Counted
  BY CountInvariant, PTL DEF CountInv

\* JobGroup.update_status: when it inserts a callback row, every member that exists is
\* finished and none carries an error, however many members, workers and crashes there
\* are, as long as no perform() raises and no attempt is repeated while it runs.
THEOREM CallbackIsBarrierHolds == Spec => CallbackIsBarrier
<1> DEFINE Barrier == \A c \in Callbacks : (NoneFails /\ ~row[c].exists /\ row'[c].exists) =>
              \A j \in GroupJobs : row'[j].exists => IsFinished(row'[j]) /\ ~row'[j].error
<1>1. CountInv /\ [Next]_vars => [Barrier]_vars
  BY BarrierStep DEF CountInv, SoleInv
<1>2. QED
  BY <1>1, CountInvariant, PTL DEF Spec, CallbackIsBarrier

=============================================================================
