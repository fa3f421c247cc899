------------------------------- MODULE Drafts -------------------------------
(***************************************************************************)
(* Sending and scheduling an email draft: the requests of                  *)
(* app/routers/api/email_drafts.py and the reply of email_threads.py, the  *)
(* timer job that fires a scheduled draft and the sweeper that replaces a  *)
(* lost timer (app/jobs/email.py), and the job that hands a message to     *)
(* Gmail (integrations/google/jobs/gmail.py), on one thread.               *)
(*                                                                         *)
(* A request works on the copy of the draft its dependency loaded, before  *)
(* any lock; a transaction that takes the row lock is one step.            *)
(***************************************************************************)
EXTENDS Naturals

CONSTANTS
  MaxMessages,    (* messages the thread may hold (bound)                     *)
  Requests,       (* HTTP requests, each served once                          *)
  MaxFires,       (* ScheduledDraftSendJob rows (bound)                       *)
  MaxMails,       (* SendEmailThroughGmailJob rows (bound)                    *)
  MaxTime,        (* where the clock stops (bound)                            *)
  Horizon,        (* latest time a user picks (bound)                         *)
  Grace,          (* SCHEDULED_SEND_OVERDUE_GRACE                             *)
  Starts,         (* which operations each request may be, with the faults    *)
                  (* there may be (bound): records [ops, faults]              *)
  NULL

Messages == 1 .. MaxMessages       \* by created_at, as get_draft sorts them
Fires    == 1 .. MaxFires
Mails    == 1 .. MaxMails
Times    == 0 .. MaxTime
Operations == {"edit", "send", "schedule", "unschedule", "delete", "reply"}
Faults == {"lose", "redeliver", "crash", "revoke"}

ASSUME DraftsAssumption ==
  /\ MaxMessages \in Nat \ {0} /\ MaxFires \in Nat /\ MaxMails \in Nat
  /\ MaxTime \in Nat /\ Grace \in Nat /\ Horizon \in 0 .. MaxTime
  /\ Starts \subseteq [ops : [Requests -> SUBSET Operations], faults : [Faults -> Nat]]
  /\ NULL \notin Nat /\ NULL \notin Requests /\ NULL \notin Operations
  /\ NULL \notin [when : 0 .. MaxTime, archive : BOOLEAN]

VARIABLES
  now,       (* wall clock                                                    *)
  msg,       (* EmailMessage rows of the thread                               *)
  req,       (* requests being served, with the draft copy they loaded        *)
  fire,      (* ScheduledDraftSendJob rows and their Cloud Tasks              *)
  gmail,     (* SendEmailThroughGmailJob rows and the message each has loaded *)
  sweep,     (* SweepOverdueScheduledDraftsJob: ids it has read               *)
  allowed,   (* thread.can_reply(sender)                                      *)
  mailed,    (* how many times Gmail was asked to send each message           *)
  choice,    (* history: how the user last asked for it to be sent            *)
  sentAs,    (* history: how it was dispatched                                *)
  ops,       (* which operations each request may be                          *)
  faults     (* how many of each kind are left                                *)

vars == <<now, msg, req, fire, gmail, sweep, allowed, mailed, choice, sentAs, ops, faults>>

(***************************************************************************)
(* Rows                                                                    *)
(***************************************************************************)
\* `when` = 0: not scheduled.  `env` is the envelope and body, named by the request
\* that wrote it.
Row(type, when, job, env) == [type |-> type, when |-> when, job |-> job, env |-> env]
NoRow == Row("none", 0, NULL, NULL)
NewDraft(env) == Row("draft", 0, NULL, env)

IsScheduled(r) == r.when # 0

OfType(t) == {m \in Messages : msg[m].type = t}
First(t)  == CHOOSE m \in OfType(t) : \A n \in OfType(t) : m <= n

FreeFires == {f \in Fires : fire[f].pc = "none"}
FreeMails == {g \in Mails : gmail[g].pc = "none"}
Least(S)  == CHOOSE x \in S : \A y \in S : x <= y

NoFire == [pc |-> "none", message |-> NULL, at |-> 0, archive |-> FALSE]

\* `before` and `made` are of a reply: what there was when it read, and its draft.
Idle == [pc |-> "idle", op |-> NULL, draft |-> NULL, copy |-> NoRow,
         when |-> 0, archive |-> FALSE, job |-> NULL, before |-> {}, made |-> NULL]

Spend(f) == /\ faults[f] > 0
            /\ faults' = [faults EXCEPT ![f] = @ - 1]
            /\ UNCHANGED ops

Answer(r) == req' = [req EXCEPT ![r] = [Idle EXCEPT !.pc = "done", !.op = req[r].op]]

Untouched == UNCHANGED <<now, allowed, ops, faults>>

\* Variant: perform_at is not passed on.
TimerAtOnce(m, at, archive) ==
  [pc |-> "waiting", message |-> m, at |-> 0, archive |-> archive]

Timer(m, at, archive) == [pc |-> "waiting", message |-> m, at |-> at, archive |-> archive]

(***************************************************************************)
(* send_draft: flip to SENDING with every column of `row`, clear the       *)
(* schedule, enqueue delivery, apply the archive option.                   *)
(***************************************************************************)
\* Variants: the schedule is not cleared; delivery is not enqueued.
SendDraftScheduled(m, row, archive) ==
  /\ FreeMails # {}
  /\ msg'   = [msg EXCEPT ![m] = [row EXCEPT !.type = "sending"]]
  /\ gmail' = [gmail EXCEPT ![Least(FreeMails)] = [pc |-> "queued", message |-> NULL]]
  /\ sentAs' = [sentAs EXCEPT ![m] = [when |-> now, archive |-> archive]]

SendDraftAlone(m, row, archive) ==
  /\ msg' = [msg EXCEPT ![m] = [row EXCEPT !.type = "sending", !.when = 0, !.job = NULL]]
  /\ sentAs' = [sentAs EXCEPT ![m] = [when |-> now, archive |-> archive]]
  /\ UNCHANGED gmail

SendDraft(m, row, archive) ==
  /\ FreeMails # {}
  /\ msg'   = [msg EXCEPT ![m] = [row EXCEPT !.type = "sending", !.when = 0, !.job = NULL]]
  /\ gmail' = [gmail EXCEPT ![Least(FreeMails)] = [pc |-> "queued", message |-> NULL]]
  /\ sentAs' = [sentAs EXCEPT ![m] = [when |-> now, archive |-> archive]]

(***************************************************************************)
(* Requests.  Loading is what happens before the lock: the dependency      *)
(* reads the thread's draft, the handler checks the sender, the body and,  *)
(* to edit, the loaded copy.                                               *)
(***************************************************************************)
MayStart(op, copy, when) ==
  CASE op = "edit" -> ~IsScheduled(copy)
    [] op \in {"send", "unschedule"} -> allowed
    [] op = "schedule" -> allowed /\ when > now
    [] OTHER -> TRUE

\* The times and archive options a request of each kind can carry.
Whens(op)    == IF op = "schedule" THEN 1 .. Horizon ELSE {0}
Archives(op) == IF op \in {"send", "schedule"} THEN BOOLEAN ELSE {FALSE}

Load(r, op, when, archive) ==
  /\ req[r].pc = "idle" /\ op \in ops[r] \ {"reply"}
  /\ OfType("draft") # {}
  /\ LET d == First("draft") IN
       /\ MayStart(op, msg[d], when)
       /\ req' = [req EXCEPT ![r] = [pc |-> "loaded", op |-> op, draft |-> d, copy |-> msg[d],
                                     when |-> when, archive |-> archive, job |-> msg[d].job,
                                     before |-> {}, made |-> NULL]]
  /\ UNCHANGED <<msg, fire, gmail, sweep, mailed, choice, sentAs>> /\ Untouched

Serving(r, op) == req[r].pc = "loaded" /\ req[r].op = op

\* The row as the transaction's select_for_update reads it.
Locked(r) == msg[req[r].draft]

\* PATCH: no lock, and only the envelope's columns; nothing is left of a deleted row.
Edit(r) ==
  /\ Serving(r, "edit")
  /\ msg' = [msg EXCEPT ![req[r].draft] = IF @.type = "gone" THEN @ ELSE [@ EXCEPT !.env = r]]
  /\ Answer(r)
  /\ UNCHANGED <<fire, gmail, sweep, mailed, choice, sentAs>> /\ Untouched

\* Variant: only the schedule of the locked row is looked at.
SendableUnscheduled(row) == row.type # "gone" /\ ~IsScheduled(row)

Sendable(row) == row.type = "draft" /\ ~IsScheduled(row)

Send(r) ==
  /\ Serving(r, "send") /\ Sendable(Locked(r))
  /\ SendDraft(req[r].draft, [req[r].copy EXCEPT !.env = r], req[r].archive)
  /\ choice' = [choice EXCEPT ![req[r].draft] = [when |-> now, archive |-> req[r].archive]]
  /\ Answer(r)
  /\ UNCHANGED <<fire, sweep, mailed>> /\ Untouched

Schedule(r) ==
  /\ Serving(r, "schedule") /\ Sendable(Locked(r)) /\ FreeFires # {}
  /\ LET d == req[r].draft
         f == Least(FreeFires) IN
       /\ fire' = [fire EXCEPT ![f] = Timer(d, req[r].when, req[r].archive)]
       /\ msg'  = [msg EXCEPT ![d] = [req[r].copy EXCEPT !.env = r, !.when = req[r].when, !.job = f]]
       /\ choice' = [choice EXCEPT ![d] = [when |-> req[r].when, archive |-> req[r].archive]]
  /\ Answer(r)
  /\ UNCHANGED <<gmail, sweep, mailed, sentAs>> /\ Untouched

\* Variant: the lock is taken and what it shows is not looked at.
UnschedulableAnyway(row) == row.type # "gone"

Unschedulable(row) == row.type = "draft" /\ IsScheduled(row)

Unschedule(r) ==
  /\ Serving(r, "unschedule") /\ Unschedulable(Locked(r))
  /\ LET d == req[r].draft IN
       /\ msg' = [msg EXCEPT ![d] = [req[r].copy EXCEPT !.when = 0, !.job = NULL]]
       /\ choice' = [choice EXCEPT ![d] = NULL]
       /\ req' = [req EXCEPT ![r].pc = "cancelling", ![r].job = msg[d].job]
  /\ UNCHANGED <<fire, gmail, sweep, mailed, sentAs>> /\ Untouched

\* The lock shows another state than the request expected: 404 or 409.
Refused(r) ==
  /\ \/ (Serving(r, "send") \/ Serving(r, "schedule")) /\ ~Sendable(Locked(r))
     \/ Serving(r, "unschedule") /\ ~Unschedulable(Locked(r))
  /\ Answer(r)
  /\ UNCHANGED <<msg, fire, gmail, sweep, mailed, choice, sentAs>> /\ Untouched

\* No lock: the row goes whatever became of it since it was loaded.
Delete(r) ==
  /\ Serving(r, "delete")
  /\ msg' = [msg EXCEPT ![req[r].draft] = Row("gone", 0, NULL, NULL)]
  /\ req' = [req EXCEPT ![r].pc = "cancelling"]
  /\ UNCHANGED <<fire, gmail, sweep, mailed, choice, sentAs>> /\ Untouched

\* Best effort: the task may already be running, or its name not yet be saved.
CancelFire(r) ==
  /\ req[r].pc = "cancelling"
  /\ \/ UNCHANGED fire
     \/ /\ req[r].job # NULL /\ fire[req[r].job].pc = "waiting"
        /\ fire' = [fire EXCEPT ![req[r].job].pc = "cancelled"]
  /\ Answer(r)
  /\ UNCHANGED <<msg, gmail, sweep, mailed, choice, sentAs>> /\ Untouched

\* The check for an existing draft comes before the transaction that replaces it.
LoadReply(r, replace) ==
  /\ req[r].pc = "idle" /\ "reply" \in ops[r]
  /\ OfType("draft") = {} \/ replace
  /\ req' = [req EXCEPT ![r] = [Idle EXCEPT !.pc = "loaded", !.op = "reply"]]
  /\ UNCHANGED <<msg, fire, gmail, sweep, mailed, choice, sentAs>> /\ Untouched

\* start_draft: one transaction, but it reads the thread's draft without a lock, so
\* another reply may commit between the read and the write.
StartDraftRead(r) ==
  /\ Serving(r, "reply")
  /\ req' = [req EXCEPT ![r].pc = "starting", ![r].before = Messages \ OfType("none"),
                        ![r].draft = IF OfType("draft") = {} THEN NULL ELSE First("draft")]
  /\ UNCHANGED <<msg, fire, gmail, sweep, mailed, choice, sentAs>> /\ Untouched

Replied(r) == req[r].op = "reply" /\ req[r].pc = "done"

\* created_at is stamped between the read and the commit: after what had been read, but not
\* after what was committed since, unless by a reply that removed the same draft, whose
\* commit this one then had to wait for.
Stamps(r) == {m \in OfType("none") :
  /\ \A n \in req[r].before : n < m
  /\ \A s \in Requests : Replied(s) /\ req[s].draft = req[r].draft /\ req[r].draft # NULL
                         => req[s].made < m}

StartDraftWrite(r) ==
  /\ req[r].pc = "starting"
  /\ \E new \in Stamps(r) :
       /\ msg' = [m \in Messages |->
                    CASE m = new -> NewDraft(r)
                      [] m = req[r].draft -> Row("gone", 0, NULL, NULL)
                      [] OTHER -> msg[m]]
       /\ req' = [req EXCEPT ![r].pc = "done", ![r].made = new]
  /\ UNCHANGED <<fire, gmail, sweep, mailed, choice, sentAs>> /\ Untouched

(***************************************************************************)
(* ScheduledDraftSendJob                                                   *)
(***************************************************************************)
\* Cloud Tasks calls the handler at perform_at or later; a running task cannot be
\* cancelled any more.
FireStart(f) ==
  /\ fire[f].pc = "waiting" /\ fire[f].at <= now
  /\ fire' = [fire EXCEPT ![f].pc = "running"]
  /\ UNCHANGED <<msg, req, gmail, sweep, mailed, choice, sentAs>> /\ Untouched

\* Variant: the lock's recheck forgets is_scheduled.
MayFireDraft(f) == msg[fire[f].message].type = "draft" /\ allowed

MayFire(f) == Unschedulable(msg[fire[f].message]) /\ allowed /\ OfType("draft") # {}

\* The lock is taken on the job's message; what is sent is the thread's first draft.
FirePerform(f) ==
  /\ fire[f].pc = "running"
  /\ fire' = [fire EXCEPT ![f].pc = "done"]
  /\ IF MayFire(f)
       THEN SendDraft(First("draft"), msg[First("draft")], fire[f].archive)
       ELSE UNCHANGED <<msg, gmail, sentAs>>
  /\ UNCHANGED <<req, sweep, mailed, choice>> /\ Untouched

\* Cloud Tasks drops a task, or calls again a handler that died after its commit.
FireLost(f) ==
  /\ fire[f].pc = "waiting" /\ Spend("lose")
  /\ fire' = [fire EXCEPT ![f].pc = "lost"]
  /\ UNCHANGED <<now, allowed, msg, req, gmail, sweep, mailed, choice, sentAs>>

FireAgain(f) ==
  /\ fire[f].pc = "done" /\ Spend("redeliver")
  /\ fire' = [fire EXCEPT ![f].pc = "running"]
  /\ UNCHANGED <<now, allowed, msg, req, gmail, sweep, mailed, choice, sentAs>>

(***************************************************************************)
(* SweepOverdueScheduledDraftsJob                                          *)
(***************************************************************************)
\* Variant: only drafts whose timer was never made are swept.
OverdueUnnamed == {m \in OfType("draft") :
  IsScheduled(msg[m]) /\ msg[m].job = NULL /\ msg[m].when + Grace <= now}

Overdue == {m \in OfType("draft") : IsScheduled(msg[m]) /\ msg[m].when + Grace <= now}

SweepRead ==
  /\ sweep = {} /\ Overdue # {}
  /\ sweep' = Overdue
  /\ UNCHANGED <<msg, req, fire, gmail, mailed, choice, sentAs>> /\ Untouched

\* _rebuild_send_job: the archive option lives only in the job the message names;
\* perform_at is left unset.
Rebuilt(m) ==
  Timer(m, 0, IF msg[m].job = NULL THEN FALSE ELSE fire[msg[m].job].archive)

SweepRow(m) ==
  /\ m \in sweep
  /\ sweep' = sweep \ {m}
  /\ IF Unschedulable(msg[m])
       THEN /\ FreeFires # {}
            /\ fire' = [fire EXCEPT ![Least(FreeFires)] = Rebuilt(m)]
            /\ msg'  = [msg EXCEPT ![m].job = Least(FreeFires)]
       ELSE UNCHANGED <<fire, msg>>
  /\ UNCHANGED <<req, gmail, mailed, choice, sentAs>> /\ Untouched

\* The sweeper is not retried; the next tick reads afresh.
SweepDies ==
  /\ sweep # {} /\ Spend("crash")
  /\ sweep' = {}
  /\ UNCHANGED <<now, allowed, msg, req, fire, gmail, mailed, choice, sentAs>>

(***************************************************************************)
(* SendEmailThroughGmailJob: knows its thread, not its message.            *)
(***************************************************************************)
MailLoad(g) ==
  /\ gmail[g].pc = "queued"
  /\ gmail' = [gmail EXCEPT ![g] =
                 IF OfType("sending") # {} /\ allowed
                   THEN [pc |-> "loaded", message |-> First("sending")]
                   ELSE [pc |-> "done", message |-> NULL]]
  /\ UNCHANGED <<msg, req, fire, sweep, mailed, choice, sentAs>> /\ Untouched

MailSend(g) ==
  /\ gmail[g].pc = "loaded"
  /\ mailed' = [mailed EXCEPT ![gmail[g].message] = @ + 1]
  /\ gmail' = [gmail EXCEPT ![g].pc = "accepted"]
  /\ UNCHANGED <<msg, req, fire, sweep, choice, sentAs>> /\ Untouched

\* mark_draft_sent writes the changed columns; the row may be gone.
MailMark(g) ==
  /\ gmail[g].pc = "accepted"
  /\ msg' = [msg EXCEPT ![gmail[g].message].type = IF @ = "gone" THEN "gone" ELSE "sent"]
  /\ gmail' = [gmail EXCEPT ![g].pc = "done"]
  /\ UNCHANGED <<req, fire, sweep, mailed, choice, sentAs>> /\ Untouched

\* Gmail answers with an error or the process dies: Cloud Tasks calls again.
MailDies(g) ==
  /\ gmail[g].pc \in {"loaded", "accepted"} /\ Spend("crash")
  /\ gmail' = [gmail EXCEPT ![g] = [pc |-> "queued", message |-> NULL]]
  /\ UNCHANGED <<now, allowed, msg, req, fire, sweep, mailed, choice, sentAs>>

(***************************************************************************)
(* The world                                                               *)
(***************************************************************************)
Tick ==
  /\ now < MaxTime
  /\ now' = now + 1
  /\ UNCHANGED <<msg, req, fire, gmail, sweep, allowed, mailed, choice, sentAs, ops, faults>>

\* The sender loses access to the thread.
Revoke ==
  /\ allowed /\ Spend("revoke")
  /\ allowed' = FALSE
  /\ UNCHANGED <<now, msg, req, fire, gmail, sweep, mailed, choice, sentAs>>

(***************************************************************************)
(* Specification                                                           *)
(***************************************************************************)
\* A thread with a draft, or without one.
Init ==
  /\ now = 0
  /\ msg \in {[m \in Messages |-> IF m = 1 THEN first ELSE NoRow] : first \in {NewDraft(NULL), NoRow}}
  /\ req = [r \in Requests |-> Idle]
  /\ fire = [f \in Fires |-> NoFire]
  /\ gmail = [g \in Mails |-> [pc |-> "none", message |-> NULL]]
  /\ sweep = {}
  /\ allowed = TRUE
  /\ mailed = [m \in Messages |-> 0]
  /\ choice = [m \in Messages |-> NULL]
  /\ sentAs = [m \in Messages |-> NULL]
  /\ \E s \in Starts : ops = s.ops /\ faults = s.faults

RequestStep(r) ==
  \/ \E op \in Operations : \E when \in Whens(op), archive \in Archives(op) :
       Load(r, op, when, archive)
  \/ \E replace \in BOOLEAN : LoadReply(r, replace)
  \/ Edit(r) \/ Send(r) \/ Schedule(r) \/ Unschedule(r) \/ Refused(r) \/ Delete(r)
  \/ CancelFire(r) \/ StartDraftRead(r) \/ StartDraftWrite(r)

FireStep(f) == FireStart(f) \/ FirePerform(f)
MailStep(g) == MailLoad(g) \/ MailSend(g) \/ MailMark(g)
SweepStep   == SweepRead \/ \E m \in Messages : SweepRow(m)

Next ==
  \/ \E r \in Requests : RequestStep(r)
  \/ \E f \in Fires : FireStep(f) \/ FireLost(f) \/ FireAgain(f)
  \/ \E g \in Mails : MailStep(g) \/ MailDies(g)
  \/ SweepStep \/ SweepDies
  \/ Tick \/ Revoke

Spec == Init /\ [][Next]_vars

\* Time passes, Cloud Tasks keeps calling, the sweeper keeps being scheduled.
Fairness ==
  /\ WF_vars(Tick) /\ WF_vars(SweepStep)
  /\ \A f \in Fires : WF_vars(FireStep(f))
  /\ \A g \in Mails : WF_vars(MailStep(g))

FairSpec == Spec /\ Fairness

(***************************************************************************)
(* Properties                                                              *)
(***************************************************************************)
\* A draft is scheduled exactly while it names a job; nothing else of the schedule
\* survives on a message that is no longer a draft (mark_draft_sending).
RowOK(m) ==
  /\ IsScheduled(msg[m]) <=> msg[m].job # NULL
  /\ msg[m].type # "draft" => ~IsScheduled(msg[m])

Choices == [when : Times, archive : BOOLEAN]

\* The type of every variable, with the shape of a message row.
TypeOK ==
  /\ now \in Times
  /\ msg \in [Messages -> [type : {"none", "draft", "sending", "sent", "gone"},
                           when : 0 .. Horizon, job : Fires \cup {NULL},
                           env : Requests \cup {NULL}]]
  /\ \A m \in Messages : RowOK(m)
  /\ \A r \in Requests :
       /\ req[r].pc \in {"idle", "loaded", "starting", "cancelling", "done"}
       /\ req[r].op \in Operations \cup {NULL}
       /\ req[r].draft \in Messages \cup {NULL}
       /\ req[r].job \in Fires \cup {NULL}
       /\ req[r].before \subseteq Messages /\ req[r].made \in Messages \cup {NULL}
  /\ fire \in [Fires -> [pc : {"none", "waiting", "running", "done", "lost", "cancelled"},
                         message : Messages \cup {NULL}, at : Times, archive : BOOLEAN]]
  /\ gmail \in [Mails -> [pc : {"none", "queued", "loaded", "accepted", "done"},
                          message : Messages \cup {NULL}]]
  /\ sweep \subseteq Messages
  /\ allowed \in BOOLEAN
  /\ mailed \in [Messages -> Nat]
  /\ choice \in [Messages -> Choices \cup {NULL}]
  /\ sentAs \in [Messages -> Choices \cup {NULL}]
  /\ ops \in [Requests -> SUBSET Operations]
  /\ faults \in [Faults -> Nat]

\* Nobody receives a message twice: of all the requests, timers and rebuilt timers that
\* race for a draft, one dispatches it, and its Gmail job sends it once, as long as that
\* job does not die after Gmail's answer and no other message of the thread was dispatched:
\* a job takes the first message that is sending (gmail.py:564), which two may do.
MailedOnce == \A m \in Messages : mailed[m] > 1 => \E n \in Messages \ {m} : sentAs[n] # NULL

\* Of two replies neither found the other's draft: the thread has two drafts for a while,
\* though start_draft promises one (thread.py:620), and the first may be the later one.
Overlapped == \E r, s \in Requests :
  Replied(r) /\ Replied(s) /\ r # s /\ req[r].made \notin req[s].before /\ req[s].made \notin req[r].before

ScheduledOnce == \A r, s \in Requests : req[r].op = "schedule" /\ req[s].op = "schedule" => r = s

\* What is dispatched was, at that moment, sent or scheduled by its user, and is archived
\* or not as they chose; an unscheduled draft stays put whatever old timers still fire.
\* Except when two replies overlapped: a timer checks its own message and sends the
\* thread's first draft (app/jobs/email.py:55). A draft that was scheduled a second time
\* may be sent by the timer, and with the archive option, of the first.
ChosenBeforeSent == ~Overlapped =>
  \A m \in Messages : sentAs[m] # NULL =>
    choice[m] # NULL /\ (ScheduledOnce => sentAs[m].archive = choice[m].archive)

Decided(m) == sentAs[m] # NULL /\ choice[m] # NULL

\* A fire that races an unschedule is handled by the job's own lock and guard
\* (email_drafts.py:341): a scheduled draft is not dispatched before the time its user
\* chose ...
FiredWhenDue == \A m \in Messages : Decided(m) => choice[m].when <= sentAs[m].when

\* ... which is so as long as nobody schedules a second time.
FiredWhenDueIfOnce == ScheduledOnce => FiredWhenDue

\* A scheduled draft is sent, unscheduled or removed in the end, lost timers included.
ScheduledIsSettled == \A m \in Messages : IsScheduled(msg[m]) ~> ~IsScheduled(msg[m])

\* A dispatched message is delivered, or withdrawn by its user, in the end.
DispatchedIsDelivered == \A m \in Messages :
  msg[m].type = "sending" ~> msg[m].type # "sending"

(***************************************************************************)
(* Drafts implements DraftLife.                                            *)
(***************************************************************************)
Life == [m \in Messages |->
  CASE msg[m].type = "draft" /\ IsScheduled(msg[m]) -> "scheduled"
    [] msg[m].type = "gone" /\ sentAs[m] # NULL -> "withdrawn"
    [] OTHER -> msg[m].type]

Promise == INSTANCE DraftLife WITH life <- Life

\* Every step moves each message forward in DraftLife, or does not move it.
KeepsPromise == Promise!Spec
=============================================================================
