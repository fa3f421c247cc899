------------------------------- MODULE Mailbox -------------------------------
(***************************************************************************)
(* The mailbox entry of one email thread, between the user who archives,   *)
(* reads and snoozes it, the provider's mailbox in which the user may do   *)
(* the same, the sync of Gmail's history records, the jobs that change     *)
(* Gmail's labels, and the job that wakes snoozed entries.                 *)
(*                                                                         *)
(* Messages are numbered in the order they arrive; all are from others.    *)
(***************************************************************************)
EXTENDS Naturals, Sequences, FiniteSets, SequencesExt

CONSTANTS
  Messages,   (* the messages of the thread: 1..n; the first is known to all   *)
  Starts,     (* bounds: how often Events happen                               *)
  NULL

Actions == {"archive", "unarchive", "read", "unread", "snooze", "unsnooze"}

\* Besides what the user does here: `arrive`: a message comes; `gmail`: the user archives,
\* restores, reads or unreads the thread in Gmail; `again`: a job is performed twice;
\* `crash`: the history job starts again with the record it was at.
Events == Actions \cup {"arrive", "gmail", "again", "crash"}

Labels == {"inbox", "unread"}

ASSUME MailboxAssumption ==
  /\ IsFiniteSet(Messages) /\ 1 \in Messages /\ Messages = 1..Cardinality(Messages)
  /\ Starts \subseteq [Events -> Nat]
  /\ NULL \notin {"asleep", "due"} /\ \A labels \in SUBSET Labels : labels # NULL

VARIABLES
  gmail,      (* the labels of each message at Gmail, NULL before it arrives   *)
  records,    (* Gmail's history that is not processed yet                     *)
  msg,        (* EmailMessage.labels of each message, NULL without a row       *)
  thread,     (* EmailThread.labels                                            *)
  entry,      (* MailboxEntry: labels, snoozed_until, last_activity_at         *)
  proc,       (* the history job and its copies                                *)
  request,    (* the request of the user and its copies                        *)
  jobs,       (* label jobs that wait; wakes: how many wake jobs do            *)
  want,       (* the labels the user was last given, or chose                  *)
  events      (* how many events are left, which there have been               *)

vars == <<gmail, records, msg, thread, entry, proc, request, jobs, want, events>>

Occur(e) == events' = [events EXCEPT !.left[e] = @ - 1, !.seen = @ \cup {e}]
Left(e) == events.left[e] > 0

\* Actions may note that they overlap what they should not.
Noting(kinds) == events' = [events EXCEPT !.seen = @ \cup kinds]
If(cond, kind) == IF cond THEN {kind} ELSE {}

Known(labels) == {m \in Messages : labels[m] # NULL}
Union(labels) == UNION {labels[m] : m \in Known(labels)}
Latest(labels) == CHOOSE m \in Known(labels) : \A k \in Known(labels) : k <= m

\* Something is under way that is still to change Gmail, the messages or the entry.
Echoing == jobs.labels # {} \/ jobs.wakes > 0 \/ records # <<>>

\* A label is still to be taken from every message that Gmail then has in the thread.
Removing == \E c \in jobs.labels : c.op = "remove"

-----------------------------------------------------------------------------
(***************************************************************************)
(* Gmail.                                                                  *)
(***************************************************************************)
Change == [op : {"add", "remove"}, label : Labels]

\* What an action asks of Gmail.
Chosen(a) ==
  CASE a \in {"archive", "snooze"} -> [op |-> "remove", label |-> "inbox"]
    [] a \in {"unarchive", "unsnooze"} -> [op |-> "add", label |-> "inbox"]
    [] a = "read" -> [op |-> "remove", label |-> "unread"]
    [] a = "unread" -> [op |-> "add", label |-> "unread"]

Applied(c, labels) == IF c.op = "add" THEN labels \cup {c.label} ELSE labels \ {c.label}

Ascending(S) == {order \in SetToSeqs(S) : \A i, j \in DOMAIN order : i < j => order[i] < order[j]}

\* A history record for each message that changes.
Modify(c) ==
  /\ gmail' = [m \in Messages |-> IF gmail[m] = NULL THEN NULL ELSE Applied(c, gmail[m])]
  /\ \E order \in Ascending({m \in Messages : gmail'[m] # gmail[m]}) :
       records' = records \o [i \in DOMAIN order |-> [of |-> order[i], adds |-> FALSE]]

Arrive(m) ==
  /\ gmail[m] = NULL /\ gmail[m - 1] # NULL /\ Left("arrive")
  /\ gmail' = [gmail EXCEPT ![m] = Labels]
  /\ records' = Append(records, [of |-> m, adds |-> TRUE])
  /\ events' = [left |-> [events.left EXCEPT !["arrive"] = @ - 1],
                seen |-> events.seen \cup If(Removing, "met")]
  /\ want' = Labels
  /\ UNCHANGED <<msg, thread, entry, proc, request, jobs>>

\* What the user takes out of the inbox or reads in Gmail is to be so here.
InGmail(c) ==
  /\ Left("gmail") /\ Modify(c)
  /\ want' = IF c.label = "inbox" /\ c.op = "add" THEN want ELSE Applied(c, want)
  /\ events' = [left |-> [events.left EXCEPT !["gmail"] = @ - 1],
                seen |-> events.seen \cup If(Echoing \/ request # NULL, "crossed")
                             \cup If(c = Chosen("unarchive"), "restored")]
  /\ UNCHANGED <<msg, thread, entry, proc, request, jobs>>

\* UpdateGmailThreadLabelsJob, RestoreGmailInboxLabelJob: in any order.
LabelJob(c) ==
  /\ c \in jobs.labels /\ Modify(c)
  /\ \/ jobs' = [jobs EXCEPT !.labels = @ \ {c}] /\ UNCHANGED events
     \/ Left("again") /\ Occur("again") /\ UNCHANGED jobs
  /\ UNCHANGED <<msg, thread, entry, proc, request, want>>

-----------------------------------------------------------------------------
(***************************************************************************)
(* The history job: each record in turn; a message is looked up and        *)
(* fetched, stored, and the entry synchronised.                            *)
(***************************************************************************)
Working == [at |-> "idle", fetched |-> {}, row |-> NULL, wasInbox |-> FALSE,
            copy |-> [m \in Messages |-> NULL]]

Record == Head(records)
Done == proc' = Working /\ records' = Tail(records)

Fetch ==
  /\ proc.at = "idle" /\ records # <<>>
  /\ IF ~Record.adds /\ msg[Record.of] = NULL THEN Done
     ELSE /\ proc' = [Working EXCEPT !.at = "fetched", !.fetched = gmail[Record.of],
                                     !.row = msg[Record.of], !.wasInbox = "inbox" \in thread]
          /\ UNCHANGED records
  /\ UNCHANGED <<gmail, msg, thread, entry, request, jobs, want, events>>

\* A message that is there already is not added; labels that are there already are not
\* saved; else the labels of the thread are the union again.
Store ==
  /\ proc.at = "fetched"
  /\ IF (Record.adds /\ msg[Record.of] # NULL) \/ proc.fetched = proc.row
     THEN Done /\ UNCHANGED <<msg, thread>>
     ELSE /\ msg' = [msg EXCEPT ![Record.of] = proc.fetched]
          /\ thread' = Union(msg')
          /\ proc' = [proc EXCEPT !.at = "syncing", !.copy = msg']
          /\ UNCHANGED records
  /\ UNCHANGED <<gmail, entry, request, jobs, want, events>>

\* Variant: what is unread wakes the entry, new or not.
SyncedWhenUnread(e, ms) ==
  LET new == Latest(ms) > e.upto \/ "unread" \in Union(ms)
      inbox == IF new /\ "inbox" \in Union(ms) THEN {"inbox"} ELSE {}
  IN  [labels |-> IF new THEN e.labels \cup inbox \cup {"unread"} ELSE e.labels \ {"unread"},
       snoozed |-> IF new THEN NULL ELSE e.snoozed,
       upto |-> Latest(ms)]

\* Variant: new activity does not put an archived entry in the inbox again.
SyncedReadState(e, ms) ==
  LET new == Latest(ms) > e.upto
  IN  [labels |-> IF new \/ "unread" \in Union(ms) THEN e.labels \cup {"unread"} ELSE e.labels \ {"unread"},
       snoozed |-> IF new THEN NULL ELSE e.snoozed,
       upto |-> Latest(ms)]

\* The entry is put in the inbox by new activity only, unless Gmail has archived all that
\* was received; it is unread when there is new activity or something is unread.
Synced(e, ms) ==
  LET new == Latest(ms) > e.upto
      inbox == IF new /\ "inbox" \in Union(ms) THEN {"inbox"} ELSE {}
  IN  [labels |-> IF new \/ "unread" \in Union(ms) THEN e.labels \cup inbox \cup {"unread"}
                  ELSE e.labels \ {"unread"},
       snoozed |-> IF new THEN NULL ELSE e.snoozed,
       upto |-> Latest(ms)]

\* Mailbox.sync, on the messages that were loaded before the entry was locked.
Sync ==
  /\ proc.at = "syncing"
  /\ entry' = Synced(entry, proc.copy)
  /\ IF proc.wasInbox /\ "inbox" \notin Union(proc.copy) /\ ~Record.adds
     THEN proc' = [proc EXCEPT !.at = "archiving"] /\ UNCHANGED records
     ELSE Done
  /\ UNCHANGED <<gmail, msg, thread, request, jobs, want, events>>

\* Variant: only the thread is archived.
LeaveThread ==
  /\ proc.at = "archiving"
  /\ thread' = Union(proc.copy) \ {"inbox"}
  /\ Done
  /\ UNCHANGED <<gmail, msg, entry, request, jobs, want, events>>

\* The last message has left Gmail's inbox.
Leave ==
  /\ proc.at = "archiving"
  /\ entry' = [entry EXCEPT !.labels = @ \ {"inbox"}]
  /\ thread' = Union(proc.copy) \ {"inbox"}
  /\ Done
  /\ UNCHANGED <<gmail, msg, request, jobs, want, events>>

\* The job starts again. What was stored is then not synchronised any more.
Crash ==
  /\ proc.at # "idle" /\ Left("crash")
  /\ events' = [left |-> [events.left EXCEPT !["crash"] = @ - 1],
                seen |-> events.seen \cup If(proc.at # "fetched", "lost")]
  /\ proc' = Working
  /\ UNCHANGED <<gmail, records, msg, thread, entry, request, jobs, want>>

-----------------------------------------------------------------------------
(***************************************************************************)
(* The user's requests: the rows are loaded, later written back whole, and *)
(* Gmail is told by a job.                                                 *)
(***************************************************************************)
Start(a) ==
  /\ request = NULL /\ Left(a)
  /\ events' = [events EXCEPT !.left[a] = @ - 1]
  /\ request' = [action |-> a, entry |-> entry, msg |-> msg, thread |-> thread]
  /\ UNCHANGED <<gmail, records, msg, thread, entry, proc, jobs, want>>

\* Variant: the last activity is after what will come.
AwakeLater(e) == [labels |-> Labels, snoozed |-> NULL, upto |-> Latest(gmail) + 1]

\* entry.unsnooze; its last activity is then now.
Awake(e) == [labels |-> Labels, snoozed |-> NULL, upto |-> Latest(gmail)]

\* What the row becomes, from the copy: snoozing what is snoozed has no effect.
Acted(a, e) ==
  CASE a = "snooze" -> IF e.snoozed = NULL THEN [e EXCEPT !.snoozed = "asleep", !.labels = @ \ {"inbox"}] ELSE e
    [] a = "unsnooze" -> IF e.snoozed # NULL THEN Awake(e) ELSE e
    [] OTHER -> [e EXCEPT !.labels = Applied(Chosen(a), @)]

\* Read and unread are for every message that was loaded, and then refresh the content.
OnMessages(a) ==
  /\ msg' = [m \in Messages |->
               IF request.msg[m] = NULL \/ Applied(Chosen(a), request.msg[m]) = request.msg[m] THEN msg[m]
               ELSE Applied(Chosen(a), request.msg[m])]
  /\ thread' = Union(msg')

Finish ==
  LET a == request.action
      acted == Acted(a, request.entry)
      saved == IF acted = request.entry THEN entry
               ELSE [entry EXCEPT !.labels = acted.labels,
                       !.snoozed = IF a \in {"snooze", "unsnooze"} THEN acted.snoozed ELSE @,
                       !.upto = IF a = "unsnooze" THEN acted.upto ELSE @]
  IN
  /\ request # NULL
  /\ CASE a \in {"read", "unread"} -> OnMessages(a)
       [] a \in {"archive", "unarchive"} -> thread' = Applied(Chosen(a), request.thread) /\ UNCHANGED msg
       [] OTHER -> UNCHANGED <<msg, thread>>
  /\ entry' = IF a \in {"read", "unread"} THEN [saved EXCEPT !.upto = Latest(msg)] ELSE saved
  /\ jobs' = [jobs EXCEPT !.labels = @ \cup {Chosen(a)}]
  /\ want' = Acted(a, [request.entry EXCEPT !.labels = want]).labels
  /\ request' = NULL
  /\ Noting(If(request.entry # entry \/ request.msg # msg \/ request.thread # thread, "torn")
            \cup If(Echoing, "crossed") \cup If(a = "snooze" /\ jobs.wakes > 0, "late") \cup If(a = "unsnooze", "woken"))
  /\ UNCHANGED <<gmail, records, proc>>

-----------------------------------------------------------------------------
(***************************************************************************)
(* Snoozing: CheckSnoozedMailboxEntriesJob and UnsnoozeMailboxEntryJob.    *)
(***************************************************************************)
Expire ==
  /\ entry.snoozed = "asleep"
  /\ entry' = [entry EXCEPT !.snoozed = "due"]
  /\ UNCHANGED <<gmail, records, msg, thread, proc, request, jobs, want, events>>

\* A tick of the scan may come before the jobs of the last one are performed.
Tick ==
  /\ entry.snoozed = "due" /\ jobs.wakes < 2
  /\ jobs' = [wakes |-> jobs.wakes + 1, labels |-> jobs.labels \cup {Chosen("unsnooze")}]
  /\ Noting({"woken"} \cup If(records # <<>> \/ Removing, "overtaken"))
  /\ UNCHANGED <<gmail, records, msg, thread, entry, proc, request, want>>

Wake ==
  /\ jobs.wakes > 0
  /\ \/ jobs' = [jobs EXCEPT !.wakes = @ - 1] /\ UNCHANGED events
     \/ Left("again") /\ Occur("again") /\ UNCHANGED jobs
  /\ IF entry.snoozed = NULL THEN UNCHANGED <<entry, want>>
     ELSE entry' = Awake(entry) /\ want' = Labels
  /\ UNCHANGED <<gmail, records, msg, thread, proc, request>>

-----------------------------------------------------------------------------
Init ==
  /\ gmail = [m \in Messages |-> IF m = 1 THEN Labels ELSE NULL]
  /\ records = <<>> /\ msg = gmail /\ thread = Labels
  /\ entry = [labels |-> Labels, snoozed |-> NULL, upto |-> 1]
  /\ proc = Working /\ request = NULL
  /\ jobs = [labels |-> {}, wakes |-> 0]
  /\ want = Labels
  /\ \E left \in Starts : events = [left |-> left, seen |-> {}]

Process == Fetch \/ Store \/ Sync \/ Leave

Next ==
  \/ \E m \in Messages \ {1} : Arrive(m)
  \/ \E c \in Change : InGmail(c) \/ LabelJob(c)
  \/ Process \/ Crash
  \/ (\E a \in Actions : Start(a)) \/ Finish
  \/ Expire \/ Tick \/ Wake

Spec == Init /\ [][Next]_vars

\* Jobs are performed, requests end, time passes and the scan recurs.
Fairness == /\ WF_vars(\E c \in Change : LabelJob(c)) /\ WF_vars(Process) /\ WF_vars(Finish)
            /\ WF_vars(Expire) /\ WF_vars(Tick) /\ WF_vars(Wake)

FairSpec == Spec /\ Fairness

-----------------------------------------------------------------------------
(***************************************************************************)
(* Properties                                                              *)
(***************************************************************************)
LabelsOf == [Messages -> (SUBSET Labels) \cup {NULL}]
Entries == [labels : SUBSET Labels, snoozed : {NULL, "asleep", "due"}, upto : Messages]

\* The shape of every variable.
TypeOK ==
  /\ gmail \in LabelsOf /\ msg \in LabelsOf /\ thread \subseteq Labels /\ entry \in Entries
  /\ records \in Seq([of : Messages, adds : BOOLEAN])
  /\ proc.at \in {"idle", "fetched", "syncing", "archiving"} /\ proc.wasInbox \in BOOLEAN
  /\ proc.copy \in LabelsOf
  /\ request = NULL \/ request \in [action : Actions, entry : Entries, msg : LabelsOf, thread : SUBSET Labels]
  /\ jobs \in [labels : SUBSET Change, wakes : 0..2] /\ want \subseteq Labels
  /\ events.left \in [Events -> Nat]

Without(kinds) == events.seen \cap kinds = {}

\* A snoozed entry sleeps until its time: only a message that it did not have, or the user,
\* wakes it earlier (mailbox.py:318, email/mailbox.py:139). Except one that was snoozed
\* again while a job of its last snooze still waits ("late"): the job looks at no time.
SnoozeHolds ==
  [][entry.snoozed = "asleep" /\ entry'.snoozed = NULL /\ Without({"late"})
     => entry'.upto > entry.upto \/ (request # NULL /\ request.action = "unsnooze")]_vars

\* A woken entry is unread until Gmail's labels, put back by its job, are synchronised.
Compared(labels) == IF "woken" \in events.seen THEN labels \ {"unread"} ELSE labels

\* In the end the entry is awake and where the user last put it, here or in Gmail, or a
\* message or the end of a snooze after that did. Except:
\*   "crossed"    the user acted, here or in Gmail, while an action, a record of Gmail's or
\*                a wake was under way between the two;
\*   "met"        a message arrived while a removal was on its way to Gmail, which there
\*                takes the label from it as well, so that it is lost here too
\*                (jobs/gmail.py:550, email/mailbox.py:291);
\*   "overtaken"  a snooze ended while a removal, or the records of one, was under way;
\*   "torn"       the rows changed between a request's load and its write;
\*   "lost"       the history job stopped after it had stored the labels.
KeepsChoice ==
  <>[](entry.snoozed # "due"
       /\ (Without({"torn", "crossed", "met", "overtaken", "lost"}) => Compared(entry.labels) = Compared(want)))

\* In the end the labels of the messages are those at Gmail, and those of the entry are
\* their union. Except as above; and what Gmail has put back in its inbox ("restored")
\* is not put back here (email/mailbox.py:275).
SidesAgree ==
  <>[](/\ Without({"torn"}) => msg = gmail
       /\ Without({"torn", "crossed", "met", "overtaken", "lost", "restored"})
          => Compared(entry.labels) = Compared(Union(gmail)))

=============================================================================
