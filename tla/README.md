# A TLA+ verification of Convictional

Convictional is a FastAPI server (Python, PostgreSQL, Google Cloud Tasks) with a
React front end. This directory holds TLA+ models of the parts whose correctness
depends on interleavings, crashes and retries; the TLC configurations that check
them on small instances; and TLAPS proofs for every instance.

Paths below are relative to the repository. `PROJECT.json` maps each definition
to the lines it models, and lists the hazards with the properties that cover them.

1. [What is here](#1-what-is-here)
2. [The system](#2-the-system)
3. [The modules and the code](#3-the-modules-and-the-code)
4. [The runs](#4-the-runs)
5. [Fairness](#5-fairness)
6. [The proofs](#6-the-proofs)
7. [Where code and documentation differ](#7-where-code-and-documentation-differ)
8. [Abstractions and what is not modelled](#8-abstractions-and-what-is-not-modelled)
9. [Plan](#9-plan)

## 1. What is here

| module | models | instance | proofs |
|---|---|---|---|
| `Jobs` | the background-job engine: rows, outbox, Cloud Tasks handler, groups, sweep, reaper | `MCJobs` | `Jobs_proofs` |
| `Drafts` | sending and scheduling an email draft | `MCDrafts` | `Drafts_proofs` |
| `DraftLife` | what scheduled sending promises; `Drafts` implements it | (through `Drafts`) | `Drafts_proofs` |
| `SharedConnection` | one WebSocket for all tabs of a browser | `MCSharedConnection` | `SharedConnection_proofs` |
| `LiveDocuments` | collaborative editing of one document | `MCLiveDocuments` | `LiveDocuments_proofs` |
| `Messaging` | the LISTEN/NOTIFY adapter of a server process | (through `Channels`) | `Channels_proofs` |
| `Channels` | the WebSocket sessions of a server process, on `Messaging` | `MCChannels` | `Channels_proofs` |
| `GmailSync` | one Gmail account kept in step with its mailbox | `MCGmailSync` | `GmailSync_proofs` |
| `Mailbox` | the mailbox entry of one email thread: filing, snoozing, sync | `MCMailbox` | `Mailbox_proofs` |
| `Research` | one research: query jobs in parallel, report and mail | `MCResearch` | `Research_proofs` |

Run `tlc -config <cfg> <module>` for a run of section 4, and
`tlapm <module>_proofs.tla` for the proofs.

## 2. The system

### 2.1 Components that are modelled

**Background jobs** (`infra/jobs.py`, `app/middleware/jobs.py`,
`app/jobs/maintenance.py`).
*State:* `Job` rows (status columns, `task_name`), `JobGroup` rows
(`total_jobs`, `remaining_jobs`), a `JobsOutbox` per request, and the tasks Cloud
Tasks holds.
*Operations:* enqueue (a row in the caller's transaction, then after the commit a
task per row, then its name saved), the HTTP handler Cloud Tasks calls, success,
failure, final retry, termination, cancel, reschedule, `update_status` of a group
with its callback job; two recurring jobs repair: `EnqueueOutboxJob` enqueues rows
that are without a task half an hour after they were created
(`job_timeout_seconds`), and `TerminateDeadCloudTasksJob` ends rows whose task is gone.
*Hard:* delivery is at least once, with a deadline after which an attempt that
still runs is repeated; every handler holds an in-memory copy of the row and saves
all of its columns; a process may die between any two writes.
*Correct means:* completed rows were performed, finished rows stay finished, the
callback of a group runs after its members and once, nothing is forgotten,
everything ends.

**Email drafts and scheduled sending** (`app/routers/api/email_drafts.py`,
`app/models/workspaces/email/thread.py`, `app/jobs/email.py`,
`integrations/google/jobs/gmail.py`).
*State:* the `EmailMessage` rows of a thread (type, `scheduled_send_at`,
`scheduled_send_job_id`, envelope), the timer jobs, the Gmail jobs.
*Operations:* edit, send, schedule, unschedule, delete, reply (which replaces the
draft); the timer fires; the sweeper rebuilds an overdue timer; the Gmail job
sends and marks the message.
*Hard:* every request works on a copy of the draft that was loaded before any lock
and writes it back whole; cancelling a timer is best effort; the Gmail job finds
"the" message that is being sent.
*Correct means:* mailed at most once, only as the user last chose, not early;
settled in the end.

**Shared WebSocket connection and channels client**
(`app/javascript/channels/backends/sharedConnection.ts`, `backends/websocket.ts`,
`client.ts`, `subscriptionManager.ts`).
*State per tab:* visibility, leadership, abort controller, grace timer, socket
with its retry counter, what the client subscribes to, the leader's subscription
counts; shared: a Web Lock, a BroadcastChannel.
*Operations:* contend, become leader, hide, show, close, the grace period, connect,
drop, back off, park while offline, give up, relay subscribe and unsubscribe,
announce the state.
*Hard:* the lock callback awaits the first connect while the page is hidden or
closed; messages are addressed to "the leader", whoever that is when they arrive.
*Correct means:* one connection per browser, every visible tab is in the election
and connected in the end, wanted topics are subscribed and unwanted ones are not.

**Live documents** (`app/channels/live_documents.py`,
`app/models/collaboration/live.py`, `app/javascript/channels/yjsProvider.ts`,
`app/jobs/live_documents.py`), on top of **Messaging** (`infra/messaging.py`).
*State:* update rows, one `SharedDocument` per server and topic, the browsers'
Yjs documents, messages and notifications under way.
*Operations:* load and listen, sync steps 1 and 2, update, broadcast, insert,
merge of the rows of a stable topic, reconnect.
*Hard:* several servers and browsers, lost notifications, a server that dies
between broadcast and insert, a listener that dies with a task, merges that
overlap inserts.
*Correct means:* what is stored is never lost, what is typed is stored and seen by
everyone in the end.

**Channels server** (`app/channels/base.py`) on **Messaging** (`infra/messaging.py`).
*State:* per session its subscriptions, a lock and a task per message; per process
one LISTEN connection, a queue of commands and the callbacks of its listeners.
*Operations:* subscribe (authorize, register under the lock, `start()`, which waits
until the adapter has done the command), unsubscribe, a message to a channel, close
with clean-up; the adapter's loop processes commands, notices a broken connection
and listens again.
*Hard:* every message is a task of its own; a subscription is registered before it
has started; a command is taken from the queue before it is done.
*Correct means:* a confirmed topic is listened for whenever the connection is up, a
listener has an owner, everybody is answered, closed sessions leave nothing behind.

**Gmail sync** (`integrations/google/jobs/gmail.py`, `gmail_onboarding_sync.py`,
`integrations/google/models.py`, `gmail.py`, `router.py`).
*State:* the `GmailAccount` row (history cursor, synced marker, lock), the rows of
the messages, the watch at Gmail, the history jobs that wait.
*Operations:* webhook, history job (lock, list, a processor per record, mark),
watch set-up and renewal, health check, onboarding sync page by page up to a limit.
*Hard:* the lock has a timeout shorter than the job; pushes get lost; Gmail's history
lags and expires; three writers move one cursor from what each has read.
*Correct means:* one sync at a time, no record is passed whose effect is not stored,
all mail arrives in the end, as far as the onboarding sync's limit lets it.

**Mailbox and snoozing** (`app/models/collaboration/mailbox.py`,
`app/models/workspaces/email/mailbox.py`, `app/routers/api/mailbox_entries.py`,
`app/jobs/mailbox.py`, `integrations/jobs.py`).
*State:* labels at Gmail, on the messages, on the thread and on the entry; the time an
entry is snoozed to; label jobs and wake jobs that wait; history records.
*Operations:* archive, unarchive, read, unread, snooze, unsnooze; the same in Gmail; a
message arrives; the history job stores labels and calls `Mailbox.sync`; a scan every
minute enqueues a wake job for each entry whose time has come.
*Hard:* each action is written here at once and comes back later as an echo of the
change it makes at Gmail; jobs are unordered and may be repeated.
*Correct means:* a snooze lasts, the user's last choice stands, both sides agree in the
end.

**Research** (`app/jobs/research.py`, `app/jobs/mailers.py`,
`app/models/collaboration/content.py`).
*State:* iterations, queries and their rows, the report, the mail.
*Operations:* plan an iteration, search, review, start a deeper iteration, look
whether all is complete, write or publish the report, mail it.
*Hard:* the queries run in parallel and each decides whether it was the last one; jobs
are performed at least once.
*Correct means:* one mail, with all that was found, in the end.

### 2.2 A component with a protocol that is not modelled

- **Meetings and Recall AI** (`integrations/recall_ai`, `app/jobs/meetings.py`):
  bots per calendar event; transcripts through a job group (see `Jobs`).

### 2.3 Components without a protocol of their own

Notifications and push (best-effort sends that nothing repairs), database layer (its
transactions, row locks and `after_commit` callbacks are the atomicity of the steps of
every module), cache, accounts and OAuth, content
indexing, goals, posts and chats (idempotent jobs and CRUD), third-party
integrations and LLM calls (pure I/O), the views of the front end, deployment.

### 2.4 How they interact

```
 browser tabs --BroadcastChannel, Web Lock--> leader tab --WebSocket--> channels server
     | HTTP                                                                |
     v                                                                     v
  requests --rows + outbox--> PostgreSQL <--update rows-- live documents --NOTIFY--> other servers
     | after commit
     v
  Cloud Tasks --HTTP, at least once--> Job.run --> drafts, Gmail sync, research, merges, sweeps
     ^                                               |
     | push by Pub/Sub                               v
   Gmail <--labels, mail, history------------- messages, threads --Mailbox.sync--> mailbox entries
```

`Channels` extends `Messaging`. `GmailSync` says which record of Gmail is stored when;
`Mailbox` starts from the records it delivers and models what they do to the labels.
What `Jobs` promises (at least once, repeated attempts, unordered) is what jobs do in
`Drafts`, `GmailSync`, `Mailbox` and `Research`.

## 3. The modules and the code

Every module is written from the code: one action per handler, or per part of one
between two points where another actor can step in (a commit, an `await`, a call
to an external service). Counters such as `faults` and `events` say how often
something that nobody controls may happen. They bound the instances and, because
they also remember what has happened (`seen`), let a property say exactly under
which circumstances it is guaranteed. The definitions headed *Variant* are
plausible mistakes in one operation; the specifications do not use them. They
show that each property notices the mistake it is meant for (`mutants` in
`PROJECT.json`).

### Jobs

| variable | in the code |
|---|---|
| `row` | `Job` rows: `task_name`, `started_at`, `completed_at`, `terminated_at`, `error` |
| `group` | the `JobGroup` row and its newest callback job |
| `task` | Cloud Tasks: queued, leased to a handler, gone; failed attempts |
| `exec` | the handler each worker runs: its phase, its copy of the row (`mem`), the copy `reschedule` loads (`fresh`) |
| `outbox` | `JobsOutbox` of each process; `NULL` stands for entries whose row was rolled back |
| `sweep`, `reaper` | what `EnqueueOutboxJob` and `TerminateDeadCloudTasksJob` have read |
| `performed`, `faults` | history and bounds |

`Dispatch` is `perform_job_endpoint` up to `run()`; `Start`, `PerformOk`,
`PerformRaises`, `FinishRead`, `FinishCommit`, `FinishAborts`, `FailSave`, `FailSettle`
are `Job.run` (an entry that `JobsOutbox.add` made inside a transaction that aborts
survives it: `CreateVoidTask` is its task, which is answered 404); `RunReturns`,
`FinalCheck`, `Terminate`, `AnswerOk` are the answers of the endpoint, including the
final retry. `UpdateStatus` is `JobGroup.update_status`, used by each action whose
transaction calls it. `Saved` is the full-column save that makes stale copies dangerous;
`cancel`, the reaper and the task names write only the columns they name, and so do
their actions. `Cut` notes when a handler dies, or its transaction fails, inside a
reschedule after the old row was terminated and before the new one is there.

### Drafts and DraftLife

`msg` holds the rows, `req` the requests with the copy each loaded, `fire` the
`ScheduledDraftSendJob`s, `gmail` the `SendEmailThroughGmailJob`s, `sweep` what the
sweeper has read. `Load` is everything before the lock (dependency, access and
body checks); `Send`, `Schedule` and `Unschedule` are the transactions that lock the
row, test the locked row and then save the *loaded* one; `Edit` and `Delete` take no
lock. `CancelFire` is `cancel_job`, which may find the timer running. `FireStart` is
Cloud Tasks calling the timer, `FirePerform` its transaction: it locks the message
of the timer and sends the first draft of the thread. `choice` (how the user last
asked for the message to be sent) and `sentAs` are history.

Messages are numbered in the order of `created_at`, by which the code sorts them. A reply
is two steps: `StartDraftRead` reads the thread (`before` is what there was), and
`StartDraftWrite` commits the new draft (`made`). The stamp is taken between the two, so
that a draft may land in front of one that another reply has committed meanwhile, but
never in front of a message its reply has read (`Stamps`). Two replies neither of which
found the other's draft are `Overlapped`.

`DraftLife` is the abstract specification: a message moves draft, scheduled,
sending, sent, or is removed, and the provider is asked after dispatch and once, unless
another message of the thread was dispatched too (the Gmail job knows the thread only).
`Drafts` implements it under the mapping `Life`; the run checks `Promise!Spec`.

### SharedConnection

`tab` is one record per tab (backend, socket, client, page), `inbox` its unread
BroadcastChannel messages, `lock` and `queue` the Web Lock with its requests, `online`
the network. `BecomeLeader` is the grant with `becomeLeader` up to its `await`;
`lock.awaiting` says that the first connect is still awaited, `aborted` that the
callback's signal was aborted, and `ReleaseLock` needs both the end of the await and the
abort, as the callback does. `Exited` is what `exitLeadershipContention` resets.
`cleanupConnection` closes a socket that is open; one that is still connecting it
forgets without closing it, and that one goes on connecting: `strays` counts them
(`Strays`), and `StrayEnds` is the end of one. `Reconnect` is `attemptReconnect` with
its three outcomes; `LeaderSubscribe` and `LeaderUnsubscribe` are the counts in
`leaderSend`.

### LiveDocuments

`rows` are the stored updates, `srv` the session of each server (`none`, `loaded`,
`live`, or `dead` once its TaskGroup has been cancelled) with its document and the
tasks of `handle_document_change`, `notes` the notifications it has not handled,
`cli` the browsers, `up` and `down` the two directions of a connection. `events.lost` is
history: the edits whose task was broadcast and then ended, by a death or a failure of the
server, before it inserted them.
`ProcessSyncMessage` is one message from the session's queue; `Broadcast` and
`Persist` are the two halves of the task; `ServerSyncUpdate` applies a remote update
(with the remote origin, so that the observer starts no task) and forwards it.
`MergeRead` and `MergeCommit` are the transaction of `merge_stable_topics`.

### Messaging and Channels

`conn` is the LISTEN connection, `listens` the callbacks it has a listener for, `wrappers`
the adapter's table of callbacks, `queue` the commands, `done` the tasks whose command is
done. `Break` takes all listeners away; the loop, which waits at its queue, notices at the
next command (`broken`, then `down`). `Reconnect` opens a connection and `ListenAgain` adds
the listeners of the table one by one, which may be interrupted by another break.
`ProcessSubscribe` and `ProcessUnsubscribe` are `_process_command`; `Put` queues a
command and `Resume` goes on when it is done. In `Channels`, `task[s][i]` is where the
task of the i-th message of session s is, task 0 being the message loop, which cleans
up when it ends; `subs` is `WebSocketSession.subscriptions`, `lock` its `_lock`, `todo`
what clean-up has still to stop. A callback is named after the task that made it, so
that "the newer subscription of the topic" can be told from the older.

### GmailSync

`history` is Gmail's sequence of records; `local` says, for each message, the newest
record whose effect is stored. `Load`, `TryLater`, `List`, `Skip`, `Fetch`, `Save`,
`Mark` and `Fail` are `ProcessGmailHistoryJob` with its message processors, between
the points where another worker can step in; `Acquire` and `Release` the lock;
`CallWatch` and `SaveWatch` a renewal; `Health` the health check. The onboarding sync lists
page by page: `OnboardList` loads the account and takes a page of what is left (`todo`),
`OnboardFetch` and `OnboardCreate` work it off, `OnboardMark` moves the cursor, and
`OnboardEnds` marks the sync as complete when nothing is left or as many messages are
stored as its `limit` allows, in which case `todo` keeps what it has left out.

### Mailbox

`gmail`, `msg`, `thread` and `entry` are the four places a label is kept in, `records`
the echo of changes at Gmail. `Start` and `Finish` are a request: what it loads, and
what it writes from the copies; `LabelJob` is the job that carries the action to Gmail;
`Fetch`, `Store` and `Leave` the history job on one record; `Synced` is
`Mailbox.sync`; `Tick` and `Wake` the scan and the wake job. `want` is history: what the
user last chose, or a message after that. What overlaps is noted: `crossed`, `met`,
`overtaken`, `torn`, `late` (section 7).

### Research

One action per part of `ResearchQueryJob` between two writes: `Search`, `Review`,
`Spawn` (the next iteration), `Check` and `Enqueue` (was it the last? `Open` looks at
the newest report job only, as the lookup of unique jobs does); `Plan` is
`ResearchIterationJob`, for any number of queries up to the bound `MaxBreadth`, since
`queries_count` is only asked for in the prompt; `Write` and `Record` the report of a
question, `Write`, `Publish` and `Deliver` that of a scheduled delivery; `Send` and
`SaveId` the mailer. `Fail`, `Rewrite` and repeated plans are attempts that are
performed again.

## 4. The runs

Twelve runs, each a question. Eleven pass; one shows that a comment in the repository
does not hold (section 7).

| run | module, cfg | question | distinct states |
|---|---|---|---|
| `jobs_safety` | `MCJobs`, `jobs_safety.cfg` | Do stale copies, crashes, repeats and repairs ever corrupt rows or groups? | 642k |
| `jobs_liveness` | `MCJobs`, `jobs_liveness.cfg` | Is work completed, and does a group run its callback? | 16k |
| `drafts_safety` | `MCDrafts`, `drafts_safety.cfg` | Is a message mailed once, as chosen, whoever races for it? | 1113k |
| `drafts_liveness` | `MCDrafts`, `drafts_liveness.cfg` | Is what is scheduled settled and what is dispatched delivered? | 134k |
| `shared_safety` | `MCSharedConnection`, `shared_safety.cfg` | One connection, no tab left out, the wanted topics? | 667k |
| `shared_liveness` | `MCSharedConnection`, `shared_liveness.cfg` | Do hidden tabs let go and visible tabs reconnect? | 138k |
| `live_documents` | `MCLiveDocuments`, `live_documents.cfg` | Is nothing stored lost, everything typed stored and seen? | 313k |
| `channels` | `MCChannels`, `channels.cfg` | Is every subscriber answered and heard, and nothing left behind? | 247k |
| `gmail_sync` | `MCGmailSync`, `gmail_sync.cfg` | Does all mail within the limit arrive, and does the cursor pass none? | 617k |
| `mailbox` | `MCMailbox`, `mailbox.cfg` | Does a snooze last, a choice stand, do both sides agree? | 539k |
| `research` | `MCResearch`, `research.cfg` | One mail, with the whole report, in the end? | 584k |
| `research_early` | `MCResearch`, `research_early.cfg` | Does `is_completed` wait for every branch? *No.* | |

All runs say `CHECK_DEADLOCK FALSE`: requests are served once, faults are finite,
and a system in which everything has ended may stop.

### Properties

*Jobs.* `CompletedMeansPerformed`: `completed_at` is only stored for performed work.
`CallbackIsBarrier`: the callback of a group starts when all its members are done, unless
an attempt failed or was repeated while it ran (`NoneFails`).
`FinishedStaysFinished`: no stale copy reopens a row, unless something gave two writers a
copy (`NoOverlap`): an attempt repeated while it ran, a cancellation by a user, or a job
that rescheduled itself (which leaves `run` with a copy older than the row) in a run where
attempts also raise (which makes `run` save that copy). `WorkGetsDone`: a lone job or its
replacement is completed, unless a handler died, or its transaction failed, between the
commit of the cancellation and the replacement (`cut`); deaths anywhere else are not
excused. `CallbackRuns`: a group that is complete runs its callback.

*Drafts.* `MailedOnce` (twice only if another message of the thread was dispatched),
`ChosenBeforeSent` (what is dispatched was sent or scheduled by its user, and is archived or
not as they chose; not when two replies `Overlapped`, and the archive option not when
the draft was scheduled twice), `FiredWhenDueIfOnce`, `KeepsPromise` (the refinement),
`ScheduledIsSettled`, `DispatchedIsDelivered`.

*SharedConnection.* `OneConnection` (one backend has a socket; and, unless a grace period
ends during the handshake of a reconnection, `abandon`, the browser has one socket, those
that were let go included), `VisibleContends`, `WantedIsSubscribed`,
`HiddenReleasesLockInTime`, `VisibleIsConnected`.

*LiveDocuments.* `StoredNeverShrinks`; `EditIsStoredInTime`: whatever a browser has is
stored, except edits that were broadcast and never inserted (`lost`) and browsers whose
session has lost its listener (`Deaf`); an edit whose server dies at any other point is
stored after all; `EveryoneSees`.

*Channels.* `EveryListenerHasAnOwner`; `ConfirmedIsHeard`: while the connection is up it
listens for the callback of every browser that was told its subscription is confirmed, also
a connection that was opened after a loss; `SubscribeIsAnswered`; `SessionEnds`, unless a
subscribe waits for ever (`Stuck`), messages of a topic overlapped or a subscribe came
after the clean-up (`late`).

*GmailSync.* `OneSyncAtATime`, `CursorCovers` (no record at or before the cursor whose
effect is not stored), `MailArrives` (all that Gmail has is stored as Gmail has it, but for
what the onboarding sync's limit has left out, `LeftOut`).

*Mailbox.* `SnoozeHolds` (only a new message or the user ends a snooze before its time),
`KeepsChoice` (in the end the entry is where the user last put it), `SidesAgree` (in the
end its labels are Gmail's); the comments of both list what they except.

*Research.* `MailedOnce`, `ReportIsWhole` (to depth 2, the one that is used,
`content.py:1749`), `ReportArrives`; `NoBranchIsMissed` is the one
that fails.

Several properties are conditional (`NoneFails`, `NoOverlap`, `ScheduledOnce`,
`Overlapped`, `LeftOut`, `Without(...)`, `Stuck`). Each condition names the events
without which the code guarantees the property; the events themselves stay in the runs,
so that the unconditional properties are checked through them. Where a property fails
when a condition is dropped, the hazard in `PROJECT.json` and section 7 say so.

### Bounds and why they are enough

*Jobs.* Two workers: overlapping handlers come in pairs. A group of two members with at
most two callback rows: a callback that is early or repeated needs no more. Two tasks
per row (the original and the sweep's). `RetryCount = 1`, so that each of the ordinary
attempt, the final retry and the exhausted one happens; a poisoned job fails through all
of them. One `perform()` reschedules its job once. The faults are split over starts
(`Crashes`, `Failing`, `Overlapping`, `Cancelling`, ...) because their full product is
out of reach; each start combines those that meet in the same window. Workers are
symmetric in the safety runs; the liveness run uses no symmetry.

*Drafts.* Three requests: two that race and one that takes back what they did. Two
messages (the draft and its replacement), three timers (the original, another and a
rebuilt one), two Gmail jobs, time 0 to 2 with a grace period of 1: scheduled, due
and overdue are all reached, and a draft can be scheduled again after it was due. One start
has two replies and a request that schedules one of their drafts.

*SharedConnection.* Three tabs in the safety runs (a leader, a follower and one that
arrives or leaves) and two in the liveness runs. `MaxAttempts = 1` lets the
exhausted branch happen after one retry. Two to four subscriptions between the tabs,
so that counts exceed one. The lagging start has two hand-overs, the fewest after which a
stale unsubscribe costs a topic.

*LiveDocuments.* Two servers and two browsers, which are on the same server or on
different ones; one new edit and two rows left by earlier sessions; two merges that
overlap. The start of the merges has both browsers on one server, because merging
does not depend on where they are.

*Channels.* Two sessions and two topics, up to four messages each: one browser that
subscribes, leaves, comes back and leaves again (an unsubscribe that overtakes a
subscribe of the same topic needs three); two browsers on a connection that breaks
twice (the second break hits the reconnection, before, between or after the listeners
are added); two that talk.

*GmailSync.* One message from before and one that arrives later, two history records
beyond the first, two workers: what a lock and a cursor can get wrong needs two of each.
The onboarding sync has up to two pages of any content; one start has a limit of one
message, so that it ends with another left out, the others a limit that is not reached. The
faults are split over starts by the window they meet in.

*Mailbox.* A thread of three messages, one of them known at first; two to four actions
of the user, so that an action can meet the echo of another and of a message.

*Research.* Depth 2 and plans of up to two queries (a bound): a leaf beside a sibling
that has yet to branch; four query jobs. Parallel queries are switched off in one start,
because `ReportIsWhole` is guaranteed only then.

## 5. Fairness

*Jobs:* weak fairness of each handler, of each flush, of dispatching, of the sweep
and of the reaper: processes run on unless they are killed, Cloud Tasks keeps
calling, Cloud Scheduler calls both recurring jobs for ever. Which task is
dispatched first is left open.

*Drafts:* time passes, timers and Gmail jobs are called, the sweeper is scheduled.
Requests are never forced: a user may stop at any point.

*SharedConnection:* the browser delivers messages and grants the lock, its timers
fire, a handshake ends one way or the other, the network comes back. No user action
(show, hide, close, subscribe) is forced.

*LiveDocuments:* weak fairness per server (its tasks, its notifications) and per
browser (reconnect, the resync interval, the debounce). Nobody has to edit and no
merge has to run.

*Channels:* the event loop runs each task that can go on, and the adapter's loop.
Nobody has to send a message or close.

*GmailSync:* waiting history jobs are performed and go on; the health check, the watch
renewal and the onboarding job recur or are repeated until they succeed; a lock whose
owner is gone goes stale. Neither mail nor pushes are forced.

*Mailbox:* jobs are performed, a request that has begun ends, time passes, the scan
recurs. The user and Gmail do what they want.

*Research:* every job that waits is performed, and goes on.

Faults are never fair, and all of them are finite: a system that is broken again and
again guarantees nothing.

## 6. The proofs

All proofs are checked by TLAPS for any constants that satisfy the modules' assumptions:
any number of rows, workers, tabs, attempts and faults. Two theorems about `Drafts` and
the three about `Research` have a hypothesis on the constants, which is named below.

**Jobs** (`Jobs_proofs`).
- `TypeCorrect`: `Spec => []TypeOK`. `TypeOK` is not inductive: a handler's actions use
  the row and the task it works on. The strengthening `HasJob` says that a worker that
  runs a handler has a job, and a task of that job.
- `CompletedCorrect`: `Spec => []CompletedMeansPerformed`. Rows are overwritten from
  copies, so the invariant has to speak about the copies as well. `HonestMemory`: no
  copy in memory says `completed` for a job that was not performed, and a handler that
  has returned from `perform()` has a performed job. Each save then stores what some
  copy was entitled to say; `SavedType` and `UpdateStatusType` do this once for all
  saves.

- `SoleHolds`: `Spec => []Sole`. A stale copy does harm only when a second writer
  exists, so `Sole` says, of every row for which nothing has made one (`Calm`), that
  there is none and that none can come. The places a second task could come from are an
  outbox that still holds the row (`Awaiting`), one that holds its name (`Named`) and
  the sweep (`Swept`): in each case no other task lives and no other place holds the
  row. The reaper ends only rows whose task is gone (`Doomed`). There is one live task
  (`OneTask`) and one handler (`OneHandler`), and of the handler: no other task will be
  made (`Only`), its task is leased to it unless the job has rescheduled itself
  (`Leasing`), the row is unfinished until it has saved (`Unsaved`), and its copies name
  no other task (`Copying`, `Naming`). Three lemmas carry the step: `QuietStep` for
  actions that leave a row's places alone, `HandlerStep` for those of its own handler,
  `InsertStep` for a new row.
- `FinishedStaysFinishedHolds`: `Spec => FinishedStaysFinished`, from `Sole`: whoever
  saves a row is its one handler, and saves an unfinished copy only over an unfinished
  row.
- `CountedHolds`: `Spec => []Counted`. A member is `Owed` to the counter until the step
  that settles it, and `Counted` says that `remaining_jobs` is at least the number that
  are owed. A finished member can be owed: one that has rescheduled itself and has not
  yet inserted its replacement, or one whose handler has saved it and has yet to tell
  the group. `Sole` is needed again, because a member with two handlers would be
  subtracted twice.
- `CallbackIsBarrierHolds`: `Spec => CallbackIsBarrier`. The step that inserts a
  callback row leaves the counter at zero, hence owes nothing, hence all members are
  finished.

**SharedConnection** (`SharedConnection_proofs`).
- `TypeCorrect`: `Spec => []TypeOK`.
- `OneConnectionHolds`: `Spec => []OneConnection`.
- `VisibleContendsHolds`: `Spec => []VisibleContends`.

  Neither of these two is inductive. The invariant `Election` adds two facts.
  `LeaderHasLock`: a tab with a socket leads, and a tab that leads holds the lock,
  which has not been aborted. `ControllerContends`: a tab with an abort controller
  leads or is queued. The second is what makes `abort()` harmless: its default
  branch aborts "the lock that is held", and `ControllerContends` shows that this
  lock is then the tab's own, so that nobody else's leadership is cut off
  (`ExitKeeps`). `LeaderHasLock` gives the first half of `OneConnection`, about backends,
  because a lock has one holder. The second half, about all sockets of the browser, needs
  `StraysHeld`: unless a grace period ends during the handshake of a reconnection, a socket
  that was let go while it connected was its tab's first one, and the tab still holds
  the lock with it, because the callback waits for that handshake for ever. Nobody else can
  lead then, nor the tab itself.
  The lemmas `AppendWaits`, `TailWaits` and `WithdrawWaits` say who is in a queue
  after a request, a grant and a withdrawal; `Kept` covers all steps that leave a
  tab's place in the election alone.
- `WantedIsSubscribedHolds`: `Spec => []WantedIsSubscribed`. The property speaks of empty
  inboxes; the invariant `Wanted` says what each inbox is worth. `Pages`, `Line` and
  `Sessions` tie pages, queue and server session together. `Quiet`: a leader without a
  connection has told every other tab, so that nobody counts on it. `Counted`: the count
  of a leader whose socket is open, with the messages on their way, covers every tab it
  owes a subscription (`Subscribers`), and the server is subscribed. What a queue
  of messages does to a count is recursive in the queue; `Covers` says it without recursion,
  by a certificate: a function over the positions of the inbox that bounds the count from
  below before each message. A message that is posted extends it, one that is handled cuts
  it off (`Acts`), and no induction is needed.

**Drafts** (`Drafts_proofs`).
- `TypeCorrect`: `Spec => []TypeOK`. `ChosenBeforeSentHolds`: `Spec => []ChosenBeforeSent`.

  `MessageOK` says that a scheduled draft names its job and was chosen for that time;
  `RequestOK` that what a request has loaded is a row; `MailOK` that what a Gmail job
  took was dispatched. A timer sends the first draft of its thread, so the proof of
  `ChosenBeforeSent` must show that this is the draft its job is for. `OrderInv` does,
  as long as no two replies overlapped: a draft that is scheduled, or that a request is
  about to schedule or to write back, comes before every other draft (`Leads`,
  `Ordered`). A reply stamps its draft after all that it has read (`ReplyOK`), so that
  one which lands before another message is a reply that overlapped the one that made
  it. That a draft is archived as its user chose comes from `DueInv`.
- `FiredWhenDueIfOnceHolds`: `Spec => []FiredWhenDueIfOnce`, with `DueInv`: before the
  one request that schedules is served there is no timer and nothing for the sweep, and
  afterwards each timer, also a rebuilt one, is for the time of its message or for a
  message that is due; one row is scheduled at most, and what is decided was decided as
  asked (`AsAsked`).
- `MailedOnceHolds`: `Spec => []MailedOnce` if no start allows a Gmail job to die
  (`faults["crash"] = 0`; section 7 says what happens then). `MailedInv`: while a single
  message was dispatched there is one Gmail job, which has not asked Gmail before it
  sends.
- `ImplementsDraftLife`: `Spec => KeepsPromise` under the same hypothesis: the initial
  states map to initial states, and each action to a step of one message or a stutter.

**LiveDocuments** (`LiveDocuments_proofs`).
- `TypeCorrect`: `Spec => []TypeOK`, with row ids that are never used again. A message is
  only answered at a server its browser is connected to (`WiresOpen`).
- `StoredNeverShrinksHolds`: `Spec => StoredNeverShrinks`. A merge deletes rows it read
  earlier; as ids are unique, what it deletes is what it read, and its union is inserted.

**Messaging and Channels** (`Channels_proofs`).
- `TypeCorrect`: `Spec => []TypeOK`.
- `EveryListenerHasAnOwnerHolds`: `Spec => []EveryListenerHasAnOwner`.
- `ConfirmedIsHeardHolds`: `Spec => []ConfirmedIsHeard`.

  The invariant has fourteen parts. `Ways`: each task goes the way of its message. `Locks`,
  `Held`: who holds a session's lock waits for its own subscription, which nobody takes
  away. `Registers`: every subscription, in the table, in clean-up, in a task or among the
  listeners, is that of a message of its session about its topic. `Commands`, `Gone`: a
  queued command is that of a task that waits, and what was unsubscribed does not listen and
  will not. `Calm`, `Current`: without overlap an unsubscribe is the last message about its
  topic and stops the subscription that the topic has. `Empty`, `Cleaned`: clean-up takes
  all. `Owners`, `Heard`, `Confirmed` then strengthen the two properties by the commands
  that are still queued. They put the callback of a confirmed subscription in the adapter's
  table; that the connection listens for it is a fact about the connection, `Relistened`:
  while it is up it has a listener for every callback of the table, since it is only
  up again after all were added and each command changes both.

**GmailSync** (`GmailSync_proofs`).
- `TypeCorrect`: `Spec => []TypeOK`; nothing points past the newest record.
- `OneSyncAtATimeHolds`: `Spec => []OneSyncAtATime`. `LockIsHeld`: unless a run outlived
  its lock, the lock is held while a run is in its critical part, and by that run alone;
  a stale lock is therefore one whose owner is gone, and may be taken.
- `CursorCoversHolds`: `Spec => []CursorCovers`, for any history. The cursor is written
  from copies, so the invariant, `CoverInv`, is about everything that may become the
  cursor or that a run has gone past (`Passed`): all of it is covered (`PassedCovered`).
  To keep that, it adds what is stored: `Ends`, a message that is gone stays gone and
  was there before, and `Stored`, what is stored and fetched are states that Gmail had,
  and once the onboarding sync has begun a message from before has its row, is on the
  page, or is one that it has yet to list or has left out (`OnboardedIs`). `Resumes`
  says, while nothing of what `CursorCovers` excepts has happened, that a fetched state
  is no older than the row it replaces (`RunFresh`), and `PassedCovered`. `CoveredAs`
  says `Covered` of one record without its sets: nothing that was fetched of its message
  is older (`NoOlder`), or nothing was and it is still awaited (`Unfetched`, `Awaited`).
  One lemma per action; `QuietKeeps`, `MovesOn` and `OnboardStep` say once what each of
  three groups has to show.

**Mailbox** (`Mailbox_proofs`).
- `TypeCorrect`: `Spec => []TypeOK`; the first message always has a row (`Rows`).
- `SnoozeHoldsAlways`: `Spec => SnoozeHolds`, with `LateIsNoted`: a wake job that waits
  while the entry sleeps is left from an earlier snooze, and was noted as `late` by the
  request that snoozed it again, the one step that puts an entry to sleep.

**Research** (`Research_proofs`).
- `TypeCorrect`, `MailedOnceHolds`: `Spec => []TypeOK`, `Spec => []MailedOnce`. A question's
  mail is queued with its response, once (`QuestionMailed`); a delivery's is sent by its
  report job, of which there is one unless two queries enqueued it (`DeliveryMailed`).
- `ReportIsWholeHolds`: `Spec => []ReportIsWhole`. `InOrder` says that iteration i has at
  most the one query number i, that the second iteration exists once the first query
  has spawned it (`Planned`), that rows and marks are those of the queries that got so far
  (`Found`), and that a report is enqueued when nothing is planned any more and read from
  every row (`WrittenFrom`); a query that failed instead leaves a row that holds the report
  back for ever (`Lost`). Depth 2 is
  a hypothesis of the property, because the code plans no deeper research
  (`content.py:1749`).

  The three theorems assume `NULL \notin SUBSET RowRec`: that the value for "no response" is
  not a set of rows. TLC, for which `NULL` is a model value, cannot evaluate it as an
  assumption of the module.

`Largest` and `Least` are defined with `CHOOSE`; that a bounded set of naturals
has a largest or least member follows from the well-foundedness of the subset order
on finite sets (`LargestIs`, `LargestExists`, `LeastIs`).

**Model-checked only.** All liveness properties (and anything with ENABLED) are out of
this prover's reach; so are `KeepsChoice` and `SidesAgree` of `Mailbox`, which speak about
what holds in the end. Every invariant, every action property and the refinement that the
passing runs check is stated by a theorem.

TLC has checked the strengthenings `HasJob`, `Sole` and `Counted` of `Jobs` on the starts
of `jobs_safety`, and `Wanted` of `SharedConnection` on those of `shared_safety`, with
`Covers` evaluated by its largest certificate.

## 7. Where code and documentation differ

The first has a run whose counterexample shows it.

1. `research_early`: the comment at `app/models/collaboration/content.py:1824` says that
   looking at every iteration avoids a race between a leaf and a sibling that has yet to
   start its own iteration. A query is marked as completed (`app/jobs/research.py:230`)
   before it starts the next iteration (235), so that the race is still there: the report
   is written without that branch.

The models show or contain these too; they are noted at their hazards, and the
properties state the condition that leaves them out. Where a bracket names a condition,
dropping it makes TLC find the behaviour on the instance of the run.

- `Job.run` tells the group after every failed attempt and again when the retry succeeds
  (`infra/jobs.py:407`). A retried member is counted twice, the callback is enqueued
  before the group is done and, once it is completed, again;
  `tests/integration/infra/test_jobs.py:216` expects one (`NoneFails`).
- A timer checks only that its message is a scheduled draft (`app/jobs/email.py:38`).
  One that survived an unschedule sends the draft early when it is scheduled again;
  `app/routers/api/email_drafts.py:341` says that such a fire is handled
  (`ScheduledOnce`).
- If the grace period ends during the first handshake, the awaited promise never settles
  and the hidden tab keeps the lock until it is closed (`sharedConnection.ts:161`, which
  says at 157 that the lock is not held while backgrounded; `overrun`).
- If it ends during the handshake of a reconnection, `cleanupConnection` forgets the
  socket without closing it, since it is not open yet (`websocket.ts:177`). The lock is
  released, another tab connects, and the forgotten socket may open beside its own
  (`abandon`).
- An exception in `handle_document_change` cancels the session's listener, and the
  session stays registered (`live_documents.py:114`): no edit is stored through that
  server any more, for the browsers that stay connected to it (`Deaf`).
- A subscribe that comes before the answer to an unsubscribe of its topic is confirmed
  although its listener is about to be stopped (`base.py:460`; `overlap`); one that ends
  after its session leaves a listener behind (`late`).
- A subscribe whose command is on its way when the connection breaks is never answered,
  and its session never ends (`messaging.py:198`; `Stuck`). The loop waits for commands
  and has no other way to notice a break: until the next one nobody is heard, however
  long ago a subscription was confirmed (`messaging.py:198`).
- The history lock goes stale after 600 s, a job may run for 1800 s, and its first owner
  then releases the lock of the second (`integrations/google/models.py:216`; `overrun`).
- The onboarding sync moves the cursor past records of messages it has not listed
  (`gmail_onboarding_sync.py:268`; `overtaken`), and a record about a message that it
  has yet to create is skipped (`early`).
- The onboarding sync stops when 100 messages are stored (`settings.py:271`,
  `gmail_onboarding_sync.py:210`), by whomever, and marks itself complete: what is older
  is never stored, and records about it are skipped (`LeftOut`).
- A history job that meets the lock enqueues itself, as a unique job, while its own row
  is started: `create_or_get_by_unique` returns that row and nothing is enqueued
  (`integrations/google/jobs/gmail.py:210`). The next push or the health check makes up
  for it.
- A wake job that is left from an earlier snooze wakes an entry that was snoozed again
  (`app/jobs/mailbox.py:53`; `late`).
- Requests write whole labels from rows they loaded without a lock (`torn`), an action
  is undone by the echo of an earlier one (`crossed`). A message that arrives while an
  archive is on its way to Gmail loses its inbox label there as well, since the whole
  thread is modified (`integrations/google/jobs/gmail.py:550`), and
  `email/mailbox.py:291` then keeps it out of the inbox here (`met`). A snooze that ends
  while a removal or its records are under way is undone by them (`overtaken`). A woken
  entry is marked read by the echo of its own return to the inbox (`woken`), and a
  thread that Gmail has put back in its inbox is not put back here, which
  `email/mailbox.py:275` intends (`restored`).
- A history job that dies between the rows of a message and `Mailbox.sync` skips that
  message when it is repeated: the mailbox never shows it
  (`integrations/google/jobs/gmail.py:391`; `lost`).
- An attempt of a query job that fails after its `ResearchQuery` row was created leaves
  a row that nobody completes, and the research never ends (`app/jobs/research.py:361`;
  `abandoned`); an empty plan has the same end (`empty`).
- A scheduled delivery is mailed twice when two queries enqueue its publication at once
  (`raced`); any report is when the worker dies between the mail and the row that says
  so (`resend`).
- A stale save can erase `task_name` and finish nothing, so that neither the sweep nor
  the reaper sees the row (`infra/jobs.py:386`).
- A death between `cancel` and the replacement in `reschedule` loses the work
  (`infra/jobs.py:430`; `cut`).
- Two replies at once create two drafts in a thread, and the later commit may carry the
  earlier `created_at`; a timer then sends the first one, which its user may not have
  chosen (`thread.py:624`, `email.py:55`; `Overlapped`).
- An edit that passed its check before a schedule lands in the scheduled draft
  (`email_drafts.py:185`).
- A Gmail job that dies after Gmail's answer sends the message again (`gmail.py:602`);
  with two messages in flight one may never be delivered and the other mailed twice
  (`gmail.py:564`).
- A tab opened in the background takes the lock and keeps it (`sharedConnection.ts:80`).
- After a reconnect followers subscribe again while the leader keeps its counts: the
  topic is never unsubscribed (`sharedConnection.ts:319`). A late unsubscribe may take a
  topic that another tab wants (`sharedConnection.ts:324`).
- A session loads the rows before it listens and misses what is broadcast in between
  (`live_documents.py:163`). A death between broadcast and insert leaves an edit that
  every browser has and no row does (`live_documents.py:115`; `lost`).
- `remove_subscriber` is given a channel that was never added, so sessions are not
  cleaned up (`live_documents.py:182`).

## 8. Abstractions and what is not modelled

*Jobs.* The closing transaction of `run` is a read and a commit. The rows a request
enqueues as a group are saved in one step, as its transaction does. A row ages past
`dead_job_interval_hours` by a fault (`old`), and the sweep overtakes a flush that is
slower than `job_timeout_seconds` by another (`slow`). Callback ids are bounded.
`Cancel` (and the cancellation of a job that reschedules itself) is one step for
deleting the task and saving the row (`infra/jobs.py:681`). One `NULL` in an outbox
stands for any number of entries whose rows were rolled back; attempts that are answered
404 leave nothing behind and are not kept. Not modelled: the AsyncIO and Inline runners
(development and tests), identity of definitions (`create_or_get_by_unique`, which
`GmailSync` and `Research` model for their own jobs), `CleanupOldJobsJob`.

*Drafts.* A transaction that holds the row lock is one step. The envelope is the name of
the request that last wrote it. Snooze and pin on send behave as the archive option
does, which stands for all of them. Retries by the job engine appear as a timer that is
called again and as a Gmail job that dies and starts over. The sweeper's batch limit
exceeds the number of drafts. Safety starts have no Gmail job that dies, and the one
with two replies has no faults; the liveness start has no revoked access and one message
(section 7 says why). Not modelled: `DbEmailClient`, attachments.

*SharedConnection.* One topic. BroadcastChannel messages are delivered in one global
posting order. Granting the lock and running the callback up to its first `await` is one
step. The server's session subscribes and rejects at once. Not modelled: the fallback
for browsers without Web Locks, several callbacks per topic in a tab.

*LiveDocuments.* A document is the set of edits it contains: merging commutes and may be
repeated, which is the promise of the CRDT library. Updates that wait for an earlier one
are covered by that. One resync is on its way at a time. Notifications are unordered.
Not modelled: awareness, the map of editors, an unload of the page.

*Messaging and Channels.* The first step of a message's task is merged with its receipt;
a confirmation is sent together with the release of the lock. How asyncpg behaves on a
closed connection is external: `add_listener` raises, `remove_listener` returns. A large
payload whose cache entry is gone is a callback without effect. `accept` counts a
message as decided before it subscribes, so that one whose subscribe raises is neither
confirmed nor rejected (`base.py:303`); it raises when the process shuts down or the
task is cancelled, which is not modelled. Not modelled either: collisions of PostgreSQL
channel names, invalid frames, rate limits.

*GmailSync.* A push is delivered together with the change it is about, since the job it
enqueues may wait as long; a lost one is an event. Attachments and headers are data. When
Gmail's history has expired the cursor skips to the target, as the code does, and
`CursorCovers` excuses it. A failed set-up of the watch is repaired by the health check.
The three queries of the onboarding sync, each a chain of jobs with an account copy of its
own and a mark of its own, are one listing here, whose pages are worked off one after the
other; what is listed is what was there when it began, so that what arrives between two
queries is left to the history job. A message is a thread of its own. A thread that is
deleted between the listing and its fetch raises in the code and the page is performed
again (`gmail_onboarding_sync.py:258`); here it is nothing to create. Not modelled:
`ProgressiveThreadMessageSyncJob`, which reads more of a long thread (316).

*Mailbox.* One request at a time; the rows it loads are loaded at one instant. All
messages are from others, the user received the first one, the entry exists. The check
and the write of a wake job are one step, and so are the save of a message's labels, the
refresh of its thread's and the loading of the thread. `Leave` (`gmail.py:489`,
`collaboration/mailbox.py:778`), a transaction of its own, loads and writes in one step
as the wake job does. Not modelled: spam, drafts, sent messages, shared entries, pins,
entries of events and comments.

*Research.* `is_completed`, the question's response and the newest report job are read
in one step. How many queries an iteration plans is only asked for in the prompt
(`research.py:196`); `MaxBreadth` is a bound. `from` names the rows whose learnings a
report has; the search results of rows that are not completed feed it too, as sources
(`content.py:1800`). Scheduled research starts with its delivery: the ticks and
`ScheduledResearchJob` (two of which may start the same delivery, since
`last_delivered_at` is set when it is published) are left out. Not modelled: titles,
citations, prompts, what the LLM answers.

*External parts*, modelled from how the code uses them: Cloud Tasks, Cloud Scheduler,
Gmail, the Web Lock manager, the BroadcastChannel, page life cycle, the network,
PostgreSQL's NOTIFY, the Yjs library.

*Not modelled at all*, with the reasons in `PROJECT.json`: meetings and Recall AI (a group
of jobs per meeting, see `Jobs`; the rest is calls to an external service), accounts and
OAuth, content indexing, goals, posts, chats, other integrations, the views of the front
end. Almost all of the repository's lines are of this kind: views, CRUD and I/O without
interleavings of their own.

## 9. Plan

Every safety property of section 4 is proved. What would come next:

1. Meetings and Recall AI, as an instance of the group of `Jobs`.
2. A repaired `update_status` (a member counts once, however often it is attempted), for
   which `CallbackIsBarrier` should hold without `NoneFails`: `Owed` is the set that its
   counter would have to be the size of.
