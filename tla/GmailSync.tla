------------------------------ MODULE GmailSync ------------------------------
(***************************************************************************)
(* One Gmail account kept in step with its mailbox: the watch and its      *)
(* pushes, the history job with its cursor, caught-up marker and lock, the *)
(* health check, and the onboarding sync (integrations/google).            *)
(*                                                                         *)
(* Gmail's history is a sequence of records, each about one message.  What *)
(* the application knows of a message is the newest record whose effect it *)
(* has stored, 0 when it has no row for the message.                       *)
(***************************************************************************)
EXTENDS Naturals, Sequences, FiniteSets, SequencesExt

CONSTANTS
  Old,        (* messages from before the account was connected                *)
  New,        (* messages that arrive later                                    *)
  Runs,       (* workers that may perform history jobs at the same time        *)
  Starts,     (* whether the account is set up, the limit of the onboarding sync,
                 and, as bounds, how often Events happen                       *)
  NULL

(***************************************************************************)
(* `lag`: the history is listed before its newest records show; `expire`:  *)
(* the cursor is too old for Gmail; `lose`: a push is lost; `die`: the     *)
(* watch stops delivering; `renew`: the watch is about to end; `fail`: an  *)
(* API call raises; `crash`: a worker dies; `overrun`: a run takes longer  *)
(* than its lock is good for; `change`: a message arrives or its labels    *)
(* change; `delete`: it is deleted for good.                               *)
(***************************************************************************)
Events == {"change", "delete", "lag", "expire", "lose", "die", "renew", "fail", "crash", "overrun"}

Messages == Old \cup New

ASSUME GmailSyncAssumption ==
  /\ Old \cap New = {} /\ IsFiniteSet(Old) /\ NULL \notin Nat
  /\ Starts \subseteq [connected : BOOLEAN, limit : Nat, left : [Events -> Nat]]

VARIABLES
  history,    (* Gmail's records: about which message, whether it deletes it   *)
  watch,      (* the watch, and whether it is due to be renewed                *)
  acct,       (* the GmailAccount row: cursor, marker, lock                    *)
  local,      (* what the application has stored of each message               *)
  pending,    (* history ids whose ProcessGmailHistoryJob waits                *)
  run,        (* each run of that job                                          *)
  renewal,    (* a call of watch that is not written to the row yet            *)
  onboarding, (* the onboarding sync: what it has yet to list; the messages of
                 its page, those not yet created, and what it fetched of them  *)
  events      (* how many events are left, which there have been               *)

vars == <<history, watch, acct, local, pending, run, renewal, onboarding, events>>
others == <<history, watch, renewal, onboarding>>  (* not changed by the history job *)

Occur(kinds) ==
  /\ \A e \in kinds : events.left[e] > 0
  /\ events' = [left |-> [e \in Events |-> events.left[e] - IF e \in kinds THEN 1 ELSE 0],
                seen |-> events.seen \cup kinds]

Note(e) == events' = [events EXCEPT !.seen = @ \cup {e}]

Live == Len(history)

Largest(S) == IF S = {} THEN 0 ELSE CHOOSE k \in S : \A j \in S : j <= k

About(m) == {k \in 1..Live : history[k].of = m}
State(m) == Largest(About(m))
Exists(m) == About(m) # {} /\ ~history[State(m)].gone

\* fetch_message: the newest state, or nothing.
Fetched(m) == IF Exists(m) THEN State(m) ELSE 0

Adds(k) == history[k].of \in New /\ k = CHOOSE j \in About(history[k].of) :
                                          \A i \in About(history[k].of) : j <= i

At(r) == run[r].next  (* the record that run r is at *)
Message(r) == history[At(r)].of
InRecord(r) == run[r].at = "processing" /\ At(r) <= run[r].last

Delivering == watch \in {"live", "due"}

-----------------------------------------------------------------------------
(***************************************************************************)
(* Gmail, and what enqueues the history job.  unique=True: not when the    *)
(* newest job for the same id, its own run included, is not completed.     *)
(***************************************************************************)
Enqueue(h) == pending' = IF \E r \in Runs : run[r].at # "idle" /\ run[r].target = h
                         THEN pending ELSE pending \cup {h}

Webhook(h) == Enqueue(h)

\* The push of a new record goes to the webhook at once, as the job that the webhook
\* enqueues may wait as long; or it is lost.
Change(m, gone) ==
  /\ Exists(m) \/ (About(m) = {} /\ ~gone)
  /\ history' = Append(history, [of |-> m, gone |-> gone])
  /\ LET kind == IF gone THEN "delete" ELSE "change" IN
     \/ Delivering /\ Webhook(Live + 1) /\ Occur({kind})
     \/ Delivering /\ UNCHANGED pending /\ Occur({kind, "lose"})
     \/ ~Delivering /\ UNCHANGED pending /\ Occur({kind})
  /\ UNCHANGED <<watch, acct, local, run, renewal, onboarding>>

WatchDies ==
  /\ Delivering /\ Occur({"die"})
  /\ watch' = IF watch = "due" THEN "expired" ELSE "dead"
  /\ UNCHANGED <<history, acct, local, pending, run, renewal, onboarding>>

WatchIsDue ==
  /\ watch = "live" /\ Occur({"renew"})
  /\ watch' = "due"
  /\ UNCHANGED <<history, acct, local, pending, run, renewal, onboarding>>

-----------------------------------------------------------------------------
(***************************************************************************)
(* The watch.  The call takes effect at Gmail before the row is written,   *)
(* and the row gets back the cursor that was read.                         *)
(***************************************************************************)
CallWatch ==
  /\ watch \in {"new", "due", "expired"} /\ renewal = NULL
  /\ renewal' = [cursor |-> IF watch = "new" THEN 0 ELSE acct.cursor, live |-> Live]
  /\ watch' = "live"
  /\ UNCHANGED <<history, acct, local, pending, run, onboarding, events>>

\* SetupGmailAccountJob is retried, but finds the account and leaves the watch out.
SetupFails ==
  /\ watch = "new" /\ Occur({"fail"})
  /\ watch' = "dead"
  /\ UNCHANGED <<history, acct, local, pending, run, renewal, onboarding>>

\* What the onboarding sync is going to list, or its limit has left out.
Unlisted(m) == onboarding.at = "new" \/ m \in onboarding.todo

\* What has been fetched of a message and is about to be stored.
OnTheWay(m) == {onboarding.got[m]} \cup {run[r].got : r \in {q \in Runs : InRecord(q) /\ Message(q) = m}}

\* The effect of record k is stored, or the onboarding sync is going to create its message,
\* or has left it out; and nothing that is older is about to be stored.
Covered(k) ==
  LET m == history[k].of IN
  \/ local[m] >= k
  \/ ~history[k].gone /\ ~Exists(m)
  \/ local[m] = 0 /\ history[k].gone /\ OnTheWay(m) \subseteq {NULL, 0}
  \/ /\ local[m] = 0 /\ ~history[k].gone
     /\ Unlisted(m) \/ m \in onboarding.listed
     /\ \A state \in OnTheWay(m) \ {NULL} : state >= k

\* The cursor is moved by others than the history job, maybe past what nobody looked at.
MoveCursor(c) ==
  /\ acct' = [acct EXCEPT !.cursor = c]
  /\ IF \E k \in (acct.cursor + 1)..c : ~Covered(k) THEN Note("overtaken") ELSE UNCHANGED events

SaveWatch ==
  /\ renewal # NULL
  /\ MoveCursor(IF renewal.cursor = 0 THEN renewal.live ELSE renewal.cursor)
  /\ renewal' = NULL
  /\ UNCHANGED <<history, watch, local, pending, run, onboarding>>

-----------------------------------------------------------------------------
(***************************************************************************)
(* The health check compares the caught-up marker, or the cursor when      *)
(* there is none; if no push came for an hour, the watch is to be renewed. *)
(***************************************************************************)
\* Variant: the marker alone is compared, and not set means caught up.
HealthOfMarker ==
  /\ onboarding.at = "over" /\ acct.marker # 0 /\ Live > acct.marker
  /\ Enqueue(Live)
  /\ UNCHANGED watch
  /\ UNCHANGED <<history, acct, local, run, renewal, onboarding, events>>

Health ==
  /\ onboarding.at = "over"
  /\ Live > IF acct.marker # 0 THEN acct.marker ELSE acct.cursor
  /\ Enqueue(Live)
  /\ watch' \in {watch} \cup (IF watch = "live" THEN {"due"} ELSE IF watch = "dead" THEN {"expired"} ELSE {})
  /\ UNCHANGED <<history, acct, local, run, renewal, onboarding, events>>

-----------------------------------------------------------------------------
(***************************************************************************)
(* ProcessGmailHistoryJob.                                                 *)
(***************************************************************************)
Idle == [at |-> "idle", target |-> 0, cursor |-> 0, marker |-> 0, next |-> 1, last |-> 0,
         seen |-> 0, got |-> NULL, late |-> FALSE]

Critical == {"locked", "processing", "releasing"}
InCritical == {r \in Runs : run[r].at \in Critical}

\* The job works on the copy of the row that it loads first.
Load(r, h) ==
  /\ h \in pending /\ run[r].at = "idle"
  /\ pending' = pending \ {h}
  /\ run' = IF h <= acct.cursor THEN run
            ELSE [run EXCEPT ![r] = [Idle EXCEPT !.at = "loaded", !.target = h,
                                     !.cursor = acct.cursor, !.marker = acct.marker]]
  /\ UNCHANGED <<others, acct, local, events>>

\* Variant: the lock is taken whoever holds it.
AcquireAnyway(r) ==
  /\ run[r].at = "loaded"
  /\ acct' = [acct EXCEPT !.lock = "held"]
  /\ run' = [run EXCEPT ![r].at = "locked"]
  /\ UNCHANGED <<others, local, pending, events>>

Acquire(r) ==
  /\ run[r].at = "loaded" /\ acct.lock # "held"
  /\ acct' = [acct EXCEPT !.lock = "held"]
  /\ run' = [run EXCEPT ![r].at = "locked"]
  /\ UNCHANGED <<others, local, pending, events>>

\* Contention: unless the cursor has passed its id, the job enqueues itself for later, as
\* unique: while its own row is still one that runs.
TryLater(r) ==
  /\ run[r].at = "loaded" /\ acct.lock = "held"
  /\ IF run[r].target <= acct.cursor THEN UNCHANGED pending ELSE Enqueue(run[r].target)
  /\ run' = [run EXCEPT ![r] = Idle]
  /\ UNCHANGED <<others, acct, local, events>>

\* Check the row again, then list what follows the cursor of the copy.  The newest records
\* may not show yet; or Gmail no longer has the cursor.
Leaves(r) == run' = [run EXCEPT ![r] = [Idle EXCEPT !.at = "releasing", !.target = run[r].target]]

Listed(r, last, seen) ==
  run' = [run EXCEPT ![r].at = "processing", ![r].next = run[r].cursor + 1, ![r].last = last,
                     ![r].seen = seen]

List(r) ==
  /\ run[r].at = "locked"
  /\ \/ /\ run[r].target <= acct.cursor
        /\ Leaves(r) /\ UNCHANGED events
     \/ /\ run[r].target > acct.cursor /\ run[r].cursor > 0
        /\ \/ Listed(r, Live, Live) /\ UNCHANGED events
           \/ \E last \in run[r].cursor..(Live - 1) : Listed(r, last, Live) /\ Occur({"lag"})
           \/ Listed(r, 0, 0) /\ Occur({"expire"})
  /\ UNCHANGED <<others, acct, local, pending>>

\* A record is skipped if it changes or deletes a message that has no row; a deleted
\* message loses its row; the others are fetched as they are now.
Skip(r) ==
  /\ InRecord(r) /\ run[r].got = NULL
  /\ ~Adds(At(r)) \/ history[At(r)].gone
  /\ \/ local[Message(r)] = 0 /\ UNCHANGED local
     \/ /\ local[Message(r)] # 0 /\ history[At(r)].gone
        /\ local' = [local EXCEPT ![Message(r)] = At(r)]
  /\ run' = [run EXCEPT ![r].next = @ + 1]
  /\ IF Message(r) \in onboarding.listed /\ local[Message(r)] = 0 THEN Note("early") ELSE UNCHANGED events
  /\ UNCHANGED <<others, acct, pending>>

Fetch(r) ==
  /\ InRecord(r) /\ run[r].got = NULL
  /\ ~history[At(r)].gone
  /\ Adds(At(r)) \/ local[Message(r)] # 0
  /\ run' = [run EXCEPT ![r].got = Fetched(Message(r))]
  /\ UNCHANGED <<others, acct, local, pending, events>>

\* An added message is created once; of a changed one, everything is replaced.
Save(r) ==
  /\ InRecord(r) /\ run[r].got # NULL
  /\ local' = IF run[r].got = 0 \/ (Adds(At(r)) /\ local[Message(r)] # 0) THEN local
              ELSE [local EXCEPT ![Message(r)] = run[r].got]
  /\ run' = [run EXCEPT ![r].got = NULL, ![r].next = @ + 1]
  /\ UNCHANGED <<others, acct, pending, events>>

\* mark_synced saves the fields that differ from the copy: the cursor and the marker when
\* they are newer, and the time at which this run took the lock.
MarkTo(r, cursor) ==
  /\ run[r].at = "processing" /\ ~InRecord(r)
  /\ acct' = [cursor |-> IF cursor # run[r].cursor THEN cursor ELSE acct.cursor,
              marker |-> LET seen == IF run[r].seen = 0 THEN run[r].target ELSE run[r].seen
                         IN  IF seen > run[r].marker THEN seen ELSE acct.marker,
              lock |-> IF run[r].late THEN "stale" ELSE "held"]
  /\ Leaves(r)
  /\ UNCHANGED <<others, local, pending, events>>

\* Variant: the cursor follows the history id of the response.
MarkLive(r) == MarkTo(r, IF run[r].seen = 0 THEN run[r].target ELSE run[r].seen)

\* Variant: the cursor is the next record to process.
MarkNext(r) == MarkTo(r, IF run[r].seen = 0 THEN run[r].target
                         ELSE IF run[r].last > run[r].cursor THEN run[r].last + 1 ELSE run[r].cursor)

\* The cursor follows the last record that was processed.
Mark(r) == MarkTo(r, IF run[r].seen = 0 THEN run[r].target
                     ELSE IF run[r].last > run[r].cursor THEN run[r].last ELSE run[r].cursor)

Released == [acct EXCEPT !.lock = "free"]

Release(r) ==
  /\ run[r].at = "releasing"
  /\ acct' = Released
  /\ run' = [run EXCEPT ![r] = Idle]
  /\ UNCHANGED <<others, local, pending, events>>

\* A call raises, or there is no cursor to list from: the job is tried once more, then
\* given up.
Fail(r) ==
  /\ \/ run[r].at \in {"locked", "processing"} /\ Occur({"fail"})
     \/ run[r].at = "locked" /\ run[r].cursor = 0 /\ run[r].target > acct.cursor /\ UNCHANGED events
  /\ acct' = Released
  /\ run' = [run EXCEPT ![r] = Idle]
  /\ pending' \in {pending, pending \cup {run[r].target}}
  /\ UNCHANGED <<others, local>>

Crash(r) ==
  /\ run[r].at # "idle" /\ Occur({"crash"})
  /\ run' = [run EXCEPT ![r] = Idle]
  /\ pending' = pending \cup {run[r].target}
  /\ UNCHANGED <<others, acct, local>>

LockGoesStale ==
  /\ acct.lock = "held"
  /\ acct' = [acct EXCEPT !.lock = "stale"]
  /\ IF InCritical = {} THEN UNCHANGED <<run, events>>
     ELSE /\ Occur({"overrun"})
          /\ run' = [r \in Runs |-> [run[r] EXCEPT !.late = r \in InCritical]]
  /\ UNCHANGED <<others, local, pending>>

-----------------------------------------------------------------------------
(***************************************************************************)
(* OnboardingMailboxSyncGmailJob, without the lock: a job for every page   *)
(* that loads the account, lists the threads, fetches each, creates the    *)
(* messages that are new and moves the cursor; until all is listed, or as  *)
(* many messages are stored as the limit allows, whoever stored them.      *)
(***************************************************************************)
Nothing == [m \in Messages |-> NULL]

Remaining == {m \in Messages : Exists(m) /\ Unlisted(m)}

Limited == Cardinality({m \in Messages : local[m] # 0 /\ ~history[local[m]].gone}) >= onboarding.limit

\* A page may repeat what an earlier one had.
OnboardList ==
  /\ onboarding.at \in {"new", "listing"} /\ ~Limited
  /\ \E page \in SUBSET {m \in Messages : Exists(m)} :
       /\ page \cap Remaining # {}
       /\ onboarding' = [onboarding EXCEPT !.at = "fetching", !.todo = Remaining \ page,
                           !.page = page, !.listed = page, !.cursor = acct.cursor]
  /\ UNCHANGED <<history, watch, acct, local, pending, run, renewal, events>>

\* _complete_onboarding_mailbox_sync: what is not listed yet never will be.
OnboardEnds ==
  /\ onboarding.at \in {"new", "listing"} /\ (Limited \/ Remaining = {})
  /\ onboarding' = [onboarding EXCEPT !.at = "over", !.todo = Remaining]
  /\ UNCHANGED <<history, watch, acct, local, pending, run, renewal, events>>

OnboardFetch(m) ==
  /\ onboarding.at = "fetching" /\ m \in onboarding.listed /\ onboarding.got[m] = NULL
  /\ onboarding' = [onboarding EXCEPT !.got[m] = Fetched(m), !.top = Largest({@, Fetched(m)})]
  /\ UNCHANGED <<history, watch, acct, local, pending, run, renewal, events>>

OnboardCreate(m) ==
  /\ onboarding.at = "fetching" /\ onboarding.got[m] # NULL
  /\ local' = IF local[m] = 0 THEN [local EXCEPT ![m] = onboarding.got[m]] ELSE local
  /\ onboarding' = [onboarding EXCEPT !.listed = @ \ {m}, !.got[m] = NULL]
  /\ UNCHANGED <<history, watch, acct, pending, run, renewal, events>>

OnboardMark ==
  /\ onboarding.at = "fetching" /\ onboarding.listed = {}
  /\ IF onboarding.top > onboarding.cursor THEN MoveCursor(onboarding.top) ELSE UNCHANGED <<acct, events>>
  /\ onboarding' = [onboarding EXCEPT !.at = "listing", !.page = {}, !.cursor = 0, !.top = 0]
  /\ UNCHANGED <<history, watch, local, pending, run, renewal>>

\* The job of the page is called again.
OnboardFails ==
  /\ onboarding.at = "fetching" /\ Occur({"fail"})
  /\ onboarding' = [onboarding EXCEPT !.at = "listing", !.todo = @ \cup onboarding.page, !.page = {},
                       !.listed = {}, !.got = Nothing, !.cursor = 0, !.top = 0]
  /\ UNCHANGED <<history, watch, acct, local, pending, run, renewal>>

-----------------------------------------------------------------------------
\* SetupGmailAccountJob has created the row and enqueued the onboarding sync; or all of
\* that is done and the watch is set up.
Init ==
  /\ history \in {[i \in 1..Len(s) |-> [of |-> s[i], gone |-> FALSE]] : s \in SetToSeqs(Old)}
  /\ pending = {} /\ renewal = NULL
  /\ run = [r \in Runs |-> Idle]
  /\ \E start \in Starts :
       LET known(k) == IF start.connected THEN k ELSE 0 IN
       /\ events = [left |-> start.left, seen |-> {}]
       /\ watch = IF start.connected THEN "live" ELSE "new"
       /\ acct = [cursor |-> known(Live), marker |-> 0, lock |-> "free"]
       /\ local = [m \in Messages |-> known(State(m))]
       /\ onboarding = [at |-> IF start.connected THEN "over" ELSE "new", limit |-> start.limit,
                        todo |-> {}, page |-> {}, listed |-> {}, got |-> Nothing, cursor |-> 0, top |-> 0]

Work(r) == (run[r].cursor = 0 /\ Fail(r)) \/ Acquire(r) \/ TryLater(r) \/ List(r) \/ Skip(r) \/ Fetch(r) \/ Save(r) \/ Mark(r) \/ Release(r)

Watching == CallWatch \/ SaveWatch

Onboard == OnboardList \/ OnboardEnds \/ OnboardMark \/ \E m \in Messages : OnboardFetch(m) \/ OnboardCreate(m)

Next ==
  \/ \E m \in Messages, gone \in BOOLEAN : Change(m, gone)
  \/ WatchDies \/ WatchIsDue \/ SetupFails \/ Watching
  \/ Health
  \/ \E r \in Runs : (\E h \in pending : Load(r, h)) \/ Work(r) \/ Fail(r) \/ Crash(r)
  \/ LockGoesStale
  \/ Onboard \/ OnboardFails

Spec == Init /\ [][Next]_vars

\* Pushes arrive, jobs are run, the health check recurs, a lock nobody holds gets old.
Fairness ==
  /\ WF_vars(\E r \in Runs, h \in pending : Load(r, h))
  /\ \A r \in Runs : WF_vars(Work(r))
  /\ WF_vars(Health) /\ WF_vars(Watching) /\ WF_vars(Onboard)
  /\ WF_vars(InCritical = {} /\ LockGoesStale)

FairSpec == Spec /\ Fairness

-----------------------------------------------------------------------------
(***************************************************************************)
(* Properties                                                              *)
(***************************************************************************)
\* The shape of every variable.
TypeOK ==
  /\ history \in Seq([of : Messages, gone : BOOLEAN])
  /\ pending \subseteq 1..Live
  /\ watch \in {"new", "live", "due", "dead", "expired"}
  /\ acct \in [cursor : 0..Live, marker : 0..Live, lock : {"free", "held", "stale"}]
  /\ local \in [Messages -> 0..Live]
  /\ run \in [Runs -> [at : {"idle", "loaded"} \cup Critical, target : Nat, cursor : Nat,
                       marker : Nat, next : Nat, last : Nat, seen : Nat,
                       got : Nat \cup {NULL}, late : BOOLEAN]]
  /\ renewal \in [cursor : Nat, live : Nat] \cup {NULL}
  /\ onboarding \in [at : {"new", "listing", "fetching", "over"}, limit : Nat, todo : SUBSET Messages,
                     page : SUBSET Messages, listed : SUBSET Messages,
                     got : [Messages -> Nat \cup {NULL}], cursor : Nat, top : Nat]
  /\ events.left \in [Events -> Nat] /\ events.seen \subseteq Events \cup {"early", "overtaken"}

Without(kinds) == events.seen \cap kinds = {}

\* Two runs never process the history at the same time, unless one takes longer than its
\* lock is good for: workers that crash, fail or meet the lock do not change that.
OneSyncAtATime == Without({"overrun"}) => Cardinality(InCritical) <= 1

\* The resume cursor never passes a record whose effect is not stored, whatever lags, is
\* lost, fails or crashes, and although jobs and renewals write back cursors they read
\* before.  Excepted: the history expired, a run outlived its lock, a record of a listed
\* message came before the onboarding sync created its row, and the onboarding sync or
\* the first watch set the cursor past what they had seen.  What the limit of the onboarding
\* sync has left out is not stored at all, and its records are passed.
CursorCovers ==
  Without({"expire", "overrun", "early", "overtaken"}) => \A k \in 1..acct.cursor : Covered(k)

\* It was there when the onboarding sync began, which ended at its limit before it listed it.
LeftOut(m) == onboarding.at = "over" /\ m \in onboarding.todo /\ local[m] = 0

Known(m) == Exists(m) \/ local[m] # 0 => local[m] = State(m) \/ LeftOut(m)

\* Everything Gmail has is in the end stored as Gmail has it, but for what the limit of the
\* onboarding sync left out, though pushes are lost, the watch dies, jobs fail, crash or
\* meet the lock; a record that lagged behind the last listing is at least still ahead of
\* the cursor.
MailArrives ==
  <>[](Without({"expire", "overrun", "early", "overtaken"}) =>
         \A m \in Messages : Known(m) \/ ("lag" \in events.seen /\ State(m) > acct.cursor))

=============================================================================
