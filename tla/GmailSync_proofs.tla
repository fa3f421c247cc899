---------------------------- MODULE GmailSync_proofs ----------------------------
(***************************************************************************)
(* Proofs about GmailSync for any messages, workers and events: the type   *)
(* invariant; that no two runs are between the taking and the release of   *)
(* the lock, unless one of them outlives it; and that the resume cursor    *)
(* passes nothing whose effect is not stored, with the invariant CoverInv. *)
(***************************************************************************)
EXTENDS GmailSync, FiniteSetTheorems, SequenceTheorems, TLAPS

Record == [of : Messages, gone : BOOLEAN]

\* The types, for a history of n records.
AcctRec(n) == [cursor : 0..n, marker : 0..n, lock : {"free", "held", "stale"}]

RunRec(n) == [at : {"idle", "loaded"} \cup Critical, target : 0..n, cursor : 0..n,
              marker : 0..n, next : 1..(n + 1), last : 0..n, seen : 0..n,
              got : 0..n \cup {NULL}, late : BOOLEAN]

RenewalRec(n) == [cursor : 0..n, live : 0..n]

OnboardingRec(n) ==
  [at : {"new", "listing", "fetching", "over"}, limit : Nat, todo : SUBSET Messages,
   page : SUBSET Messages, listed : SUBSET Messages,
   got : [Messages -> 0..n \cup {NULL}], cursor : 0..n, top : 0..n]

EventsRec == [left : [Events -> Nat], seen : SUBSET (Events \cup {"early", "overtaken"})]

\* Nothing points past the newest record; a run has the id of its push.
TypeInv ==
  /\ history \in Seq(Record)
  /\ pending \in SUBSET (1..Live)
  /\ watch \in {"new", "live", "due", "dead", "expired"}
  /\ acct \in AcctRec(Live)
  /\ local \in [Messages -> 0..Live]
  /\ run \in [Runs -> RunRec(Live)]
  /\ renewal \in RenewalRec(Live) \cup {NULL}
  /\ onboarding \in OnboardingRec(Live)
  /\ events \in EventsRec
  /\ \A r \in Runs : run[r].at # "idle" => run[r].target # 0

\* Who works has the lock, alone, unless a run has been overtaken by it.
LockIsHeld ==
  Without({"overrun"}) =>
    /\ \A r \in Runs : ~run[r].late
    /\ \A r \in InCritical : acct.lock = "held"
    /\ \A r, s \in InCritical : r = s

IInv == TypeInv /\ LockIsHeld

\* A bounded set of naturals has a largest member: of the intervals from its members up
\* to the bound, finite sets, one is minimal.
LEMMA LargestIs ==
  ASSUME NEW n \in Nat, NEW S \in SUBSET (1..n)
  PROVE  /\ Largest(S) \in 0..n
         /\ S # {} => Largest(S) \in S /\ \A k \in S : k <= Largest(S)
<1>1. CASE S = {}
  BY <1>1 DEF Largest
<1>2. CASE S # {}
  <2> DEFINE T == {k..n : k \in S}
             R == StrictSubsetOrdering(1..n)
  <2>1. IsWellFoundedOn(R, FiniteSubsetsOf(1..n))
    BY FS_StrictSubsetOrderingWellFounded
  <2>2. T \subseteq FiniteSubsetsOf(1..n) /\ T # {}
    <3>1. ASSUME NEW k \in S PROVE k..n \in FiniteSubsetsOf(1..n)
      <4>1. k \in Int /\ n \in Int /\ k..n \subseteq 1..n
        OBVIOUS
      <4>2. IsFiniteSet(k..n)
        BY <4>1, FS_Interval
      <4>3. QED
        BY <4>1, <4>2 DEF FiniteSubsetsOf
    <3>2. QED
      BY <1>2, <3>1
  <2> HIDE DEF T, R
  <2>3. \E x \in T : \A y \in T : ~(<<y, x>> \in R)
    BY <2>1, <2>2, WFMin
  <2>4. PICK x \in T : \A y \in T : <<y, x>> \notin R
    BY <2>3
  <2>5. PICK k \in S : x = k..n
    BY DEF T
  <2>6. ASSUME NEW j \in S, j > k
        PROVE  FALSE
    <3>1. j..n \in T
      BY DEF T
    <3>2. j..n \subseteq k..n /\ k \in k..n /\ k \notin j..n /\ k..n \subseteq 1..n /\ j..n \subseteq 1..n
      BY <2>6
    <3>3. <<j..n, k..n>> \in StrictSubsetOrdering(1..n)
      BY <3>2 DEF StrictSubsetOrdering
    <3>4. QED
      BY <2>4, <2>5, <3>1, <3>3 DEF R
  <2>7. k \in S /\ \A j \in S : j <= k
    BY <2>6
  <2>8. Largest(S) = CHOOSE i \in S : \A j \in S : j <= i
    BY <1>2 DEF Largest
  <2>9. Largest(S) \in S /\ \A j \in S : j <= Largest(S)
    BY <2>7, <2>8
  <2>10. Largest(S) \in 1..n
    BY <2>9
  <2>11. QED
    BY <2>9, <2>10
<1>3. QED
  BY <1>1, <1>2

LEMMA LargestOfTwo ==
  ASSUME NEW n \in Nat, NEW a \in 0..n, NEW b \in 0..n
  PROVE  Largest({a, b}) \in {a, b}
<1>1. \E k \in {a, b} : \A j \in {a, b} : j <= k
  OBVIOUS
<1>2. QED
  BY <1>1 DEF Largest

-----------------------------------------------------------------------------
(***************************************************************************)
(* Gmail's history.                                                        *)
(***************************************************************************)
LEMMA HistoryIs ==
  ASSUME TypeInv
  PROVE  /\ Live \in Nat
         /\ \A k \in 1..Live : history[k] \in Record /\ history[k].of \in Messages
<1>1. Live \in Nat /\ history \in [1..Live -> Record]
  BY LenProperties DEF TypeInv, Live
<1>2. QED
  BY <1>1 DEF Record

LEMMA FetchedIs ==
  ASSUME TypeInv, NEW m \in Messages
  PROVE  State(m) \in 0..Live /\ Fetched(m) \in 0..Live
<1>1. Live \in Nat /\ About(m) \in SUBSET (1..Live)
  BY HistoryIs DEF About
<1>2. State(m) \in 0..Live
  BY <1>1, LargestIs DEF State
<1>3. QED
  BY <1>1, <1>2 DEF Fetched

\* What pointed into the history still does when it has grown.
LEMMA TypesGrow ==
  ASSUME NEW n \in Nat
  PROVE  /\ AcctRec(n) \subseteq AcctRec(n + 1)
         /\ RunRec(n) \subseteq RunRec(n + 1)
         /\ RenewalRec(n) \subseteq RenewalRec(n + 1)
         /\ OnboardingRec(n) \subseteq OnboardingRec(n + 1)
<1>1. 0..n \subseteq 0..(n + 1) /\ 1..(n + 1) \subseteq 1..((n + 1) + 1)
  OBVIOUS
<1>2. AcctRec(n) \subseteq AcctRec(n + 1)
  BY <1>1 DEF AcctRec
<1>3. RunRec(n) \subseteq RunRec(n + 1)
  BY <1>1 DEF RunRec
<1>4. RenewalRec(n) \subseteq RenewalRec(n + 1)
  BY <1>1 DEF RenewalRec
<1>5. OnboardingRec(n) \subseteq OnboardingRec(n + 1)
  <2>1. [Messages -> 0..n \cup {NULL}] \subseteq [Messages -> 0..(n + 1) \cup {NULL}]
    BY <1>1
  <2>2. QED
    BY <1>1, <2>1 DEF OnboardingRec
<1>6. QED
  BY <1>2, <1>3, <1>4, <1>5

\* The counters only note what has been.
LEMMA OccurIs ==
  ASSUME TypeInv, NEW kinds \in SUBSET Events, Occur(kinds)
  PROVE  events' \in EventsRec /\ events'.seen = events.seen \cup kinds
<1>1. events \in EventsRec /\ \A e \in kinds : events.left[e] > 0
  BY DEF TypeInv, Occur
<1>2. [e \in Events |-> events.left[e] - IF e \in kinds THEN 1 ELSE 0] \in [Events -> Nat]
  <2>1. ASSUME NEW e \in Events
        PROVE  events.left[e] - (IF e \in kinds THEN 1 ELSE 0) \in Nat
    <3>1. events.left[e] \in Nat
      BY <1>1 DEF EventsRec
    <3>2. QED
      BY <1>1, <3>1
  <2>2. QED
    BY <2>1
<1>3. QED
  BY <1>1, <1>2 DEF Occur, EventsRec

LEMMA NoteIs ==
  ASSUME TypeInv, NEW e \in {"early", "overtaken"}, Note(e)
  PROVE  events' \in EventsRec /\ events.seen \subseteq events'.seen
BY DEF TypeInv, Note, EventsRec

-----------------------------------------------------------------------------
(***************************************************************************)
(* The lock: a step of one run, or of none, leaves at most one run at work.*)
(***************************************************************************)
LEMMA NoRunKeeps ==
  ASSUME LockIsHeld, run' = run, acct'.lock = acct.lock, events.seen \subseteq events'.seen
  PROVE  LockIsHeld'
BY DEF LockIsHeld, InCritical, Without

LEMMA OneRunKeeps ==
  ASSUME IInv, NEW r \in Runs, NEW d \in RunRec(Live), run' = [run EXCEPT ![r] = d],
         events.seen \subseteq events'.seen, d.late => run[r].late,
         \/ /\ Without({"overrun"}) => acct'.lock = acct.lock
            /\ d.at \in Critical => run[r].at \in Critical
         \/ d.at = "idle" /\ run[r].at \in Critical
         \/ acct.lock # "held" /\ acct'.lock = "held"
  PROVE  LockIsHeld'
<1> SUFFICES ASSUME Without({"overrun"})'
             PROVE  /\ \A q \in Runs : ~run'[q].late
                    /\ \A q \in Runs : run'[q].at \in Critical => acct'.lock = "held"
                    /\ \A q, p \in Runs : run'[q].at \in Critical /\ run'[p].at \in Critical => q = p
  BY DEF LockIsHeld, InCritical
<1>1. run'[r] = d /\ \A q \in Runs : q # r => run'[q] = run[q]
  BY DEF IInv, TypeInv
<1>2. Without({"overrun"})
  BY DEF Without
<1>3. /\ \A q \in Runs : ~run[q].late
      /\ \A q \in Runs : run[q].at \in Critical => acct.lock = "held"
      /\ \A q, p \in Runs : run[q].at \in Critical /\ run[p].at \in Critical => q = p
  BY <1>2 DEF IInv, LockIsHeld, InCritical
<1>4. \A q \in Runs : ~run'[q].late
  BY <1>1, <1>3
<1>5. QED
  BY <1>1, <1>2, <1>3, <1>4 DEF Critical

\* What a step of a run has to show.
LEMMA RunStepKeeps ==
  ASSUME IInv, UNCHANGED others,
         NEW r \in Runs, NEW d \in RunRec(Live), run' = [run EXCEPT ![r] = d],
         d.at # "idle" => d.target # 0, d.late => run[r].late,
         acct' \in AcctRec(Live), local' \in [Messages -> 0..Live],
         pending' \in SUBSET (1..Live), events' \in EventsRec,
         events.seen \subseteq events'.seen,
         \/ /\ Without({"overrun"}) => acct'.lock = acct.lock
            /\ d.at \in Critical => run[r].at \in Critical
         \/ d.at = "idle" /\ run[r].at \in Critical
         \/ acct.lock # "held" /\ acct'.lock = "held"
  PROVE  IInv'
<1>1. Live' = Live /\ history' = history /\ watch' = watch /\ renewal' = renewal
      /\ onboarding' = onboarding
  BY DEF others, Live
<1>2. run' \in [Runs -> RunRec(Live)] /\ \A q \in Runs : run'[q].at # "idle" => run'[q].target # 0
  BY DEF IInv, TypeInv
<1>3. TypeInv'
  BY <1>1, <1>2 DEF IInv, TypeInv
<1>4. QED
  BY <1>3, OneRunKeeps DEF IInv

LEMMA IdleIs == /\ \A n \in Nat : Idle \in RunRec(n)
                /\ Idle.at = "idle" /\ Idle.late = FALSE
BY DEF Idle, RunRec

LEMMA EnqueueIs ==
  ASSUME NEW h \in 1..Live, pending \in SUBSET (1..Live), Enqueue(h)
  PROVE  pending' \in SUBSET (1..Live)
BY DEF Enqueue

LEMMA LoadKeeps ==
  ASSUME IInv, NEW r \in Runs, NEW h \in pending, Load(r, h)
  PROVE  IInv'
<1> DEFINE d == [Idle EXCEPT !.at = "loaded", !.target = h, !.cursor = acct.cursor,
                             !.marker = acct.marker]
<1>1. Live \in Nat /\ h \in 1..Live /\ acct \in AcctRec(Live) /\ run \in [Runs -> RunRec(Live)]
  BY HistoryIs DEF IInv, TypeInv
<1>2. d \in RunRec(Live) /\ d.at = "loaded" /\ d.target = h /\ d.late = FALSE
  <2>1. Idle \in RunRec(Live) /\ Idle.late = FALSE
    BY <1>1, IdleIs
  <2>2. acct.cursor \in 0..Live /\ acct.marker \in 0..Live /\ h \in 0..Live
    BY <1>1 DEF AcctRec
  <2>3. QED
    BY <2>1, <2>2 DEF RunRec
<1>3. run' = run \/ run' = [run EXCEPT ![r] = d]
  BY DEF Load
<1> HIDE DEF d
<1>4. /\ UNCHANGED others /\ acct' = acct /\ local' = local /\ events' = events
      /\ pending' \in SUBSET (1..Live) /\ local' \in [Messages -> 0..Live] /\ events' \in EventsRec
  BY DEF Load, IInv, TypeInv
<1>5. "loaded" \notin Critical /\ h # 0
  BY <1>1 DEF Critical
<1>6. CASE run' = [run EXCEPT ![r] = d]
  BY <1>1, <1>2, <1>4, <1>5, <1>6, RunStepKeeps
<1>7. CASE run' = run
  <2>1. run' = [run EXCEPT ![r] = run[r]] /\ run[r] \in RunRec(Live)
    BY <1>1, <1>7
  <2>2. QED
    BY <1>1, <1>4, <2>1, RunStepKeeps DEF IInv, TypeInv
<1>8. QED
  BY <1>3, <1>6, <1>7

LEMMA AcquireKeeps ==
  ASSUME IInv, NEW r \in Runs, Acquire(r)
  PROVE  IInv'
<1> DEFINE d == [run[r] EXCEPT !.at = "locked"]
<1>1. Live \in Nat /\ acct \in AcctRec(Live) /\ run[r] \in RunRec(Live)
      /\ run[r].at = "loaded" /\ run[r].target # 0
  BY HistoryIs DEF IInv, TypeInv, Acquire
<1>2. d \in RunRec(Live) /\ d.target # 0 /\ d.late = run[r].late
  BY <1>1 DEF RunRec, Critical
<1>3. /\ UNCHANGED others /\ local' = local /\ events' = events /\ pending' = pending
      /\ acct' \in AcctRec(Live) /\ acct.lock # "held" /\ acct'.lock = "held"
      /\ run' = [run EXCEPT ![r] = d]
  BY <1>1 DEF Acquire, AcctRec
<1> HIDE DEF d
<1>4. QED
  BY <1>2, <1>3, RunStepKeeps DEF IInv, TypeInv

LEMMA TryLaterKeeps ==
  ASSUME IInv, NEW r \in Runs, TryLater(r)
  PROVE  IInv'
<1>1. Live \in Nat /\ run[r] \in RunRec(Live) /\ run[r].at = "loaded" /\ run[r].target # 0
      /\ pending \in SUBSET (1..Live)
  BY HistoryIs DEF IInv, TypeInv, TryLater
<1>2. run[r].target \in 1..Live
  BY <1>1 DEF RunRec
<1>3. /\ UNCHANGED others /\ acct' = acct /\ local' = local /\ events' = events
      /\ run' = [run EXCEPT ![r] = Idle] /\ pending' \in SUBSET (1..Live)
  BY <1>1, <1>2, EnqueueIs DEF TryLater
<1>4. Idle \in RunRec(Live) /\ Idle.at = "idle" /\ Idle.late = FALSE /\ "idle" \notin Critical
  BY <1>1, IdleIs DEF Critical
<1>5. QED
  BY <1>3, <1>4, RunStepKeeps DEF IInv, TypeInv

LEMMA LeavesIs ==
  ASSUME TypeInv, NEW r \in Runs, run[r].at # "idle", Leaves(r)
  PROVE  \E d \in RunRec(Live) : /\ run' = [run EXCEPT ![r] = d]
                                 /\ d.at = "releasing" /\ d.target # 0 /\ d.late = FALSE
<1> DEFINE d == [Idle EXCEPT !.at = "releasing", !.target = run[r].target]
<1>1. run[r] \in RunRec(Live) /\ run[r].target # 0 /\ Idle \in RunRec(Live) /\ Idle.late = FALSE
  BY IdleIs, HistoryIs DEF TypeInv
<1>2. run[r].target \in 0..Live
  BY <1>1 DEF RunRec
<1>3. d \in RunRec(Live) /\ d.at = "releasing" /\ d.target # 0 /\ d.late = FALSE
  BY <1>1, <1>2 DEF RunRec, Critical
<1>4. QED
  BY <1>3 DEF Leaves

LEMMA ListedIs ==
  ASSUME TypeInv, NEW r \in Runs, run[r].at = "locked", NEW last \in 0..Live, NEW seen \in 0..Live,
         Listed(r, last, seen)
  PROVE  \E d \in RunRec(Live) : /\ run' = [run EXCEPT ![r] = d]
                                 /\ d.at = "processing" /\ d.target # 0 /\ d.late = run[r].late
<1> DEFINE d == [run[r] EXCEPT !.at = "processing", !.next = run[r].cursor + 1, !.last = last,
                               !.seen = seen]
<1>1. run \in [Runs -> RunRec(Live)] /\ run[r].target # 0 /\ Live \in Nat
  BY HistoryIs DEF TypeInv
<1>2. run[r].cursor + 1 \in 1..(Live + 1)
  BY <1>1 DEF RunRec
<1>3. d \in RunRec(Live) /\ d.at = "processing" /\ d.target # 0 /\ d.late = run[r].late
  BY <1>1, <1>2 DEF RunRec, Critical
<1>4. run' = [run EXCEPT ![r] = d]
  BY <1>1 DEF Listed
<1>5. QED
  BY <1>3, <1>4

LEMMA ListKeeps ==
  ASSUME IInv, NEW r \in Runs, List(r)
  PROVE  IInv'
<1>1. /\ run[r] \in RunRec(Live) /\ run[r].at = "locked" /\ Live \in Nat
      /\ acct' \in AcctRec(Live) /\ acct'.lock = acct.lock /\ local' \in [Messages -> 0..Live]
      /\ pending' \in SUBSET (1..Live) /\ UNCHANGED others
  BY HistoryIs DEF IInv, TypeInv, List
<1>2. events' \in EventsRec /\ events.seen \subseteq events'.seen
  <2>1. CASE UNCHANGED events
    BY <2>1 DEF IInv, TypeInv
  <2>2. ASSUME NEW e \in {"lag", "expire"}, Occur({e})
        PROVE  events' \in EventsRec /\ events.seen \subseteq events'.seen
    <3>1. {e} \in SUBSET Events
      BY <2>2 DEF Events
    <3>2. QED
      BY <2>2, <3>1, OccurIs DEF IInv
  <2>3. QED
    BY <2>1, <2>2 DEF List
<1>3. /\ 0 \in 0..Live /\ Live \in 0..Live
      /\ \A last \in run[r].cursor..(Live - 1) : last \in 0..Live
  BY <1>1 DEF RunRec
<1>4. \/ Leaves(r)
      \/ \E last \in 0..Live, seen \in 0..Live : Listed(r, last, seen)
  BY <1>3 DEF List
<1>5. PICK d \in RunRec(Live) :
        /\ run' = [run EXCEPT ![r] = d]
        /\ d.at \in {"processing", "releasing"} /\ d.target # 0 /\ (d.late => run[r].late)
  BY <1>1, <1>4, LeavesIs, ListedIs DEF IInv
<1>6. run[r].at \in Critical
  BY <1>1 DEF Critical
<1>7. QED
  BY <1>1, <1>2, <1>5, <1>6, RunStepKeeps

\* The run goes on with the next record, or with what it fetched of this one.
LEMMA InRecordIs ==
  ASSUME TypeInv, NEW r \in Runs, InRecord(r)
  PROVE  /\ At(r) \in 1..Live /\ Message(r) \in Messages
         /\ \A g \in 0..Live \cup {NULL}, n \in {At(r), At(r) + 1} :
              LET d == [run[r] EXCEPT !.got = g, !.next = n]
              IN  /\ d \in RunRec(Live) /\ d.at = run[r].at /\ d.target = run[r].target
                  /\ d.late = run[r].late
<1>1. run[r] \in RunRec(Live) /\ Live \in Nat
  BY HistoryIs DEF TypeInv
<1>2. At(r) \in 1..Live
  BY <1>1 DEF InRecord, At, RunRec
<1>3. Message(r) \in Messages
  BY <1>2, HistoryIs DEF Message
<1>4. \A n \in {At(r), At(r) + 1} : n \in 1..(Live + 1)
  BY <1>1, <1>2
<1>5. QED
  BY <1>1, <1>2, <1>3, <1>4 DEF RunRec

LEMMA RecordStepKeeps ==
  ASSUME IInv, NEW r \in Runs, InRecord(r), UNCHANGED <<others, acct, pending>>,
         NEW g \in 0..Live \cup {NULL}, NEW n \in {At(r), At(r) + 1},
         run' = [run EXCEPT ![r] = [run[r] EXCEPT !.got = g, !.next = n]],
         local' \in [Messages -> 0..Live],
         events' \in EventsRec, events.seen \subseteq events'.seen
  PROVE  IInv'
<1> DEFINE d == [run[r] EXCEPT !.got = g, !.next = n]
<1>1. run[r].at = "processing" /\ run[r].target # 0
  BY DEF InRecord, IInv, TypeInv
<1>2. d \in RunRec(Live) /\ d.at = "processing" /\ d.target # 0 /\ d.late = run[r].late
  BY <1>1, InRecordIs DEF IInv
<1>3. acct' \in AcctRec(Live) /\ acct'.lock = acct.lock /\ pending' \in SUBSET (1..Live)
      /\ UNCHANGED others /\ run' = [run EXCEPT ![r] = d]
  BY DEF IInv, TypeInv
<1>4. run[r].at \in Critical
  BY <1>1 DEF Critical
<1> HIDE DEF d
<1>5. QED
  BY <1>2, <1>3, <1>4, RunStepKeeps

LEMMA SkipKeeps ==
  ASSUME IInv, NEW r \in Runs, Skip(r)
  PROVE  IInv'
<1>1. /\ InRecord(r) /\ run[r].got = NULL /\ UNCHANGED <<others, acct, pending>>
      /\ run \in [Runs -> RunRec(Live)] /\ local \in [Messages -> 0..Live] /\ Live \in Nat
      /\ run' = [run EXCEPT ![r].next = @ + 1]
  BY HistoryIs DEF Skip, IInv, TypeInv
<1>2. At(r) \in 1..Live /\ Message(r) \in Messages
  BY <1>1, InRecordIs DEF IInv
<1>3. run' = [run EXCEPT ![r] = [run[r] EXCEPT !.got = NULL, !.next = At(r) + 1]]
  BY <1>1 DEF At, RunRec
<1>4. local' \in [Messages -> 0..Live]
  BY <1>1, <1>2 DEF Skip
<1>5. events' \in EventsRec /\ events.seen \subseteq events'.seen
  BY NoteIs DEF Skip, IInv, TypeInv
<1>6. QED
  BY <1>1, <1>3, <1>4, <1>5, RecordStepKeeps

LEMMA FetchKeeps ==
  ASSUME IInv, NEW r \in Runs, Fetch(r)
  PROVE  IInv'
<1>1. /\ InRecord(r) /\ UNCHANGED <<others, acct, pending>> /\ local' \in [Messages -> 0..Live]
      /\ run \in [Runs -> RunRec(Live)] /\ events' \in EventsRec /\ events.seen \subseteq events'.seen
      /\ run' = [run EXCEPT ![r].got = Fetched(Message(r))]
  BY DEF Fetch, IInv, TypeInv
<1>2. Message(r) \in Messages /\ Fetched(Message(r)) \in 0..Live
  BY <1>1, InRecordIs, FetchedIs DEF IInv
<1>3. run' = [run EXCEPT ![r] = [run[r] EXCEPT !.got = Fetched(Message(r)), !.next = At(r)]]
  BY <1>1 DEF At, RunRec
<1>4. QED
  BY <1>1, <1>2, <1>3, RecordStepKeeps

LEMMA SaveKeeps ==
  ASSUME IInv, NEW r \in Runs, Save(r)
  PROVE  IInv'
<1>1. /\ InRecord(r) /\ UNCHANGED <<others, acct, pending>>
      /\ run \in [Runs -> RunRec(Live)] /\ events' \in EventsRec /\ events.seen \subseteq events'.seen
      /\ run[r].got # NULL /\ local \in [Messages -> 0..Live]
      /\ run' = [run EXCEPT ![r].got = NULL, ![r].next = @ + 1]
  BY DEF Save, IInv, TypeInv
<1>2. Message(r) \in Messages /\ run[r].got \in 0..Live
  BY <1>1, InRecordIs DEF IInv, RunRec
<1>3. run' = [run EXCEPT ![r] = [run[r] EXCEPT !.got = NULL, !.next = At(r) + 1]]
  BY <1>1 DEF At, RunRec
<1>4. local' \in [Messages -> 0..Live]
  BY <1>1, <1>2 DEF Save
<1>5. QED
  BY <1>1, <1>3, <1>4, RecordStepKeeps

LEMMA MarkKeeps ==
  ASSUME IInv, NEW r \in Runs, Mark(r)
  PROVE  IInv'
<1> DEFINE c == IF run[r].seen = 0 THEN run[r].target
                ELSE IF run[r].last > run[r].cursor THEN run[r].last ELSE run[r].cursor
<1>1. /\ run[r] \in RunRec(Live) /\ acct \in AcctRec(Live) /\ run[r].at = "processing" /\ UNCHANGED others
      /\ local' \in [Messages -> 0..Live] /\ pending' \in SUBSET (1..Live) /\ Live \in Nat
      /\ events' \in EventsRec /\ events.seen \subseteq events'.seen /\ Leaves(r)
  BY HistoryIs DEF IInv, TypeInv, Mark, MarkTo
<1>2. c \in 0..Live
  BY <1>1 DEF RunRec
<1>3. acct' = [cursor |-> IF c # run[r].cursor THEN c ELSE acct.cursor,
               marker |-> LET seen == IF run[r].seen = 0 THEN run[r].target ELSE run[r].seen
                          IN  IF seen > run[r].marker THEN seen ELSE acct.marker,
               lock |-> IF run[r].late THEN "stale" ELSE "held"]
  BY DEF Mark, MarkTo
<1> HIDE DEF c
<1>4. acct' \in AcctRec(Live)
  <2>1. (IF c # run[r].cursor THEN c ELSE acct.cursor) \in 0..Live
    BY <1>1, <1>2 DEF AcctRec
  <2>2. (LET seen == IF run[r].seen = 0 THEN run[r].target ELSE run[r].seen
         IN  IF seen > run[r].marker THEN seen ELSE acct.marker) \in 0..Live
    BY <1>1 DEF AcctRec, RunRec
  <2>3. QED
    BY <1>3, <2>1, <2>2 DEF AcctRec
<1>5. PICK d \in RunRec(Live) : /\ run' = [run EXCEPT ![r] = d]
                               /\ d.at = "releasing" /\ d.target # 0 /\ d.late = FALSE
  BY <1>1, LeavesIs DEF IInv
<1>6. r \in InCritical
  BY <1>1 DEF InCritical, Critical
<1>7. Without({"overrun"}) => acct'.lock = acct.lock
  BY <1>3, <1>6 DEF IInv, LockIsHeld
<1>8. run[r].at \in Critical
  BY <1>1 DEF Critical
<1>9. QED
  BY <1>1, <1>4, <1>5, <1>7, <1>8, RunStepKeeps

\* The run ends and its lock is free.
LEMMA EndKeeps ==
  ASSUME IInv, NEW r \in Runs, run[r].at \in Critical, UNCHANGED others, local' = local,
         acct' = Released, run' = [run EXCEPT ![r] = Idle],
         pending' \in {pending, pending \cup {run[r].target}},
         events' \in EventsRec, events.seen \subseteq events'.seen
  PROVE  IInv'
<1>1. /\ run[r] \in RunRec(Live) /\ run[r].at # "idle" /\ run[r].target # 0 /\ Live \in Nat
      /\ local' \in [Messages -> 0..Live]
  BY HistoryIs DEF IInv, TypeInv, Critical
<1>2. run[r].target \in 1..Live
  BY <1>1 DEF RunRec
<1>3. pending' \in SUBSET (1..Live)
  BY <1>2 DEF IInv, TypeInv
<1>4. acct' \in AcctRec(Live)
  BY DEF IInv, TypeInv, AcctRec, Released
<1>5. QED
  BY <1>1, <1>3, <1>4, IdleIs, RunStepKeeps

LEMMA ReleaseKeeps ==
  ASSUME IInv, NEW r \in Runs, Release(r)
  PROVE  IInv'
<1>1. run[r].at \in Critical
  BY DEF Release, Critical
<1>2. /\ UNCHANGED others /\ local' = local /\ pending' = pending /\ events' \in EventsRec
      /\ events.seen \subseteq events'.seen
  BY DEF Release, IInv, TypeInv
<1>3. QED
  BY <1>1, <1>2, EndKeeps DEF Release

LEMMA FailKeeps ==
  ASSUME IInv, NEW r \in Runs, Fail(r)
  PROVE  IInv'
<1>1. run[r].at \in Critical
  BY DEF Fail, Critical
<1>2. events' \in EventsRec /\ events.seen \subseteq events'.seen
  <2>1. {"fail"} \in SUBSET Events
    BY DEF Events
  <2>2. QED
    BY <2>1, OccurIs DEF Fail, IInv, TypeInv
<1>3. QED
  BY <1>1, <1>2, EndKeeps DEF Fail

LEMMA CrashKeeps ==
  ASSUME IInv, NEW r \in Runs, Crash(r)
  PROVE  IInv'
<1>1. /\ run[r] \in RunRec(Live) /\ run[r].at # "idle" /\ run[r].target # 0
      /\ Live \in Nat /\ UNCHANGED others
      /\ local' \in [Messages -> 0..Live] /\ acct' \in AcctRec(Live) /\ acct'.lock = acct.lock
      /\ run' = [run EXCEPT ![r] = Idle]
  BY HistoryIs DEF IInv, TypeInv, Crash
<1>2. run[r].target \in 1..Live
  BY <1>1 DEF RunRec
<1>3. pending' \in SUBSET (1..Live)
  BY <1>2 DEF IInv, TypeInv, Crash
<1>4. events' \in EventsRec /\ events.seen \subseteq events'.seen
  <2>1. {"crash"} \in SUBSET Events
    BY DEF Events
  <2>2. QED
    BY <2>1, OccurIs DEF Crash, IInv
<1>5. Idle \in RunRec(Live) /\ Idle.at = "idle" /\ Idle.late = FALSE /\ "idle" \notin Critical
  BY <1>1, IdleIs DEF Critical
<1>6. QED
  BY <1>1, <1>3, <1>4, <1>5, RunStepKeeps

-----------------------------------------------------------------------------
(***************************************************************************)
(* The steps of the others.                                                *)
(***************************************************************************)
\* The lock gets old when nobody works, or in the middle of the work: an overrun.
LEMMA LockGoesStaleKeeps ==
  ASSUME IInv, LockGoesStale
  PROVE  IInv'
<1>1. /\ acct' \in AcctRec(Live) /\ acct'.lock = "stale" /\ UNCHANGED others
      /\ local' = local /\ pending' = pending
  BY DEF IInv, TypeInv, LockGoesStale, AcctRec
<1>2. Live' = Live /\ history' = history /\ watch' = watch /\ renewal' = renewal
      /\ onboarding' = onboarding
  BY <1>1 DEF others, Live
<1>3. CASE InCritical = {}
  <2>1. run' = run /\ events' = events
    BY <1>3 DEF LockGoesStale
  <2>2. TypeInv'
    BY <1>1, <1>2, <2>1 DEF IInv, TypeInv
  <2>3. InCritical' = {} /\ (Without({"overrun"})' => Without({"overrun"}))
    BY <1>3, <2>1 DEF InCritical, Without
  <2>4. QED
    BY <2>1, <2>2, <2>3 DEF IInv, LockIsHeld
<1>4. CASE InCritical # {}
  <2>1. Occur({"overrun"}) /\ run' = [r \in Runs |-> [run[r] EXCEPT !.late = r \in InCritical]]
    BY <1>4 DEF LockGoesStale
  <2>2. events' \in EventsRec /\ "overrun" \in events'.seen
    <3>1. {"overrun"} \in SUBSET Events
      BY DEF Events
    <3>2. QED
      BY <2>1, <3>1, OccurIs DEF IInv
  <2>3. \A r \in Runs : /\ run'[r] \in RunRec(Live) /\ run'[r].at = run[r].at
                        /\ run'[r].target = run[r].target
    <3>1. ASSUME NEW r \in Runs, NEW late \in BOOLEAN
          PROVE  LET d == [run[r] EXCEPT !.late = late]
                 IN  d \in RunRec(Live) /\ d.at = run[r].at /\ d.target = run[r].target
      BY DEF IInv, TypeInv, RunRec
    <3>2. \A r \in Runs : (r \in InCritical) \in BOOLEAN
      OBVIOUS
    <3>3. QED
      BY <2>1, <3>1, <3>2
  <2>4. run' \in [Runs -> RunRec(Live)]
    BY <2>1, <2>3
  <2>5. TypeInv'
    BY <1>1, <1>2, <2>2, <2>3, <2>4 DEF IInv, TypeInv
  <2>6. LockIsHeld'
    BY <2>2 DEF LockIsHeld, Without
  <2>7. QED
    BY <2>5, <2>6 DEF IInv
<1>5. QED
  BY <1>3, <1>4

\* What the other steps have to show.
LEMMA OtherStepKeeps ==
  ASSUME IInv, run' = run, history' = history, acct' \in AcctRec(Live), acct'.lock = acct.lock,
         watch' \in {"new", "live", "due", "dead", "expired"}, pending' \in SUBSET (1..Live),
         local' \in [Messages -> 0..Live], renewal' \in RenewalRec(Live) \cup {NULL},
         onboarding' \in OnboardingRec(Live), events' \in EventsRec,
         events.seen \subseteq events'.seen
  PROVE  IInv'
<1>1. Live' = Live
  BY DEF Live
<1>2. TypeInv'
  BY <1>1 DEF IInv, TypeInv
<1>3. QED
  BY <1>2, NoRunKeeps DEF IInv

\* A new record: what pointed into the history still does.
LEMMA ChangeKeeps ==
  ASSUME IInv, NEW m \in Messages, NEW gone \in BOOLEAN, Change(m, gone)
  PROVE  IInv'
<1> DEFINE n == Live
<1>1. n \in Nat /\ history \in Seq(Record) /\ [of |-> m, gone |-> gone] \in Record
  BY HistoryIs DEF IInv, TypeInv, Record
<1>2. /\ history' = Append(history, [of |-> m, gone |-> gone])
      /\ UNCHANGED <<watch, acct, local, run, renewal, onboarding>>
      /\ pending' = pending \/ Enqueue(n + 1)
      /\ \E kinds \in {{"change"}, {"delete"}, {"change", "lose"}, {"delete", "lose"}} : Occur(kinds)
  <2>1. \A kind : {kind, "lose"} = {kind} \cup {"lose"}
    OBVIOUS
  <2>2. QED
    BY <2>1 DEF Change, Webhook
<1>3. history' \in Seq(Record) /\ Live' = n + 1
  BY <1>1, <1>2, AppendProperties DEF Live
<1> HIDE DEF n
<1>4. pending' \in SUBSET (1..(n + 1))
  <2>1. pending \in SUBSET (1..n)
    BY DEF IInv, TypeInv, n
  <2>2. 1..n \subseteq 1..(n + 1) /\ n + 1 \in 1..(n + 1)
    BY <1>1
  <2>3. pending' = pending \/ pending' = pending \cup {n + 1}
    BY <1>2 DEF Enqueue
  <2>4. QED
    BY <2>1, <2>2, <2>3
<1>5. events' \in EventsRec /\ events.seen \subseteq events'.seen
  <2>1. PICK kinds \in {{"change"}, {"delete"}, {"change", "lose"}, {"delete", "lose"}} : Occur(kinds)
    BY <1>2
  <2>2. kinds \in SUBSET Events
    BY DEF Events
  <2>3. QED
    BY <2>1, <2>2, OccurIs DEF IInv
<1>6. /\ acct' \in AcctRec(n + 1) /\ local' \in [Messages -> 0..(n + 1)]
      /\ run' \in [Runs -> RunRec(n + 1)] /\ renewal' \in RenewalRec(n + 1) \cup {NULL}
      /\ onboarding' \in OnboardingRec(n + 1)
  <2>1. /\ acct \in AcctRec(n) /\ local \in [Messages -> 0..n]
        /\ run \in [Runs -> RunRec(n)] /\ renewal \in RenewalRec(n) \cup {NULL}
        /\ onboarding \in OnboardingRec(n)
    BY DEF IInv, TypeInv, n
  <2>2. 0..n \subseteq 0..(n + 1)
    BY <1>1
  <2>3. QED
    BY <1>1, <1>2, <2>1, <2>2, TypesGrow
<1>7. TypeInv'
  BY <1>2, <1>3, <1>4, <1>5, <1>6 DEF IInv, TypeInv
<1>8. QED
  BY <1>2, <1>5, <1>7, NoRunKeeps DEF IInv

LEMMA WatchStepsKeep ==
  ASSUME IInv, WatchDies \/ WatchIsDue \/ SetupFails
  PROVE  IInv'
<1>1. /\ UNCHANGED <<history, acct, local, pending, run, renewal, onboarding>>
      /\ watch' \in {"due", "dead", "expired"}
      /\ \E e \in {"die", "renew", "fail"} : Occur({e})
  BY DEF WatchDies, WatchIsDue, SetupFails
<1>2. events' \in EventsRec /\ events.seen \subseteq events'.seen
  <2>1. PICK e \in {"die", "renew", "fail"} : Occur({e})
    BY <1>1
  <2>2. {e} \in SUBSET Events
    BY DEF Events
  <2>3. QED
    BY <2>1, <2>2, OccurIs DEF IInv
<1>3. QED
  BY <1>1, <1>2, OtherStepKeeps DEF IInv, TypeInv

LEMMA CallWatchKeeps ==
  ASSUME IInv, CallWatch
  PROVE  IInv'
<1>1. Live \in Nat /\ acct \in AcctRec(Live)
  BY HistoryIs DEF IInv, TypeInv
<1>2. renewal' \in RenewalRec(Live)
  BY <1>1 DEF CallWatch, AcctRec, RenewalRec
<1>3. UNCHANGED <<history, acct, local, pending, run, onboarding, events>> /\ watch' = "live"
  BY DEF CallWatch
<1>4. QED
  BY <1>2, <1>3, OtherStepKeeps DEF IInv, TypeInv

LEMMA MoveCursorIs ==
  ASSUME IInv, NEW c \in 0..Live, MoveCursor(c)
  PROVE  /\ acct' \in AcctRec(Live) /\ acct'.lock = acct.lock
         /\ events' \in EventsRec /\ events.seen \subseteq events'.seen
<1>1. acct \in AcctRec(Live) /\ events \in EventsRec
  BY DEF IInv, TypeInv
<1>2. acct' \in AcctRec(Live) /\ acct'.lock = acct.lock
  BY <1>1 DEF MoveCursor, AcctRec
<1>3. UNCHANGED events \/ Note("overtaken")
  BY DEF MoveCursor
<1>4. QED
  BY <1>1, <1>2, <1>3, NoteIs DEF IInv

LEMMA SaveWatchKeeps ==
  ASSUME IInv, SaveWatch
  PROVE  IInv'
<1>1. renewal \in RenewalRec(Live) /\ renewal' = NULL
      /\ UNCHANGED <<history, watch, local, pending, run, onboarding>>
  BY DEF SaveWatch, IInv, TypeInv
<1>2. (IF renewal.cursor = 0 THEN renewal.live ELSE renewal.cursor) \in 0..Live
  BY <1>1 DEF RenewalRec
<1>3. /\ acct' \in AcctRec(Live) /\ acct'.lock = acct.lock
      /\ events' \in EventsRec /\ events.seen \subseteq events'.seen
  BY <1>2, MoveCursorIs DEF SaveWatch
<1>4. QED
  BY <1>1, <1>3, OtherStepKeeps DEF IInv, TypeInv

LEMMA HealthKeeps ==
  ASSUME IInv, Health
  PROVE  IInv'
<1>1. Live \in Nat /\ acct \in AcctRec(Live) /\ pending \in SUBSET (1..Live)
  BY HistoryIs DEF IInv, TypeInv
<1>2. Live \in 1..Live
  BY <1>1 DEF Health, AcctRec
<1>3. pending' \in SUBSET (1..Live)
  BY <1>1, <1>2, EnqueueIs DEF Health
<1>4. /\ UNCHANGED <<history, acct, local, run, renewal, onboarding, events>>
      /\ watch' \in {watch, "due", "expired"}
  BY DEF Health
<1>5. QED
  BY <1>3, <1>4, OtherStepKeeps DEF IInv, TypeInv

LEMMA OnboardKeeps ==
  ASSUME IInv, Onboard \/ OnboardFails
  PROVE  IInv'
<1>1. /\ onboarding \in OnboardingRec(Live) /\ acct \in AcctRec(Live) /\ Live \in Nat
      /\ events \in EventsRec /\ local \in [Messages -> 0..Live]
  BY HistoryIs DEF IInv, TypeInv
<1>2. Nothing \in [Messages -> 0..Live \cup {NULL}]
  BY DEF Nothing
<1>3. CASE OnboardList
  <2>1. PICK page \in SUBSET {m \in Messages : Exists(m)} :
          onboarding' = [onboarding EXCEPT !.at = "fetching", !.todo = Remaining \ page,
                           !.page = page, !.listed = page, !.cursor = acct.cursor]
    BY <1>3 DEF OnboardList
  <2>4. acct.cursor \in 0..Live /\ page \in SUBSET Messages /\ Remaining \ page \in SUBSET Messages
    BY <1>1 DEF AcctRec, Remaining
  <2>2. onboarding' \in OnboardingRec(Live)
    BY <1>1, <2>1, <2>4 DEF OnboardingRec
  <2>3. QED
    BY <1>1, <1>3, <2>2, OtherStepKeeps DEF OnboardList, IInv, TypeInv
<1>9. CASE OnboardEnds
  <2>1. Remaining \in SUBSET Messages
    BY DEF Remaining
  <2>2. onboarding' \in OnboardingRec(Live)
    BY <1>1, <1>9, <2>1 DEF OnboardEnds, OnboardingRec
  <2>3. QED
    BY <1>1, <1>9, <2>2, OtherStepKeeps DEF OnboardEnds, IInv, TypeInv
<1>4. ASSUME NEW m \in Messages, OnboardFetch(m)
      PROVE  IInv'
  <2>1. Fetched(m) \in 0..Live /\ onboarding.top \in 0..Live
    BY <1>1, FetchedIs DEF IInv, OnboardingRec
  <2>2. Largest({onboarding.top, Fetched(m)}) \in 0..Live
    BY <1>1, <2>1, LargestOfTwo
  <2>3. onboarding' \in OnboardingRec(Live)
    BY <1>1, <1>4, <2>1, <2>2 DEF OnboardFetch, OnboardingRec
  <2>4. QED
    BY <1>1, <1>4, <2>3, OtherStepKeeps DEF OnboardFetch, IInv, TypeInv
<1>5. ASSUME NEW m \in Messages, OnboardCreate(m)
      PROVE  IInv'
  <2>1. onboarding.got[m] \in 0..Live
    BY <1>1, <1>5 DEF OnboardCreate, OnboardingRec
  <2>2. local' \in [Messages -> 0..Live]
    BY <1>1, <1>5, <2>1 DEF OnboardCreate
  <2>3. onboarding' \in OnboardingRec(Live)
    BY <1>1, <1>5 DEF OnboardCreate, OnboardingRec
  <2>4. QED
    BY <1>1, <1>5, <2>2, <2>3, OtherStepKeeps DEF OnboardCreate, IInv, TypeInv
<1>6. CASE OnboardMark
  <2>1. onboarding.top \in 0..Live /\ onboarding' \in OnboardingRec(Live)
    <3>1. onboarding' = [onboarding EXCEPT !.at = "listing", !.page = {}, !.cursor = 0, !.top = 0]
      BY <1>6 DEF OnboardMark
    <3>2. 0 \in 0..Live
      BY <1>1
    <3>3. QED
      BY <1>1, <3>1, <3>2 DEF OnboardingRec
  <2>2. /\ acct' \in AcctRec(Live) /\ acct'.lock = acct.lock
        /\ events' \in EventsRec /\ events.seen \subseteq events'.seen
    BY <1>1, <1>6, <2>1, MoveCursorIs DEF OnboardMark
  <2>3. QED
    BY <1>6, <2>1, <2>2, OtherStepKeeps DEF OnboardMark, IInv, TypeInv
<1>7. CASE OnboardFails
  <2>1. onboarding' \in OnboardingRec(Live)
    <3>1. onboarding' = [onboarding EXCEPT !.at = "listing", !.todo = @ \cup onboarding.page,
             !.page = {}, !.listed = {}, !.got = Nothing, !.cursor = 0, !.top = 0]
      BY <1>7 DEF OnboardFails
    <3>2. onboarding.todo \cup onboarding.page \in SUBSET Messages
      BY <1>1 DEF OnboardingRec
    <3>3. 0 \in 0..Live
      BY <1>1
    <3>4. QED
      BY <1>1, <1>2, <3>1, <3>2, <3>3 DEF OnboardingRec
  <2>2. {"fail"} \in SUBSET Events
    BY DEF Events
  <2>3. events' \in EventsRec /\ events.seen \subseteq events'.seen
    BY <1>7, <2>2, OccurIs DEF OnboardFails, IInv
  <2>4. QED
    BY <1>7, <2>1, <2>3, OtherStepKeeps DEF OnboardFails, IInv, TypeInv
<1>8. QED
  BY <1>3, <1>4, <1>5, <1>6, <1>7, <1>9 DEF Onboard

-----------------------------------------------------------------------------
(***************************************************************************)
(* The theorems                                                            *)
(***************************************************************************)
LEMMA InitHolds == Init => IInv
<1> SUFFICES ASSUME Init PROVE IInv
  OBVIOUS
<1>1. history \in Seq(Record)
  <2>1. PICK s \in SetToSeqs(Old) : history = [i \in 1..Len(s) |-> [of |-> s[i], gone |-> FALSE]]
    BY DEF Init
  <2>2. Cardinality(Old) \in Nat
    BY GmailSyncAssumption, FS_CardinalityType
  <2>3. s \in [1..Cardinality(Old) -> Old]
    BY DEF SetToSeqs
  <2>4. s \in Seq(Old) /\ Len(s) = Cardinality(Old)
    BY <2>2, <2>3
  <2>5. \A i \in 1..Len(s) : [of |-> s[i], gone |-> FALSE] \in Record
    BY <2>3, <2>4 DEF Record, Messages
  <2>6. history \in [1..Len(s) -> Record]
    BY <2>1, <2>5
  <2>7. QED
    BY <2>2, <2>4, <2>6
<1>2. Live \in Nat
  BY <1>1, LenProperties DEF Live
<1>3. PICK start \in Starts :
        /\ events = [left |-> start.left, seen |-> {}]
        /\ watch = IF start.connected THEN "live" ELSE "new"
        /\ acct = [cursor |-> IF start.connected THEN Live ELSE 0, marker |-> 0, lock |-> "free"]
        /\ local = [m \in Messages |-> IF start.connected THEN State(m) ELSE 0]
        /\ onboarding = [at |-> IF start.connected THEN "over" ELSE "new", limit |-> start.limit,
                         todo |-> {}, page |-> {}, listed |-> {}, got |-> Nothing,
                         cursor |-> 0, top |-> 0]
  BY DEF Init
<1>4. events \in EventsRec
  BY <1>3, GmailSyncAssumption DEF EventsRec
<1>5. \A m \in Messages : State(m) \in 0..Live
  BY <1>2, LargestIs DEF State, About
<1>6. acct \in AcctRec(Live) /\ local \in [Messages -> 0..Live]
  BY <1>2, <1>3, <1>5 DEF AcctRec
<1>7. onboarding \in OnboardingRec(Live)
  BY <1>2, <1>3, GmailSyncAssumption DEF OnboardingRec, Nothing
<1>8. run \in [Runs -> RunRec(Live)] /\ \A r \in Runs : run[r].at = "idle" /\ ~run[r].late
  BY <1>2, IdleIs DEF Init
<1>9. TypeInv
  BY <1>1, <1>3, <1>4, <1>6, <1>7, <1>8 DEF TypeInv, Init
<1>10. LockIsHeld
  BY <1>8 DEF LockIsHeld, InCritical, Critical
<1>11. QED
  BY <1>9, <1>10 DEF IInv

LEMMA NextKeeps == IInv /\ [Next]_vars => IInv'
<1> SUFFICES ASSUME IInv, [Next]_vars PROVE IInv'
  OBVIOUS
<1>1. ASSUME NEW r \in Runs, Work(r) PROVE IInv'
  BY <1>1, FailKeeps, AcquireKeeps, TryLaterKeeps, ListKeeps, SkipKeeps, FetchKeeps, SaveKeeps,
     MarkKeeps, ReleaseKeeps DEF Work
<1>2. CASE UNCHANGED vars
  BY <1>2, OtherStepKeeps DEF vars, IInv, TypeInv
<1>3. QED
  BY <1>1, <1>2, ChangeKeeps, WatchStepsKeep, CallWatchKeeps, SaveWatchKeeps, HealthKeeps, LoadKeeps,
     FailKeeps, CrashKeeps, LockGoesStaleKeeps, OnboardKeeps DEF Next, Watching

\* The shape of every variable holds for any messages, workers and events, and nothing points
\* past the newest record of the history.
THEOREM TypeCorrect == Spec => []TypeOK
<1>1. IInv => TypeOK
  <2> SUFFICES ASSUME IInv PROVE TypeOK
    OBVIOUS
  <2>1. Live \in Nat
    BY HistoryIs DEF IInv
  <2>2. run \in [Runs -> [at : {"idle", "loaded"} \cup Critical, target : Nat, cursor : Nat,
                          marker : Nat, next : Nat, last : Nat, seen : Nat,
                          got : Nat \cup {NULL}, late : BOOLEAN]]
    <3>1. RunRec(Live) \subseteq [at : {"idle", "loaded"} \cup Critical, target : Nat, cursor : Nat,
                          marker : Nat, next : Nat, last : Nat, seen : Nat,
                          got : Nat \cup {NULL}, late : BOOLEAN]
      BY <2>1 DEF RunRec
    <3>2. QED
      BY <3>1 DEF IInv, TypeInv
  <2>3. renewal \in [cursor : Nat, live : Nat] \cup {NULL}
    BY <2>1 DEF IInv, TypeInv, RenewalRec
  <2>4. onboarding \in [at : {"new", "listing", "fetching", "over"}, limit : Nat,
                        todo : SUBSET Messages, page : SUBSET Messages, listed : SUBSET Messages,
                        got : [Messages -> Nat \cup {NULL}], cursor : Nat, top : Nat]
    BY <2>1 DEF IInv, TypeInv, OnboardingRec
  <2>5. QED
    BY <2>2, <2>3, <2>4 DEF IInv, TypeInv, TypeOK, Record, AcctRec, EventsRec
<1>2. QED
  BY <1>1, InitHolds, NextKeeps, PTL DEF Spec

\* However workers crash, fail, wait for the lock or find it stale, two runs are never between
\* the taking and the release of it (integrations/google/jobs/gmail.py), unless one outlives
\* its lock.
THEOREM OneSyncAtATimeHolds == Spec => []OneSyncAtATime
<1>1. IInv => OneSyncAtATime
  <2> SUFFICES ASSUME IInv, Without({"overrun"}) PROVE Cardinality(InCritical) <= 1
    BY DEF OneSyncAtATime
  <2>1. \A r, s \in InCritical : r = s
    BY DEF IInv, LockIsHeld
  <2>2. CASE InCritical = {}
    BY <2>2, FS_EmptySet
  <2>3. ASSUME NEW r \in InCritical
        PROVE  Cardinality(InCritical) <= 1
    <3>1. InCritical = {r}
      BY <2>1
    <3>2. Cardinality({r}) = 1
      BY FS_Singleton
    <3>3. QED
      BY <3>1, <3>2
  <2>4. QED
    BY <2>2, <2>3
<1>2. QED
  BY <1>1, InitHolds, NextKeeps, PTL DEF Spec

-----------------------------------------------------------------------------
(***************************************************************************)
(* What is stored.  A message that is gone stays gone, and was there       *)
(* before; what is stored or fetched of a message is one of its records;   *)
(* an onboarding sync that has begun misses none of the old, but for those *)
(* that it has yet to list or that its limit has left out.                 *)
(***************************************************************************)
Ends ==
  /\ \A k \in 1..Live : history[k].gone =>
       /\ \A i \in About(history[k].of) : i <= k
       /\ \E i \in About(history[k].of) : i < k
  /\ \A m \in Old : About(m) # {}

GotIs(r) ==
  run[r].got # NULL =>
    /\ InRecord(r) /\ ~history[At(r)].gone
    /\ run[r].got = 0 => ~Exists(Message(r))
    /\ run[r].got # 0 => run[r].got \in About(Message(r)) /\ run[r].got >= At(r)

OnboardedIs(m) ==
  /\ m \in onboarding.listed => About(m) # {}
  /\ onboarding.got[m] # NULL =>
       /\ m \in onboarding.listed
       /\ onboarding.got[m] = 0 => ~Exists(m)
       /\ onboarding.got[m] # 0 => onboarding.got[m] \in About(m)

Stored ==
  /\ \A m \in Messages : local[m] # 0 => local[m] \in About(m)
  /\ \A r \in Runs : GotIs(r)
  /\ \A m \in Messages : OnboardedIs(m)
  /\ onboarding.listed # {} => onboarding.at = "fetching"
  /\ onboarding.listed \subseteq onboarding.page
  /\ \A m \in Old : Exists(m) /\ ~Unlisted(m) /\ m \notin onboarding.listed => local[m] # 0

(***************************************************************************)
(* Undisturbed, what a run has fetched is as new as what is stored; and    *)
(* what any cursor that somebody has read and may write back, or any run,  *)
(* has passed is covered.                                                  *)
(***************************************************************************)
Undisturbed == Without({"expire", "overrun", "early", "overtaken"})

Copy(c) == \/ c = acct.cursor \/ (\E r \in Runs : c = run[r].cursor)
           \/ (renewal # NULL /\ c = renewal.cursor)

Processing(r) == run[r].at = "processing"

Holds(r, m) == InRecord(r) /\ Message(r) = m /\ run[r].got # NULL

RunFresh(r) ==
  /\ Processing(r) => /\ run[r].cursor > 0 /\ run[r].cursor < run[r].next
                      /\ run[r].next <= run[r].last + 1 /\ run[r].seen # 0
  /\ run[r].got # NULL /\ ~Adds(At(r)) =>
       local[Message(r)] # 0 /\ (run[r].got # 0 => local[Message(r)] <= run[r].got)

Passed(k) == (\E c \in Nat : Copy(c) /\ k <= c) \/ \E r \in Runs : Processing(r) /\ k < run[r].next

PassedCovered == \A k \in 1..Live : Passed(k) => Covered(k)

Resumes == Undisturbed => (\A r \in Runs : RunFresh(r)) /\ PassedCovered

-----------------------------------------------------------------------------
(***************************************************************************)
(* The records about a message.                                            *)
(***************************************************************************)
\* A bounded set of naturals has a least member: of the intervals that end with its
\* members, finite sets, one is minimal.
LEMMA LeastExists ==
  ASSUME NEW n \in Nat, NEW S \in SUBSET (1..n), S # {}
  PROVE  \E k \in S : \A j \in S : k <= j
<1> DEFINE T == {1..k : k \in S}
           R == StrictSubsetOrdering(1..n)
<1>1. IsWellFoundedOn(R, FiniteSubsetsOf(1..n))
  BY FS_StrictSubsetOrderingWellFounded
<1>2. T \subseteq FiniteSubsetsOf(1..n) /\ T # {}
  <2>1. ASSUME NEW k \in S PROVE 1..k \in FiniteSubsetsOf(1..n)
    <3>1. k \in Int /\ 1 \in Int /\ 1..k \subseteq 1..n
      OBVIOUS
    <3>2. IsFiniteSet(1..k)
      BY <3>1, FS_Interval
    <3>3. QED
      BY <3>1, <3>2 DEF FiniteSubsetsOf
  <2>2. QED
    BY <2>1
<1> HIDE DEF T, R
<1>3. \E x \in T : \A y \in T : ~(<<y, x>> \in R)
  BY <1>1, <1>2, WFMin
<1>4. PICK x \in T : \A y \in T : <<y, x>> \notin R
  BY <1>3
<1>5. PICK k \in S : x = 1..k
  BY DEF T
<1>6. ASSUME NEW j \in S, j < k
      PROVE  FALSE
  <2>1. 1..j \in T
    BY DEF T
  <2>2. 1..j \subseteq 1..k /\ k \in 1..k /\ k \notin 1..j /\ 1..k \subseteq 1..n /\ 1..j \subseteq 1..n
    BY <1>6
  <2>3. <<1..j, 1..k>> \in StrictSubsetOrdering(1..n)
    BY <2>2 DEF StrictSubsetOrdering
  <2>4. QED
    BY <1>4, <1>5, <2>1, <2>3 DEF R
<1>7. QED
  BY <1>6

LEMMA RecordsAre ==
  ASSUME TypeInv, NEW m \in Messages
  PROVE  /\ Live \in Nat /\ About(m) \in SUBSET (1..Live)
         /\ About(m) # {} => State(m) \in About(m) /\ \A k \in About(m) : k <= State(m)
         /\ Exists(m) => Fetched(m) = State(m) /\ State(m) \in About(m)
         /\ ~Exists(m) => Fetched(m) = 0
<1>1. Live \in Nat /\ About(m) \in SUBSET (1..Live)
  BY HistoryIs DEF About
<1>2. About(m) # {} => State(m) \in About(m) /\ \A k \in About(m) : k <= State(m)
  BY <1>1, LargestIs DEF State
<1>3. QED
  BY <1>1, <1>2 DEF Fetched, Exists

LEMMA AboutIs ==
  ASSUME TypeInv, NEW k \in 1..Live
  PROVE  k \in About(history[k].of) /\ history[k].of \in Messages
BY HistoryIs DEF About

\* The record that adds a message is its first, and there is one.
LEMMA AddsIs ==
  ASSUME TypeInv, NEW k \in 1..Live
  PROVE  Adds(k) <=> history[k].of \in New /\ \A i \in About(history[k].of) : k <= i
<1> DEFINE S == About(history[k].of)
           first == CHOOSE j \in S : \A i \in S : j <= i
<1>1. Live \in Nat /\ k \in S /\ S \in SUBSET (1..Live)
  BY AboutIs, RecordsAre
<1>2. \E j \in S : \A i \in S : j <= i
  BY <1>1, LeastExists
<1>3. first \in S /\ \A i \in S : first <= i
  BY <1>2
<1>4. Adds(k) <=> history[k].of \in New /\ k = first
  <2>1. first = CHOOSE j \in About(history[k].of) : \A i \in About(history[k].of) : j <= i
    OBVIOUS
  <2>2. QED
    BY <2>1 DEF Adds
<1> HIDE DEF S, first
<1>5. k = first <=> \A i \in S : k <= i
  <2>1. first \in Nat /\ k \in Nat
    BY <1>1, <1>3
  <2>2. (\A i \in S : k <= i) => k <= first /\ first <= k
    BY <1>1, <1>3
  <2>3. QED
    BY <1>3, <2>1, <2>2
<1>6. QED
  BY <1>4, <1>5 DEF S

LEMMA IsAdded ==
  ASSUME TypeInv, NEW m \in New, About(m) # {}
  PROVE  \E j \in About(m) : Adds(j) /\ j \in 1..Live /\ history[j].of = m
<1>1. m \in Messages /\ Live \in Nat /\ About(m) \in SUBSET (1..Live)
  BY RecordsAre DEF Messages
<1>2. PICK j \in About(m) : \A i \in About(m) : j <= i
  BY <1>1, LeastExists
<1>3. j \in 1..Live /\ history[j].of = m
  BY <1>1, <1>2 DEF About
<1>4. QED
  BY <1>2, <1>3, AddsIs

\* What is gone has no later record, and what was added was not gone then.
LEMMA GoneIs ==
  ASSUME TypeInv, Ends, NEW k \in 1..Live, history[k].gone
  PROVE  ~Exists(history[k].of) /\ ~Adds(k)
<1> DEFINE m == history[k].of
<1>1. m \in Messages /\ k \in About(m) /\ \A i \in About(m) : i <= k
  BY AboutIs DEF Ends
<1>2. \E i \in About(m) : i < k
  BY DEF Ends
<1> HIDE DEF m
<1>3. State(m) \in About(m) /\ k <= State(m) /\ State(m) <= k /\ About(m) \in SUBSET (1..Live) /\ Live \in Nat
  BY <1>1, RecordsAre
<1>4. State(m) = k
  BY <1>3
<1>5. ~Exists(m)
  BY <1>4 DEF Exists
<1>6. ~Adds(k)
  <2>1. SUFFICES ASSUME Adds(k) PROVE FALSE
    OBVIOUS
  <2>2. \A i \in About(m) : k <= i
    BY <2>1, AddsIs DEF m
  <2>3. QED
    BY <1>2, <1>3, <2>2
<1>7. QED
  BY <1>5, <1>6 DEF m

LEMMA SameRecords ==
  ASSUME history' = history
  PROVE  /\ Live' = Live
         /\ \A m : /\ About(m)' = About(m) /\ State(m)' = State(m)
                   /\ Exists(m)' = Exists(m) /\ Fetched(m)' = Fetched(m)
         /\ \A k : Adds(k)' = Adds(k)
<1>1. Live' = Live
  BY DEF Live
<1>2. \A m : About(m)' = About(m)
  BY <1>1 DEF About
<1>3. \A m : State(m)' = State(m)
  BY <1>2 DEF State
<1>4. \A m : Exists(m)' = Exists(m)
  BY <1>2, <1>3 DEF Exists
<1>5. \A m : Fetched(m)' = Fetched(m)
  BY <1>3, <1>4 DEF Fetched
<1>6. \A k : Adds(k)' = Adds(k)
  BY <1>2 DEF Adds
<1>7. QED
  BY <1>1, <1>2, <1>3, <1>4, <1>5, <1>6

\* Covered, without its sets.
Unfetched(m) == /\ onboarding.got[m] \in {NULL, 0}
                /\ \A r \in Runs : Holds(r, m) => run[r].got = 0

NoOlder(k, m) == /\ onboarding.got[m] # NULL => onboarding.got[m] >= k
                 /\ \A r \in Runs : Holds(r, m) => run[r].got >= k

Awaited(m) == Unlisted(m) \/ m \in onboarding.listed

CoveredAs(k, m, gone) ==
  \/ local[m] >= k
  \/ ~gone /\ ~Exists(m)
  \/ local[m] = 0 /\ gone /\ Unfetched(m)
  \/ local[m] = 0 /\ ~gone /\ Awaited(m) /\ NoOlder(k, m)

LEMMA CoveredIs ==
  ASSUME NEW k, NEW m, m = history[k].of, NEW gone, gone = history[k].gone
  PROVE  Covered(k) <=> CoveredAs(k, m, gone)
<1>1. OnTheWay(m) \subseteq {NULL, 0} <=> Unfetched(m)
  BY DEF OnTheWay, Unfetched, Holds
<1>2. (\A state \in OnTheWay(m) \ {NULL} : state >= k) <=> NoOlder(k, m)
  BY DEF OnTheWay, NoOlder, Holds
<1>3. QED
  BY <1>1, <1>2 DEF Covered, CoveredAs, Awaited

LEMMA CoveredNext ==
  ASSUME NEW k, NEW m, m = history'[k].of, NEW gone, gone = history'[k].gone
  PROVE  Covered(k)' <=> CoveredAs(k, m, gone)'
<1>1. OnTheWay(m)' \subseteq {NULL, 0} <=> Unfetched(m)'
  BY DEF OnTheWay, Unfetched, Holds
<1>2. (\A state \in OnTheWay(m)' \ {NULL} : state >= k) <=> NoOlder(k, m)'
  BY DEF OnTheWay, NoOlder, Holds
<1>3. OnTheWay(history[k].of)' = OnTheWay(m)' /\ Unlisted(history[k].of)' = Unlisted(m)'
      /\ Exists(history[k].of)' = Exists(m)'
  BY DEF OnTheWay, Unlisted, Exists, State, About
<1>4. QED
  BY <1>1, <1>2, <1>3 DEF Covered, CoveredAs, Awaited

\* What is covered stays so, if no run and no onboarding sync knows more of it.
LEMMA CoveredStays ==
  ASSUME NEW k \in 1..Live, NEW m \in Messages, m = history[k].of, NEW gone, gone = history[k].gone,
         history'[k] = history[k],
         Covered(k), Exists(m)' => Exists(m), local'[m] = local[m],
         Unfetched(m) /\ gone => Unfetched(m)',
         NoOlder(k, m) /\ Exists(m)' /\ ~gone => NoOlder(k, m)',
         Awaited(m) /\ Exists(m)' => Awaited(m)'
  PROVE  Covered(k)'
<1>1. CoveredAs(k, m, gone)
  BY CoveredIs
<1>2. CoveredAs(k, m, gone)'
  BY <1>1 DEF CoveredAs
<1>3. QED
  BY <1>2, CoveredNext

-----------------------------------------------------------------------------
(***************************************************************************)
(* Steps that leave what is stored, and what the onboarding sync knows.    *)
(***************************************************************************)
SameStep(r) == /\ run'[r].at = run[r].at /\ run'[r].next = run[r].next
               /\ run'[r].last = run[r].last /\ run'[r].got = run[r].got

LEMMA SameRecord ==
  ASSUME history' = history, NEW r \in Runs, SameStep(r)
  PROVE  /\ At(r)' = At(r) /\ Message(r)' = Message(r) /\ InRecord(r)' = InRecord(r)
         /\ Processing(r)' = Processing(r) /\ \A m : Holds(r, m)' = Holds(r, m)
<1>1. At(r)' = At(r)
  BY DEF At, SameStep
<1>2. Message(r)' = Message(r) /\ InRecord(r)' = InRecord(r) /\ Processing(r)' = Processing(r)
  BY <1>1 DEF Message, InRecord, Processing, SameStep
<1>3. ASSUME NEW m
      PROVE  Holds(r, m)' = Holds(r, m)
  BY <1>2, Zenon DEF Holds, SameStep
<1>4. QED
  BY <1>1, <1>2, <1>3

LEMMA SameGot ==
  ASSUME history' = history, NEW r \in Runs, GotIs(r), SameStep(r) \/ run'[r].got = NULL
  PROVE  GotIs(r)'
<1>1. CASE run'[r].got = NULL
  BY <1>1 DEF GotIs
<1>2. CASE SameStep(r)
  <2>1. /\ At(r)' = At(r) /\ Message(r)' = Message(r) /\ InRecord(r)' = InRecord(r)
        /\ About(Message(r))' = About(Message(r)) /\ Exists(Message(r))' = Exists(Message(r))
    BY <1>2, SameRecord, SameRecords
  <2>2. QED
    BY <1>2, <2>1 DEF GotIs, SameStep
<1>3. QED
  BY <1>1, <1>2

LEMMA EndsKeep ==
  ASSUME Ends, history' = history
  PROVE  Ends'
BY SameRecords DEF Ends

LEMMA QuietStored ==
  ASSUME Ends, Stored, history' = history, local' = local, onboarding' = onboarding,
         \A r \in Runs : SameStep(r) \/ run'[r].got = NULL
  PROVE  Ends' /\ Stored'
<1>1. \A r \in Runs : GotIs(r)'
  BY SameGot DEF Stored
<1>2. \A m \in Messages : OnboardedIs(m)'
  BY SameRecords DEF Stored, OnboardedIs
<1>3. /\ \A m \in Messages : local'[m] # 0 => local'[m] \in About(m)'
      /\ \A m \in Old : Exists(m)' /\ ~Unlisted(m)' /\ m \notin onboarding'.listed => local'[m] # 0
  BY SameRecords DEF Stored, Unlisted
<1>4. QED
  BY <1>1, <1>2, <1>3, EndsKeep DEF Stored

LEMMA UndisturbedBefore ==
  ASSUME events.seen \subseteq events'.seen, Undisturbed'
  PROVE  Undisturbed
BY DEF Undisturbed, Without

\* What is covered stays so, if no run fetches more.
LEMMA StillCovered ==
  ASSUME history' = history, local' = local, onboarding' = onboarding,
         \A r \in Runs, m \in Messages : Holds(r, m)' => Holds(r, m) /\ run'[r].got = run[r].got,
         TypeInv, NEW k \in 1..Live, Covered(k)
  PROVE  Covered(k)'
<1>1. PICK m \in Messages : m = history[k].of
  BY AboutIs
<1>2. PICK gone : gone = history[k].gone
  OBVIOUS
<1>3. Unfetched(m) => Unfetched(m)'
  BY DEF Unfetched
<1>4. NoOlder(k, m) => NoOlder(k, m)'
  BY DEF NoOlder
<1>5. Awaited(m) => Awaited(m)'
  BY DEF Awaited, Unlisted
<1>6. Exists(m)' = Exists(m)
  BY SameRecords
<1>7. QED
  BY <1>1, <1>2, <1>3, <1>4, <1>5, <1>6, CoveredStays

\* Runs that go on fetch no more, and write back no other cursor.
LEMMA QuietResumes ==
  ASSUME IInv, Stored, Resumes, history' = history, local' = local, onboarding' = onboarding,
         events.seen \subseteq events'.seen,
         \A r \in Runs : \/ run'[r] = run[r]
                         \/ /\ run'[r].got = NULL /\ run'[r].at # "processing"
                            /\ run'[r].cursor \in {0, run[r].cursor, acct.cursor},
         \/ acct'.cursor = acct.cursor
         \/ renewal # NULL /\ acct'.cursor = renewal.cursor,
         renewal' # NULL => renewal' = renewal \/ renewal'.cursor \in {0, acct.cursor}
  PROVE  Resumes'
<1> SUFFICES ASSUME Undisturbed'
             PROVE  (\A r \in Runs : RunFresh(r)') /\ PassedCovered'
  BY DEF Resumes
<1>1. (\A r \in Runs : RunFresh(r)) /\ PassedCovered
  BY UndisturbedBefore DEF Resumes
<1>2. \A c : Copy(c)' => Copy(c) \/ c = 0
  BY DEF Copy
<1>3. \A r \in Runs : Processing(r)' => run'[r] = run[r] /\ Processing(r)
  BY DEF Processing
<1>4. \A r \in Runs, m \in Messages : Holds(r, m)' => Holds(r, m) /\ run'[r].got = run[r].got
  <2>1. SUFFICES ASSUME NEW r \in Runs, NEW m \in Messages, Holds(r, m)'
                 PROVE  Holds(r, m) /\ run'[r].got = run[r].got
    OBVIOUS
  <2>2. run'[r] = run[r]
    BY <2>1 DEF Holds
  <2>3. QED
    BY <2>1, <2>2, SameRecord DEF SameStep
<1>5. \A k \in 1..Live : Covered(k) => Covered(k)'
  BY <1>4, StillCovered DEF IInv
<1>6. \A r \in Runs : RunFresh(r)'
  <2>1. SUFFICES ASSUME NEW r \in Runs PROVE RunFresh(r)'
    OBVIOUS
  <2>2. CASE run'[r] = run[r]
    <3>1. /\ At(r)' = At(r) /\ Message(r)' = Message(r) /\ Processing(r)' = Processing(r)
          /\ Adds(At(r))' = Adds(At(r))
      BY <2>2, SameRecord, SameRecords DEF SameStep
    <3>2. QED
      BY <1>1, <2>2, <3>1 DEF RunFresh
  <2>3. CASE run'[r].got = NULL /\ run'[r].at # "processing"
    BY <2>3 DEF RunFresh, Processing
  <2>4. QED
    BY <2>2, <2>3
<1>7. PassedCovered'
  <2>1. ASSUME NEW k \in 1..Live, Passed(k)'
        PROVE  Covered(k)'
    <3>1. Passed(k)
      <4>1. ASSUME NEW c \in Nat, Copy(c)', k <= c
            PROVE  Passed(k)
        <5>1. c # 0
          BY <4>1
        <5>2. QED
          BY <1>2, <4>1, <5>1 DEF Passed
      <4>2. ASSUME NEW r \in Runs, Processing(r)', k < run'[r].next
            PROVE  Passed(k)
        BY <1>3, <4>2 DEF Passed
      <4>3. QED
        BY <2>1, <4>1, <4>2 DEF Passed
    <3>2. QED
      BY <1>1, <1>5, <3>1 DEF PassedCovered
  <2>2. QED
    BY <2>1, SameRecords DEF PassedCovered
<1>8. QED
  BY <1>6, <1>7

CoverInv == Ends /\ Stored /\ Resumes

LEMMA QuietKeeps ==
  ASSUME IInv, CoverInv, history' = history, local' = local, onboarding' = onboarding,
         events.seen \subseteq events'.seen,
         \A r \in Runs : \/ run'[r] = run[r]
                         \/ /\ run'[r].got = NULL /\ run'[r].at # "processing"
                            /\ run'[r].cursor \in {0, run[r].cursor, acct.cursor},
         \/ acct'.cursor = acct.cursor
         \/ renewal # NULL /\ acct'.cursor = renewal.cursor,
         renewal' # NULL => renewal' = renewal \/ renewal'.cursor \in {0, acct.cursor}
  PROVE  CoverInv'
<1>1. \A r \in Runs : SameStep(r) \/ run'[r].got = NULL
  BY DEF SameStep
<1>2. Ends' /\ Stored'
  BY <1>1, QuietStored DEF CoverInv
<1>3. Resumes'
  BY QuietResumes DEF CoverInv
<1>4. QED
  BY <1>2, <1>3 DEF CoverInv

LEMMA RunEnds ==
  ASSUME IInv, CoverInv, NEW r \in Runs, UNCHANGED <<others, local>>, acct'.cursor = acct.cursor,
         events.seen \subseteq events'.seen,
         NEW d, run' = [run EXCEPT ![r] = d],
         d.got = NULL, d.at # "processing", d.cursor \in {0, run[r].cursor, acct.cursor}
  PROVE  CoverInv'
<1>1. /\ history' = history /\ watch' = watch /\ renewal' = renewal /\ onboarding' = onboarding
      /\ local' = local
  BY DEF others
<1>2. run'[r] = d /\ \A q \in Runs : q # r => run'[q] = run[q]
  BY DEF IInv, TypeInv
<1>3. QED
  BY <1>1, <1>2, QuietKeeps

LEMMA NotInRecord ==
  ASSUME CoverInv, NEW r \in Runs, run[r].at # "processing"
  PROVE  run[r].got = NULL
BY DEF CoverInv, Stored, GotIs, InRecord

LEMMA LoadCovers ==
  ASSUME IInv, CoverInv, NEW r \in Runs, NEW h \in pending, Load(r, h)
  PROVE  CoverInv'
<1> DEFINE d == [Idle EXCEPT !.at = "loaded", !.target = h, !.cursor = acct.cursor,
                             !.marker = acct.marker]
<1>1. d.got = NULL /\ d.at = "loaded" /\ d.cursor = acct.cursor
  BY DEF Idle
<1>2. /\ UNCHANGED <<others, local>> /\ acct' = acct /\ events' = events
      /\ run' = run \/ run' = [run EXCEPT ![r] = d]
  BY DEF Load
<1> HIDE DEF d
<1>3. CASE run' = run
  BY <1>2, <1>3, QuietKeeps DEF others
<1>4. CASE run' = [run EXCEPT ![r] = d]
  BY <1>1, <1>2, <1>4, RunEnds
<1>5. QED
  BY <1>2, <1>3, <1>4

LEMMA AcquireCovers ==
  ASSUME IInv, CoverInv, NEW r \in Runs, Acquire(r)
  PROVE  CoverInv'
<1> DEFINE d == [run[r] EXCEPT !.at = "locked"]
<1>1. run[r] \in RunRec(Live) /\ acct \in AcctRec(Live)
  BY DEF IInv, TypeInv
<1>2. d.got = NULL /\ d.at = "locked" /\ d.cursor = run[r].cursor
  BY <1>1, NotInRecord DEF Acquire, RunRec
<1>3. /\ UNCHANGED <<others, local>> /\ acct'.cursor = acct.cursor /\ events' = events
      /\ run' = [run EXCEPT ![r] = d]
  BY <1>1 DEF Acquire, AcctRec
<1> HIDE DEF d
<1>4. QED
  BY <1>2, <1>3, RunEnds

LEMMA EndCovers ==
  ASSUME IInv, CoverInv, NEW r \in Runs, TryLater(r) \/ Release(r) \/ Fail(r) \/ Crash(r)
  PROVE  CoverInv'
<1>1. acct \in AcctRec(Live)
  BY DEF IInv, TypeInv
<1>2. /\ UNCHANGED <<others, local>> /\ acct'.cursor = acct.cursor /\ run' = [run EXCEPT ![r] = Idle]
  BY <1>1 DEF TryLater, Release, Fail, Crash, Released, AcctRec
<1>3. events.seen \subseteq events'.seen
  <2>1. events' = events \/ \E e \in Events : Occur({e})
    BY DEF TryLater, Release, Fail, Crash, Events
  <2>2. QED
    BY <2>1, OccurIs DEF IInv
<1>4. Idle.got = NULL /\ Idle.at # "processing" /\ Idle.cursor = 0
  BY DEF Idle
<1>5. QED
  BY <1>2, <1>3, <1>4, RunEnds

LEMMA LockGoesStaleCovers ==
  ASSUME IInv, CoverInv, LockGoesStale
  PROVE  CoverInv'
<1>1. /\ UNCHANGED <<others, local, pending>> /\ acct \in AcctRec(Live)
      /\ acct'.cursor = acct.cursor
  BY DEF LockGoesStale, AcctRec, IInv, TypeInv
<1>2. CASE InCritical = {}
  BY <1>1, <1>2, QuietKeeps DEF LockGoesStale, others
<1>3. CASE InCritical # {}
  <2>1. Occur({"overrun"}) /\ run' = [r \in Runs |-> [run[r] EXCEPT !.late = r \in InCritical]]
    BY <1>3 DEF LockGoesStale
  <2>2. "overrun" \in events'.seen
    <3>1. {"overrun"} \in SUBSET Events
      BY DEF Events
    <3>2. QED
      BY <2>1, <3>1, OccurIs DEF IInv
  <2>3. Resumes'
    BY <2>2 DEF Resumes, Undisturbed, Without
  <2>4. \A r \in Runs : SameStep(r)
    BY <2>1 DEF SameStep, IInv, TypeInv, RunRec
  <2>5. Ends' /\ Stored'
    BY <1>1, <2>4, QuietStored DEF CoverInv, others
  <2>6. QED
    BY <2>3, <2>5 DEF CoverInv
<1>4. QED
  BY <1>2, <1>3

LEMMA WatchCovers ==
  ASSUME IInv, CoverInv, WatchDies \/ WatchIsDue \/ SetupFails \/ Health \/ UNCHANGED vars
  PROVE  CoverInv'
<1>1. UNCHANGED <<history, acct, local, run, renewal, onboarding>>
  BY DEF WatchDies, WatchIsDue, SetupFails, Health, vars
<1>2. events.seen \subseteq events'.seen
  <2>1. events' = events \/ \E e \in Events : Occur({e})
    BY DEF WatchDies, WatchIsDue, SetupFails, Health, vars, Events
  <2>2. QED
    BY <2>1, OccurIs DEF IInv
<1>3. QED
  BY <1>1, <1>2, QuietKeeps

LEMMA CallWatchCovers ==
  ASSUME IInv, CoverInv, CallWatch
  PROVE  CoverInv'
<1>1. /\ UNCHANGED <<history, acct, local, run, onboarding, events>>
      /\ renewal'.cursor \in {0, acct.cursor}
  BY DEF CallWatch
<1>2. QED
  BY <1>1, QuietKeeps

-----------------------------------------------------------------------------
(***************************************************************************)
(* Steps that move the cursor.                                             *)
(***************************************************************************)
\* What is moved past by others than the history job is covered, or noted.
LEMMA MoveCursorCovers ==
  ASSUME IInv, CoverInv, NEW c \in 0..Live, MoveCursor(c), Undisturbed'
  PROVE  \A k \in 1..Live : k <= c \/ Passed(k) => Covered(k)
<1>1. acct.cursor \in Nat /\ Live \in Nat /\ events.seen \subseteq events'.seen
  BY HistoryIs, MoveCursorIs DEF IInv, TypeInv, AcctRec
<1>2. PassedCovered
  BY <1>1, UndisturbedBefore DEF CoverInv, Resumes
<1>3. \A k \in (acct.cursor + 1)..c : Covered(k)
  <2>1. SUFFICES ASSUME \E k \in (acct.cursor + 1)..c : ~Covered(k) PROVE FALSE
    OBVIOUS
  <2>2. Note("overtaken") /\ events \in EventsRec
    BY <2>1 DEF MoveCursor, IInv, TypeInv
  <2>3. "overtaken" \in events'.seen
    BY <2>2 DEF Note, EventsRec
  <2>4. QED
    BY <2>3 DEF Undisturbed, Without
<1>4. ASSUME NEW k \in 1..Live, k <= c \/ Passed(k)
      PROVE  Covered(k)
  <2>1. CASE Passed(k)
    BY <1>2, <2>1 DEF PassedCovered
  <2>2. CASE k <= acct.cursor
    BY <1>1, <1>2, <2>2 DEF PassedCovered, Passed, Copy
  <2>3. CASE k > acct.cursor /\ k <= c
    <3>1. k \in (acct.cursor + 1)..c
      BY <1>1, <2>3
    <3>2. QED
      BY <1>3, <3>1
  <2>4. QED
    BY <1>1, <1>4, <2>1, <2>2, <2>3
<1>5. QED
  BY <1>4

LEMMA SaveWatchCovers ==
  ASSUME IInv, CoverInv, SaveWatch
  PROVE  CoverInv'
<1> DEFINE c == IF renewal.cursor = 0 THEN renewal.live ELSE renewal.cursor
<1>1. /\ renewal # NULL /\ renewal \in RenewalRec(Live) /\ renewal' = NULL /\ MoveCursor(c)
      /\ UNCHANGED <<history, watch, local, pending, run, onboarding>>
      /\ acct \in AcctRec(Live) /\ Live \in Nat
  BY HistoryIs DEF SaveWatch, IInv, TypeInv
<1>2. c \in 0..Live /\ c \in Nat
  BY <1>1 DEF RenewalRec
<1>3. acct'.cursor = c
  BY <1>1 DEF MoveCursor, AcctRec
<1>4. events.seen \subseteq events'.seen
  BY <1>1, <1>2, MoveCursorIs
<1> HIDE DEF c
<1>5. Ends' /\ Stored'
  <2>1. \A r \in Runs : SameStep(r)
    BY <1>1 DEF SameStep
  <2>2. QED
    BY <1>1, <2>1, QuietStored DEF CoverInv
<1>6. ASSUME Undisturbed'
      PROVE  (\A r \in Runs : RunFresh(r)') /\ PassedCovered'
  <2>1. \A r \in Runs : RunFresh(r)
    BY <1>4, <1>6, UndisturbedBefore DEF CoverInv, Resumes
  <2>2. \A r \in Runs : /\ run'[r] = run[r] /\ Processing(r)' = Processing(r)
                        /\ At(r)' = At(r) /\ Message(r)' = Message(r)
                        /\ \A m : Holds(r, m)' = Holds(r, m)
    BY <1>1, SameRecord DEF SameStep
  <2>3. \A k \in 1..Live : Covered(k) => Covered(k)'
    BY <1>1, <2>2, StillCovered DEF IInv
  <2>4. \A r \in Runs : RunFresh(r)'
    BY <1>1, <2>1, <2>2, SameRecords DEF RunFresh
  <2>5. \A d : Copy(d)' => d = c \/ \E r \in Runs : d = run[r].cursor
    BY <1>1, <1>3 DEF Copy
  <2>6. PassedCovered'
    <3>1. ASSUME NEW k \in 1..Live, Passed(k)'
          PROVE  k <= c \/ Passed(k)
      <4>1. ASSUME NEW d \in Nat, Copy(d)', k <= d
            PROVE  k <= c \/ Passed(k)
        BY <2>5, <4>1 DEF Passed, Copy
      <4>2. ASSUME NEW r \in Runs, Processing(r)', k < run'[r].next
            PROVE  Passed(k)
        BY <2>2, <4>2 DEF Passed
      <4>3. QED
        BY <3>1, <4>1, <4>2 DEF Passed
    <3>2. \A k \in 1..Live : k <= c \/ Passed(k) => Covered(k)
      BY <1>1, <1>2, <1>6, MoveCursorCovers
    <3>3. QED
      BY <1>1, <2>3, <3>1, <3>2, SameRecords DEF PassedCovered
  <2>7. QED
    BY <2>4, <2>6
<1>7. QED
  BY <1>5, <1>6 DEF CoverInv, Resumes

LEMMA OnboardMarkCovers ==
  ASSUME IInv, CoverInv, OnboardMark
  PROVE  CoverInv'
<1>1. /\ onboarding.at = "fetching" /\ onboarding.listed = {} /\ onboarding \in OnboardingRec(Live)
      /\ UNCHANGED <<history, watch, local, pending, run, renewal>>
      /\ MoveCursor(onboarding.top) \/ UNCHANGED <<acct, events>>
      /\ Live \in Nat
  BY HistoryIs DEF OnboardMark, IInv, TypeInv
<1>2. /\ onboarding'.at = "listing" /\ onboarding'.listed = {} /\ onboarding'.got = onboarding.got
      /\ onboarding'.todo = onboarding.todo /\ onboarding.top \in 0..Live
      /\ \A m : Unlisted(m)' <=> Unlisted(m)
  BY <1>1 DEF OnboardMark, OnboardingRec, Unlisted
<1>3. \A r \in Runs : /\ SameStep(r) /\ run'[r] = run[r] /\ Processing(r)' = Processing(r)
                      /\ At(r)' = At(r) /\ Message(r)' = Message(r)
                      /\ \A m : Holds(r, m)' = Holds(r, m)
  BY <1>1, SameRecord DEF SameStep
<1>4. Ends' /\ Stored'
  <2>1. \A r \in Runs : GotIs(r)'
    BY <1>1, <1>3, SameGot DEF CoverInv, Stored
  <2>2. \A m \in Messages : OnboardedIs(m)'
    BY <1>1, <1>2, SameRecords DEF CoverInv, Stored, OnboardedIs
  <2>3. \A m \in Messages : local'[m] # 0 => local'[m] \in About(m)'
    BY <1>1, SameRecords DEF CoverInv, Stored
  <2>4. \A m \in Old : Exists(m)' /\ ~Unlisted(m)' => local'[m] # 0
    BY <1>1, <1>2, SameRecords DEF CoverInv, Stored
  <2>5. QED
    BY <1>1, <1>2, <2>1, <2>2, <2>3, <2>4, EndsKeep DEF CoverInv, Stored
<1>5. events.seen \subseteq events'.seen
  BY <1>1, <1>2, MoveCursorIs
<1>6. ASSUME Undisturbed'
      PROVE  (\A r \in Runs : RunFresh(r)') /\ PassedCovered'
  <2>1. (\A r \in Runs : RunFresh(r)) /\ PassedCovered
    BY <1>5, <1>6, UndisturbedBefore DEF CoverInv, Resumes
  <2>2. \A r \in Runs : RunFresh(r)'
    BY <1>1, <1>3, <2>1, SameRecords DEF RunFresh
  <2>3. ASSUME NEW k \in 1..Live, Covered(k)
        PROVE  Covered(k)'
    <3>1. PICK m \in Messages : m = history[k].of
      BY AboutIs DEF IInv
    <3>2. PICK gone : gone = history[k].gone
      OBVIOUS
    <3>3. (Unfetched(m) => Unfetched(m)') /\ (NoOlder(k, m) => NoOlder(k, m)')
      BY <1>2, <1>3 DEF Unfetched, NoOlder
    <3>4. Exists(m)' = Exists(m) /\ (Awaited(m) => Awaited(m)')
      BY <1>1, <1>2, SameRecords DEF Awaited
    <3>5. QED
      BY <1>1, <2>3, <3>1, <3>2, <3>3, <3>4, CoveredStays DEF IInv
  <2>4. CASE UNCHANGED <<acct, events>>
    <3>1. \A c : Copy(c)' => Copy(c)
      BY <1>1, <2>4 DEF Copy
    <3>2. \A k \in 1..Live : Passed(k)' => Passed(k)
      BY <1>3, <3>1 DEF Passed
    <3>3. QED
      BY <1>1, <2>1, <2>2, <2>3, <3>2, SameRecords DEF PassedCovered
  <2>5. CASE MoveCursor(onboarding.top)
    <3>1. acct'.cursor = onboarding.top
      BY <2>5 DEF MoveCursor, IInv, TypeInv, AcctRec
    <3>2. \A c : Copy(c)' => Copy(c) \/ c = onboarding.top
      BY <1>1, <3>1 DEF Copy
    <3>3. \A k \in 1..Live : Passed(k)' => Passed(k) \/ k <= onboarding.top
      BY <1>3, <3>2 DEF Passed
    <3>4. \A k \in 1..Live : k <= onboarding.top \/ Passed(k) => Covered(k)
      BY <1>2, <1>6, <2>5, MoveCursorCovers
    <3>5. QED
      BY <1>1, <2>2, <2>3, <3>3, <3>4, SameRecords DEF PassedCovered
  <2>6. QED
    BY <1>1, <2>4, <2>5
<1>7. QED
  BY <1>2, <1>4, <1>6 DEF CoverInv, Resumes

\* The cursor follows the last record: all of them were processed, and the arrivals among
\* them are stored.
LEMMA MarkCovers ==
  ASSUME IInv, CoverInv, NEW r \in Runs, Mark(r)
  PROVE  CoverInv'
<1> DEFINE d == [Idle EXCEPT !.at = "releasing", !.target = run[r].target]
<1>1. /\ run[r] \in RunRec(Live) /\ acct \in AcctRec(Live) /\ Processing(r) /\ ~InRecord(r)
      /\ UNCHANGED <<others, local, pending, events>> /\ run' = [run EXCEPT ![r] = d]
      /\ Live \in Nat
  BY HistoryIs DEF Mark, MarkTo, Leaves, Processing, IInv, TypeInv
<1>2. d.got = NULL /\ d.at = "releasing" /\ d.cursor = 0
  BY DEF Idle
<1>3. run[r].seen # 0 => acct'.cursor = IF run[r].last > run[r].cursor THEN run[r].last ELSE acct.cursor
  BY <1>1 DEF Mark, MarkTo, RunRec
<1> HIDE DEF d
<1>4. run'[r] = d /\ \A q \in Runs : q # r => run'[q] = run[q]
  BY <1>1 DEF IInv, TypeInv
<1>5. /\ history' = history /\ watch' = watch /\ renewal' = renewal /\ onboarding' = onboarding
      /\ local' = local
  BY <1>1 DEF others
<1>6. Ends' /\ Stored'
  <2>1. \A q \in Runs : SameStep(q) \/ run'[q].got = NULL
    BY <1>2, <1>4 DEF SameStep
  <2>2. QED
    BY <1>5, <2>1, QuietStored DEF CoverInv
<1>7. ASSUME Undisturbed'
      PROVE  (\A q \in Runs : RunFresh(q)') /\ PassedCovered'
  <2>1. (\A q \in Runs : RunFresh(q)) /\ PassedCovered
    BY <1>1, <1>7, UndisturbedBefore DEF CoverInv, Resumes
  <2>2. /\ run[r].cursor > 0 /\ run[r].cursor < run[r].next /\ run[r].next <= run[r].last + 1
        /\ run[r].seen # 0 /\ ~(run[r].next <= run[r].last)
        /\ run[r].cursor \in Nat /\ run[r].next \in Nat /\ run[r].last \in Nat /\ acct.cursor \in Nat
    BY <1>1, <2>1 DEF RunFresh, InRecord, Processing, At, RunRec, AcctRec
  <2>3. /\ run[r].next = run[r].last + 1
        /\ acct'.cursor = acct.cursor \/ (acct'.cursor = run[r].last /\ run[r].cursor < run[r].last)
    BY <1>3, <2>2
  <2>4. \A q \in Runs : q # r => /\ SameStep(q) /\ Processing(q)' = Processing(q)
                                 /\ At(q)' = At(q) /\ Message(q)' = Message(q)
                                 /\ \A m : Holds(q, m)' = Holds(q, m)
    BY <1>4, <1>5, SameRecord DEF SameStep
  <2>5. ~Processing(r)' /\ \A m : ~Holds(r, m)'
    BY <1>2, <1>4 DEF Processing, Holds
  <2>6. \A k \in 1..Live : Covered(k) => Covered(k)'
    <3>1. \A q \in Runs, m \in Messages : Holds(q, m)' => Holds(q, m) /\ run'[q].got = run[q].got
      BY <1>4, <2>4, <2>5
    <3>2. QED
      BY <1>5, <3>1, StillCovered DEF IInv
  <2>7. \A q \in Runs : RunFresh(q)'
    <3>1. RunFresh(r)'
      BY <1>2, <1>4, <2>5 DEF RunFresh
    <3>2. ASSUME NEW q \in Runs, q # r
          PROVE  RunFresh(q)'
      BY <1>4, <1>5, <2>1, <2>4, <3>2, SameRecords DEF RunFresh
    <3>3. QED
      BY <3>1, <3>2
  <2>8. \A c : Copy(c)' => Copy(c) \/ c = 0 \/ (c = run[r].last /\ run[r].cursor < run[r].last)
    <3>1. \A q \in Runs : run'[q].cursor = 0 \/ run'[q].cursor = run[q].cursor
      BY <1>2, <1>4
    <3>2. QED
      BY <1>5, <2>3, <3>1 DEF Copy
  <2>11. PassedCovered'
    <3>1. ASSUME NEW k \in 1..Live, Passed(k)'
          PROVE  Passed(k)
      <4>1. ASSUME NEW c \in Nat, Copy(c)', k <= c
            PROVE  Passed(k)
        <5>1. Copy(c) \/ c = run[r].last
          BY <1>1, <2>8, <4>1
        <5>2. CASE c = run[r].last
          <6>1. k < run[r].next
            BY <1>1, <2>2, <2>3, <4>1, <5>2
          <6>2. QED
            BY <1>1, <6>1 DEF Passed
        <5>3. CASE Copy(c)
          BY <4>1, <5>3 DEF Passed
        <5>4. QED
          BY <5>1, <5>2, <5>3
      <4>2. ASSUME NEW q \in Runs, Processing(q)', k < run'[q].next
            PROVE  Passed(k)
        <5>1. q # r
          BY <2>5, <4>2
        <5>2. QED
          BY <1>4, <2>4, <4>2, <5>1 DEF Passed
      <4>3. QED
        BY <3>1, <4>1, <4>2 DEF Passed
    <3>2. QED
      BY <1>5, <2>1, <2>6, <3>1, SameRecords DEF PassedCovered
  <2>12. QED
    BY <2>7, <2>11
<1>8. QED
  BY <1>6, <1>7 DEF CoverInv, Resumes

\* A run starts after the cursor it has read.
LEMMA ListCovers ==
  ASSUME IInv, CoverInv, NEW r \in Runs, List(r)
  PROVE  CoverInv'
<1>1. /\ run[r] \in RunRec(Live) /\ run[r].at = "locked" /\ Live \in Nat
      /\ UNCHANGED <<others, acct, local, pending>> /\ run \in [Runs -> RunRec(Live)]
  BY HistoryIs DEF List, IInv, TypeInv
<1>2. events.seen \subseteq events'.seen
  <2>1. events' = events \/ \E e \in Events : Occur({e})
    BY DEF List, Events
  <2>2. QED
    BY <2>1, OccurIs DEF IInv
<1>3. CASE Leaves(r)
  <2> DEFINE d == [Idle EXCEPT !.at = "releasing", !.target = run[r].target]
  <2>1. d.got = NULL /\ d.at = "releasing" /\ d.cursor = 0 /\ run' = [run EXCEPT ![r] = d]
    BY <1>3 DEF Idle, Leaves
  <2> HIDE DEF d
  <2>2. QED
    BY <1>1, <1>2, <2>1, RunEnds
<1>4. ASSUME NEW last, NEW seen, Listed(r, last, seen), run[r].cursor > 0,
             Undisturbed' => last \in run[r].cursor..Live /\ seen = Live
      PROVE  CoverInv'
  <2> DEFINE d == [run[r] EXCEPT !.at = "processing", !.next = run[r].cursor + 1, !.last = last,
                                 !.seen = seen]
  <2>1. /\ d.at = "processing" /\ d.next = run[r].cursor + 1 /\ d.last = last /\ d.seen = seen
        /\ d.cursor = run[r].cursor /\ d.got = NULL
    BY <1>1, NotInRecord DEF RunRec
  <2>2. run' = [run EXCEPT ![r] = d]
    BY <1>1, <1>4 DEF Listed
  <2> HIDE DEF d
  <2>3. run'[r] = d /\ \A q \in Runs : q # r => run'[q] = run[q]
    BY <1>1, <2>2
  <2>4. /\ history' = history /\ watch' = watch /\ renewal' = renewal /\ onboarding' = onboarding
        /\ local' = local /\ acct' = acct
    BY <1>1 DEF others
  <2>5. Ends' /\ Stored'
    <3>1. \A q \in Runs : SameStep(q) \/ run'[q].got = NULL
      BY <2>1, <2>3 DEF SameStep
    <3>2. QED
      BY <2>4, <3>1, QuietStored DEF CoverInv
  <2>6. ASSUME Undisturbed'
        PROVE  (\A q \in Runs : RunFresh(q)') /\ PassedCovered'
    <3>1. (\A q \in Runs : RunFresh(q)) /\ PassedCovered
      BY <1>2, <2>6, UndisturbedBefore DEF CoverInv, Resumes
    <3>2. \A q \in Runs : q # r => /\ SameStep(q) /\ Processing(q)' = Processing(q)
                                   /\ At(q)' = At(q) /\ Message(q)' = Message(q)
                                   /\ \A m : Holds(q, m)' = Holds(q, m)
      BY <2>3, <2>4, SameRecord DEF SameStep
    <3>3. \A m : ~Holds(r, m)'
      BY <2>1, <2>3 DEF Holds
    <3>4. \A k \in 1..Live : Covered(k) => Covered(k)'
      <4>1. \A q \in Runs, m \in Messages : Holds(q, m)' => Holds(q, m) /\ run'[q].got = run[q].got
        BY <2>3, <3>2, <3>3
      <4>2. QED
        BY <2>4, <4>1, StillCovered DEF IInv
    <3>5. \A q \in Runs : RunFresh(q)'
      <4>1. RunFresh(r)'
        <5>1. run[r].cursor \in 0..Live
          BY <1>1 DEF RunRec
        <5>2. QED
          BY <1>1, <1>4, <2>1, <2>3, <2>6, <5>1 DEF RunFresh
      <4>2. ASSUME NEW q \in Runs, q # r
            PROVE  RunFresh(q)'
        BY <2>3, <2>4, <3>1, <3>2, <4>2, SameRecords DEF RunFresh
      <4>3. QED
        BY <4>1, <4>2
    <3>6. \A c : Copy(c)' <=> Copy(c)
      <4>1. \A q \in Runs : run'[q].cursor = run[q].cursor
        BY <2>1, <2>3
      <4>2. QED
        BY <2>4, <4>1 DEF Copy
    <3>10. PassedCovered'
      <4>1. ASSUME NEW k \in 1..Live, Passed(k)'
            PROVE  Passed(k)
        <5>1. ASSUME NEW q \in Runs, Processing(q)', k < run'[q].next
              PROVE  Passed(k)
          <6>1. CASE q = r
            <7>1. run[r].cursor \in Nat /\ Copy(run[r].cursor)
              BY <1>1 DEF RunRec, Copy
            <7>2. k <= run[r].cursor
              BY <1>1, <2>1, <2>3, <5>1, <6>1, <7>1
            <7>3. QED
              BY <7>1, <7>2 DEF Passed
          <6>2. CASE q # r
            BY <2>3, <3>2, <5>1, <6>2 DEF Passed
          <6>3. QED
            BY <6>1, <6>2
        <5>2. QED
          BY <3>6, <4>1, <5>1 DEF Passed
      <4>2. QED
        BY <2>4, <3>1, <3>4, <4>1, SameRecords DEF PassedCovered
    <3>11. QED
      BY <3>5, <3>10
  <2>7. QED
    BY <2>5, <2>6 DEF CoverInv, Resumes
<1>5. CASE run[r].cursor > 0 /\ Listed(r, Live, Live)
  <2>1. Live \in run[r].cursor..Live
    BY <1>1 DEF RunRec
  <2>2. QED
    BY <1>4, <1>5, <2>1
<1>6. ASSUME run[r].cursor > 0, NEW last \in run[r].cursor..(Live - 1), Listed(r, last, Live)
      PROVE  CoverInv'
  <2>1. last \in run[r].cursor..Live
    BY <1>1, <1>6 DEF RunRec
  <2>2. QED
    BY <1>4, <1>6, <2>1
<1>7. CASE run[r].cursor > 0 /\ Listed(r, 0, 0) /\ Occur({"expire"})
  <2>1. "expire" \in events'.seen
    <3>1. {"expire"} \in SUBSET Events
      BY DEF Events
    <3>2. QED
      BY <1>7, <3>1, OccurIs DEF IInv
  <2>2. ~Undisturbed'
    BY <2>1 DEF Undisturbed, Without
  <2>3. QED
    BY <1>4, <1>7, <2>2
<1>8. QED
  BY <1>3, <1>5, <1>6, <1>7 DEF List

-----------------------------------------------------------------------------
(***************************************************************************)
(* Steps of a run at a record.                                             *)
(***************************************************************************)
\* Undisturbed, a run in a record is the only one.
LEMMA OnlyRun ==
  ASSUME IInv, CoverInv, Undisturbed, NEW r \in Runs, InRecord(r), NEW q \in Runs, q # r
  PROVE  run[q].got = NULL /\ ~Processing(q)
<1>1. Without({"overrun"})
  BY DEF Undisturbed, Without
<1>2. r \in InCritical
  BY DEF InRecord, InCritical, Critical
<1>3. q \notin InCritical
  BY <1>1, <1>2 DEF IInv, LockIsHeld
<1>4. ~Processing(q)
  BY <1>3 DEF InCritical, Critical, Processing
<1>5. QED
  BY <1>4, NotInRecord DEF Processing

\* What is covered stays so when more is stored of a message that has a row.
LEMMA CoveredGrows ==
  ASSUME TypeInv, history' = history, onboarding' = onboarding,
         \A q \in Runs, x \in Messages : ~Holds(q, x)',
         NEW k \in 1..Live, Covered(k), local' \in [Messages -> 0..Live],
         \/ local'[history[k].of] = local[history[k].of]
         \/ local[history[k].of] # 0 /\ local'[history[k].of] >= local[history[k].of]
  PROVE  Covered(k)'
<1>1. PICK m \in Messages : m = history[k].of
  BY AboutIs
<1>2. PICK gone : gone = history[k].gone
  OBVIOUS
<1>3. (Unfetched(m) => Unfetched(m)') /\ (NoOlder(k, m) => NoOlder(k, m)')
  BY DEF Unfetched, NoOlder
<1>4. Exists(m)' = Exists(m) /\ (Awaited(m) => Awaited(m)')
  BY SameRecords DEF Awaited, Unlisted
<1>5. local[m] \in Nat /\ local'[m] \in Nat /\ k \in Nat
  BY HistoryIs DEF TypeInv
<1>6. CASE local'[m] = local[m]
  BY <1>1, <1>2, <1>3, <1>4, <1>6, CoveredStays
<1>7. CASE local[m] # 0 /\ local'[m] >= local[m]
  <2>1. CoveredAs(k, m, gone)
    BY <1>1, <1>2, CoveredIs
  <2>2. CoveredAs(k, m, gone)'
    BY <1>4, <1>5, <1>7, <2>1 DEF CoveredAs
  <2>3. QED
    BY <1>1, <1>2, <2>2, CoveredNext
<1>8. QED
  BY <1>1, <1>6, <1>7

\* A run that goes on: the record is covered, and what is stored of a message that had no
\* row leaves what was passed covered.
LEMMA MovesOn ==
  ASSUME IInv, CoverInv, NEW r \in Runs, InRecord(r), NEW n, n = At(r), NEW m, m = Message(r),
         UNCHANGED <<others, acct, pending>>,
         events.seen \subseteq events'.seen,
         run' = [run EXCEPT ![r] = [run[r] EXCEPT !.got = NULL, !.next = n + 1]],
         local' \in [Messages -> 0..Live],
         \A x \in Messages : x # m => local'[x] = local[x],
         local'[m] # 0 => local'[m] \in About(m),
         local[m] # 0 => local'[m] # 0,
         Undisturbed' => /\ local[m] # 0 => local'[m] >= local[m]
                         /\ Covered(n)'
                         /\ local[m] = 0 /\ local'[m] # 0 =>
                              \A k \in 1..Live : Passed(k) /\ history[k].of = m => Covered(k)'
  PROVE  CoverInv'
<1>1. /\ history' = history /\ watch' = watch /\ renewal' = renewal /\ onboarding' = onboarding
      /\ acct' = acct /\ run[r] \in RunRec(Live) /\ Live \in Nat /\ local \in [Messages -> 0..Live]
      /\ run \in [Runs -> RunRec(Live)]
  BY HistoryIs DEF others, IInv, TypeInv
<1>2. /\ run'[r].got = NULL /\ run'[r].next = n + 1 /\ run'[r].at = run[r].at
      /\ run'[r].last = run[r].last /\ run'[r].cursor = run[r].cursor /\ run'[r].seen = run[r].seen
      /\ \A q \in Runs : q # r => run'[q] = run[q]
  BY <1>1 DEF RunRec
<1>3. n \in 1..Live /\ m \in Messages /\ history[n].of = m
      /\ n = run[r].next /\ n <= run[r].last /\ Processing(r)
  BY InRecordIs DEF IInv, Message, At, InRecord, Processing
<1>4. \A x \in Messages : /\ local'[x] \in Nat /\ local[x] \in Nat
                          /\ local[x] # 0 => local'[x] # 0
  BY <1>1
<1>5. Ends' /\ Stored'
  <2>1. \A q \in Runs : GotIs(q)'
    <3>1. \A q \in Runs : SameStep(q) \/ run'[q].got = NULL
      BY <1>2 DEF SameStep
    <3>2. QED
      BY <1>1, <3>1, SameGot DEF CoverInv, Stored
  <2>2. \A x \in Messages : OnboardedIs(x)'
    BY <1>1, SameRecords DEF CoverInv, Stored, OnboardedIs
  <2>3. \A x \in Messages : local'[x] # 0 => local'[x] \in About(x)'
    BY <1>1, SameRecords DEF CoverInv, Stored
  <2>4. \A x \in Old : Exists(x)' /\ ~Unlisted(x)' /\ x \notin onboarding'.listed => local'[x] # 0
    BY <1>1, <1>4, SameRecords DEF CoverInv, Stored, Messages, Unlisted
  <2>5. QED
    BY <1>1, <2>1, <2>2, <2>3, <2>4, EndsKeep DEF CoverInv, Stored
<1>6. ASSUME Undisturbed'
      PROVE  (\A q \in Runs : RunFresh(q)') /\ PassedCovered'
  <2>1. (\A q \in Runs : RunFresh(q)) /\ PassedCovered /\ Undisturbed
    BY <1>6, UndisturbedBefore DEF CoverInv, Resumes
  <2>2. \A q \in Runs : q # r => ~Processing(q)' /\ run'[q].got = NULL
    BY <1>2, <2>1, OnlyRun DEF Processing
  <2>3. \A q \in Runs : RunFresh(q)'
    <3>1. ASSUME NEW q \in Runs, q # r
          PROVE  RunFresh(q)'
      BY <2>2, <3>1 DEF RunFresh
    <3>2. RunFresh(r)'
      <4>1. /\ run[r].cursor > 0 /\ run[r].cursor < run[r].next /\ run[r].seen # 0
            /\ run[r].cursor \in Nat /\ run[r].last \in Nat
        BY <1>1, <1>3, <2>1 DEF RunFresh, RunRec
      <4>2. QED
        BY <1>2, <1>3, <4>1 DEF RunFresh
    <3>3. QED
      BY <3>1, <3>2
  <2>4. \A q \in Runs, x \in Messages : ~Holds(q, x)'
    BY <1>2, <2>2 DEF Holds
  <2>6. \A c : Copy(c)' <=> Copy(c)
    <3>1. \A q \in Runs : run'[q].cursor = run[q].cursor
      BY <1>2
    <3>2. QED
      BY <1>1, <3>1 DEF Copy
  <2>8. PassedCovered'
    <3>1. ASSUME NEW k \in 1..Live, Passed(k)'
          PROVE  Passed(k) \/ k = n
      <4>1. ASSUME k < run'[r].next
            PROVE  k < run[r].next \/ k = n
        BY <1>1, <1>2, <1>3, <4>1
      <4>2. QED
        BY <1>3, <2>2, <2>6, <3>1, <4>1 DEF Passed
    <3>2. ASSUME NEW k \in 1..Live, Passed(k)
          PROVE  Covered(k)'
      <4>1. Covered(k) /\ history[k].of \in Messages
        BY <2>1, <3>2, AboutIs DEF PassedCovered, IInv
      <4>2. CASE local[m] = 0 /\ local'[m] # 0 /\ history[k].of = m
        BY <1>6, <3>2, <4>2
      <4>3. CASE history[k].of # m \/ local'[m] = local[m]
        <5>1. local'[history[k].of] = local[history[k].of]
          BY <4>1, <4>3
        <5>2. QED
          BY <1>1, <2>4, <4>1, <5>1, CoveredGrows DEF IInv
      <4>4. CASE local[m] # 0 /\ history[k].of = m
        <5>1. local[history[k].of] # 0 /\ local'[history[k].of] >= local[history[k].of]
          BY <1>6, <4>4
        <5>2. QED
          BY <1>1, <2>4, <4>1, <5>1, CoveredGrows DEF IInv
      <4>5. QED
        BY <4>2, <4>3, <4>4
    <3>3. Covered(n)'
      BY <1>6
    <3>4. \A k \in 1..Live : Passed(k)' => Covered(k)'
      BY <3>1, <3>2, <3>3
    <3>5. QED
      BY <1>1, <3>4, SameRecords DEF PassedCovered
  <2>9. QED
    BY <2>3, <2>8
<1>7. QED
  BY <1>5, <1>6 DEF CoverInv, Resumes

LEMMA SkipCovers ==
  ASSUME IInv, CoverInv, NEW r \in Runs, Skip(r)
  PROVE  CoverInv'
<1>1. PICK n : n = At(r)
  OBVIOUS
<1>2. PICK m : m = Message(r)
  OBVIOUS
<1>3. /\ InRecord(r) /\ run[r].got = NULL /\ run[r] \in RunRec(Live) /\ Live \in Nat
      /\ UNCHANGED <<others, acct, pending>> /\ local \in [Messages -> 0..Live]
      /\ \/ local[m] = 0 /\ local' = local
         \/ local[m] # 0 /\ history[n].gone /\ local' = [local EXCEPT ![m] = n]
      /\ m \in onboarding.listed /\ local[m] = 0 => Note("early")
      /\ ~(m \in onboarding.listed /\ local[m] = 0) => UNCHANGED events
  BY <1>1, <1>2, HistoryIs DEF Skip, IInv, TypeInv
<1>4. n \in 1..Live /\ m \in Messages /\ history[n].of = m /\ n \in About(m)
      /\ Processing(r) /\ n = run[r].next
  BY <1>1, <1>2, <1>3, InRecordIs, AboutIs DEF IInv, Message, InRecord, Processing, At
<1>5. ~Adds(n)
  BY <1>1, <1>4, GoneIs DEF Skip, IInv, CoverInv
<1>6. run' = [run EXCEPT ![r] = [run[r] EXCEPT !.got = NULL, !.next = n + 1]]
  <2>1. run' = [run EXCEPT ![r] = [run[r] EXCEPT !.next = n + 1]]
    BY <1>4 DEF Skip, IInv, TypeInv
  <2>2. [run[r] EXCEPT !.next = n + 1] = [run[r] EXCEPT !.got = NULL, !.next = n + 1]
    BY <1>3 DEF RunRec
  <2>3. QED
    BY <2>1, <2>2
<1>7. events.seen \subseteq events'.seen
  BY <1>3, NoteIs DEF IInv
<1>8. local[m] # 0 => local[m] \in About(m)
  BY <1>4 DEF CoverInv, Stored
<1>9. /\ local' \in [Messages -> 0..Live] /\ \A x \in Messages : x # m => local'[x] = local[x]
      /\ local'[m] # 0 => local'[m] \in About(m)
      /\ local[m] # 0 => local'[m] # 0
  BY <1>3, <1>4, <1>8
<1>10. history' = history /\ onboarding' = onboarding
  BY <1>3 DEF others
<1>11. CASE local[m] # 0
  <2>1. history[n].gone /\ local'[m] = n
    BY <1>3, <1>4, <1>11
  <2>2. local'[m] >= local[m]
    BY <1>3, <1>4, <1>8, <1>11, <2>1 DEF CoverInv, Ends
  <2>3. Covered(n)'
    BY <1>4, <1>10, <2>1, CoveredNext DEF CoveredAs
  <2>4. QED
    BY <1>1, <1>2, <1>3, <1>5, <1>6, <1>7, <1>9, <1>11, <2>2, <2>3, MovesOn
<1>12. CASE local[m] = 0
  <2>1. local' = local
    BY <1>3, <1>12
  <2>2. ASSUME Undisturbed'
        PROVE  Covered(n)'
    <3>1. m \notin onboarding.listed
      <4>1. m \in onboarding.listed => "early" \in events'.seen
        BY <1>3, <1>12 DEF Note, IInv, TypeInv, EventsRec
      <4>2. QED
        BY <2>2, <4>1 DEF Undisturbed, Without
    <3>2. Undisturbed /\ PassedCovered
      BY <1>7, <2>2, UndisturbedBefore DEF CoverInv, Resumes
    <3>3. onboarding.got[m] = NULL /\ \A q \in Runs : run'[q].got = NULL
      <4>1. onboarding.got[m] = NULL
        BY <1>4, <3>1 DEF CoverInv, Stored, OnboardedIs
      <4>2. \A q \in Runs : q # r => run[q].got = NULL
        BY <1>3, <3>2, OnlyRun
      <4>3. QED
        BY <1>3, <1>6, <4>1, <4>2 DEF IInv, TypeInv, RunRec
    <3>4. CASE history[n].gone
      <4>1. Unfetched(m)'
        BY <1>10, <3>3 DEF Unfetched, Holds
      <4>2. CoveredAs(n, m, TRUE)'
        BY <1>12, <2>1, <4>1 DEF CoveredAs
      <4>3. history'[n].gone = TRUE
        BY <1>4, <1>10, <3>4, HistoryIs DEF Record, IInv
      <4>4. QED
        BY <1>4, <1>10, <4>2, <4>3, CoveredNext
    <3>5. CASE ~Exists(m) /\ ~history[n].gone
      BY <1>4, <1>10, <3>5, SameRecords, CoveredNext DEF CoveredAs
    <3>6. CASE Exists(m)
      <4>1. Unlisted(m)
        <5>1. CASE m \in Old
          BY <1>12, <3>1, <3>6, <5>1 DEF CoverInv, Stored
        <5>2. CASE m \in New
          <6>1. PICK j \in About(m) : Adds(j) /\ j \in 1..Live /\ history[j].of = m
            BY <1>4, <5>2, IsAdded DEF IInv
          <6>2. j < n
            BY <1>4, <1>5, <6>1, AddsIs DEF IInv
          <6>3. Covered(j)
            BY <1>4, <3>2, <6>1, <6>2 DEF Passed, PassedCovered
          <6>4. ~history[j].gone
            BY <6>1, GoneIs DEF IInv, CoverInv
          <6>5. PICK gone : gone = history[j].gone
            OBVIOUS
          <6>6. CoveredAs(j, m, gone)
            BY <6>1, <6>3, <6>5, CoveredIs
          <6>7. Awaited(m)
            BY <1>12, <3>6, <6>1, <6>4, <6>5, <6>6 DEF CoveredAs
          <6>8. QED
            BY <3>1, <6>7 DEF Awaited
        <5>3. QED
          BY <1>4, <5>1, <5>2 DEF Messages
      <4>2. Awaited(m)' /\ NoOlder(n, m)'
        BY <1>10, <3>3, <4>1 DEF Awaited, Unlisted, NoOlder, Holds
      <4>3. ~history[n].gone
        BY <1>4, <3>6, GoneIs DEF IInv, CoverInv
      <4>4. PICK gone : gone = history[n].gone
        OBVIOUS
      <4>5. CoveredAs(n, m, gone)'
        BY <1>12, <2>1, <4>2, <4>3, <4>4 DEF CoveredAs
      <4>6. QED
        BY <1>4, <1>10, <4>4, <4>5, CoveredNext
    <3>7. QED
      BY <3>4, <3>5, <3>6
  <2>3. QED
    BY <1>1, <1>2, <1>3, <1>5, <1>6, <1>7, <1>9, <1>12, <2>1, <2>2, MovesOn
<1>13. QED
  BY <1>11, <1>12

LEMMA SaveCovers ==
  ASSUME IInv, CoverInv, NEW r \in Runs, Save(r)
  PROVE  CoverInv'
<1>1. PICK n : n = At(r)
  OBVIOUS
<1>2. PICK m : m = Message(r)
  OBVIOUS
<1>3. PICK g : g = run[r].got
  OBVIOUS
<1>4. /\ InRecord(r) /\ g # NULL /\ run[r] \in RunRec(Live) /\ Live \in Nat
      /\ UNCHANGED <<others, acct, pending, events>> /\ local \in [Messages -> 0..Live]
      /\ local' = IF g = 0 \/ (Adds(n) /\ local[m] # 0) THEN local ELSE [local EXCEPT ![m] = g]
  BY <1>1, <1>2, <1>3, HistoryIs DEF Save, IInv, TypeInv
<1>5. n \in 1..Live /\ m \in Messages /\ history[n].of = m /\ n \in About(m) /\ n = run[r].next
  BY <1>1, <1>2, <1>4, InRecordIs, AboutIs DEF IInv, Message, At
<1>6. run' = [run EXCEPT ![r] = [run[r] EXCEPT !.got = NULL, !.next = n + 1]]
  BY <1>5 DEF Save, IInv, TypeInv
<1>7. /\ ~history[n].gone
      /\ g = 0 => ~Exists(m)
      /\ g # 0 => g \in About(m) /\ g >= n
  BY <1>1, <1>2, <1>3, <1>4 DEF CoverInv, Stored, GotIs
<1>8. About(m) \in SUBSET (1..Live) /\ (local[m] # 0 => local[m] \in About(m))
  BY <1>5, RecordsAre DEF IInv, CoverInv, Stored
<1>9. /\ local' \in [Messages -> 0..Live] /\ \A x \in Messages : x # m => local'[x] = local[x]
      /\ local'[m] # 0 => local'[m] \in About(m)
      /\ local[m] # 0 => local'[m] # 0
      /\ g # 0 => local'[m] # 0
      /\ local'[m] = local[m] \/ local'[m] = g
  BY <1>4, <1>5, <1>7, <1>8
<1>10. history' = history /\ onboarding' = onboarding
  BY <1>4 DEF others
<1>11. ASSUME Undisturbed'
       PROVE  /\ local[m] # 0 => local'[m] >= local[m]
              /\ Covered(n)'
              /\ local[m] = 0 /\ local'[m] # 0 =>
                   \A k \in 1..Live : Passed(k) /\ history[k].of = m => Covered(k)'
  <2>1. Undisturbed /\ PassedCovered /\ RunFresh(r)
    BY <1>4, <1>11, UndisturbedBefore DEF CoverInv, Resumes
  <2>2. ~Adds(n) => local[m] # 0 /\ (g # 0 => local[m] <= g)
    BY <1>1, <1>2, <1>3, <1>4, <2>1 DEF RunFresh
  <2>3. local[m] # 0 => local'[m] >= local[m]
    <3>1. CASE local' = local
      BY <1>4, <1>5, <3>1
    <3>2. CASE local'[m] = g /\ g # 0 /\ ~Adds(n)
      BY <1>4, <1>5, <2>2, <3>2, <1>7, <1>8
    <3>3. QED
      BY <1>4, <1>5, <3>1, <3>2
  <2>4. Covered(n)'
    <3>1. PICK gone : gone = history[n].gone
      OBVIOUS
    <3>2. CASE g = 0
      <4>1. CoveredAs(n, m, gone)'
        BY <1>7, <1>10, <3>1, <3>2, SameRecords DEF CoveredAs
      <4>2. QED
        BY <1>5, <1>10, <3>1, <4>1, CoveredNext
    <3>3. CASE g # 0
      <4>1. local'[m] >= n
        <5>1. CASE Adds(n) /\ local[m] # 0
          BY <1>4, <1>5, <1>8, <5>1, AddsIs DEF IInv
        <5>2. CASE ~(Adds(n) /\ local[m] # 0)
          BY <1>4, <1>5, <1>7, <3>3, <5>2
        <5>3. QED
          BY <5>1, <5>2
      <4>2. CoveredAs(n, m, gone)'
        BY <4>1 DEF CoveredAs
      <4>3. QED
        BY <1>5, <1>10, <3>1, <4>2, CoveredNext
    <3>4. QED
      BY <3>2, <3>3
  <2>5. ASSUME local[m] = 0, local'[m] # 0, NEW k \in 1..Live, Passed(k), history[k].of = m
        PROVE  Covered(k)'
    <3>1. local'[m] = g /\ g # 0
      BY <1>9, <2>5
    <3>2. Holds(r, m) /\ run[r].got = g
      BY <1>2, <1>3, <1>4 DEF Holds
    <3>3. PICK gone : gone = history[k].gone
      OBVIOUS
    <3>4. CoveredAs(k, m, gone)
      BY <2>1, <2>5, <3>3, CoveredIs DEF PassedCovered
    <3>5. ~Unfetched(m) /\ (NoOlder(k, m) => g >= k)
      BY <3>1, <3>2 DEF Unfetched, NoOlder
    <3>6. g >= k \/ (~gone /\ ~Exists(m))
      <4>1. ~(local[m] >= k)
        BY <1>4, <2>5
      <4>2. QED
        BY <3>4, <3>5, <4>1 DEF CoveredAs
    <3>7. CoveredAs(k, m, gone)'
      BY <1>10, <3>1, <3>6, SameRecords DEF CoveredAs
    <3>8. QED
      BY <1>10, <2>5, <3>3, <3>7, CoveredNext
  <2>6. QED
    BY <2>3, <2>4, <2>5
<1>12. QED
  BY <1>1, <1>2, <1>4, <1>6, <1>9, <1>11, MovesOn

\* What a run fetches is the newest state of the message; nothing, if that is gone.
LEMMA FetchCovers ==
  ASSUME IInv, CoverInv, NEW r \in Runs, Fetch(r)
  PROVE  CoverInv'
<1>1. PICK n : n = At(r)
  OBVIOUS
<1>2. PICK m : m = Message(r)
  OBVIOUS
<1>3. PICK g : g = Fetched(m)
  OBVIOUS
<1>4. /\ InRecord(r) /\ run[r].got = NULL /\ run[r] \in RunRec(Live) /\ Live \in Nat
      /\ ~history[n].gone /\ (Adds(n) \/ local[m] # 0)
      /\ UNCHANGED <<others, acct, local, pending, events>> /\ local \in [Messages -> 0..Live]
      /\ run' = [run EXCEPT ![r].got = g] /\ run \in [Runs -> RunRec(Live)]
  BY <1>1, <1>2, <1>3, HistoryIs DEF Fetch, IInv, TypeInv
<1>5. n \in 1..Live /\ m \in Messages /\ history[n].of = m /\ n \in About(m)
  BY <1>1, <1>2, <1>4, InRecordIs, AboutIs DEF IInv, Message
<1>6. /\ history' = history /\ watch' = watch /\ renewal' = renewal /\ onboarding' = onboarding
      /\ acct' = acct /\ local' = local /\ events' = events
  BY <1>4 DEF others
<1>7. /\ run'[r].got = g /\ run'[r].at = run[r].at /\ run'[r].next = run[r].next
      /\ run'[r].last = run[r].last /\ run'[r].cursor = run[r].cursor /\ run'[r].seen = run[r].seen
      /\ \A q \in Runs : q # r => run'[q] = run[q]
  BY <1>4 DEF RunRec
<1>8. /\ About(m) \in SUBSET (1..Live) /\ State(m) \in About(m) /\ \A k \in About(m) : k <= State(m)
      /\ Exists(m) => g = State(m)
      /\ ~Exists(m) => g = 0
      /\ local[m] # 0 => local[m] \in About(m)
  BY <1>3, <1>5, RecordsAre DEF IInv, CoverInv, Stored
<1>9. /\ g # NULL
      /\ g = 0 <=> ~Exists(m)
      /\ g # 0 => g \in About(m) /\ g >= n /\ (local[m] # 0 => local[m] <= g)
  BY <1>4, <1>5, <1>8, GmailSyncAssumption
<1>10. /\ At(r)' = n /\ Message(r)' = m /\ InRecord(r)' /\ Processing(r)' = Processing(r)
  BY <1>1, <1>2, <1>4, <1>6, <1>7 DEF At, Message, InRecord, Processing
<1>11. \A q \in Runs : q # r => /\ SameStep(q) /\ Processing(q)' = Processing(q)
                                /\ At(q)' = At(q) /\ Message(q)' = Message(q)
                                /\ \A x : Holds(q, x)' = Holds(q, x)
  BY <1>6, <1>7, SameRecord DEF SameStep
<1>12. Ends' /\ Stored'
  <2>1. GotIs(r)'
    <3>1. /\ About(m)' = About(m) /\ Exists(m)' = Exists(m)
      BY <1>6, SameRecords
    <3>2. run'[r].got \in About(Message(r))' <=> g \in About(m)
      BY <1>6, <1>7, <1>10, SameRecords
    <3>3. Exists(Message(r))' <=> Exists(m)
      BY <1>6, <1>10, SameRecords
    <3>4. QED
      BY <1>4, <1>6, <1>7, <1>9, <1>10, <3>2, <3>3 DEF GotIs
  <2>2. \A q \in Runs : GotIs(q)'
    BY <1>6, <1>11, <2>1, SameGot DEF CoverInv, Stored
  <2>3. \A x \in Messages : OnboardedIs(x)'
    BY <1>6, SameRecords DEF CoverInv, Stored, OnboardedIs
  <2>4. /\ \A x \in Messages : local'[x] # 0 => local'[x] \in About(x)'
        /\ \A x \in Old : Exists(x)' /\ ~Unlisted(x)' /\ x \notin onboarding'.listed => local'[x] # 0
    BY <1>6, SameRecords DEF CoverInv, Stored, Unlisted
  <2>5. QED
    BY <1>6, <2>2, <2>3, <2>4, EndsKeep DEF CoverInv, Stored
<1>13. ASSUME Undisturbed'
       PROVE  (\A q \in Runs : RunFresh(q)') /\ PassedCovered'
  <2>1. (\A q \in Runs : RunFresh(q)) /\ PassedCovered
    BY <1>6, <1>13, UndisturbedBefore DEF CoverInv, Resumes
  <2>2. \A q \in Runs : RunFresh(q)'
    <3>1. RunFresh(r)'
      <4>1. Adds(At(r))' <=> Adds(n)
        BY <1>6, <1>10, SameRecords
      <4>2. local'[Message(r)'] = local[m]
        BY <1>6, <1>10
      <4>3. QED
        BY <1>4, <1>7, <1>9, <1>10, <2>1, <4>1, <4>2 DEF RunFresh
    <3>2. ASSUME NEW q \in Runs, q # r
          PROVE  RunFresh(q)'
      BY <1>6, <1>7, <1>11, <2>1, <3>2, SameRecords DEF RunFresh
    <3>3. QED
      BY <3>1, <3>2
  <2>3. \A q \in Runs, x \in Messages :
          Holds(q, x)' => \/ Holds(q, x) /\ run'[q].got = run[q].got
                          \/ x = m /\ run'[q].got = g
    <3>1. \A x \in Messages : Holds(r, x)' => x = m /\ run'[r].got = g
      BY <1>7, <1>10 DEF Holds
    <3>2. QED
      BY <1>7, <1>11, <3>1
  <2>5. ASSUME NEW k \in 1..Live, Covered(k)
        PROVE  Covered(k)'
    <3>1. PICK x \in Messages : x = history[k].of /\ k \in About(x)
      BY AboutIs DEF IInv
    <3>2. PICK gone : gone = history[k].gone
      OBVIOUS
    <3>3. Unfetched(x) /\ gone => Unfetched(x)'
      <4>1. gone /\ x = m => g = 0
        BY <1>9, <3>1, <3>2, GoneIs DEF IInv, CoverInv
      <4>2. QED
        BY <1>6, <2>3, <4>1 DEF Unfetched
    <3>4. NoOlder(k, x) /\ Exists(x)' => NoOlder(k, x)'
      <4>1. Exists(m)' /\ x = m => g >= k
        BY <1>6, <1>8, <3>1, SameRecords
      <4>2. QED
        BY <1>6, <2>3, <4>1 DEF NoOlder
    <3>5. Exists(x)' = Exists(x) /\ (Awaited(x) => Awaited(x)')
      BY <1>6, SameRecords DEF Awaited, Unlisted
    <3>6. QED
      BY <1>6, <2>5, <3>1, <3>2, <3>3, <3>4, <3>5, CoveredStays
  <2>6. \A c : Copy(c)' <=> Copy(c)
    <3>1. \A q \in Runs : run'[q].cursor = run[q].cursor
      BY <1>7
    <3>2. QED
      BY <1>6, <3>1 DEF Copy
  <2>7. \A q \in Runs : Processing(q)' = Processing(q) /\ run'[q].next = run[q].next
                        /\ run'[q].cursor = run[q].cursor
    BY <1>7, <1>10, <1>11
  <2>9. PassedCovered'
    <3>1. \A k \in 1..Live : Passed(k)' => Passed(k)
      BY <2>6, <2>7 DEF Passed
    <3>2. QED
      BY <1>6, <2>1, <2>5, <3>1, SameRecords DEF PassedCovered
  <2>10. QED
    BY <2>2, <2>9
<1>14. QED
  BY <1>12, <1>13 DEF CoverInv, Resumes


-----------------------------------------------------------------------------
(***************************************************************************)
(* Steps of the onboarding sync.                                           *)
(***************************************************************************)
LEMMA OnboardStep ==
  ASSUME IInv, CoverInv, UNCHANGED <<history, watch, acct, pending, run, renewal>>,
         events.seen \subseteq events'.seen, Stored',
         local' \in [Messages -> 0..Live], \A m \in Messages : local[m] # 0 => local'[m] = local[m],
         \A k \in 1..Live : Covered(k) => Covered(k)'
  PROVE  CoverInv'
<1>1. Ends'
  BY EndsKeep DEF CoverInv
<1>2. \A q \in Runs : /\ Processing(q)' = Processing(q) /\ InRecord(q)' = InRecord(q)
                      /\ At(q)' = At(q) /\ Message(q)' = Message(q)
  BY SameRecord DEF SameStep
<1>3. ASSUME Undisturbed'
      PROVE  (\A q \in Runs : RunFresh(q)') /\ PassedCovered'
  <2>1. (\A q \in Runs : RunFresh(q)) /\ PassedCovered
    BY <1>3, UndisturbedBefore DEF CoverInv, Resumes
  <2>2. ASSUME NEW q \in Runs
        PROVE  RunFresh(q)'
    <3>1. PICK n : n = At(q)
      OBVIOUS
    <3>2. PICK m : m = Message(q)
      OBVIOUS
    <3>3. run[q].got # NULL => m \in Messages
      <4>1. run[q].got # NULL => InRecord(q)
        BY DEF CoverInv, Stored, GotIs
      <4>2. QED
        BY <3>2, <4>1, InRecordIs DEF IInv
    <3>4. At(q)' = n /\ Message(q)' = m /\ (Adds(n)' <=> Adds(n))
      BY <1>2, <3>1, <3>2, SameRecords
    <3>5. Adds(At(q))' <=> Adds(n)
      BY <3>1, <3>4, SameRecords
    <3>6. QED
      BY <1>2, <2>1, <3>1, <3>2, <3>3, <3>4, <3>5 DEF RunFresh
  <2>3. \A c : Copy(c)' <=> Copy(c)
    BY DEF Copy
  <2>4. \A k \in 1..Live : Passed(k)' => Passed(k)
    BY <1>2, <2>3 DEF Passed
  <2>5. PassedCovered'
    BY <2>1, <2>4, SameRecords DEF PassedCovered
  <2>6. QED
    BY <2>2, <2>5
<1>4. QED
  BY <1>1, <1>3 DEF CoverInv, Resumes

\* Nothing is forgotten: what still exists and was awaited, is.
LEMMA OnboardTurns ==
  ASSUME IInv, CoverInv, UNCHANGED <<history, watch, acct, local, pending, run, renewal>>,
         events.seen \subseteq events'.seen,
         onboarding'.listed # {} => onboarding'.at = "fetching",
         onboarding'.listed \subseteq onboarding'.page,
         \A m \in Messages : m \in onboarding'.listed => Exists(m) \/ m \in onboarding.listed,
         \A m \in Messages : onboarding'.got[m] = NULL,
         \A m \in Messages : Exists(m) /\ Awaited(m) => Awaited(m)'
  PROVE  CoverInv'
<1>1. Stored'
  <2>1. \A r \in Runs : GotIs(r)'
    BY SameGot DEF CoverInv, Stored, SameStep
  <2>2. \A m \in Messages : OnboardedIs(m)'
    BY SameRecords DEF CoverInv, Stored, OnboardedIs, Exists
  <2>3. \A m \in Messages : local'[m] # 0 => local'[m] \in About(m)'
    BY SameRecords DEF CoverInv, Stored
  <2>4. \A m \in Old : Exists(m)' /\ ~Unlisted(m)' /\ m \notin onboarding'.listed => local'[m] # 0
    BY SameRecords DEF Messages, CoverInv, Stored, Awaited
  <2>5. QED
    BY <2>1, <2>2, <2>3, <2>4 DEF Stored
<1>2. ASSUME NEW k \in 1..Live, Covered(k)
      PROVE  Covered(k)'
  <2>1. PICK m \in Messages : m = history[k].of
    BY AboutIs DEF IInv
  <2>2. PICK gone : gone = history[k].gone
    OBVIOUS
  <2>3. \A r \in Runs : Holds(r, m)' <=> Holds(r, m)
    BY SameRecord DEF SameStep
  <2>4. (Unfetched(m) => Unfetched(m)') /\ (NoOlder(k, m) => NoOlder(k, m)')
    BY <2>3 DEF Unfetched, NoOlder
  <2>5. Exists(m)' = Exists(m)
    BY SameRecords
  <2>6. QED
    BY <1>2, <2>1, <2>2, <2>4, <2>5, CoveredStays
<1>3. local \in [Messages -> 0..Live]
  BY DEF IInv, TypeInv
<1>4. QED
  BY <1>1, <1>2, <1>3, OnboardStep

LEMMA OnboardListCovers ==
  ASSUME IInv, CoverInv, OnboardList
  PROVE  CoverInv'
<1>1. PICK page \in SUBSET {m \in Messages : Exists(m)} :
        onboarding' = [onboarding EXCEPT !.at = "fetching", !.todo = Remaining \ page,
                         !.page = page, !.listed = page, !.cursor = acct.cursor]
  BY DEF OnboardList
<1>2. /\ UNCHANGED <<history, watch, acct, local, pending, run, renewal, events>>
      /\ onboarding.at \in {"new", "listing"} /\ onboarding \in OnboardingRec(Live)
  BY DEF OnboardList, IInv, TypeInv
<1>3. /\ onboarding'.at = "fetching" /\ onboarding'.listed = page /\ onboarding'.page = page
      /\ onboarding'.todo = Remaining \ page /\ onboarding'.got = onboarding.got
  BY <1>1, <1>2 DEF OnboardingRec
<1>4. onboarding.listed = {} /\ \A m \in Messages : onboarding.got[m] = NULL
  BY <1>2 DEF CoverInv, Stored, OnboardedIs
<1>5. \A m \in Messages : Exists(m) /\ Awaited(m) => Awaited(m)'
  BY <1>3, <1>4 DEF Awaited, Unlisted, Remaining
<1>6. QED
  BY <1>2, <1>3, <1>4, <1>5, OnboardTurns

LEMMA OnboardEndsCovers ==
  ASSUME IInv, CoverInv, OnboardEnds
  PROVE  CoverInv'
<1>1. /\ UNCHANGED <<history, watch, acct, local, pending, run, renewal, events>>
      /\ onboarding.at \in {"new", "listing"} /\ onboarding \in OnboardingRec(Live)
  BY DEF OnboardEnds, IInv, TypeInv
<1>2. /\ onboarding'.listed = onboarding.listed /\ onboarding'.page = onboarding.page
      /\ onboarding'.todo = Remaining /\ onboarding'.got = onboarding.got
  BY <1>1 DEF OnboardEnds, OnboardingRec
<1>3. onboarding.listed = {} /\ \A m \in Messages : onboarding.got[m] = NULL
  BY <1>1 DEF CoverInv, Stored, OnboardedIs
<1>4. \A m \in Messages : Exists(m) /\ Awaited(m) => Awaited(m)'
  BY <1>2, <1>3 DEF Awaited, Unlisted, Remaining
<1>5. QED
  BY <1>1, <1>2, <1>3, <1>4, OnboardTurns

LEMMA OnboardFetchCovers ==
  ASSUME IInv, CoverInv, NEW m \in Messages, OnboardFetch(m)
  PROVE  CoverInv'
<1>1. PICK g : g = Fetched(m)
  OBVIOUS
<1>2. /\ UNCHANGED <<history, watch, acct, local, pending, run, renewal, events>>
      /\ onboarding.at = "fetching" /\ onboarding'.at = "fetching"
      /\ onboarding'.listed = onboarding.listed /\ m \in onboarding.listed
      /\ onboarding'.page = onboarding.page /\ \A x : Unlisted(x)' <=> Unlisted(x)
      /\ onboarding'.got[m] = g /\ \A x \in Messages : x # m => onboarding'.got[x] = onboarding.got[x]
      /\ local \in [Messages -> 0..Live] /\ Live \in Nat
  BY <1>1, HistoryIs DEF OnboardFetch, IInv, TypeInv, OnboardingRec, Unlisted
<1>3. /\ About(m) # {} /\ About(m) \in SUBSET (1..Live)
      /\ State(m) \in About(m) /\ \A k \in About(m) : k <= State(m)
      /\ Exists(m) => g = State(m)
      /\ ~Exists(m) => g = 0
  BY <1>1, <1>2, RecordsAre DEF IInv, CoverInv, Stored, OnboardedIs
<1>4. g = 0 <=> ~Exists(m)
  BY <1>2, <1>3
<1>5. Stored'
  <2>1. \A r \in Runs : GotIs(r)'
    BY <1>2, SameGot DEF CoverInv, Stored, SameStep
  <2>2. \A x \in Messages : OnboardedIs(x)'
    <3>1. OnboardedIs(m)'
      BY <1>2, <1>3, <1>4, SameRecords DEF OnboardedIs
    <3>2. \A x \in Messages : x # m => OnboardedIs(x)'
      BY <1>2, SameRecords DEF OnboardedIs, CoverInv, Stored
    <3>3. QED
      BY <3>1, <3>2
  <2>3. /\ \A x \in Messages : local'[x] # 0 => local'[x] \in About(x)'
        /\ \A x \in Old : Exists(x)' /\ ~Unlisted(x)' /\ x \notin onboarding'.listed => local'[x] # 0
    BY <1>2, SameRecords DEF CoverInv, Stored
  <2>4. QED
    BY <1>2, <2>1, <2>2, <2>3 DEF CoverInv, Stored
<1>6. ASSUME NEW k \in 1..Live, Covered(k)
      PROVE  Covered(k)'
  <2>1. PICK x \in Messages : x = history[k].of /\ k \in About(x)
    BY AboutIs DEF IInv
  <2>2. PICK gone : gone = history[k].gone
    OBVIOUS
  <2>3. \A r \in Runs : Holds(r, x)' <=> Holds(r, x)
    BY <1>2, SameRecord DEF SameStep
  <2>4. Unfetched(x) /\ gone => Unfetched(x)'
    <3>1. gone /\ x = m => g = 0
      BY <1>4, <2>1, <2>2, GoneIs DEF IInv, CoverInv
    <3>2. QED
      BY <1>2, <2>3, <3>1 DEF Unfetched
  <2>5. NoOlder(k, x) /\ Exists(x)' => NoOlder(k, x)'
    <3>1. Exists(m)' /\ x = m => g >= k
      BY <1>2, <1>3, <2>1, SameRecords
    <3>2. QED
      BY <1>2, <2>3, <3>1 DEF NoOlder
  <2>6. Exists(x)' = Exists(x) /\ (Awaited(x) => Awaited(x)')
    BY <1>2, SameRecords DEF Awaited
  <2>7. QED
    BY <1>2, <1>6, <2>1, <2>2, <2>4, <2>5, <2>6, CoveredStays
<1>7. QED
  BY <1>2, <1>5, <1>6, OnboardStep

LEMMA OnboardCreateCovers ==
  ASSUME IInv, CoverInv, NEW m \in Messages, OnboardCreate(m)
  PROVE  CoverInv'
<1>1. PICK g : g = onboarding.got[m]
  OBVIOUS
<1>2. /\ UNCHANGED <<history, watch, acct, pending, run, renewal, events>>
      /\ onboarding.at = "fetching" /\ onboarding'.at = "fetching"
      /\ onboarding'.listed = onboarding.listed \ {m} /\ g # NULL
      /\ onboarding'.page = onboarding.page /\ \A x : Unlisted(x)' <=> Unlisted(x)
      /\ onboarding'.got[m] = NULL
      /\ \A x \in Messages : x # m => onboarding'.got[x] = onboarding.got[x]
      /\ local' = IF local[m] = 0 THEN [local EXCEPT ![m] = g] ELSE local
      /\ local \in [Messages -> 0..Live] /\ Live \in Nat /\ g \in 0..Live
  BY <1>1, HistoryIs DEF OnboardCreate, IInv, TypeInv, OnboardingRec, Unlisted
<1>3. /\ g = 0 => ~Exists(m)
      /\ g # 0 => g \in About(m)
  BY <1>1, <1>2 DEF CoverInv, Stored, OnboardedIs
<1>4. /\ local' \in [Messages -> 0..Live]
      /\ \A x \in Messages : local[x] # 0 \/ x # m => local'[x] = local[x]
      /\ local[m] = 0 => local'[m] = g
  BY <1>2
<1>5. Stored'
  <2>1. \A r \in Runs : GotIs(r)'
    BY <1>2, SameGot DEF CoverInv, Stored, SameStep
  <2>2. \A x \in Messages : OnboardedIs(x)'
    BY <1>2, SameRecords DEF OnboardedIs, CoverInv, Stored
  <2>3. \A x \in Messages : local'[x] # 0 => local'[x] \in About(x)'
    BY <1>2, <1>3, <1>4, SameRecords DEF CoverInv, Stored
  <2>4. \A x \in Old : Exists(x)' /\ ~Unlisted(x)' /\ x \notin onboarding'.listed => local'[x] # 0
    <3>1. ASSUME NEW x \in Old, Exists(x), ~Unlisted(x), x \notin onboarding.listed \ {m}
          PROVE  local'[x] # 0
      <4>1. x \in Messages
        BY DEF Messages
      <4>2. CASE x = m
        BY <1>3, <1>4, <3>1, <4>2
      <4>3. CASE x # m
        BY <1>2, <1>4, <3>1, <4>1, <4>3 DEF CoverInv, Stored
      <4>4. QED
        BY <4>2, <4>3
    <3>2. QED
      BY <1>2, <3>1, SameRecords
  <2>5. QED
    BY <1>2, <2>1, <2>2, <2>3, <2>4 DEF CoverInv, Stored
<1>6. ASSUME NEW k \in 1..Live, Covered(k)
      PROVE  Covered(k)'
  <2>1. PICK x \in Messages : x = history[k].of
    BY AboutIs DEF IInv
  <2>2. PICK gone : gone = history[k].gone
    OBVIOUS
  <2>3. \A r \in Runs : Holds(r, x)' <=> Holds(r, x)
    BY <1>2, SameRecord DEF SameStep
  <2>4. Exists(x)' = Exists(x)
    BY <1>2, SameRecords
  <2>5. (Unfetched(x) => Unfetched(x)') /\ (NoOlder(k, x) => NoOlder(k, x)')
    BY <1>2, <2>3 DEF Unfetched, NoOlder
  <2>6. CASE x # m \/ local[x] # 0
    <3>1. local'[x] = local[x]
      BY <1>4, <2>6
    <3>2. CASE x # m
      <4>1. Awaited(x) => Awaited(x)'
        BY <1>2, <3>2 DEF Awaited
      <4>2. QED
        BY <1>2, <1>6, <2>1, <2>2, <2>4, <2>5, <3>1, <4>1, CoveredStays
    <3>3. CASE local[x] # 0
      <4>1. CoveredAs(k, x, gone)
        BY <1>6, <2>1, <2>2, CoveredIs
      <4>2. CoveredAs(k, x, gone)'
        BY <2>4, <3>1, <3>3, <4>1 DEF CoveredAs
      <4>3. QED
        BY <1>2, <2>1, <2>2, <4>2, CoveredNext
    <3>4. QED
      BY <2>6, <3>2, <3>3
  <2>7. CASE x = m /\ local[m] = 0
    <3>1. local'[m] = g /\ ~(local[m] >= k)
      BY <1>2, <1>4, <2>7
    <3>2. CoveredAs(k, m, gone)
      BY <1>6, <2>1, <2>2, <2>7, CoveredIs
    <3>3. Unfetched(m) => g = 0
      BY <1>1, <1>2 DEF Unfetched
    <3>4. NoOlder(k, m) => g >= k
      BY <1>1, <1>2 DEF NoOlder
    <3>5. CoveredAs(k, m, gone)'
      BY <2>4, <2>5, <2>7, <3>1, <3>2, <3>3, <3>4 DEF CoveredAs
    <3>6. QED
      BY <1>2, <2>1, <2>2, <2>7, <3>5, CoveredNext
  <2>8. QED
    BY <2>6, <2>7
<1>7. QED
  BY <1>2, <1>4, <1>5, <1>6, OnboardStep

LEMMA OnboardFailsCovers ==
  ASSUME IInv, CoverInv, OnboardFails
  PROVE  CoverInv'
<1>1. /\ UNCHANGED <<history, watch, acct, local, pending, run, renewal>>
      /\ onboarding.at = "fetching" /\ onboarding \in OnboardingRec(Live)
  BY DEF OnboardFails, IInv, TypeInv
<1>2. /\ onboarding'.listed = {} /\ onboarding'.todo = onboarding.todo \cup onboarding.page
      /\ \A m \in Messages : onboarding'.got[m] = NULL
  BY <1>1 DEF OnboardFails, OnboardingRec, Nothing
<1>3. events.seen \subseteq events'.seen
  <2>1. {"fail"} \in SUBSET Events
    BY DEF Events
  <2>2. QED
    BY <2>1, OccurIs DEF OnboardFails, IInv
<1>4. \A m \in Messages : Awaited(m) => Awaited(m)'
  BY <1>1, <1>2 DEF Awaited, Unlisted, CoverInv, Stored
<1>5. QED
  BY <1>1, <1>2, <1>3, <1>4, OnboardTurns


-----------------------------------------------------------------------------
(***************************************************************************)
(* Gmail writes a record.                                                  *)
(***************************************************************************)
LEMMA AppendedIs ==
  ASSUME TypeInv, NEW x \in Messages, NEW gone \in BOOLEAN,
         history' = Append(history, [of |-> x, gone |-> gone])
  PROVE  /\ Live' = Live + 1 /\ Live \in Nat
         /\ \A k \in 1..Live : history'[k] = history[k]
         /\ history'[Live + 1].of = x /\ history'[Live + 1].gone = gone
         /\ \A m : About(m)' = About(m) \cup (IF m = x THEN {Live + 1} ELSE {})
         /\ Exists(x)' => ~gone
         /\ \A m : m # x => Exists(m)' = Exists(m)
         /\ \A k \in 1..Live : Adds(k)' => Adds(k)
         /\ \A k \in 1..Live : Adds(k) => Adds(k)'
<1> DEFINE n == Live + 1
           e == [of |-> x, gone |-> gone]
<1>1. history \in Seq(Record) /\ e \in Record /\ Live \in Nat
  BY HistoryIs DEF TypeInv, Record
<1>2. Live' = n /\ (\A k \in 1..Live : history'[k] = history[k]) /\ history'[n] = e
  BY <1>1, AppendProperties DEF Live
<1>3. e.of = x /\ e.gone = gone
  OBVIOUS
<1>4. 1..n = 1..Live \cup {n} /\ n \notin 1..Live
  BY <1>1
<1> HIDE DEF n, e
<1>5. \A m : About(m)' = About(m) \cup (IF m = x THEN {n} ELSE {})
  <2>1. ASSUME NEW m
        PROVE  About(m)' = About(m) \cup (IF m = x THEN {n} ELSE {})
    <3>1. About(m)' = {k \in 1..n : history'[k].of = m}
      BY <1>2 DEF About
    <3>2. \A k : k \in About(m)' <=> k \in About(m) \/ (k = n /\ m = x)
      BY <1>2, <1>3, <1>4, <3>1 DEF About
    <3>3. QED
      BY <3>2
  <2>2. QED
    BY <2>1
<1>6. \A m : m # x => State(m)' = State(m)
  BY <1>5 DEF State
<1>7. \A m : About(m) \subseteq 1..Live
  BY DEF About
<1>8. \A m : m # x => Exists(m)' = Exists(m)
  <2>1. ASSUME NEW m, m # x
        PROVE  Exists(m)' = Exists(m)
    <3>1. About(m)' = About(m) /\ State(m)' = State(m)
      BY <1>5, <1>6, <2>1
    <3>2. About(m) # {} => State(m) \in 1..Live
      BY <1>1, <1>7, LargestIs DEF State
    <3>3. About(m) # {} => history'[State(m)] = history[State(m)]
      BY <1>2, <3>2
    <3>4. QED
      BY <3>1, <3>3 DEF Exists
  <2>2. QED
    BY <2>1
<1>9. Exists(x)' => ~gone
  <2>1. About(x)' = About(x) \cup {n}
    BY <1>5
  <2>2. n \in Nat /\ About(x) \cup {n} \in SUBSET (1..n)
    BY <1>1, <1>4, <1>7 DEF n
  <2>3. State(x)' = Largest(About(x) \cup {n})
    BY <2>1 DEF State
  <2>4. State(x)' \in About(x) \cup {n} /\ n <= State(x)'
    BY <2>2, <2>3, LargestIs
  <2>5. State(x)' = n
    BY <2>2, <2>4
  <2>6. QED
    BY <1>2, <1>3, <2>5 DEF Exists
<1>10. ASSUME NEW k \in 1..Live
       PROVE  Adds(k)' <=> Adds(k)
  <2>1. PICK m : m = history[k].of
    OBVIOUS
  <2>2. history'[k].of = m /\ k \in About(m)
    BY <1>2, <2>1, AboutIs
  <2> DEFINE S == About(m)
             T == About(m)'
             a == CHOOSE j \in S : \A i \in S : j <= i
             b == CHOOSE j \in T : \A i \in T : j <= i
  <2>3. Adds(k) <=> m \in New /\ k = a
    BY <2>1 DEF Adds
  <2>4. Adds(k)' <=> m \in New /\ k = b
    BY <2>2 DEF Adds
  <2>5. S \in SUBSET (1..Live) /\ k \in S /\ T \in SUBSET (1..n) /\ S \subseteq T /\ T \subseteq S \cup {n}
    BY <1>4, <1>5, <1>7, <2>2
  <2>6. n \in Nat /\ Live < n
    BY <1>1 DEF n
  <2>7. a \in S /\ \A i \in S : a <= i
    <3>1. \E j \in S : \A i \in S : j <= i
      BY <1>1, <2>5, LeastExists
    <3>2. QED
      BY <3>1
  <2>8. b \in T /\ \A i \in T : b <= i
    <3>1. \E j \in T : \A i \in T : j <= i
      BY <2>5, <2>6, LeastExists
    <3>2. QED
      BY <3>1
  <2> HIDE DEF S, T, a, b
  <2>9. a = b
    <3>1. b <= a
      BY <2>5, <2>7, <2>8
    <3>2. a \in 1..Live /\ (b \in S \/ b = n)
      BY <2>5, <2>7, <2>8
    <3>3. a <= b
      <4>1. CASE b \in S
        BY <2>7, <4>1
      <4>2. CASE b = n
        BY <1>1, <2>6, <3>2, <4>2
      <4>3. QED
        BY <3>2, <4>1, <4>2
    <3>4. b \in Nat
      BY <2>5, <2>6, <2>8
    <3>5. QED
      BY <1>1, <3>1, <3>2, <3>3, <3>4
  <2>10. QED
    BY <2>3, <2>4, <2>9
<1>11. QED
  BY <1>1, <1>2, <1>3, <1>5, <1>8, <1>9, <1>10 DEF n

LEMMA ChangeCovers ==
  ASSUME IInv, CoverInv, NEW x \in Messages, NEW gone \in BOOLEAN, Change(x, gone)
  PROVE  CoverInv'
<1>1. /\ history' = Append(history, [of |-> x, gone |-> gone])
      /\ UNCHANGED <<watch, acct, local, run, renewal, onboarding>>
      /\ Exists(x) \/ (About(x) = {} /\ ~gone)
      /\ run \in [Runs -> RunRec(Live)]
  BY DEF Change, IInv, TypeInv
<1>2. PICK n : n = Live + 1
  OBVIOUS
<1>3. /\ Live' = n /\ Live \in Nat
      /\ \A k \in 1..Live : history'[k] = history[k]
      /\ history'[n].of = x /\ history'[n].gone = gone
      /\ \A m : About(m)' = About(m) \cup (IF m = x THEN {n} ELSE {})
      /\ \A m : m # x => Exists(m)' = Exists(m)
      /\ \A k \in 1..Live : Adds(k)' <=> Adds(k)
  BY <1>1, <1>2, AppendedIs DEF IInv
<1>4. 1..n = 1..Live \cup {n} /\ n \notin 1..Live /\ n \in Nat
  BY <1>2, <1>3
<1>5. \A m : About(m) # {} /\ Exists(m)' => Exists(m)
  BY <1>1, <1>3
<1>6. \A m : About(m) \subseteq 1..Live /\ About(m) \subseteq About(m)'
  BY <1>3 DEF About
<1>7. \A r \in Runs : /\ At(r)' = At(r) /\ InRecord(r)' = InRecord(r) /\ Processing(r)' = Processing(r)
                      /\ run'[r] = run[r]
  BY <1>1 DEF At, InRecord, Processing
<1>8. \A r \in Runs : InRecord(r) => /\ At(r) \in 1..Live /\ Message(r)' = Message(r)
                                     /\ Message(r) \in Messages /\ At(r) \in About(Message(r))
                                     /\ history'[At(r)] = history[At(r)]
  <2>1. SUFFICES ASSUME NEW r \in Runs, InRecord(r)
                 PROVE  /\ At(r) \in 1..Live /\ Message(r)' = Message(r)
                        /\ Message(r) \in Messages /\ At(r) \in About(Message(r))
                        /\ history'[At(r)] = history[At(r)]
    OBVIOUS
  <2>2. At(r) \in 1..Live /\ Message(r) \in Messages
    BY <2>1, InRecordIs DEF IInv
  <2>3. QED
    BY <1>3, <1>7, <2>2, AboutIs DEF Message, IInv
<1>9. \A r \in Runs, m \in Messages : Holds(r, m)' <=> Holds(r, m)
  BY <1>7, <1>8 DEF Holds
<1>10. Ends'
  <2>1. ASSUME NEW k \in 1..n, history'[k].gone
        PROVE  /\ \A i \in About(history[k].of)' : i <= k
               /\ \E i \in About(history[k].of)' : i < k
    <3>1. CASE k \in 1..Live
      <4>1. PICK m : m = history[k].of
        OBVIOUS
      <4>2. history'[k] = history[k] /\ k \in About(m) /\ ~Exists(m)
        BY <1>3, <2>1, <3>1, <4>1, AboutIs, GoneIs DEF IInv, CoverInv
      <4>3. m # x
        BY <1>1, <4>2
      <4>4. About(m)' = About(m)
        BY <1>3, <4>3
      <4>5. (\A i \in About(m) : i <= k) /\ \E i \in About(m) : i < k
        BY <2>1, <3>1, <4>1, <4>2 DEF CoverInv, Ends
      <4>6. About(history[k].of)' = About(m)
        BY <4>1, <4>2, <4>4
      <4>7. QED
        BY <4>5, <4>6
    <3>2. CASE k = n
      <4>1. About(x) # {}
        BY <1>1, <1>3, <2>1, <3>2 DEF Exists
      <4>2. About(history[k].of)' = About(x) \cup {n}
        <5>1. history'[k].of = x
          BY <1>3, <3>2
        <5>2. About(x)' = About(x) \cup {n}
          BY <1>3
        <5>3. QED
          BY <5>1, <5>2
      <4>3. \A i \in About(x) : i < n /\ i <= n
        BY <1>2, <1>3, <1>6
      <4>4. QED
        BY <1>4, <3>2, <4>1, <4>2, <4>3
    <3>3. QED
      BY <1>4, <3>1, <3>2
  <2>2. \A m \in Old : About(m)' # {}
    BY <1>6 DEF CoverInv, Ends
  <2>3. QED
    BY <1>3, <2>1, <2>2 DEF Ends
<1>11. Stored'
  <2>1. ASSUME NEW r \in Runs
        PROVE  GotIs(r)'
    <3>1. SUFFICES ASSUME run[r].got # NULL
                   PROVE  GotIs(r)'
      BY <1>7 DEF GotIs
    <3>2. /\ InRecord(r) /\ ~history[At(r)].gone
          /\ run[r].got = 0 => ~Exists(Message(r))
          /\ run[r].got # 0 => run[r].got \in About(Message(r)) /\ run[r].got >= At(r)
      BY <3>1 DEF CoverInv, Stored, GotIs
    <3>3. PICK m : m = Message(r)
      OBVIOUS
    <3>4. Message(r)' = m /\ At(r) \in About(m) /\ history'[At(r)] = history[At(r)]
      BY <1>8, <3>2, <3>3
    <3>5. Exists(m)' => Exists(m)
      BY <1>5, <3>4
    <3>6. Exists(Message(r))' <=> Exists(m)'
      BY <3>4 DEF Exists, State, About
    <3>7. run[r].got \in About(m) => run[r].got \in About(Message(r))'
      <4>1. About(Message(r))' = About(m)'
        BY <3>4
      <4>2. QED
        BY <1>6, <4>1
    <3>8. QED
      BY <1>7, <3>2, <3>3, <3>4, <3>5, <3>6, <3>7 DEF GotIs
  <2>2. \A m \in Messages : OnboardedIs(m)'
    BY <1>1, <1>5, <1>6 DEF CoverInv, Stored, OnboardedIs
  <2>3. \A m \in Messages : local'[m] # 0 => local'[m] \in About(m)'
    BY <1>1, <1>6 DEF CoverInv, Stored
  <2>4. \A m \in Old : Exists(m)' => Exists(m)
    BY <1>5 DEF CoverInv, Ends
  <2>5. \A m \in Messages : Unlisted(m)' <=> Unlisted(m)
    BY <1>1 DEF Unlisted
  <2>6. QED
    BY <1>1, <2>1, <2>2, <2>3, <2>4, <2>5 DEF CoverInv, Stored, Messages
<1>12. events.seen \subseteq events'.seen
  <2>1. PICK kinds \in {{"change"}, {"delete"}, {"change", "lose"}, {"delete", "lose"}} : Occur(kinds)
    <3>1. \A kind : {kind, "lose"} = {kind} \cup {"lose"}
      OBVIOUS
    <3>2. QED
      BY <3>1 DEF Change, Webhook
  <2>2. kinds \in SUBSET Events
    BY DEF Events
  <2>3. QED
    BY <2>1, <2>2, OccurIs DEF IInv
<1>13. ASSUME Undisturbed'
       PROVE  (\A q \in Runs : RunFresh(q)') /\ PassedCovered'
  <2>1. (\A q \in Runs : RunFresh(q)) /\ PassedCovered
    BY <1>12, <1>13, UndisturbedBefore DEF CoverInv, Resumes
  <2>2. ASSUME NEW r \in Runs
        PROVE  RunFresh(r)'
    <3>1. PICK k : k = At(r)
      OBVIOUS
    <3>2. run[r].got # NULL => InRecord(r)
      BY DEF CoverInv, Stored, GotIs
    <3>3. run[r].got # NULL => (Adds(At(r))' <=> Adds(k)) /\ local'[Message(r)'] = local[Message(r)]
      <4>1. Adds(At(r))' <=> Adds(k)'
        BY <1>7, <3>1 DEF Adds, About
      <4>2. QED
        BY <1>1, <1>3, <1>8, <3>1, <3>2, <4>1
    <3>4. QED
      BY <1>7, <2>1, <3>1, <3>3 DEF RunFresh
  <2>3. \A c : Copy(c)' <=> Copy(c)
    BY <1>1 DEF Copy
  <2>4. \A c : Copy(c) => c \in 0..Live
    BY DEF Copy, IInv, TypeInv, AcctRec, RunRec, RenewalRec
  <2>5. \A r \in Runs : run[r].next \in 1..n
    BY <1>2 DEF IInv, TypeInv, RunRec
  <2>8. ASSUME NEW k \in 1..n, Passed(k)'
        PROVE  k \in 1..Live /\ Passed(k)
    <3>1. Passed(k)
      BY <1>7, <2>3, <2>8 DEF Passed
    <3>2. k # n
      <4>1. \A c \in Nat : Copy(c) => ~(n <= c)
        BY <1>2, <1>3, <2>4
      <4>2. \A r \in Runs : ~(n < run[r].next)
        BY <1>4, <2>5
      <4>3. QED
        BY <3>1, <4>1, <4>2 DEF Passed
    <3>3. QED
      BY <1>4, <3>1, <3>2
  <2>9. ASSUME NEW k \in 1..Live, Covered(k)
        PROVE  Covered(k)'
    <3>1. PICK m \in Messages : m = history[k].of /\ About(m) # {}
      BY AboutIs DEF IInv
    <3>2. history'[k] = history[k] /\ (Exists(m)' => Exists(m))
      BY <1>3, <1>5, <3>1
    <3>3. (Unfetched(m) => Unfetched(m)') /\ (NoOlder(k, m) => NoOlder(k, m)')
      BY <1>1, <1>9 DEF Unfetched, NoOlder
    <3>4. Awaited(m) => Awaited(m)'
      BY <1>1 DEF Awaited, Unlisted
    <3>5. PICK ends : ends = history[k].gone
      OBVIOUS
    <3>6. QED
      BY <1>1, <2>9, <3>1, <3>2, <3>3, <3>4, <3>5, CoveredStays
  <2>10. PassedCovered'
    BY <1>3, <2>1, <2>8, <2>9 DEF PassedCovered
  <2>11. QED
    BY <2>2, <2>10
<1>14. QED
  BY <1>10, <1>11, <1>13 DEF CoverInv, Resumes


-----------------------------------------------------------------------------
(***************************************************************************)
(* The invariant                                                           *)
(***************************************************************************)
\* The history that the program starts with has a record of each old message.
LEMMA StartsWith ==
  ASSUME Init
  PROVE  (\A k \in 1..Live : ~history[k].gone) /\ \A m \in Old : About(m) # {}
<1>1. PICK s \in SetToSeqs(Old) : history = [i \in 1..Len(s) |-> [of |-> s[i], gone |-> FALSE]]
  BY DEF Init
<1> DEFINE n == Cardinality(Old)
<1>2. n \in Nat /\ IsFiniteSet(Old)
  BY GmailSyncAssumption, FS_CardinalityType
<1>3. s \in [1..n -> Old] /\ \A i, j \in 1..n : i # j => s[i] # s[j]
  BY DEF SetToSeqs
<1> HIDE DEF n
<1>4. Len(s) = n
  BY <1>2, <1>3
<1>5. Live = n
  BY <1>1, <1>2, <1>4 DEF Live
<1>6. s \in Surjection(1..n, Old)
  <2>1. s \in Injection(1..n, Old)
    BY <1>3 DEF Injection, IsInjective
  <2>2. Cardinality(1..n) = n
    BY <1>2, FS_Interval
  <2>3. QED
    BY <1>2, <2>1, <2>2, FS_Injection DEF n
<1>7. \A k \in 1..Live : ~history[k].gone /\ history[k].of = s[k]
  BY <1>1, <1>4, <1>5
<1>8. \A m \in Old : \E k \in 1..n : s[k] = m
  BY <1>6 DEF Surjection
<1>9. QED
  BY <1>5, <1>7, <1>8 DEF About

LEMMA InitCovers == Init => CoverInv
<1> SUFFICES ASSUME Init PROVE CoverInv
  OBVIOUS
<1>1. IInv /\ Live \in Nat
  BY InitHolds, HistoryIs DEF IInv
<1>2. PICK connected \in BOOLEAN :
        /\ acct.cursor = IF connected THEN Live ELSE 0
        /\ watch = IF connected THEN "live" ELSE "new"
        /\ \A m \in Messages : local[m] = IF connected THEN State(m) ELSE 0
        /\ onboarding.at = IF connected THEN "over" ELSE "new"
        /\ onboarding.listed = {} /\ onboarding.todo = {}
        /\ \A m \in Messages : onboarding.got[m] = NULL
  <2>1. PICK start \in Starts :
          /\ watch = IF start.connected THEN "live" ELSE "new"
          /\ acct = [cursor |-> IF start.connected THEN Live ELSE 0, marker |-> 0, lock |-> "free"]
          /\ local = [m \in Messages |-> IF start.connected THEN State(m) ELSE 0]
          /\ onboarding = [at |-> IF start.connected THEN "over" ELSE "new", limit |-> start.limit,
                           todo |-> {}, page |-> {}, listed |-> {}, got |-> Nothing,
                           cursor |-> 0, top |-> 0]
    BY DEF Init
  <2>2. start.connected \in BOOLEAN
    BY GmailSyncAssumption
  <2>3. QED
    BY <2>1, <2>2 DEF Nothing
<1>3. \A r \in Runs : run[r].at = "idle" /\ run[r].got = NULL /\ run[r].cursor = 0
  BY DEF Init, Idle
<1>4. renewal = NULL
  BY DEF Init
<1>5. Ends
  BY StartsWith DEF Ends
<1>6. \A m \in Messages : About(m) # {} => State(m) \in About(m) /\ \A k \in About(m) : k <= State(m)
  BY <1>1, RecordsAre DEF IInv
<1>7. \A m \in Messages : /\ About(m) = {} => State(m) = 0
                          /\ 0 \notin About(m)
  <2>1. \A m \in Messages : 0 \notin About(m)
    BY <1>1 DEF About
  <2>2. \A m \in Messages : About(m) = {} => State(m) = 0
    BY DEF State, Largest
  <2>3. QED
    BY <2>1, <2>2
<1>8. Stored
  <2>1. \A m \in Messages : local[m] # 0 => local[m] \in About(m)
    BY <1>2, <1>6, <1>7
  <2>2. (\A r \in Runs : GotIs(r)) /\ \A m \in Messages : OnboardedIs(m)
    BY <1>2, <1>3 DEF GotIs, OnboardedIs
  <2>3. ASSUME NEW m \in Old, ~Unlisted(m)
        PROVE  local[m] # 0
    <3>1. m \in Messages /\ About(m) # {} /\ local[m] = State(m)
      BY <1>2, <2>3, StartsWith DEF Messages, Unlisted
    <3>2. QED
      BY <1>6, <1>7, <3>1
  <2>4. QED
    BY <1>2, <1>4, <2>1, <2>2, <2>3 DEF Stored
<1>9. \A r \in Runs : RunFresh(r)
  BY <1>3 DEF RunFresh, Processing
<1>10. \A c : Copy(c) => c = acct.cursor \/ c = 0
  BY <1>3, <1>4 DEF Copy
<1>11. \A r \in Runs : ~Processing(r)
  BY <1>3 DEF Processing
<1>13. PassedCovered
  <2>1. ASSUME NEW k \in 1..Live, Passed(k)
        PROVE  Covered(k)
    <3>1. PICK c \in Nat : Copy(c) /\ k <= c
      BY <1>11, <2>1 DEF Passed
    <3>2. acct.cursor # 0
      BY <1>1, <1>10, <3>1
    <3>3. connected
      BY <1>2, <3>2
    <3>4. PICK m \in Messages : m = history[k].of /\ k \in About(m)
      BY <1>1, AboutIs DEF IInv
    <3>5. local[m] >= k
      <4>1. State(m) \in About(m) /\ k <= State(m)
        BY <1>6, <3>4
      <4>2. State(m) \in Nat
        BY <1>1, <4>1 DEF About
      <4>3. QED
        BY <1>1, <1>2, <3>3, <4>1, <4>2
    <3>6. QED
      BY <3>4, <3>5, CoveredIs DEF CoveredAs
  <2>2. QED
    BY <2>1 DEF PassedCovered
<1>14. QED
  BY <1>5, <1>8, <1>9, <1>13 DEF CoverInv, Resumes

LEMMA NextCovers == IInv /\ CoverInv /\ [Next]_vars => CoverInv'
<1> SUFFICES ASSUME IInv, CoverInv, [Next]_vars PROVE CoverInv'
  OBVIOUS
<1>1. ASSUME NEW r \in Runs, Work(r) \/ Fail(r) \/ Crash(r)
      PROVE  CoverInv'
  BY <1>1, EndCovers, AcquireCovers, ListCovers, SkipCovers, FetchCovers, SaveCovers, MarkCovers DEF Work
<1>2. ASSUME Onboard \/ OnboardFails
      PROVE  CoverInv'
  BY <1>2, OnboardListCovers, OnboardEndsCovers, OnboardMarkCovers, OnboardFetchCovers, OnboardCreateCovers,
     OnboardFailsCovers DEF Onboard
<1>3. CASE UNCHANGED vars
  BY <1>3, WatchCovers
<1>4. CASE Watching
  BY <1>4, CallWatchCovers, SaveWatchCovers DEF Watching
<1>5. QED
  BY <1>1, <1>2, <1>3, <1>4, ChangeCovers, WatchCovers, LoadCovers, LockGoesStaleCovers DEF Next

\* What the resume cursor has passed is stored, or is of a message that the onboarding sync is
\* going to create or has left out at its limit (integrations/google/jobs/gmail.py), for any
\* messages, limits, workers and events, but for the exceptions that the property names.
THEOREM CursorCoversHolds == Spec => []CursorCovers
<1>1. IInv /\ CoverInv => CursorCovers
  <2> SUFFICES ASSUME IInv, CoverInv, Undisturbed, NEW k \in 1..acct.cursor PROVE Covered(k)
    BY DEF CursorCovers, Undisturbed
  <2>1. acct.cursor \in 0..Live /\ Live \in Nat
    BY HistoryIs DEF IInv, TypeInv, AcctRec
  <2>2. k \in 1..Live /\ k <= acct.cursor /\ acct.cursor \in Nat
    BY <2>1
  <2>3. Passed(k)
    BY <2>2 DEF Passed, Copy
  <2>4. QED
    BY <2>2, <2>3 DEF CoverInv, Resumes, PassedCovered
<1>2. QED
  BY <1>1, InitHolds, NextKeeps, InitCovers, NextCovers, PTL DEF Spec

=============================================================================
