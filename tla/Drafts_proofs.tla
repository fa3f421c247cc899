---------------------------- MODULE Drafts_proofs ----------------------------
(***************************************************************************)
(* Proofs about Drafts for any number of messages, requests, timers and    *)
(* mail jobs: the type invariant, that only what its user chose is         *)
(* dispatched, as they chose and not early, that each message is mailed    *)
(* once, and that every step is one that DraftLife allows.                 *)
(***************************************************************************)
EXTENDS Drafts, FiniteSetTheorems, TLAPS

RowRec == [type : {"none", "draft", "sending", "sent", "gone"}, when : 0 .. Horizon,
           job : Fires \cup {NULL}, env : Requests \cup {NULL}]
ReqRec == [pc : {"idle", "loaded", "starting", "cancelling", "done"}, op : Operations \cup {NULL},
           draft : Messages \cup {NULL}, copy : RowRec, when : 0 .. Horizon, archive : BOOLEAN,
           job : Fires \cup {NULL}, before : SUBSET Messages, made : Messages \cup {NULL}]
FireRec == [pc : {"none", "waiting", "running", "done", "lost", "cancelled"},
            message : Messages \cup {NULL}, at : Times, archive : BOOLEAN]
MailRec == [pc : {"none", "queued", "loaded", "accepted", "done"}, message : Messages \cup {NULL}]

Types ==
  /\ now \in Times /\ sweep \in SUBSET Messages /\ allowed \in BOOLEAN
  /\ msg \in [Messages -> RowRec] /\ req \in [Requests -> ReqRec]
  /\ fire \in [Fires -> FireRec] /\ gmail \in [Mails -> MailRec]
  /\ mailed \in [Messages -> Nat]
  /\ choice \in [Messages -> Choices \cup {NULL}] /\ sentAs \in [Messages -> Choices \cup {NULL}]
  /\ ops \in [Requests -> SUBSET Operations] /\ faults \in [Faults -> Nat]

\* A scheduled draft names its job and was scheduled by its user, for no other draft is
\* there a choice; what was dispatched is no draft any more.
MessageOK(m) ==
  /\ msg[m].when # 0 <=> msg[m].job # NULL
  /\ msg[m].when # 0 => msg[m].type = "draft" /\ choice[m] # NULL /\ choice[m].when = msg[m].when
  /\ msg[m].type \in {"none", "draft"} /\ msg[m].when = 0 => choice[m] = NULL
  /\ msg[m].type \in {"sending", "sent"} => sentAs[m] # NULL
  /\ sentAs[m] # NULL => msg[m].type \in {"sending", "sent", "gone"}

RequestOK(r) ==
  /\ req[r].pc = "loaded" /\ req[r].op # "reply" =>
       /\ req[r].draft \in Messages /\ msg[req[r].draft].type # "none"
       /\ req[r].copy.type = "draft" /\ (req[r].op = "schedule" => req[r].when # 0)
  /\ req[r].pc = "starting" /\ req[r].draft # NULL => msg[req[r].draft].type # "none"

FireOK(f) == fire[f].pc # "none" => fire[f].message \in Messages

\* What a mail job has taken was dispatched.
MailOK(g) ==
  gmail[g].pc \in {"loaded", "accepted"} =>
    gmail[g].message \in Messages /\ sentAs[gmail[g].message] # NULL

IInv ==
  /\ Types
  /\ \A m \in Messages : MessageOK(m)
  /\ \A r \in Requests : RequestOK(r)
  /\ \A f \in Fires : FireOK(f)
  /\ \A g \in Mails : MailOK(g)

(***************************************************************************)
(* Nothing is fired early, or archived otherwise than asked, if there is   *)
(* one request to schedule: before it was served there is no timer and no  *)
(* row to sweep, and every timer that there is then runs when its message  *)
(* is due and has the archive option asked for.                            *)
(***************************************************************************)
Asked == \E r \in Requests : req[r].op = "schedule" /\ req[r].pc = "done"

Started == \A f \in Fires : fire[f].pc \in {"running", "done"} => fire[f].at <= now

AsAsked(m) == Decided(m) => choice[m].when <= sentAs[m].when /\ sentAs[m].archive = choice[m].archive

DueInv ==
  /\ Started
  /\ \A r \in Requests : req[r].pc = "idle" => req[r].op = NULL
  /\ \A m \in Messages : msg[m].job # NULL => fire[msg[m].job].pc # "none"
  /\ ScheduledOnce =>
       /\ (\E f \in Fires : fire[f].pc # "none") \/ (\E m \in Messages : msg[m].when # 0) \/ sweep # {}
          => Asked
       /\ \A f \in Fires : fire[f].pc # "none" =>
            msg[fire[f].message].when <= fire[f].at \/ msg[fire[f].message].when <= now
       /\ \A m \in sweep : msg[m].when <= now
       /\ \A m, n \in Messages : msg[m].when # 0 /\ msg[n].when # 0 => m = n
       /\ \A f \in Fires, m \in Messages :
            fire[f].pc # "none" /\ msg[m].when # 0 => fire[f].archive = choice[m].archive
       /\ \A m \in Messages : AsAsked(m)

(***************************************************************************)
(* A message that alone was dispatched has one mail job, which has not     *)
(* asked Gmail before it sends.                                            *)
(***************************************************************************)
Two == \E m, n \in Messages : m # n /\ sentAs[m] # NULL /\ sentAs[n] # NULL

MailedInv ==
  /\ \A m \in Messages : mailed[m] > 0 => sentAs[m] # NULL
  /\ \A g \in Mails : gmail[g].pc # "none" => \E m \in Messages : sentAs[m] # NULL
  /\ \A g, h \in Mails : gmail[g].pc # "none" /\ gmail[h].pc # "none" => g = h \/ Two
  /\ \A g \in Mails : gmail[g].pc \in {"queued", "loaded"} => Two \/ \A m \in Messages : mailed[m] = 0
  /\ \A g \in Mails : gmail[g].pc = "accepted" => mailed[gmail[g].message] > 0
  /\ \A m \in Messages : mailed[m] <= 1 \/ Two
  /\ faults["crash"] = 0

-----------------------------------------------------------------------------
(***************************************************************************)
(* First and free rows                                                     *)
(***************************************************************************)
\* A bounded set of naturals has a least member: of the intervals that end with its
\* members, finite sets, one is minimal.
LEMMA LeastIs ==
  ASSUME NEW n \in Nat, NEW S \in SUBSET (1 .. n), S # {}
  PROVE  Least(S) \in S /\ \A k \in S : Least(S) <= k
<1> DEFINE T == {1 .. k : k \in S}
           R == StrictSubsetOrdering(1 .. n)
<1>1. IsWellFoundedOn(R, FiniteSubsetsOf(1 .. n))
  BY FS_StrictSubsetOrderingWellFounded
<1>2. T \subseteq FiniteSubsetsOf(1 .. n) /\ T # {}
  <2>1. ASSUME NEW k \in S
        PROVE  1 .. k \in FiniteSubsetsOf(1 .. n)
    <3>1. k \in Int /\ 1 \in Int /\ 1 .. k \subseteq 1 .. n
      OBVIOUS
    <3>2. IsFiniteSet(1 .. k)
      BY <3>1, FS_Interval
    <3>3. QED
      BY <3>1, <3>2 DEF FiniteSubsetsOf
  <2>2. QED
    BY <2>1
<1> HIDE DEF T, R
<1>3. \E x \in T : \A y \in T : ~(<<y, x>> \in R)
  BY <1>1, <1>2, WFMin
<1>4. PICK x \in T : \A y \in T : <<y, x>> \notin R
  BY <1>3
<1>5. PICK k \in S : x = 1 .. k
  BY DEF T
<1>6. ASSUME NEW j \in S, j < k
      PROVE  FALSE
  <2>1. 1 .. j \in T
    BY DEF T
  <2>2. /\ 1 .. j \subseteq 1 .. k /\ k \in 1 .. k /\ k \notin 1 .. j
        /\ 1 .. k \subseteq 1 .. n /\ 1 .. j \subseteq 1 .. n
    BY <1>6
  <2>3. <<1 .. j, 1 .. k>> \in StrictSubsetOrdering(1 .. n)
    BY <2>2 DEF StrictSubsetOrdering
  <2>4. QED
    BY <1>4, <1>5, <2>1, <2>3 DEF R
<1>7. k \in S /\ \A j \in S : k <= j
  BY <1>6
<1>8. QED
  BY <1>7 DEF Least

LEMMA FreeFireIs ==
  ASSUME FreeFires # {}
  PROVE  Least(FreeFires) \in Fires /\ fire[Least(FreeFires)].pc = "none"
<1>1. FreeFires \in SUBSET (1 .. MaxFires) /\ MaxFires \in Nat
  BY DraftsAssumption DEF FreeFires, Fires
<1>2. Least(FreeFires) \in FreeFires
  BY <1>1, LeastIs
<1>3. QED
  BY <1>2 DEF FreeFires

LEMMA FreeMailIs ==
  ASSUME FreeMails # {}
  PROVE  Least(FreeMails) \in Mails /\ gmail[Least(FreeMails)].pc = "none"
<1>1. FreeMails \in SUBSET (1 .. MaxMails) /\ MaxMails \in Nat
  BY DraftsAssumption DEF FreeMails, Mails
<1>2. Least(FreeMails) \in FreeMails
  BY <1>1, LeastIs
<1>3. QED
  BY <1>2 DEF FreeMails

LEMMA LeastMessageIs ==
  ASSUME NEW t, OfType(t) # {}
  PROVE  /\ Least(OfType(t)) \in Messages /\ msg[Least(OfType(t))].type = t
         /\ \A n \in Messages : n < Least(OfType(t)) => msg[n].type # t
<1>1. OfType(t) \in SUBSET (1 .. MaxMessages) /\ MaxMessages \in Nat
  BY DraftsAssumption DEF OfType, Messages
<1>2. Least(OfType(t)) \in OfType(t) /\ \A k \in OfType(t) : Least(OfType(t)) <= k
  BY <1>1, LeastIs
<1>3. \A n \in Messages : n \in OfType(t) => ~(n < Least(OfType(t)))
  BY <1>1, <1>2 DEF Messages
<1>4. QED
  BY <1>2, <1>3 DEF OfType

LEMMA FirstIs ==
  ASSUME NEW t, OfType(t) # {}
  PROVE  /\ First(t) \in Messages /\ msg[First(t)].type = t
         /\ \A n \in Messages : n < First(t) => msg[n].type # t
<1>1. First(t) = Least(OfType(t))
  BY DEF First, Least
<1>2. QED
  BY <1>1, LeastMessageIs

-----------------------------------------------------------------------------
(***************************************************************************)
(* What a step leaves alone                                                *)
(***************************************************************************)
\* No message becomes a draft again, and what was dispatched stays dispatched.
OneWay == \A m \in Messages :
  /\ msg[m].type # "none" => msg'[m].type # "none"
  /\ msg[m].type \notin {"none", "draft"} => msg'[m].type \notin {"none", "draft"}
  /\ sentAs[m] # NULL => sentAs'[m] = sentAs[m]

LEMMA RequestStays ==
  ASSUME OneWay, NEW r, RequestOK(r), req'[r] = req[r] \/ req'[r].pc \in {"idle", "done", "cancelling"},
         req[r].pc = "starting" => req[r].draft \in Messages \cup {NULL}
  PROVE  RequestOK(r)'
BY DEF RequestOK, OneWay

LEMMA MailStays ==
  ASSUME OneWay, NEW g, MailOK(g), gmail'[g] = gmail[g] \/ gmail'[g].pc \notin {"loaded", "accepted"}
  PROVE  MailOK(g)'
BY DEF MailOK, OneWay

LEMMA MessageStays ==
  ASSUME OneWay, NEW m \in Messages, MessageOK(m),
         msg'[m] = msg[m], choice'[m] = choice[m], sentAs'[m] = sentAs[m]
  PROVE  MessageOK(m)'
BY DEF MessageOK, OneWay

FireStays(f) ==
  \/ fire'[f] = fire[f]
  \/ fire'[f].message = fire[f].message /\ fire[f].pc # "none"
  \/ fire'[f].message \in Messages

\* Who did not move is as before: what is left to show of a step.
LEMMA StepKeeps ==
  ASSUME IInv, Types', OneWay,
         \A m \in Messages : \/ msg'[m] = msg[m] /\ choice'[m] = choice[m] /\ sentAs'[m] = sentAs[m]
                             \/ MessageOK(m)',
         \A r \in Requests : req'[r] = req[r] \/ req'[r].pc \in {"idle", "done", "cancelling"}
                             \/ RequestOK(r)',
         \A f \in Fires : FireStays(f),
         \A g \in Mails : gmail'[g] = gmail[g] \/ gmail'[g].pc \notin {"loaded", "accepted"}
                          \/ MailOK(g)'
  PROVE  IInv'
<1>1. \A m \in Messages : MessageOK(m)'
  BY MessageStays DEF IInv
<1>2. \A r \in Requests : RequestOK(r)'
  BY RequestStays DEF IInv, Types, ReqRec
<1>3. \A f \in Fires : FireOK(f)'
  BY DEF FireOK, FireStays, IInv
<1>4. \A g \in Mails : MailOK(g)'
  BY MailStays DEF IInv
<1>5. QED
  BY <1>1, <1>2, <1>3, <1>4 DEF IInv

LEMMA SameIsOneWay ==
  ASSUME UNCHANGED <<msg, sentAs>>
  PROVE  OneWay
BY DEF OneWay

LEMMA RowsAre ==
  ASSUME Types
  PROVE  /\ \A m \in Messages : msg[m] \in RowRec
         /\ \A r \in Requests : req[r] \in ReqRec
         /\ \A f \in Fires : fire[f] \in FireRec
         /\ \A g \in Mails : gmail[g] \in MailRec
BY DEF Types

LEMMA IdleIs == NoRow \in RowRec /\ Idle \in ReqRec
<1>1. 0 \in 0 .. Horizon
  BY DraftsAssumption
<1>2. NoRow \in RowRec
  BY <1>1 DEF NoRow, Row, RowRec
<1>3. QED
  BY <1>1, <1>2 DEF Idle, ReqRec

LEMMA AnswerIs ==
  ASSUME Types, NEW r \in Requests, Answer(r)
  PROVE  /\ req' \in [Requests -> ReqRec]
         /\ req'[r].pc = "done" /\ req'[r].op = req[r].op
         /\ \A s \in Requests : s # r => req'[s] = req[s]
<1> DEFINE d == [Idle EXCEPT !.pc = "done", !.op = req[r].op]
<1>1. d \in ReqRec /\ d.pc = "done" /\ d.op = req[r].op
  BY RowsAre, IdleIs DEF ReqRec
<1>2. req' = [req EXCEPT ![r] = d]
  BY DEF Answer
<1> HIDE DEF d
<1>3. QED
  BY <1>1, <1>2 DEF Types

LEMMA SpendIs ==
  ASSUME faults \in [Faults -> Nat], NEW k \in Faults, Spend(k)
  PROVE  faults' \in [Faults -> Nat] /\ ops' = ops /\ \A j \in Faults : faults'[j] <= faults[j]
<1>1. faults[k] \in Nat /\ faults[k] - 1 \in Nat
  BY DEF Spend
<1>2. faults' = [faults EXCEPT ![k] = faults[k] - 1] /\ ops' = ops
  BY DEF Spend
<1>3. QED
  BY <1>1, <1>2

-----------------------------------------------------------------------------
(***************************************************************************)
(* Steps that leave the messages alone                                     *)
(***************************************************************************)
LEMMA LoadKeeps ==
  ASSUME IInv, NEW r \in Requests, NEW op \in Operations, NEW when \in Whens(op),
         NEW archive \in Archives(op), Load(r, op, when, archive)
  PROVE  IInv'
<1> DEFINE d == First("draft")
           q == [pc |-> "loaded", op |-> op, draft |-> d, copy |-> msg[d], when |-> when,
                 archive |-> archive, job |-> msg[d].job, before |-> {}, made |-> NULL]
<1>1. /\ op # "reply" /\ OfType("draft") # {} /\ req' = [req EXCEPT ![r] = q]
      /\ UNCHANGED <<msg, fire, gmail, sweep, mailed, choice, sentAs, now, allowed, ops, faults>>
  BY DEF Load, Untouched
<1>2. d \in Messages /\ msg[d].type = "draft" /\ msg[d] \in RowRec
  BY <1>1, FirstIs, RowsAre DEF IInv
<1>3. when \in 0 .. Horizon /\ archive \in BOOLEAN /\ (op = "schedule" => when # 0)
  <2>1. Horizon \in Nat
    BY DraftsAssumption
  <2>2. when \in 0 .. Horizon /\ (op = "schedule" => when # 0)
    BY <2>1 DEF Whens
  <2>3. archive \in BOOLEAN
    BY DEF Archives
  <2>4. QED
    BY <2>2, <2>3
<1>4. q \in ReqRec
  BY <1>2, <1>3 DEF ReqRec, RowRec
<1>5. /\ q.pc = "loaded" /\ q.op = op /\ q.draft = d /\ q.copy = msg[d] /\ q.when = when
  OBVIOUS
<1> HIDE DEF q, d
<1>6. req' \in [Requests -> ReqRec] /\ req'[r] = q /\ \A s \in Requests : s # r => req'[s] = req[s]
  BY <1>1, <1>4 DEF IInv, Types
<1>7. RequestOK(r)'
  BY <1>1, <1>2, <1>3, <1>5, <1>6 DEF RequestOK
<1>8. Types'
  BY <1>1, <1>6 DEF IInv, Types
<1>9. QED
  BY <1>1, <1>6, <1>7, <1>8, StepKeeps, SameIsOneWay DEF FireStays

LEMMA LoadReplyKeeps ==
  ASSUME IInv, NEW r \in Requests, NEW replace, LoadReply(r, replace)
  PROVE  IInv'
<1> DEFINE q == [Idle EXCEPT !.pc = "loaded", !.op = "reply"]
<1>1. /\ req' = [req EXCEPT ![r] = q]
      /\ UNCHANGED <<msg, fire, gmail, sweep, mailed, choice, sentAs, now, allowed, ops, faults>>
  BY DEF LoadReply, Untouched
<1>2. q \in ReqRec /\ q.pc = "loaded" /\ q.op = "reply"
  BY IdleIs DEF ReqRec, Operations
<1> HIDE DEF q
<1>3. req' \in [Requests -> ReqRec] /\ req'[r] = q /\ \A s \in Requests : s # r => req'[s] = req[s]
  BY <1>1, <1>2 DEF IInv, Types
<1>4. RequestOK(r)'
  BY <1>2, <1>3 DEF RequestOK
<1>5. Types'
  BY <1>1, <1>3 DEF IInv, Types
<1>6. QED
  BY <1>1, <1>3, <1>4, <1>5, StepKeeps, SameIsOneWay DEF FireStays

LEMMA RefusedKeeps ==
  ASSUME IInv, NEW r \in Requests, Refused(r)
  PROVE  IInv'
<1>1. /\ Answer(r)
      /\ UNCHANGED <<msg, fire, gmail, sweep, mailed, choice, sentAs, now, allowed, ops, faults>>
  BY DEF Refused, Untouched
<1>2. /\ req' \in [Requests -> ReqRec] /\ req'[r].pc = "done"
      /\ \A s \in Requests : s # r => req'[s] = req[s]
  BY <1>1, AnswerIs DEF IInv
<1>3. Types'
  BY <1>1, <1>2 DEF IInv, Types
<1>4. QED
  BY <1>1, <1>2, <1>3, StepKeeps, SameIsOneWay DEF FireStays

\* A timer that changes is one that there was.
LEMMA FireMoves ==
  ASSUME IInv, NEW f \in Fires, NEW pc \in {"waiting", "running", "done", "lost", "cancelled"},
         fire[f].pc # "none", fire' = [fire EXCEPT ![f].pc = pc]
  PROVE  /\ fire' \in [Fires -> FireRec]
         /\ fire'[f].pc = pc /\ fire'[f].message = fire[f].message /\ fire'[f].at = fire[f].at
         /\ fire'[f].archive = fire[f].archive
         /\ \A h \in Fires : h # f => fire'[h] = fire[h]
         /\ \A h \in Fires : FireStays(h)
<1> DEFINE d == [fire[f] EXCEPT !.pc = pc]
<1>1. d \in FireRec /\ d.pc = pc /\ d.message = fire[f].message /\ d.at = fire[f].at
      /\ d.archive = fire[f].archive
  BY RowsAre DEF IInv, FireRec
<1>2. fire' = [fire EXCEPT ![f] = d]
  OBVIOUS
<1>3. fire \in [Fires -> FireRec]
  BY DEF IInv, Types
<1> HIDE DEF d
<1>4. /\ fire' \in [Fires -> FireRec] /\ fire'[f] = d
      /\ \A h \in Fires : h # f => fire'[h] = fire[h]
  BY <1>1, <1>2, <1>3
<1>5. \A h \in Fires : FireStays(h)
  BY <1>1, <1>4 DEF FireStays
<1>6. QED
  BY <1>1, <1>4, <1>5

LEMMA CancelFireKeeps ==
  ASSUME IInv, NEW r \in Requests, CancelFire(r)
  PROVE  IInv'
<1>1. /\ Answer(r)
      /\ UNCHANGED <<msg, gmail, sweep, mailed, choice, sentAs, now, allowed, ops, faults>>
  BY DEF CancelFire, Untouched
<1>2. /\ req' \in [Requests -> ReqRec] /\ req'[r].pc = "done"
      /\ \A s \in Requests : s # r => req'[s] = req[s]
  BY <1>1, AnswerIs DEF IInv
<1>3. /\ fire' \in [Fires -> FireRec]
      /\ \A h \in Fires : FireStays(h)
  <2>1. CASE UNCHANGED fire
    BY <2>1 DEF IInv, Types, FireStays
  <2>2. CASE /\ req[r].job # NULL /\ fire[req[r].job].pc = "waiting"
             /\ fire' = [fire EXCEPT ![req[r].job].pc = "cancelled"]
    <3>1. req[r].job \in Fires
      BY <2>2, RowsAre DEF IInv, ReqRec
    <3>2. QED
      BY <2>2, <3>1, FireMoves
  <2>3. QED
    BY <2>1, <2>2 DEF CancelFire
<1>4. Types'
  BY <1>1, <1>2, <1>3 DEF IInv, Types
<1>5. QED
  BY <1>1, <1>2, <1>3, <1>4, StepKeeps, SameIsOneWay

LEMMA StartDraftReadKeeps ==
  ASSUME IInv, NEW r \in Requests, StartDraftRead(r)
  PROVE  IInv'
<1> DEFINE first == IF OfType("draft") = {} THEN NULL ELSE First("draft")
           q == [req[r] EXCEPT !.pc = "starting", !.before = Messages \ OfType("none"), !.draft = first]
<1>1. /\ req' = [req EXCEPT ![r] = q]
      /\ UNCHANGED <<msg, fire, gmail, sweep, mailed, choice, sentAs, now, allowed, ops, faults>>
  BY DEF StartDraftRead, Untouched
<1>2. first \in Messages \cup {NULL} /\ (first # NULL => msg[first].type # "none")
  BY FirstIs
<1> HIDE DEF first
<1>3. q \in ReqRec /\ q.pc = "starting" /\ q.draft = first
  <2>1. Messages \ OfType("none") \in SUBSET Messages
    OBVIOUS
  <2>2. QED
    BY <1>2, <2>1, RowsAre DEF IInv, ReqRec
<1> HIDE DEF q
<1>4. req' \in [Requests -> ReqRec] /\ req'[r] = q /\ \A s \in Requests : s # r => req'[s] = req[s]
  BY <1>1, <1>3 DEF IInv, Types
<1>5. RequestOK(r)'
  BY <1>1, <1>2, <1>3, <1>4 DEF RequestOK
<1>6. Types'
  BY <1>1, <1>4 DEF IInv, Types
<1>7. QED
  BY <1>1, <1>4, <1>5, <1>6, StepKeeps, SameIsOneWay DEF FireStays

LEMMA TimerKeeps ==
  ASSUME IInv, NEW f \in Fires, FireStart(f) \/ FireLost(f) \/ FireAgain(f)
  PROVE  IInv'
<1>1. /\ fire[f].pc # "none"
      /\ \E pc \in {"running", "lost"} : fire' = [fire EXCEPT ![f].pc = pc]
      /\ UNCHANGED <<msg, req, gmail, sweep, mailed, choice, sentAs, now, allowed>>
  BY DEF FireStart, FireLost, FireAgain, Untouched
<1>2. /\ fire' \in [Fires -> FireRec]
      /\ \A h \in Fires : FireStays(h)
  BY <1>1, FireMoves
<1>3. faults' \in [Faults -> Nat] /\ ops' = ops
  BY SpendIs DEF FireStart, FireLost, FireAgain, Untouched, IInv, Types, Faults
<1>4. Types'
  BY <1>1, <1>2, <1>3 DEF IInv, Types
<1>5. QED
  BY <1>1, <1>2, <1>4, StepKeeps, SameIsOneWay

LEMMA SweepKeeps ==
  ASSUME IInv, SweepRead \/ SweepDies
  PROVE  IInv'
<1>1. /\ sweep' \in SUBSET Messages
      /\ UNCHANGED <<msg, req, fire, gmail, mailed, choice, sentAs, now, allowed>>
  BY DEF SweepRead, SweepDies, Untouched, Overdue, OfType
<1>2. faults' \in [Faults -> Nat] /\ ops' = ops
  BY SpendIs DEF SweepRead, SweepDies, Untouched, IInv, Types, Faults
<1>3. Types'
  BY <1>1, <1>2 DEF IInv, Types
<1>4. QED
  BY <1>1, <1>3, StepKeeps, SameIsOneWay DEF FireStays

LEMMA WorldKeeps ==
  ASSUME IInv, Tick \/ Revoke
  PROVE  IInv'
<1>1. UNCHANGED <<msg, req, fire, gmail, sweep, mailed, choice, sentAs>> /\ allowed' \in BOOLEAN
  BY DEF Tick, Revoke, IInv, Types
<1>2. now' \in Times
  BY DraftsAssumption DEF Tick, Revoke, IInv, Types, Times
<1>3. faults' \in [Faults -> Nat] /\ ops' = ops
  BY SpendIs DEF Tick, Revoke, IInv, Types, Faults
<1>4. Types'
  BY <1>1, <1>2, <1>3 DEF IInv, Types
<1>5. QED
  BY <1>1, <1>4, StepKeeps, SameIsOneWay DEF FireStays

LEMMA MailMoves ==
  ASSUME Types, NEW g \in Mails, NEW d \in MailRec, gmail' = [gmail EXCEPT ![g] = d]
  PROVE  /\ gmail' \in [Mails -> MailRec] /\ gmail'[g] = d
         /\ \A h \in Mails : h # g => gmail'[h] = gmail[h]
BY DEF Types

\* A mail job takes a message that is sending, which was dispatched.
LEMMA MailLoadKeeps ==
  ASSUME IInv, NEW g \in Mails, MailLoad(g)
  PROVE  IInv'
<1> DEFINE d == IF OfType("sending") # {} /\ allowed THEN [pc |-> "loaded", message |-> First("sending")]
                ELSE [pc |-> "done", message |-> NULL]
<1>1. /\ gmail' = [gmail EXCEPT ![g] = d]
      /\ UNCHANGED <<msg, req, fire, sweep, mailed, choice, sentAs, now, allowed, ops, faults>>
  BY DEF MailLoad, Untouched
<1>2. /\ d \in MailRec
      /\ d.pc \in {"loaded", "accepted"} => d.message \in Messages /\ sentAs[d.message] # NULL
  <2>1. CASE OfType("sending") # {} /\ allowed
    <3>1. First("sending") \in Messages /\ sentAs[First("sending")] # NULL
      BY <2>1, FirstIs DEF IInv, MessageOK
    <3>2. QED
      BY <2>1, <3>1 DEF MailRec
  <2>2. CASE ~(OfType("sending") # {} /\ allowed)
    <3> DEFINE e == [pc |-> "done", message |-> NULL]
    <3>1. d = e
      BY <2>2
    <3>2. e \in MailRec /\ e.pc = "done"
      BY DEF MailRec
    <3> HIDE DEF d, e
    <3>3. QED
      BY <3>1, <3>2
  <2>3. QED
    BY <2>1, <2>2
<1> HIDE DEF d
<1>3. /\ gmail' \in [Mails -> MailRec] /\ gmail'[g] = d
      /\ \A h \in Mails : h # g => gmail'[h] = gmail[h]
  BY <1>1, <1>2, MailMoves DEF IInv
<1>4. MailOK(g)'
  BY <1>1, <1>2, <1>3 DEF MailOK
<1>5. Types'
  BY <1>1, <1>3 DEF IInv, Types
<1>6. QED
  BY <1>1, <1>3, <1>4, <1>5, StepKeeps, SameIsOneWay DEF FireStays

LEMMA MailSendKeeps ==
  ASSUME IInv, NEW g \in Mails, MailSend(g)
  PROVE  IInv'
<1> DEFINE d == [gmail[g] EXCEPT !.pc = "accepted"]
           m == gmail[g].message
<1>1. /\ gmail' = [gmail EXCEPT ![g] = d] /\ gmail[g].pc = "loaded"
      /\ mailed' = [mailed EXCEPT ![m] = mailed[m] + 1]
      /\ UNCHANGED <<msg, req, fire, sweep, choice, sentAs, now, allowed, ops, faults>>
  BY DEF MailSend, Untouched
<1>2. m \in Messages /\ sentAs[m] # NULL
  BY <1>1 DEF IInv, MailOK
<1>3. d \in MailRec /\ d.message = m
  BY RowsAre DEF IInv, MailRec
<1> HIDE DEF d
<1>4. /\ gmail' \in [Mails -> MailRec] /\ gmail'[g] = d
      /\ \A h \in Mails : h # g => gmail'[h] = gmail[h]
  BY <1>1, <1>3, MailMoves DEF IInv
<1>5. mailed' \in [Messages -> Nat]
  BY <1>1, <1>2 DEF IInv, Types
<1> HIDE DEF m
<1>6. MailOK(g)'
  BY <1>1, <1>2, <1>3, <1>4 DEF MailOK
<1>7. Types'
  BY <1>1, <1>4, <1>5 DEF IInv, Types
<1>8. QED
  BY <1>1, <1>4, <1>6, <1>7, StepKeeps, SameIsOneWay DEF FireStays

LEMMA MailDiesKeeps ==
  ASSUME IInv, NEW g \in Mails, MailDies(g)
  PROVE  IInv'
<1> DEFINE d == [pc |-> "queued", message |-> NULL]
<1>1. /\ gmail' = [gmail EXCEPT ![g] = d] /\ Spend("crash")
      /\ UNCHANGED <<msg, req, fire, sweep, mailed, choice, sentAs, now, allowed>>
  BY DEF MailDies
<1>2. d \in MailRec /\ d.pc = "queued"
  BY DEF MailRec
<1> HIDE DEF d
<1>3. /\ gmail' \in [Mails -> MailRec] /\ gmail'[g] = d
      /\ \A h \in Mails : h # g => gmail'[h] = gmail[h]
  BY <1>1, <1>2, MailMoves DEF IInv
<1>4. faults' \in [Faults -> Nat] /\ ops' = ops
  BY <1>1, SpendIs DEF IInv, Types, Faults
<1>5. Types'
  BY <1>1, <1>3, <1>4 DEF IInv, Types
<1>6. QED
  BY <1>1, <1>2, <1>3, <1>5, StepKeeps, SameIsOneWay DEF FireStays

-----------------------------------------------------------------------------
(***************************************************************************)
(* Steps that change a message                                             *)
(***************************************************************************)
LEMMA MessageMoves ==
  ASSUME Types, NEW m \in Messages, NEW d \in RowRec, msg' = [msg EXCEPT ![m] = d]
  PROVE  /\ msg' \in [Messages -> RowRec] /\ msg'[m] = d
         /\ \A n \in Messages : n # m => msg'[n] = msg[n]
BY DEF Types

\* One message changes, and not back to what it was before it was dispatched.
LEMMA OneMoves ==
  ASSUME NEW m \in Messages, \A n \in Messages : n # m => msg'[n] = msg[n],
         msg[m].type # "none" => msg'[m].type # "none",
         msg[m].type \notin {"none", "draft"} => msg'[m].type \notin {"none", "draft"},
         \A n \in Messages : sentAs[n] # NULL => sentAs'[n] = sentAs[n]
  PROVE  OneWay
BY DEF OneWay

\* What to show of the message that does.
LEMMA MovedIsOK ==
  ASSUME OneWay, NEW m \in Messages, MessageOK(m), msg[m].type # "none",
         msg'[m].when # 0 <=> msg'[m].job # NULL,
         msg'[m].when # 0 => /\ msg'[m].type = "draft"
                             /\ choice'[m] # NULL /\ choice'[m].when = msg'[m].when,
         msg'[m].type = "draft" /\ msg'[m].when = 0 => choice'[m] = NULL,
         msg'[m].type \in {"sending", "sent"} => sentAs'[m] # NULL,
         sentAs'[m] # NULL => msg'[m].type \in {"sending", "sent", "gone"}
  PROVE  MessageOK(m)'
BY DEF MessageOK, OneWay

\* And of the others nothing.
LEMMA MessageStepKeeps ==
  ASSUME IInv, Types', OneWay, NEW m \in Messages, MessageOK(m)',
         \A n \in Messages : n # m => /\ msg'[n] = msg[n] /\ choice'[n] = choice[n]
                                      /\ sentAs'[n] = sentAs[n],
         \A r \in Requests : req'[r] = req[r] \/ req'[r].pc \in {"idle", "done", "cancelling"},
         \A f \in Fires : FireStays(f),
         \A g \in Mails : gmail'[g] = gmail[g] \/ gmail'[g].pc \notin {"loaded", "accepted"}
  PROVE  IInv'
<1>1. \A n \in Messages : \/ msg'[n] = msg[n] /\ choice'[n] = choice[n] /\ sentAs'[n] = sentAs[n]
                          \/ MessageOK(n)'
  <2>1. ASSUME NEW n \in Messages
        PROVE  \/ msg'[n] = msg[n] /\ choice'[n] = choice[n] /\ sentAs'[n] = sentAs[n]
               \/ MessageOK(n)'
    <3>1. CASE n = m
      BY <3>1
    <3>2. CASE n # m
      BY <3>2
    <3>3. QED
      BY <3>1, <3>2
  <2>2. QED
    BY <2>1
<1>2. QED
  BY <1>1, StepKeeps

LEMMA MailMarkKeeps ==
  ASSUME IInv, NEW g \in Mails, MailMark(g)
  PROVE  IInv'
<1>0. PICK m \in Messages : m = gmail[g].message /\ sentAs[m] # NULL
  BY DEF MailMark, IInv, MailOK
<1> DEFINE d == [msg[m] EXCEPT !.type = IF msg[m].type = "gone" THEN "gone" ELSE "sent"]
           b == [gmail[g] EXCEPT !.pc = "done"]
<1>1. /\ gmail[g].pc = "accepted" /\ gmail' = [gmail EXCEPT ![g] = b] /\ msg' = [msg EXCEPT ![m] = d]
      /\ UNCHANGED <<req, fire, sweep, mailed, choice, sentAs, now, allowed, ops, faults>>
  BY <1>0 DEF MailMark, Untouched
<1>2. m \in Messages /\ sentAs[m] # NULL /\ msg[m] \in RowRec /\ MessageOK(m)
  BY <1>0, RowsAre DEF IInv
<1>3. /\ d \in RowRec /\ d.type \in {"sent", "gone"} /\ d.when = msg[m].when /\ d.job = msg[m].job
      /\ b \in MailRec /\ b.pc = "done"
  BY <1>2, RowsAre DEF RowRec, MailRec, IInv
<1> HIDE DEF d, b
<1>4. /\ gmail' \in [Mails -> MailRec] /\ gmail'[g] = b
      /\ \A h \in Mails : h # g => gmail'[h] = gmail[h]
  BY <1>1, <1>3, MailMoves DEF IInv
<1>5. msg' \in [Messages -> RowRec] /\ msg'[m] = d /\ \A n \in Messages : n # m => msg'[n] = msg[n]
  BY <1>1, <1>2, <1>3, MessageMoves DEF IInv
<1>6. OneWay
  BY <1>1, <1>2, <1>3, <1>5, OneMoves DEF MessageOK
<1>7. MessageOK(m)'
  <2>1. msg[m].type # "none" /\ msg'[m].when = 0 /\ msg'[m].job = NULL
    BY <1>2, <1>3, <1>5 DEF MessageOK
  <2>2. sentAs'[m] # NULL /\ msg'[m].type # "draft"
    BY <1>1, <1>2, <1>3, <1>5
  <2>3. QED
    BY <1>2, <1>3, <1>5, <1>6, <2>1, <2>2, MovedIsOK
<1>8. Types'
  BY <1>1, <1>4, <1>5 DEF IInv, Types
<1>9. QED
  BY <1>1, <1>2, <1>3, <1>4, <1>5, <1>6, <1>7, <1>8, MessageStepKeeps DEF FireStays

LEMMA EditKeeps ==
  ASSUME IInv, NEW r \in Requests, Edit(r)
  PROVE  IInv'
<1>0. PICK m \in Messages : m = req[r].draft /\ msg[m].type # "none"
  BY DEF Edit, Serving, IInv, RequestOK
<1> DEFINE d == IF msg[m].type = "gone" THEN msg[m] ELSE [msg[m] EXCEPT !.env = r]
<1>1. /\ req[r].pc = "loaded" /\ req[r].op = "edit" /\ Answer(r) /\ msg' = [msg EXCEPT ![m] = d]
      /\ UNCHANGED <<fire, gmail, sweep, mailed, choice, sentAs, now, allowed, ops, faults>>
  BY <1>0 DEF Edit, Serving, Untouched
<1>2. m \in Messages /\ msg[m] \in RowRec /\ MessageOK(m)
  BY RowsAre DEF IInv
<1>3. d \in RowRec /\ d.type = msg[m].type /\ d.when = msg[m].when /\ d.job = msg[m].job
  BY <1>2 DEF RowRec
<1> HIDE DEF d
<1>4. /\ req' \in [Requests -> ReqRec] /\ req'[r].pc = "done"
      /\ \A s \in Requests : s # r => req'[s] = req[s]
  BY <1>1, AnswerIs DEF IInv
<1>5. msg' \in [Messages -> RowRec] /\ msg'[m] = d /\ \A n \in Messages : n # m => msg'[n] = msg[n]
  BY <1>1, <1>2, <1>3, MessageMoves DEF IInv
<1>6. OneWay
  BY <1>1, <1>2, <1>3, <1>5, OneMoves
<1>7. MessageOK(m)'
  <2>1. msg[m].type # "none"
    BY <1>0
  <2>2. choice'[m] = choice[m] /\ sentAs'[m] = sentAs[m]
    BY <1>1
  <2>3. QED
    BY <1>2, <1>3, <1>5, <1>6, <2>1, <2>2, MovedIsOK DEF MessageOK
<1>8. Types'
  BY <1>1, <1>4, <1>5 DEF IInv, Types
<1>9. QED
  BY <1>1, <1>2, <1>4, <1>5, <1>6, <1>7, <1>8, MessageStepKeeps DEF FireStays

\* What send_draft does to a draft.
LEMMA SendDraftIs ==
  ASSUME Types, NEW m \in Messages, NEW row \in RowRec, NEW archive \in BOOLEAN, SendDraft(m, row, archive)
  PROVE  /\ msg' \in [Messages -> RowRec]
         /\ msg'[m].type = "sending" /\ msg'[m].when = 0 /\ msg'[m].job = NULL
         /\ \A n \in Messages : n # m => msg'[n] = msg[n]
         /\ gmail' \in [Mails -> MailRec]
         /\ \E g \in Mails : /\ gmail[g].pc = "none" /\ gmail'[g].pc = "queued"
                             /\ \A h \in Mails : h # g => gmail'[h] = gmail[h]
         /\ sentAs' \in [Messages -> Choices \cup {NULL}]
         /\ sentAs'[m] # NULL /\ sentAs'[m].when = now /\ sentAs'[m].archive = archive
         /\ \A n \in Messages : n # m => sentAs'[n] = sentAs[n]
<1> DEFINE d == [row EXCEPT !.type = "sending", !.when = 0, !.job = NULL]
           g == Least(FreeMails)
           b == [pc |-> "queued", message |-> NULL]
           c == [when |-> now, archive |-> archive]
<1>1. /\ FreeMails # {} /\ msg' = [msg EXCEPT ![m] = d] /\ gmail' = [gmail EXCEPT ![g] = b]
      /\ sentAs' = [sentAs EXCEPT ![m] = c]
  BY DEF SendDraft
<1>2. g \in Mails /\ gmail[g].pc = "none"
  BY <1>1, FreeMailIs
<1>3. d \in RowRec /\ d.type = "sending" /\ d.when = 0 /\ d.job = NULL
  <2>1. 0 \in 0 .. Horizon
    BY DraftsAssumption
  <2>2. QED
    BY <2>1 DEF RowRec
<1>4. b \in MailRec /\ b.pc = "queued"
  BY DEF MailRec
<1>5. c \in Choices /\ c # NULL /\ c.when = now /\ c.archive = archive
  BY DraftsAssumption DEF Types, Choices, Times
<1> HIDE DEF d, g, b, c
<1>6. msg' \in [Messages -> RowRec] /\ msg'[m] = d /\ \A n \in Messages : n # m => msg'[n] = msg[n]
  BY <1>1, <1>3, MessageMoves
<1>7. /\ gmail' \in [Mails -> MailRec] /\ gmail'[g] = b
      /\ \A h \in Mails : h # g => gmail'[h] = gmail[h]
  BY <1>1, <1>2, <1>4, MailMoves
<1>8. /\ sentAs' \in [Messages -> Choices \cup {NULL}] /\ sentAs'[m] = c
      /\ \A n \in Messages : n # m => sentAs'[n] = sentAs[n]
  BY <1>1, <1>5 DEF Types
<1>9. QED
  BY <1>2, <1>3, <1>4, <1>5, <1>6, <1>7, <1>8

\* The draft a request loaded, as it then was.
LEMMA LoadedIs ==
  ASSUME IInv, NEW r \in Requests, NEW op \in Operations \ {"reply"}, Serving(r, op)
  PROVE  \E m \in Messages : /\ m = req[r].draft /\ msg[m].type # "none" /\ MessageOK(m)
                             /\ msg[m] \in RowRec /\ req[r].copy \in RowRec /\ req[r].copy.type = "draft"
                             /\ req[r].archive \in BOOLEAN /\ req[r].when \in 0 .. Horizon
                             /\ op = "schedule" => req[r].when # 0
<1>1. req[r] \in ReqRec /\ RequestOK(r)
  BY RowsAre DEF IInv
<1>2. req[r].draft \in Messages
  BY <1>1 DEF Serving, RequestOK
<1>3. QED
  BY <1>1, <1>2, RowsAre DEF Serving, RequestOK, ReqRec, IInv

LEMMA SendKeeps ==
  ASSUME IInv, NEW r \in Requests, Send(r)
  PROVE  IInv'
<1>1. PICK m \in Messages : /\ m = req[r].draft /\ msg[m].type # "none" /\ MessageOK(m)
                            /\ msg[m] \in RowRec /\ req[r].copy \in RowRec /\ req[r].archive \in BOOLEAN
  BY LoadedIs DEF Send, Operations
<1> DEFINE row == [req[r].copy EXCEPT !.env = r]
           c == [when |-> now, archive |-> req[r].archive]
<1>2. /\ Answer(r) /\ SendDraft(m, row, req[r].archive) /\ choice' = [choice EXCEPT ![m] = c]
      /\ msg[m].type = "draft" /\ UNCHANGED <<fire, sweep, mailed, now, allowed, ops, faults>>
  BY <1>1 DEF Send, Sendable, Locked, Untouched
<1>3. row \in RowRec
  BY <1>1 DEF RowRec
<1> HIDE DEF row
<1>4. c \in Choices /\ c # NULL
  BY <1>1, DraftsAssumption DEF IInv, Types, Choices, Times
<1> HIDE DEF c
<1>5. /\ msg' \in [Messages -> RowRec]
      /\ msg'[m].type = "sending" /\ msg'[m].when = 0 /\ msg'[m].job = NULL
      /\ \A n \in Messages : n # m => msg'[n] = msg[n]
      /\ gmail' \in [Mails -> MailRec]
      /\ \E g \in Mails : /\ gmail[g].pc = "none" /\ gmail'[g].pc = "queued"
                          /\ \A h \in Mails : h # g => gmail'[h] = gmail[h]
      /\ sentAs' \in [Messages -> Choices \cup {NULL}] /\ sentAs'[m] # NULL
      /\ \A n \in Messages : n # m => sentAs'[n] = sentAs[n]
  <2>1. PICK a \in BOOLEAN : a = req[r].archive
    BY <1>1
  <2>2. Types /\ SendDraft(m, row, a)
    BY <1>2, <2>1 DEF IInv
  <2>3. QED
    BY <1>3, <2>2, SendDraftIs, ZenonT(40)
<1>6. /\ choice' \in [Messages -> Choices \cup {NULL}] /\ choice'[m] # NULL
      /\ \A n \in Messages : n # m => choice'[n] = choice[n]
  BY <1>2, <1>4 DEF IInv, Types
<1>7. /\ req' \in [Requests -> ReqRec] /\ req'[r].pc = "done"
      /\ \A s \in Requests : s # r => req'[s] = req[s]
  BY <1>2, AnswerIs DEF IInv
<1>8. sentAs[m] = NULL
  BY <1>1, <1>2 DEF MessageOK
<1>9. OneWay
  BY <1>2, <1>5, <1>8, OneMoves
<1>10. MessageOK(m)'
  BY <1>1, <1>5, <1>6, <1>9, MovedIsOK
<1>11. Types'
  BY <1>2, <1>5, <1>6, <1>7 DEF IInv, Types
<1>12. \A g \in Mails : gmail'[g] = gmail[g] \/ gmail'[g].pc \notin {"loaded", "accepted"}
  BY <1>5
<1>13. QED
  BY <1>2, <1>5, <1>6, <1>7, <1>9, <1>10, <1>11, <1>12, MessageStepKeeps DEF FireStays

\* A new timer is made in a free row.
LEMMA NewFire ==
  ASSUME Types, FreeFires # {}, NEW d \in FireRec, d.message \in Messages,
         fire' = [fire EXCEPT ![Least(FreeFires)] = d]
  PROVE  /\ fire' \in [Fires -> FireRec] /\ \A f \in Fires : FireStays(f)
         /\ \E f \in Fires : /\ f = Least(FreeFires) /\ fire[f].pc = "none" /\ fire'[f] = d
                             /\ \A h \in Fires : h # f => fire'[h] = fire[h]
<1>1. PICK f \in Fires : f = Least(FreeFires) /\ fire[f].pc = "none"
  BY FreeFireIs
<1>2. /\ fire' \in [Fires -> FireRec] /\ fire'[f] = d
      /\ \A h \in Fires : h # f => fire'[h] = fire[h]
  BY <1>1 DEF Types
<1>3. \A h \in Fires : FireStays(h)
  BY <1>2 DEF FireStays
<1>4. QED
  BY <1>1, <1>2, <1>3

LEMMA ScheduleKeeps ==
  ASSUME IInv, NEW r \in Requests, Schedule(r)
  PROVE  IInv'
<1>1. PICK m \in Messages : /\ m = req[r].draft /\ msg[m].type # "none" /\ MessageOK(m)
                            /\ msg[m] \in RowRec /\ req[r].copy \in RowRec /\ req[r].copy.type = "draft"
                            /\ req[r].archive \in BOOLEAN /\ req[r].when \in 0 .. Horizon /\ req[r].when # 0
  BY LoadedIs DEF Schedule, Operations
<1>2. FreeFires # {}
  BY DEF Schedule
<1>3. PICK f \in Fires : f = Least(FreeFires)
  BY <1>2, FreeFireIs
<1> DEFINE when == req[r].when
           row == [req[r].copy EXCEPT !.env = r, !.when = when, !.job = f]
           c == [when |-> when, archive |-> req[r].archive]
           t == Timer(m, when, req[r].archive)
<1>4. /\ Answer(r) /\ msg' = [msg EXCEPT ![m] = row] /\ fire' = [fire EXCEPT ![Least(FreeFires)] = t]
      /\ choice' = [choice EXCEPT ![m] = c] /\ msg[m].type = "draft"
      /\ UNCHANGED <<gmail, sweep, mailed, sentAs, now, allowed, ops, faults>>
  BY <1>1, <1>3 DEF Schedule, Sendable, Locked, Untouched
<1>5. when \in Times /\ f # NULL
  BY <1>1, DraftsAssumption DEF Times, Fires
<1>6. row \in RowRec /\ row.when = when /\ row.job = f /\ row.type = "draft"
  BY <1>1 DEF RowRec
<1>7. c \in Choices /\ c # NULL /\ c.when = when
  BY <1>1, <1>5, DraftsAssumption DEF Choices, Times
<1>8. t \in FireRec /\ t.message = m
  BY <1>1, <1>5 DEF Timer, FireRec
<1> HIDE DEF row, c, t
<1>9. msg' \in [Messages -> RowRec] /\ msg'[m] = row /\ \A n \in Messages : n # m => msg'[n] = msg[n]
  BY <1>4, <1>6, MessageMoves DEF IInv
<1>10. /\ choice' \in [Messages -> Choices \cup {NULL}] /\ choice'[m] = c
       /\ \A n \in Messages : n # m => choice'[n] = choice[n]
  BY <1>4, <1>7 DEF IInv, Types
<1>11. fire' \in [Fires -> FireRec] /\ \A h \in Fires : FireStays(h)
  BY <1>2, <1>4, <1>8, NewFire DEF IInv
<1>12. /\ req' \in [Requests -> ReqRec] /\ req'[r].pc = "done"
       /\ \A s \in Requests : s # r => req'[s] = req[s]
  BY <1>4, AnswerIs DEF IInv
<1>13. OneWay
  BY <1>4, <1>6, <1>9, OneMoves
<1>14. MessageOK(m)'
  BY <1>1, <1>4, <1>5, <1>6, <1>7, <1>9, <1>10, <1>13, MovedIsOK DEF MessageOK
<1>15. Types'
  BY <1>4, <1>9, <1>10, <1>11, <1>12 DEF IInv, Types
<1>16. QED
  BY <1>4, <1>9, <1>10, <1>11, <1>12, <1>13, <1>14, <1>15, MessageStepKeeps

LEMMA UnscheduleKeeps ==
  ASSUME IInv, NEW r \in Requests, Unschedule(r)
  PROVE  IInv'
<1>1. PICK m \in Messages : /\ m = req[r].draft /\ msg[m].type # "none" /\ MessageOK(m)
                            /\ msg[m] \in RowRec /\ req[r].copy \in RowRec /\ req[r].copy.type = "draft"
  BY LoadedIs DEF Unschedule, Operations
<1> DEFINE row == [req[r].copy EXCEPT !.when = 0, !.job = NULL]
           q == [req[r] EXCEPT !.pc = "cancelling", !.job = msg[m].job]
<1>2. /\ msg' = [msg EXCEPT ![m] = row] /\ req' = [req EXCEPT ![r] = q]
      /\ choice' = [choice EXCEPT ![m] = NULL] /\ msg[m].type = "draft"
      /\ UNCHANGED <<fire, gmail, sweep, mailed, sentAs, now, allowed, ops, faults>>
  BY <1>1 DEF Unschedule, Unschedulable, Locked, Untouched
<1>3. row \in RowRec /\ row.when = 0 /\ row.job = NULL /\ row.type = "draft"
  <2>1. 0 \in 0 .. Horizon
    BY DraftsAssumption
  <2>2. QED
    BY <1>1, <2>1 DEF RowRec
<1>4. q \in ReqRec /\ q.pc = "cancelling"
  <2>1. req[r] \in ReqRec
    BY RowsAre DEF IInv
  <2>2. msg[m].job \in Fires \cup {NULL}
    BY <1>1 DEF RowRec
  <2>3. QED
    BY <2>1, <2>2 DEF ReqRec
<1> HIDE DEF row, q
<1>5. msg' \in [Messages -> RowRec] /\ msg'[m] = row /\ \A n \in Messages : n # m => msg'[n] = msg[n]
  BY <1>2, <1>3, MessageMoves DEF IInv
<1>6. /\ choice' \in [Messages -> Choices \cup {NULL}] /\ choice'[m] = NULL
      /\ \A n \in Messages : n # m => choice'[n] = choice[n]
  BY <1>2 DEF IInv, Types
<1>7. /\ req' \in [Requests -> ReqRec] /\ req'[r].pc = "cancelling"
      /\ \A s \in Requests : s # r => req'[s] = req[s]
  BY <1>2, <1>4 DEF IInv, Types
<1>8. OneWay
  BY <1>2, <1>3, <1>5, OneMoves
<1>9. sentAs'[m] = NULL
  BY <1>1, <1>2 DEF MessageOK
<1>10. MessageOK(m)'
  BY <1>1, <1>3, <1>5, <1>6, <1>8, <1>9, MovedIsOK
<1>11. Types'
  BY <1>2, <1>5, <1>6, <1>7 DEF IInv, Types
<1>12. QED
  BY <1>2, <1>5, <1>6, <1>7, <1>8, <1>10, <1>11, MessageStepKeeps DEF FireStays

LEMMA DeleteKeeps ==
  ASSUME IInv, NEW r \in Requests, Delete(r)
  PROVE  IInv'
<1>1. PICK m \in Messages : /\ m = req[r].draft /\ msg[m].type # "none" /\ MessageOK(m)
  BY LoadedIs DEF Delete, Operations
<1> DEFINE row == Row("gone", 0, NULL, NULL)
           q == [req[r] EXCEPT !.pc = "cancelling"]
<1>2. /\ msg' = [msg EXCEPT ![m] = row] /\ req' = [req EXCEPT ![r] = q]
      /\ UNCHANGED <<fire, gmail, sweep, mailed, choice, sentAs, now, allowed, ops, faults>>
  BY <1>1 DEF Delete, Untouched
<1>3. row \in RowRec /\ row.when = 0 /\ row.job = NULL /\ row.type = "gone"
  <2>1. 0 \in 0 .. Horizon
    BY DraftsAssumption
  <2>2. QED
    BY <2>1 DEF Row, RowRec
<1>4. q \in ReqRec /\ q.pc = "cancelling"
  BY RowsAre DEF ReqRec, IInv
<1> HIDE DEF row, q
<1>5. msg' \in [Messages -> RowRec] /\ msg'[m] = row /\ \A n \in Messages : n # m => msg'[n] = msg[n]
  BY <1>2, <1>3, MessageMoves DEF IInv
<1>6. /\ req' \in [Requests -> ReqRec] /\ req'[r].pc = "cancelling"
      /\ \A s \in Requests : s # r => req'[s] = req[s]
  BY <1>2, <1>4 DEF IInv, Types
<1>7. OneWay
  BY <1>2, <1>3, <1>5, OneMoves
<1>8. MessageOK(m)'
  BY <1>1, <1>2, <1>3, <1>5, <1>7, MovedIsOK DEF MessageOK
<1>9. Types'
  BY <1>2, <1>5, <1>6 DEF IInv, Types
<1>10. QED
  BY <1>2, <1>5, <1>6, <1>7, <1>8, <1>9, MessageStepKeeps DEF FireStays

\* What a reply that commits does: a new draft in a free row, and what it had read goes.
LEMMA StartDraftWriteIs ==
  ASSUME IInv, NEW r \in Requests, StartDraftWrite(r)
  PROVE  /\ req[r].pc = "starting"
         /\ UNCHANGED <<fire, gmail, sweep, mailed, choice, sentAs, now, allowed, ops, faults>>
         /\ \E new \in Messages :
              /\ msg[new].type = "none" /\ \A n \in req[r].before : n < new
              /\ req'[r] = [req[r] EXCEPT !.pc = "done", !.made = new]
              /\ req'[r] \in ReqRec /\ req' \in [Requests -> ReqRec]
              /\ \A s \in Requests : s # r => req'[s] = req[s]
              /\ msg' = [m \in Messages |->
                           CASE m = new -> NewDraft(r)
                             [] m = req[r].draft -> Row("gone", 0, NULL, NULL)
                             [] OTHER -> msg[m]]
<1>1. /\ req[r].pc = "starting"
      /\ UNCHANGED <<fire, gmail, sweep, mailed, choice, sentAs, now, allowed, ops, faults>>
  BY DEF StartDraftWrite, Untouched
<1>2. PICK new \in Stamps(r) :
        /\ msg' = [m \in Messages |->
                     CASE m = new -> NewDraft(r)
                       [] m = req[r].draft -> Row("gone", 0, NULL, NULL)
                       [] OTHER -> msg[m]]
        /\ req' = [req EXCEPT ![r].pc = "done", ![r].made = new]
  BY DEF StartDraftWrite
<1>3. new \in Messages /\ msg[new].type = "none" /\ \A n \in req[r].before : n < new
  BY DEF Stamps, OfType
<1> DEFINE d == [req[r] EXCEPT !.pc = "done", !.made = new]
<1>4. d \in ReqRec
  BY <1>3, RowsAre DEF IInv, ReqRec
<1>5. req' = [req EXCEPT ![r] = d]
  BY <1>2
<1> HIDE DEF d
<1>6. /\ req'[r] = d /\ req' \in [Requests -> ReqRec]
      /\ \A s \in Requests : s # r => req'[s] = req[s]
  BY <1>4, <1>5 DEF IInv, Types
<1>7. req'[r] = [req[r] EXCEPT !.pc = "done", !.made = new]
  BY <1>6 DEF d
<1>8. QED
  BY <1>1, <1>2, <1>3, <1>4, <1>6, <1>7

LEMMA StartDraftWriteKeeps ==
  ASSUME IInv, NEW r \in Requests, StartDraftWrite(r)
  PROVE  IInv'
<1> DEFINE row == NewDraft(r)
           gone == Row("gone", 0, NULL, NULL)
<1>1. /\ req[r].pc = "starting"
      /\ UNCHANGED <<fire, gmail, sweep, mailed, choice, sentAs, now, allowed, ops, faults>>
  BY StartDraftWriteIs
<1>2. PICK new \in Messages :
        /\ msg[new].type = "none"
        /\ req'[r] = [req[r] EXCEPT !.pc = "done", !.made = new]
        /\ req'[r] \in ReqRec /\ req' \in [Requests -> ReqRec]
        /\ \A s \in Requests : s # r => req'[s] = req[s]
        /\ msg' = [m \in Messages |->
                     CASE m = new -> row [] m = req[r].draft -> gone [] OTHER -> msg[m]]
  BY StartDraftWriteIs
<1>3. PICK old : old = req[r].draft
  OBVIOUS
<1>4. old \in Messages => msg[old].type # "none" /\ old # new
  <2>1. old \in Messages => old # NULL
    BY DraftsAssumption DEF Messages
  <2>2. QED
    BY <1>1, <1>2, <1>3, <2>1 DEF IInv, RequestOK
<1>5. /\ row \in RowRec /\ row.when = 0 /\ row.job = NULL /\ row.type = "draft"
      /\ gone \in RowRec /\ gone.when = 0 /\ gone.job = NULL /\ gone.type = "gone"
  <2>1. 0 \in 0 .. Horizon
    BY DraftsAssumption
  <2>2. QED
    BY <2>1 DEF Row, NewDraft, RowRec
<1> HIDE DEF row, gone
<1>6. msg' = [m \in Messages |-> CASE m = new -> row [] m = old -> gone [] OTHER -> msg[m]]
  BY <1>2, <1>3
<1>7. /\ msg'[new] = row
      /\ old \in Messages => msg'[old] = gone
      /\ \A m \in Messages : m # new /\ m # old => msg'[m] = msg[m]
  BY <1>4, <1>6
<1>8. msg' \in [Messages -> RowRec]
  <2>1. \A m \in Messages : msg'[m] \in RowRec
    BY <1>5, <1>7, RowsAre DEF IInv
  <2>2. QED
    BY <1>6, <2>1
<1>9. /\ req' \in [Requests -> ReqRec] /\ req'[r].pc = "done"
      /\ \A s \in Requests : s # r => req'[s] = req[s]
  <2>1. req[r] \in ReqRec
    BY RowsAre DEF IInv
  <2>2. [req[r] EXCEPT !.pc = "done", !.made = new].pc = "done"
    BY <2>1 DEF ReqRec
  <2>3. QED
    BY <1>2, <2>2
<1>10. OneWay
  <2>1. ASSUME NEW m \in Messages
        PROVE  /\ msg[m].type # "none" => msg'[m].type # "none"
               /\ msg[m].type \notin {"none", "draft"} => msg'[m].type \notin {"none", "draft"}
    BY <1>2, <1>4, <1>5, <1>7
  <2>2. QED
    BY <1>1, <2>1 DEF OneWay
<1>11. MessageOK(new)'
  <2>1. msg[new].when = 0 /\ choice'[new] = NULL
    BY <1>1, <1>2 DEF IInv, MessageOK
  <2>2. sentAs'[new] = NULL
    BY <1>1, <1>2 DEF IInv, MessageOK
  <2>3. QED
    BY <1>5, <1>7, <2>1, <2>2 DEF MessageOK
<1>12. old \in Messages => MessageOK(old)'
  <2>1. SUFFICES ASSUME old \in Messages
                 PROVE  MessageOK(old)'
    OBVIOUS
  <2>2. MessageOK(old) /\ msg[old].type # "none" /\ msg'[old] = gone
    BY <1>4, <1>7, <2>1 DEF IInv
  <2>3. QED
    BY <1>1, <1>5, <1>10, <2>1, <2>2, MovedIsOK DEF MessageOK
<1>13. \A m \in Messages : \/ msg'[m] = msg[m] /\ choice'[m] = choice[m] /\ sentAs'[m] = sentAs[m]
                           \/ MessageOK(m)'
  <2>1. ASSUME NEW m \in Messages
        PROVE  \/ msg'[m] = msg[m] /\ choice'[m] = choice[m] /\ sentAs'[m] = sentAs[m]
               \/ MessageOK(m)'
    <3>1. CASE m = new
      BY <1>11, <3>1
    <3>2. CASE m = old
      BY <1>12, <3>2
    <3>3. CASE m # new /\ m # old
      BY <1>1, <1>7, <3>3
    <3>4. QED
      BY <3>1, <3>2, <3>3
  <2>2. QED
    BY <2>1
<1>14. Types'
  BY <1>1, <1>8, <1>9 DEF IInv, Types
<1>15. QED
  BY <1>1, <1>9, <1>10, <1>13, <1>14, StepKeeps DEF FireStays

\* A timer that finds its message scheduled sends the thread's first draft.
LEMMA FirePerformIs ==
  ASSUME IInv, NEW f \in Fires, FirePerform(f)
  PROVE  /\ fire[f].pc = "running" /\ fire' = [fire EXCEPT ![f].pc = "done"]
         /\ UNCHANGED <<req, sweep, mailed, choice, now, allowed, ops, faults>>
         /\ \/ UNCHANGED <<msg, gmail, sentAs>>
            \/ /\ fire[f].message \in Messages /\ msg[fire[f].message].type = "draft"
               /\ msg[fire[f].message].when # 0
               /\ \E m \in Messages : /\ m = First("draft") /\ msg[m].type = "draft"
                                      /\ \A n \in Messages : n < m => msg[n].type # "draft"
                                      /\ MessageOK(m) /\ msg[m] \in RowRec
                                      /\ SendDraft(m, msg[m], fire[f].archive)
<1>1. /\ fire[f].pc = "running" /\ fire' = [fire EXCEPT ![f].pc = "done"]
      /\ UNCHANGED <<req, sweep, mailed, choice, now, allowed, ops, faults>>
  BY DEF FirePerform, Untouched
<1>2. CASE MayFire(f)
  <2>1. /\ fire[f].message \in Messages /\ msg[fire[f].message].type = "draft"
        /\ msg[fire[f].message].when # 0 /\ OfType("draft") # {}
    BY <1>1, <1>2 DEF MayFire, Unschedulable, IsScheduled, IInv, FireOK
  <2>2. PICK m \in Messages : /\ m = First("draft") /\ msg[m].type = "draft"
                              /\ \A n \in Messages : n < m => msg[n].type # "draft"
    BY <2>1, FirstIs
  <2>3. MessageOK(m) /\ msg[m] \in RowRec
    BY RowsAre DEF IInv
  <2>4. SendDraft(m, msg[m], fire[f].archive)
    BY <1>2, <2>2 DEF FirePerform
  <2>5. QED
    BY <1>1, <2>1, <2>2, <2>3, <2>4
<1>3. CASE ~MayFire(f)
  BY <1>1, <1>3 DEF FirePerform
<1>4. QED
  BY <1>2, <1>3

LEMMA FirePerformKeeps ==
  ASSUME IInv, NEW f \in Fires, FirePerform(f)
  PROVE  IInv'
<1>1. /\ fire[f].pc = "running" /\ fire' = [fire EXCEPT ![f].pc = "done"]
      /\ UNCHANGED <<req, sweep, mailed, choice, now, allowed, ops, faults>>
  BY FirePerformIs
<1>2. fire' \in [Fires -> FireRec] /\ \A h \in Fires : FireStays(h)
  BY <1>1, FireMoves
<1>3. CASE UNCHANGED <<msg, gmail, sentAs>>
  <2>1. Types'
    BY <1>1, <1>2, <1>3 DEF IInv, Types
  <2>2. QED
    BY <1>1, <1>2, <1>3, <2>1, StepKeeps, SameIsOneWay
<1>4. ASSUME NEW m \in Messages, msg[m].type = "draft", MessageOK(m), msg[m] \in RowRec,
             SendDraft(m, msg[m], fire[f].archive)
      PROVE  IInv'
  <2>1. Types /\ fire[f].archive \in BOOLEAN
    BY RowsAre DEF IInv, FireRec
  <2>2. /\ msg' \in [Messages -> RowRec]
        /\ msg'[m].type = "sending" /\ msg'[m].when = 0 /\ msg'[m].job = NULL
        /\ \A n \in Messages : n # m => msg'[n] = msg[n]
        /\ gmail' \in [Mails -> MailRec]
        /\ \E g \in Mails : /\ gmail[g].pc = "none" /\ gmail'[g].pc = "queued"
                            /\ \A h \in Mails : h # g => gmail'[h] = gmail[h]
        /\ sentAs' \in [Messages -> Choices \cup {NULL}] /\ sentAs'[m] # NULL
        /\ \A n \in Messages : n # m => sentAs'[n] = sentAs[n]
    BY <1>4, <2>1, SendDraftIs, ZenonT(40)
  <2>3. sentAs[m] = NULL
    BY <1>1, <1>4 DEF MessageOK
  <2>4. OneWay
    BY <1>4, <2>2, <2>3, OneMoves
  <2>5. MessageOK(m)'
    BY <1>4, <2>2, <2>3, <2>4, MovedIsOK
  <2>6. Types'
    BY <1>1, <1>2, <2>2 DEF IInv, Types
  <2>7. \A g \in Mails : gmail'[g] = gmail[g] \/ gmail'[g].pc \notin {"loaded", "accepted"}
    BY <2>2
  <2>8. QED
    BY <1>1, <1>2, <2>2, <2>4, <2>5, <2>6, <2>7, MessageStepKeeps
<1>5. QED
  BY <1>3, <1>4, FirePerformIs

\* The sweeper gives a draft that is still scheduled another timer.
LEMMA SweepRowIs ==
  ASSUME IInv, NEW m \in Messages, SweepRow(m), Unschedulable(msg[m])
  PROVE  \E f \in Fires, t \in FireRec :
           /\ fire[f].pc = "none" /\ fire'[f] = t /\ \A h \in Fires : h # f => fire'[h] = fire[h]
           /\ t.message = m /\ t.at = 0 /\ t.pc = "waiting"
           /\ msg[m].job \in Fires /\ t.archive = fire[msg[m].job].archive
           /\ fire' \in [Fires -> FireRec] /\ \A h \in Fires : FireStays(h)
           /\ msg' \in [Messages -> RowRec] /\ msg'[m].job = f /\ f # NULL
           /\ msg'[m].type = "draft" /\ msg'[m].when = msg[m].when /\ msg[m].when # 0
           /\ \A n \in Messages : n # m => msg'[n] = msg[n]
<1>1. FreeFires # {} /\ msg[m].type = "draft" /\ msg[m].when # 0 /\ msg[m] \in RowRec
  BY RowsAre DEF SweepRow, Unschedulable, IsScheduled, IInv
<1>2. PICK f \in Fires : f = Least(FreeFires)
  BY <1>1, FreeFireIs
<1> DEFINE t == Rebuilt(m)
           row == [msg[m] EXCEPT !.job = f]
<1>3. fire' = [fire EXCEPT ![Least(FreeFires)] = t] /\ msg' = [msg EXCEPT ![m] = row]
  BY <1>2 DEF SweepRow
<1>4. /\ t \in FireRec /\ t.message = m /\ t.at = 0 /\ t.pc = "waiting"
      /\ msg[m].job \in Fires /\ t.archive = fire[msg[m].job].archive
  <2>0. msg[m].job \in Fires
    BY <1>1 DEF IInv, MessageOK, RowRec
  <2>1. 0 \in Times
    BY DraftsAssumption DEF Times
  <2>2. (IF msg[m].job = NULL THEN FALSE ELSE fire[msg[m].job].archive) \in BOOLEAN
    BY <1>1, RowsAre DEF IInv, RowRec, FireRec
  <2>3. msg[m].job # NULL
    BY <1>1 DEF IInv, MessageOK
  <2>4. QED
    BY <2>0, <2>1, <2>2, <2>3 DEF Rebuilt, Timer, FireRec
<1>5. row \in RowRec /\ row.job = f /\ row.type = "draft" /\ row.when = msg[m].when
  BY <1>1 DEF RowRec
<1> HIDE DEF t, row
<1>6. /\ fire' \in [Fires -> FireRec] /\ \A h \in Fires : FireStays(h)
      /\ fire[f].pc = "none" /\ fire'[f] = t /\ \A h \in Fires : h # f => fire'[h] = fire[h]
  BY <1>1, <1>2, <1>3, <1>4, NewFire DEF IInv
<1>7. msg' \in [Messages -> RowRec] /\ msg'[m] = row /\ \A n \in Messages : n # m => msg'[n] = msg[n]
  BY <1>3, <1>5, MessageMoves DEF IInv
<1>8. f # NULL
  BY DraftsAssumption DEF Fires
<1>9. QED
  BY <1>1, <1>4, <1>5, <1>6, <1>7, <1>8

LEMMA SweepRowKeeps ==
  ASSUME IInv, NEW m \in Messages, SweepRow(m)
  PROVE  IInv'
<1>1. /\ m \in sweep /\ sweep' = sweep \ {m}
      /\ UNCHANGED <<req, gmail, mailed, choice, sentAs, now, allowed, ops, faults>>
  BY DEF SweepRow, Untouched
<1>2. CASE Unschedulable(msg[m])
  <2>1. /\ fire' \in [Fires -> FireRec] /\ \A h \in Fires : FireStays(h)
        /\ msg' \in [Messages -> RowRec] /\ msg'[m].job # NULL
        /\ msg'[m].type = "draft" /\ msg'[m].when = msg[m].when /\ msg[m].when # 0
        /\ \A n \in Messages : n # m => msg'[n] = msg[n]
    BY <1>2, SweepRowIs
  <2>2. MessageOK(m) /\ msg[m].type = "draft"
    BY <1>2 DEF IInv, Unschedulable
  <2>3. OneWay
    BY <1>1, <2>1, <2>2, OneMoves
  <2>4. /\ choice'[m] # NULL /\ choice'[m].when = msg'[m].when
        /\ sentAs'[m] = NULL
    BY <1>1, <2>1, <2>2 DEF MessageOK
  <2>5. MessageOK(m)'
    BY <2>1, <2>2, <2>3, <2>4, MovedIsOK
  <2>6. Types'
    BY <1>1, <2>1 DEF IInv, Types
  <2>7. QED
    BY <1>1, <2>1, <2>3, <2>5, <2>6, MessageStepKeeps
<1>3. CASE ~Unschedulable(msg[m])
  <2>1. UNCHANGED <<fire, msg>>
    BY <1>3 DEF SweepRow
  <2>2. Types'
    BY <1>1, <2>1 DEF IInv, Types
  <2>3. QED
    BY <1>1, <2>1, <2>2, StepKeeps, SameIsOneWay DEF FireStays
<1>4. QED
  BY <1>2, <1>3

-----------------------------------------------------------------------------
LEMMA InitHolds ==
  ASSUME Init
  PROVE  IInv
<1>1. /\ NoRow \in RowRec /\ NewDraft(NULL) \in RowRec /\ NoRow.type = "none" /\ NewDraft(NULL).type = "draft"
      /\ NoRow.when = 0 /\ NoRow.job = NULL /\ NewDraft(NULL).when = 0 /\ NewDraft(NULL).job = NULL
  <2>1. 0 \in 0 .. Horizon
    BY DraftsAssumption
  <2>2. QED
    BY <2>1 DEF NewDraft, NoRow, Row, RowRec
<1>2. PICK first \in {NewDraft(NULL), NoRow} : msg = [m \in Messages |-> IF m = 1 THEN first ELSE NoRow]
  BY DEF Init
<1>3. /\ \A m \in Messages : msg[m] \in RowRec /\ msg[m].when = 0 /\ msg[m].job = NULL
                             /\ msg[m].type \in {"none", "draft"} /\ (m # 1 => msg[m].type = "none")
      /\ msg \in [Messages -> RowRec]
  BY <1>1, <1>2
<1>4. NoFire \in FireRec /\ NoFire.pc = "none"
  BY DraftsAssumption DEF NoFire, FireRec, Times
<1>5. 0 \in Times
  BY DraftsAssumption DEF Times
<1>6. ops \in [Requests -> SUBSET Operations] /\ faults \in [Faults -> Nat]
  BY DraftsAssumption DEF Init
<1>7. fire \in [Fires -> FireRec] /\ \A f \in Fires : fire[f].pc = "none"
  BY <1>4 DEF Init
<1>8. gmail \in [Mails -> MailRec] /\ \A g \in Mails : gmail[g].pc = "none"
  <2> DEFINE b == [pc |-> "none", message |-> NULL]
  <2>1. b \in MailRec /\ b.pc = "none"
    BY DEF MailRec
  <2>2. gmail = [g \in Mails |-> b]
    BY DEF Init
  <2> HIDE DEF b
  <2>3. QED
    BY <2>1, <2>2
<1>9. req \in [Requests -> ReqRec] /\ \A r \in Requests : req[r].pc = "idle"
  <2>1. Idle.pc = "idle"
    BY DEF Idle
  <2>2. QED
    BY <2>1, IdleIs DEF Init
<1>10. Types
  BY <1>3, <1>5, <1>6, <1>7, <1>8, <1>9 DEF Init, Types
<1>11. \A m \in Messages : MessageOK(m)
  <2>1. \A m \in Messages : sentAs[m] = NULL /\ choice[m] = NULL
    BY DEF Init
  <2>2. QED
    BY <1>3, <2>1 DEF MessageOK
<1>12. QED
  BY <1>7, <1>8, <1>9, <1>10, <1>11 DEF IInv, RequestOK, FireOK, MailOK

LEMMA StutterKeeps ==
  ASSUME IInv, UNCHANGED vars
  PROVE  IInv'
<1>1. UNCHANGED <<now, msg, req, fire, gmail, sweep, allowed, mailed, choice, sentAs, ops, faults>>
  BY DEF vars
<1>2. Types'
  BY <1>1 DEF IInv, Types
<1>3. QED
  BY <1>1, <1>2, StepKeeps, SameIsOneWay DEF FireStays

LEMMA NextKeeps ==
  ASSUME IInv, [Next]_vars
  PROVE  IInv'
<1>1. ASSUME NEW r \in Requests, RequestStep(r)
      PROVE  IInv'
  BY <1>1, LoadKeeps, LoadReplyKeeps, EditKeeps, SendKeeps, ScheduleKeeps, UnscheduleKeeps,
     RefusedKeeps, DeleteKeeps, CancelFireKeeps, StartDraftReadKeeps, StartDraftWriteKeeps DEF RequestStep
<1>2. ASSUME NEW f \in Fires, FireStep(f) \/ FireLost(f) \/ FireAgain(f)
      PROVE  IInv'
  BY <1>2, TimerKeeps, FirePerformKeeps DEF FireStep
<1>3. ASSUME NEW g \in Mails, MailStep(g) \/ MailDies(g)
      PROVE  IInv'
  BY <1>3, MailLoadKeeps, MailSendKeeps, MailMarkKeeps, MailDiesKeeps DEF MailStep
<1>4. CASE SweepStep \/ SweepDies
  BY <1>4, SweepKeeps, SweepRowKeeps DEF SweepStep
<1>5. CASE Tick \/ Revoke
  BY <1>5, WorldKeeps
<1>6. CASE UNCHANGED vars
  BY <1>6, StutterKeeps
<1>7. QED
  BY <1>1, <1>2, <1>3, <1>4, <1>5, <1>6 DEF Next

LEMMA InvariantHolds == Spec => []IInv
<1>1. Init => IInv
  BY InitHolds
<1>2. IInv /\ [Next]_vars => IInv'
  BY NextKeeps
<1>3. QED
  BY <1>1, <1>2, PTL DEF Spec


\* Every variable keeps its type, and a message row its shape (mark_draft_sending clears
\* the schedule it dispatches), whatever the requests, timers and faults.
THEOREM TypeCorrect == Spec => []TypeOK
<1>1. ASSUME IInv
      PROVE  TypeOK
  <2>1. Types
    BY <1>1 DEF IInv
  <2>2. \A m \in Messages : RowOK(m)
    BY <1>1 DEF IInv, MessageOK, RowOK, IsScheduled
  <2>3. msg \in [Messages -> RowRec]
    BY <2>1 DEF Types
  <2>4. \A r \in Requests :
          /\ req[r].pc \in {"idle", "loaded", "starting", "cancelling", "done"}
          /\ req[r].op \in Operations \cup {NULL}
          /\ req[r].draft \in Messages \cup {NULL}
          /\ req[r].job \in Fires \cup {NULL}
          /\ req[r].before \subseteq Messages /\ req[r].made \in Messages \cup {NULL}
    BY <2>1, RowsAre DEF ReqRec
  <2>5. QED
    BY <2>1, <2>2, <2>3, <2>4 DEF Types, TypeOK, RowRec, FireRec, MailRec
<1>2. QED
  BY <1>1, InvariantHolds, PTL

-----------------------------------------------------------------------------
(***************************************************************************)
(* Dispatching, and the steps that do not                                  *)
(***************************************************************************)
Dispatches(m) ==
  /\ msg[m].type = "draft" /\ sentAs[m] = NULL
  /\ msg'[m].type = "sending" /\ msg'[m].when = 0 /\ msg'[m].job = NULL
  /\ sentAs'[m] # NULL /\ sentAs'[m].when = now
  /\ \A n \in Messages : n # m => msg'[n] = msg[n] /\ sentAs'[n] = sentAs[n]
  /\ \E g \in Mails : /\ gmail[g].pc = "none" /\ gmail'[g].pc = "queued"
                      /\ \A h \in Mails : h # g => gmail'[h] = gmail[h]

LEMMA SendIs ==
  ASSUME IInv, NEW r \in Requests, Send(r)
  PROVE  \E m \in Messages : /\ Dispatches(m) /\ choice'[m] # NULL /\ choice'[m].when = now
                             /\ sentAs'[m].archive = choice'[m].archive
                             /\ \A n \in Messages : n # m => choice'[n] = choice[n]
<1>1. PICK m \in Messages : /\ m = req[r].draft /\ MessageOK(m)
                            /\ req[r].copy \in RowRec /\ req[r].archive \in BOOLEAN
  BY LoadedIs DEF Send, Operations
<1>2. PICK a \in BOOLEAN : a = req[r].archive
  BY <1>1
<1> DEFINE row == [req[r].copy EXCEPT !.env = r]
           c == [when |-> now, archive |-> a]
<1>3. /\ SendDraft(m, row, a) /\ choice' = [choice EXCEPT ![m] = c] /\ msg[m].type = "draft"
  BY <1>1, <1>2 DEF Send, Sendable, Locked
<1>4. row \in RowRec
  BY <1>1 DEF RowRec
<1> HIDE DEF row
<1>5. c # NULL /\ c.when = now /\ c.archive = a
  BY DraftsAssumption DEF IInv, Types, Times
<1> HIDE DEF c
<1>6. Types
  BY DEF IInv
<1>7. Dispatches(m) /\ sentAs'[m].archive = a
  <2>1. sentAs[m] = NULL
    BY <1>1, <1>3 DEF MessageOK
  <2>2. /\ msg'[m].type = "sending" /\ msg'[m].when = 0 /\ msg'[m].job = NULL
        /\ \A n \in Messages : n # m => msg'[n] = msg[n]
        /\ \E g \in Mails : /\ gmail[g].pc = "none" /\ gmail'[g].pc = "queued"
                            /\ \A h \in Mails : h # g => gmail'[h] = gmail[h]
        /\ sentAs'[m] # NULL /\ sentAs'[m].when = now /\ sentAs'[m].archive = a
        /\ \A n \in Messages : n # m => sentAs'[n] = sentAs[n]
    BY <1>3, <1>4, <1>6, SendDraftIs, ZenonT(40)
  <2>3. QED
    BY <1>1, <1>3, <2>1, <2>2 DEF Dispatches
<1>8. choice'[m] = c /\ \A n \in Messages : n # m => choice'[n] = choice[n]
  BY <1>3, <1>6 DEF Types
<1>9. QED
  BY <1>5, <1>7, <1>8

LEMMA FireSends ==
  ASSUME IInv, NEW f \in Fires, FirePerform(f), ~UNCHANGED <<msg, gmail, sentAs>>
  PROVE  /\ fire[f].message \in Messages /\ msg[fire[f].message].type = "draft"
         /\ msg[fire[f].message].when # 0
         /\ \E m \in Messages : /\ Dispatches(m) /\ sentAs'[m].archive = fire[f].archive /\ MessageOK(m)
                                /\ \A n \in Messages : n < m => msg[n].type # "draft"
<1>1. PICK m \in Messages : /\ m = First("draft") /\ msg[m].type = "draft"
                            /\ \A n \in Messages : n < m => msg[n].type # "draft"
                            /\ MessageOK(m) /\ msg[m] \in RowRec
                            /\ SendDraft(m, msg[m], fire[f].archive)
  BY FirePerformIs
<1>2. PICK a \in BOOLEAN : a = fire[f].archive
  BY RowsAre DEF IInv, FireRec
<1>3. PICK row \in RowRec : row = msg[m]
  BY <1>1
<1>4. Types /\ SendDraft(m, row, a)
  BY <1>1, <1>2, <1>3 DEF IInv
<1>5. Dispatches(m) /\ sentAs'[m].archive = a
  <2>1. sentAs[m] = NULL
    BY <1>1 DEF MessageOK
  <2>2. /\ msg'[m].type = "sending" /\ msg'[m].when = 0 /\ msg'[m].job = NULL
        /\ \A n \in Messages : n # m => msg'[n] = msg[n]
        /\ \E g \in Mails : /\ gmail[g].pc = "none" /\ gmail'[g].pc = "queued"
                            /\ \A h \in Mails : h # g => gmail'[h] = gmail[h]
        /\ sentAs'[m] # NULL /\ sentAs'[m].when = now /\ sentAs'[m].archive = a
        /\ \A n \in Messages : n # m => sentAs'[n] = sentAs[n]
    BY <1>4, SendDraftIs, ZenonT(40)
  <2>3. QED
    BY <1>1, <2>1, <2>2 DEF Dispatches
<1>6. /\ fire[f].message \in Messages /\ msg[fire[f].message].type = "draft"
      /\ msg[fire[f].message].when # 0
  BY FirePerformIs
<1>7. QED
  BY <1>1, <1>2, <1>5, <1>6

\* Every other step leaves alone who was dispatched.
LEMMA OnlyDispatchSends ==
  ASSUME IInv, [Next]_vars, \A r \in Requests : ~Send(r),
         \A f \in Fires : ~FirePerform(f)
  PROVE  UNCHANGED sentAs
<1>1. ASSUME NEW r \in Requests, RequestStep(r)
      PROVE  UNCHANGED sentAs
  BY <1>1 DEF RequestStep, Load, LoadReply, Edit, Send, Schedule, Unschedule, Refused, Delete, CancelFire,
     StartDraftRead, StartDraftWrite
<1>2. ASSUME NEW f \in Fires, FireStep(f) \/ FireLost(f) \/ FireAgain(f)
      PROVE  UNCHANGED sentAs
  BY <1>2 DEF FireStep, FireStart, FireLost, FireAgain
<1>3. ASSUME NEW g \in Mails, MailStep(g) \/ MailDies(g)
      PROVE  UNCHANGED sentAs
  BY <1>3 DEF MailStep, MailLoad, MailSend, MailMark, MailDies
<1>4. CASE SweepStep \/ SweepDies
  BY <1>4 DEF SweepStep, SweepRead, SweepRow, SweepDies
<1>5. CASE Tick \/ Revoke
  BY <1>5 DEF Tick, Revoke
<1>6. CASE UNCHANGED vars
  BY <1>6 DEF vars
<1>7. QED
  BY <1>1, <1>2, <1>3, <1>4, <1>5, <1>6 DEF Next

\* Who asks Gmail, and how often, only the mail job's steps change.
LEMMA OnlyMailMails ==
  ASSUME IInv, [Next]_vars, \A r \in Requests : ~Send(r),
         \A f \in Fires : ~FirePerform(f), \A g \in Mails : ~(MailStep(g) \/ MailDies(g))
  PROVE  UNCHANGED <<gmail, mailed>>
<1>1. ASSUME NEW r \in Requests, RequestStep(r)
      PROVE  UNCHANGED <<gmail, mailed>>
  BY <1>1 DEF RequestStep, Load, LoadReply, Edit, Send, Schedule, Unschedule, Refused, Delete, CancelFire,
     StartDraftRead, StartDraftWrite
<1>2. ASSUME NEW f \in Fires, FireStep(f) \/ FireLost(f) \/ FireAgain(f)
      PROVE  UNCHANGED <<gmail, mailed>>
  BY <1>2 DEF FireStep, FireStart, FireLost, FireAgain
<1>3. CASE SweepStep \/ SweepDies
  BY <1>3 DEF SweepStep, SweepRead, SweepRow, SweepDies
<1>4. CASE Tick \/ Revoke
  BY <1>4 DEF Tick, Revoke
<1>5. CASE UNCHANGED vars
  BY <1>5 DEF vars
<1>6. QED
  BY <1>1, <1>2, <1>3, <1>4, <1>5 DEF Next

\* Where the mail job may not die, it does not.
LEMMA NoCrash ==
  ASSUME IInv, [Next]_vars, faults["crash"] = 0
  PROVE  faults'["crash"] = 0 /\ \A g \in Mails : ~MailDies(g)
<1>1. faults \in [Faults -> Nat] /\ "crash" \in Faults
  BY DEF IInv, Types, Faults
<1>2. ASSUME NEW k \in Faults, Spend(k)
      PROVE  faults'["crash"] = 0 /\ k # "crash"
  BY <1>1, <1>2 DEF Spend
<1>3. ASSUME NEW r \in Requests, RequestStep(r)
      PROVE  UNCHANGED faults
  BY <1>3 DEF RequestStep, Load, LoadReply, Edit, Send, Schedule, Unschedule, Refused, Delete, CancelFire,
     StartDraftRead, StartDraftWrite, Untouched
<1>4. ASSUME NEW f \in Fires, FireStep(f) \/ FireLost(f) \/ FireAgain(f)
      PROVE  UNCHANGED faults \/ \E k \in Faults : Spend(k)
  BY <1>4 DEF FireStep, FireStart, FirePerform, FireLost, FireAgain, Untouched, Faults
<1>5. ASSUME NEW g \in Mails
      PROVE  /\ ~MailDies(g)
             /\ MailStep(g) => UNCHANGED faults
  BY <1>2, <1>1 DEF MailStep, MailLoad, MailSend, MailMark, MailDies, Untouched
<1>6. CASE SweepStep \/ SweepDies
  BY <1>1, <1>2, <1>5, <1>6 DEF SweepStep, SweepRead, SweepRow, SweepDies, Untouched
<1>7. CASE Tick \/ Revoke
  <2>1. "revoke" \in Faults
    BY DEF Faults
  <2>2. QED
    BY <1>2, <1>5, <1>7, <2>1 DEF Tick, Revoke
<1>8. CASE UNCHANGED vars
  BY <1>5, <1>8 DEF vars
<1>9. QED
  BY <1>2, <1>3, <1>4, <1>5, <1>6, <1>7, <1>8 DEF Next

-----------------------------------------------------------------------------
(***************************************************************************)
(* Each message is mailed once                                             *)
(***************************************************************************)
LEMMA DispatchKeepsMailed ==
  ASSUME IInv, MailedInv, NEW m \in Messages, Dispatches(m), UNCHANGED mailed, faults'["crash"] = 0
  PROVE  MailedInv'
<1>1. PICK g \in Mails : /\ gmail[g].pc = "none" /\ gmail'[g].pc = "queued"
                         /\ \A h \in Mails : h # g => gmail'[h] = gmail[h]
  BY DEF Dispatches
<1>2. /\ sentAs[m] = NULL /\ sentAs'[m] # NULL
      /\ \A n \in Messages : n # m => sentAs'[n] = sentAs[n]
  BY DEF Dispatches
<1>3. (\E n \in Messages : sentAs[n] # NULL) => Two'
  BY <1>2 DEF Two
<1>4. (\E n \in Messages : mailed[n] > 0) => Two'
  BY <1>3 DEF MailedInv
<1>5. (\E h \in Mails : gmail[h].pc # "none") => Two'
  BY <1>3 DEF MailedInv
<1>6. \A n \in Messages : ~(mailed[n] > 0) => mailed[n] = 0
  BY DEF IInv, Types
<1>7. \A h, i \in Mails : gmail'[h].pc # "none" /\ gmail'[i].pc # "none" => h = i \/ Two'
  BY <1>1, <1>5
<1>8. Two' \/ \A n \in Messages : mailed'[n] = 0
  BY <1>4, <1>6
<1>9. \A n \in Messages : mailed'[n] > 0 => sentAs'[n] # NULL
  BY <1>2 DEF MailedInv
<1>10. \A h \in Mails : gmail'[h].pc = "accepted" => mailed'[gmail'[h].message] > 0
  BY <1>1 DEF MailedInv
<1>11. \A n \in Messages : mailed'[n] <= 1 \/ Two'
  BY <1>8
<1>12. QED
  BY <1>2, <1>7, <1>8, <1>9, <1>10, <1>11 DEF MailedInv

LEMMA MailKeepsMailed ==
  ASSUME IInv, MailedInv, NEW g \in Mails, MailStep(g)
  PROVE  MailedInv'
<1>1. UNCHANGED <<sentAs, faults>> /\ (Two' <=> Two) /\ gmail[g].pc # "none"
  BY DEF MailStep, MailLoad, MailSend, MailMark, Untouched, Two
<1>2. gmail \in [Mails -> MailRec] /\ mailed \in [Messages -> Nat]
  BY DEF IInv, Types
<1>3. CASE MailLoad(g)
  <2>1. /\ gmail[g].pc = "queued" /\ UNCHANGED mailed
        /\ \A h \in Mails : h # g => gmail'[h] = gmail[h]
        /\ gmail'[g].pc \in {"loaded", "done"}
    BY <1>2, <1>3 DEF MailLoad
  <2>2. \A h \in Mails : gmail'[h].pc # "none" => gmail[h].pc # "none"
    BY <1>1, <2>1
  <2>3. \A h \in Mails : gmail'[h].pc \in {"queued", "loaded"} => gmail[h].pc \in {"queued", "loaded"}
    BY <2>1
  <2>4. \A h \in Mails : gmail'[h].pc = "accepted" => mailed[gmail'[h].message] > 0
    BY <2>1 DEF MailedInv
  <2>5. QED
    BY <1>1, <2>1, <2>2, <2>3, <2>4 DEF MailedInv
<1>4. CASE MailSend(g)
  <2>1. PICK m \in Messages : m = gmail[g].message /\ sentAs[m] # NULL
    BY <1>4 DEF MailSend, IInv, MailOK
  <2>2. /\ gmail[g].pc = "loaded" /\ mailed' = [mailed EXCEPT ![m] = mailed[m] + 1]
        /\ gmail' = [gmail EXCEPT ![g].pc = "accepted"]
    BY <1>4, <2>1 DEF MailSend
  <2>3. /\ mailed'[m] = mailed[m] + 1 /\ mailed[m] \in Nat
        /\ \A n \in Messages : n # m => mailed'[n] = mailed[n]
    BY <1>2, <2>2
  <2>4. /\ gmail'[g].pc = "accepted" /\ gmail'[g].message = m
        /\ \A h \in Mails : h # g => gmail'[h] = gmail[h]
    BY <1>2, <2>1, <2>2 DEF MailRec
  <2>5. Two \/ \A n \in Messages : mailed[n] = 0
    BY <2>2 DEF MailedInv
  <2>6. \A n \in Messages : mailed'[n] > 0 => sentAs'[n] # NULL
    BY <1>1, <2>1, <2>3 DEF MailedInv
  <2>7. \A n \in Messages : mailed'[n] <= 1 \/ Two'
    <3>1. CASE Two
      BY <1>1, <3>1
    <3>2. CASE \A n \in Messages : mailed[n] = 0
      BY <2>3, <3>2
    <3>3. QED
      BY <2>5, <3>1, <3>2
  <2>8. \A h, i \in Mails : gmail'[h].pc # "none" /\ gmail'[i].pc # "none" => h = i \/ Two'
    BY <1>1, <2>2, <2>4 DEF MailedInv
  <2>9. \A h \in Mails : gmail'[h].pc \in {"queued", "loaded"} => Two'
    BY <1>1, <2>2, <2>4, <2>8
  <2>10. \A h \in Mails : gmail'[h].pc = "accepted" => mailed'[gmail'[h].message] > 0
    <3>1. ASSUME NEW h \in Mails, gmail'[h].pc = "accepted", h # g
          PROVE  mailed'[gmail'[h].message] > 0
      <4>1. gmail'[h] = gmail[h] /\ mailed[gmail[h].message] > 0 /\ gmail[h].message \in Messages
        BY <2>4, <3>1 DEF MailedInv, IInv, MailOK
      <4>2. PICK n \in Messages : n = gmail[h].message
        BY <4>1
      <4>3. mailed'[n] > 0
        BY <2>3, <4>1, <4>2
      <4>4. QED
        BY <4>1, <4>2, <4>3
    <3>2. mailed'[m] > 0
      BY <2>3
    <3>3. QED
      BY <2>4, <3>1, <3>2
  <2>11. \A h \in Mails : gmail'[h].pc # "none" => \E n \in Messages : sentAs'[n] # NULL
    BY <1>1, <2>1
  <2>12. QED
    BY <1>1, <2>6, <2>7, <2>8, <2>9, <2>10, <2>11 DEF MailedInv
<1>5. CASE MailMark(g)
  <2>1. /\ UNCHANGED mailed /\ gmail'[g].pc = "done"
        /\ \A h \in Mails : h # g => gmail'[h] = gmail[h]
    BY <1>2, <1>5 DEF MailMark, MailRec
  <2>2. \A h \in Mails : gmail'[h].pc # "none" => gmail[h].pc # "none"
    BY <1>1, <2>1
  <2>3. QED
    BY <1>1, <2>1, <2>2 DEF MailedInv
<1>6. QED
  BY <1>3, <1>4, <1>5 DEF MailStep

LEMMA StartIs ==
  ASSUME Init
  PROVE  /\ \E s \in Starts : faults = s.faults
         /\ \A m \in Messages : mailed[m] = 0 /\ sentAs[m] = NULL
         /\ \A m \in Messages : msg[m].when = 0 /\ msg[m].job = NULL
         /\ \A g \in Mails : gmail[g].pc = "none"
         /\ \A f \in Fires : fire[f].pc = "none"
         /\ sweep = {}
<1> DEFINE b == [pc |-> "none", message |-> NULL]
<1>1. /\ gmail = [g \in Mails |-> b] /\ mailed = [m \in Messages |-> 0]
      /\ sentAs = [m \in Messages |-> NULL] /\ fire = [f \in Fires |-> NoFire]
      /\ sweep = {} /\ \E s \in Starts : faults = s.faults
      /\ \E first \in {NewDraft(NULL), NoRow} : msg = [m \in Messages |-> IF m = 1 THEN first ELSE NoRow]
  BY DEF Init
<1>2. /\ b.pc = "none" /\ NoFire.pc = "none" /\ NewDraft(NULL).when = 0 /\ NoRow.when = 0
      /\ NewDraft(NULL).job = NULL /\ NoRow.job = NULL
  BY DEF NoFire, NewDraft, NoRow, Row
<1> HIDE DEF b
<1>3. \A m \in Messages : msg[m].when = 0 /\ msg[m].job = NULL
  BY <1>1, <1>2
<1>4. QED
  BY <1>1, <1>2, <1>3

LEMMA MailedKeeps ==
  ASSUME IInv, MailedInv, [Next]_vars
  PROVE  MailedInv'
<1>1. faults'["crash"] = 0 /\ \A g \in Mails : ~MailDies(g)
  BY NoCrash DEF MailedInv
<1>2. ASSUME NEW r \in Requests, Send(r)
      PROVE  MailedInv'
  BY <1>1, <1>2, SendIs, DispatchKeepsMailed DEF Send
<1>3. CASE UNCHANGED <<gmail, mailed, sentAs>>
  BY <1>1, <1>3 DEF MailedInv, Two
<1>4. ASSUME NEW f \in Fires, FirePerform(f)
      PROVE  MailedInv'
  <2>1. UNCHANGED mailed
    BY <1>4 DEF FirePerform
  <2>2. CASE UNCHANGED <<msg, gmail, sentAs>>
    BY <1>3, <2>1, <2>2
  <2>3. CASE ~UNCHANGED <<msg, gmail, sentAs>>
    BY <1>1, <1>4, <2>1, <2>3, FireSends, DispatchKeepsMailed
  <2>4. QED
    BY <2>2, <2>3
<1>5. ASSUME NEW g \in Mails, MailStep(g)
      PROVE  MailedInv'
  BY <1>5, MailKeepsMailed
<1>6. QED
  BY <1>1, <1>2, <1>3, <1>4, <1>5, OnlyDispatchSends, OnlyMailMails

LEMMA MailedStarts ==
  ASSUME Init, \A s \in Starts : s.faults["crash"] = 0
  PROVE  MailedInv
<1>1. PICK s \in Starts : faults = s.faults
  BY StartIs
<1>2. s.faults["crash"] = 0
  OBVIOUS
<1>3. QED
  BY <1>1, <1>2, StartIs DEF MailedInv

LEMMA MailedInvHolds ==
  ASSUME \A s \in Starts : s.faults["crash"] = 0
  PROVE  Spec => []MailedInv
<1>1. Init => MailedInv
  BY MailedStarts
<1>2. IInv /\ MailedInv /\ [Next]_vars => MailedInv'
  BY MailedKeeps
<1>3. QED
  BY <1>1, <1>2, InvariantHolds, PTL DEF Spec

\* Where no handler dies after Gmail's answer, a message is mailed a second time only if
\* another message of its thread was dispatched, whatever requests, timers and sweeps race.
THEOREM MailedOnceHolds ==
  ASSUME \A s \in Starts : s.faults["crash"] = 0
  PROVE  Spec => []MailedOnce
<1>1. ASSUME IInv, MailedInv
      PROVE  MailedOnce
  <2>1. SUFFICES ASSUME NEW m \in Messages, mailed[m] > 1
                 PROVE  \E n \in Messages \ {m} : sentAs[n] # NULL
    BY DEF MailedOnce
  <2>2. Two
    BY <1>1, <2>1 DEF MailedInv, IInv, Types
  <2>3. QED
    BY <2>2 DEF Two
<1>2. QED
  BY <1>1, InvariantHolds, MailedInvHolds, PTL

-----------------------------------------------------------------------------
(***************************************************************************)
(* A scheduled draft is not dispatched early                               *)
(***************************************************************************)
\* A request is served once: it keeps its kind, and stays done.
Served == \A r \in Requests :
  /\ req[r].op # NULL => req'[r].op = req[r].op
  /\ req[r].pc = "done" => req'[r] = req[r]
  /\ req'[r].pc = "idle" => req'[r].op = NULL

LEMMA RequestsAreServed ==
  ASSUME IInv, DueInv, [Next]_vars
  PROVE  Served
<1>1. req \in [Requests -> ReqRec] /\ \A r \in Requests : req[r].pc = "idle" => req[r].op = NULL
  BY DEF IInv, Types, DueInv
<1>2. ASSUME NEW r \in Requests, NEW d, req' = [req EXCEPT ![r] = d], req[r].pc # "done", d.pc # "idle",
             req[r].op # NULL => d.op = req[r].op
      PROVE  Served
  <2>1. req'[r] = d /\ \A s \in Requests : s # r => req'[s] = req[s]
    BY <1>1, <1>2
  <2>2. QED
    BY <1>1, <1>2, <2>1 DEF Served
<1>3. CASE UNCHANGED req
  BY <1>1, <1>3 DEF Served
<1>4. ASSUME NEW r \in Requests, Answer(r), req[r].pc # "done"
      PROVE  Served
  <2> DEFINE d == [Idle EXCEPT !.pc = "done", !.op = req[r].op]
  <2>1. req' = [req EXCEPT ![r] = d] /\ d.pc # "idle" /\ d.op = req[r].op
    BY <1>4 DEF Answer, Idle
  <2> HIDE DEF d
  <2>2. QED
    BY <1>2, <1>4, <2>1
<1>5. ASSUME NEW r \in Requests, RequestStep(r)
      PROVE  Served
  <2>1. ASSUME NEW op \in Operations, NEW when \in Whens(op), NEW archive \in Archives(op),
               Load(r, op, when, archive)
        PROVE  Served
    <3>1. PICK d : req' = [req EXCEPT ![r] = d] /\ d.pc = "loaded"
      <4> DEFINE q == [pc |-> "loaded", op |-> op, draft |-> First("draft"), copy |-> msg[First("draft")],
                       when |-> when, archive |-> archive, job |-> msg[First("draft")].job,
                       before |-> {}, made |-> NULL]
      <4>1. req' = [req EXCEPT ![r] = q] /\ q.pc = "loaded"
        BY <2>1 DEF Load
      <4> HIDE DEF q
      <4>2. QED
        BY <4>1
    <3>2. req[r].pc = "idle" /\ req[r].op = NULL
      BY <1>1, <2>1 DEF Load
    <3>3. QED
      BY <1>2, <3>1, <3>2
  <2>2. ASSUME NEW replace \in BOOLEAN, LoadReply(r, replace)
        PROVE  Served
    <3> DEFINE d == [Idle EXCEPT !.pc = "loaded", !.op = "reply"]
    <3>1. req' = [req EXCEPT ![r] = d] /\ d.pc = "loaded"
      BY <2>2 DEF LoadReply, Idle
    <3>2. req[r].pc = "idle" /\ req[r].op = NULL
      BY <1>1, <2>2 DEF LoadReply
    <3> HIDE DEF d
    <3>3. QED
      BY <1>2, <3>1, <3>2
  <2>3. CASE Edit(r) \/ Send(r) \/ Schedule(r) \/ Refused(r) \/ CancelFire(r)
    BY <1>4, <2>3 DEF Edit, Send, Schedule, Refused, CancelFire, Serving
  <2>4. CASE Unschedule(r) \/ Delete(r) \/ StartDraftRead(r)
    <3>1. PICK d : req' = [req EXCEPT ![r] = d] /\ d.pc \in {"cancelling", "starting"} /\ d.op = req[r].op
      <4>1. req[r] \in ReqRec
        BY <1>1
      <4>2. CASE Unschedule(r)
        <5> DEFINE d == [req[r] EXCEPT !.pc = "cancelling", !.job = msg[req[r].draft].job]
        <5>1. req' = [req EXCEPT ![r] = d] /\ d.pc = "cancelling" /\ d.op = req[r].op
          BY <4>1, <4>2 DEF Unschedule, ReqRec
        <5> HIDE DEF d
        <5>2. QED
          BY <5>1
      <4>3. CASE Delete(r)
        <5> DEFINE d == [req[r] EXCEPT !.pc = "cancelling"]
        <5>1. req' = [req EXCEPT ![r] = d] /\ d.pc = "cancelling" /\ d.op = req[r].op
          BY <4>1, <4>3 DEF Delete, ReqRec
        <5> HIDE DEF d
        <5>2. QED
          BY <5>1
      <4>4. CASE StartDraftRead(r)
        <5> DEFINE d == [req[r] EXCEPT !.pc = "starting", !.before = Messages \ OfType("none"),
                                       !.draft = IF OfType("draft") = {} THEN NULL ELSE First("draft")]
        <5>1. req' = [req EXCEPT ![r] = d] /\ d.pc = "starting" /\ d.op = req[r].op
          BY <4>1, <4>4 DEF StartDraftRead, ReqRec
        <5> HIDE DEF d
        <5>2. QED
          BY <5>1
      <4>5. QED
        BY <2>4, <4>2, <4>3, <4>4
    <3>2. req[r].pc = "loaded"
      BY <2>4 DEF Unschedule, Delete, StartDraftRead, Serving
    <3>3. QED
      BY <1>2, <3>1, <3>2
  <2>5. CASE StartDraftWrite(r)
    <3>1. PICK new \in Messages : req'[r] = [req[r] EXCEPT !.pc = "done", !.made = new]
      BY <2>5, StartDraftWriteIs
    <3>2. req[r] \in ReqRec /\ req[r].pc = "starting" /\ \A t \in Requests : t # r => req'[t] = req[t]
      BY <1>1, <2>5, StartDraftWriteIs
    <3>3. req'[r].pc = "done" /\ req'[r].op = req[r].op
      BY <3>1, <3>2 DEF ReqRec
    <3>4. QED
      BY <1>1, <3>2, <3>3 DEF Served
  <2>6. QED
    BY <1>5, <2>1, <2>2, <2>3, <2>4, <2>5 DEF RequestStep
<1>6. ASSUME NEW f \in Fires, FireStep(f) \/ FireLost(f) \/ FireAgain(f)
      PROVE  UNCHANGED req
  BY <1>6 DEF FireStep, FireStart, FirePerform, FireLost, FireAgain
<1>7. ASSUME NEW g \in Mails, MailStep(g) \/ MailDies(g)
      PROVE  UNCHANGED req
  BY <1>7 DEF MailStep, MailLoad, MailSend, MailMark, MailDies
<1>8. SweepStep \/ SweepDies => UNCHANGED req
  BY DEF SweepStep, SweepRead, SweepRow, SweepDies
<1>9. Tick \/ Revoke => UNCHANGED req
  BY DEF Tick, Revoke
<1>10. UNCHANGED vars => UNCHANGED req
  BY DEF vars
<1>11. QED
  BY <1>3, <1>5, <1>6, <1>7, <1>8, <1>9, <1>10 DEF Next

LEMMA ServedOnce ==
  ASSUME DueInv, Served
  PROVE  /\ ScheduledOnce' => ScheduledOnce
         /\ Asked => Asked'
         /\ \A r \in Requests : req'[r].pc = "idle" => req'[r].op = NULL
<1>1. NULL # "schedule"
  BY DraftsAssumption DEF Operations
<1>2. QED
  BY <1>1 DEF Served, ScheduledOnce, Asked

\* A timer that there was, which runs only when it may.
OldFire(f) ==
  /\ fire'[f].pc # "none" <=> fire[f].pc # "none"
  /\ fire'[f].pc # "none" =>
       fire'[f].message = fire[f].message /\ fire'[f].at = fire[f].at /\ fire'[f].archive = fire[f].archive
  /\ fire'[f].pc \in {"running", "done"} => fire[f].pc \in {"running", "done"} \/ fire[f].at <= now

LEMMA NumbersAre ==
  ASSUME IInv
  PROVE  /\ now \in Nat
         /\ \A m \in Messages : msg[m].when \in Nat
         /\ \A f \in Fires : fire[f].at \in Nat
         /\ \A f \in Fires : fire[f].pc # "none" => fire[f].message \in Messages
<1>1. Times \subseteq Nat /\ 0 .. Horizon \subseteq Nat
  BY DraftsAssumption DEF Times
<1>2. Types
  BY DEF IInv
<1>3. /\ \A m \in Messages : msg[m].when \in 0 .. Horizon
      /\ \A f \in Fires : fire[f].at \in Times
  BY <1>2, RowsAre DEF RowRec, FireRec
<1>4. QED
  BY <1>1, <1>2, <1>3 DEF IInv, Types, FireOK

\* A row that is scheduled as before, or is not.
RowStays(m) ==
  \/ msg'[m].when = msg[m].when /\ msg'[m].job = msg[m].job /\ choice'[m] = choice[m]
  \/ msg'[m].when = 0 /\ msg'[m].job = NULL

\* Of a step that makes no timer and schedules nothing, only what it dispatches is to show.
LEMMA DueStays ==
  ASSUME IInv, IInv', DueInv, Served, now <= now',
         \A m \in Messages : RowStays(m), \A f \in Fires : OldFire(f), sweep' \subseteq sweep,
         ScheduledOnce => \A m \in Messages : AsAsked(m)'
  PROVE  DueInv'
<1>0. now' \in Nat
  BY DraftsAssumption DEF IInv, Types, Times
<1>1. Started'
  <2>1. ASSUME NEW f \in Fires, fire'[f].pc \in {"running", "done"}
        PROVE  fire'[f].at <= now'
    <3>1. fire[f].at <= now /\ fire'[f].at = fire[f].at
      <4>1. fire'[f].pc # "none"
        BY <2>1
      <4>2. QED
        BY <2>1, <4>1 DEF OldFire, DueInv, Started
    <3>2. fire[f].at \in Nat /\ now \in Nat /\ now' \in Nat
      BY <1>0, NumbersAre
    <3>3. QED
      BY <3>1, <3>2
  <2>2. QED
    BY <2>1 DEF Started
<1>2. /\ \A r \in Requests : req'[r].pc = "idle" => req'[r].op = NULL
      /\ \A m \in Messages : msg'[m].job # NULL => fire'[msg'[m].job].pc # "none"
  <2>1. ASSUME NEW m \in Messages, msg'[m].job # NULL
        PROVE  fire'[msg'[m].job].pc # "none"
    <3>1. msg'[m].job = msg[m].job /\ msg[m].job \in Fires
      BY <2>1, RowsAre DEF RowStays, IInv, RowRec
    <3>2. QED
      BY <2>1, <3>1 DEF OldFire, DueInv
  <2>2. QED
    BY <2>1, ServedOnce
<1>3. SUFFICES ASSUME ScheduledOnce'
               PROVE  /\ (\E f \in Fires : fire'[f].pc # "none") \/ (\E m \in Messages : msg'[m].when # 0)
                         \/ sweep' # {} => Asked'
                      /\ \A f \in Fires : fire'[f].pc # "none" =>
                           msg'[fire'[f].message].when <= fire'[f].at \/ msg'[fire'[f].message].when <= now'
                      /\ \A m \in sweep' : msg'[m].when <= now'
                      /\ \A m, n \in Messages : msg'[m].when # 0 /\ msg'[n].when # 0 => m = n
                      /\ \A f \in Fires, m \in Messages : fire'[f].pc # "none" /\ msg'[m].when # 0
                           => fire'[f].archive = choice'[m].archive
                      /\ \A m \in Messages : AsAsked(m)'
  BY <1>1, <1>2 DEF DueInv
<1>4. ScheduledOnce
  BY <1>3, ServedOnce
<1>5. (\E f \in Fires : fire'[f].pc # "none") \/ (\E m \in Messages : msg'[m].when # 0) \/ sweep' # {}
      => Asked'
  <2>1. Asked => Asked'
    BY ServedOnce
  <2>2. ASSUME NEW f \in Fires, fire'[f].pc # "none"
        PROVE  Asked
    BY <1>4, <2>2 DEF OldFire, DueInv
  <2>3. ASSUME NEW m \in Messages, msg'[m].when # 0
        PROVE  Asked
    BY <1>4, <2>3 DEF DueInv, RowStays
  <2>4. ASSUME sweep' # {}
        PROVE  Asked
    BY <1>4, <2>4 DEF DueInv
  <2>5. QED
    BY <2>1, <2>2, <2>3, <2>4
<1>6. ASSUME NEW f \in Fires, fire'[f].pc # "none"
      PROVE  msg'[fire'[f].message].when <= fire'[f].at \/ msg'[fire'[f].message].when <= now'
  <2>1. /\ fire[f].pc # "none" /\ fire'[f].message = fire[f].message /\ fire'[f].at = fire[f].at
        /\ fire[f].message \in Messages
    BY <1>6, NumbersAre DEF OldFire
  <2>2. PICK m \in Messages : m = fire[f].message
    BY <2>1
  <2>3. msg[m].when <= fire[f].at \/ msg[m].when <= now
    BY <1>4, <2>1, <2>2 DEF DueInv
  <2>4. msg[m].when \in Nat /\ fire[f].at \in Nat /\ now \in Nat /\ now' \in Nat
    BY <1>0, NumbersAre
  <2>5. msg'[m].when <= fire[f].at \/ msg'[m].when <= now'
    <3>1. msg'[m].when = msg[m].when \/ msg'[m].when = 0
      BY DEF RowStays
    <3>2. QED
      BY <2>3, <2>4, <3>1
  <2>6. QED
    BY <2>1, <2>2, <2>5
<1>7. ASSUME NEW m \in sweep'
      PROVE  msg'[m].when <= now'
  <2>1. m \in Messages /\ msg[m].when <= now
    BY <1>4, <1>7 DEF DueInv, IInv, Types
  <2>2. msg[m].when \in Nat /\ now \in Nat /\ now' \in Nat
    BY <1>0, <2>1, NumbersAre
  <2>3. msg'[m].when = msg[m].when \/ msg'[m].when = 0
    BY <2>1 DEF RowStays
  <2>4. QED
    BY <2>1, <2>2, <2>3
<1>8. \A m, n \in Messages : msg'[m].when # 0 /\ msg'[n].when # 0 => m = n
  <2>1. \A m \in Messages : msg'[m].when # 0 => msg[m].when # 0
    BY DEF RowStays
  <2>2. QED
    BY <1>4, <2>1 DEF DueInv
<1>9. ASSUME NEW f \in Fires, NEW m \in Messages, fire'[f].pc # "none", msg'[m].when # 0
      PROVE  fire'[f].archive = choice'[m].archive
  <2>1. fire[f].pc # "none" /\ fire'[f].archive = fire[f].archive
    BY <1>9 DEF OldFire
  <2>2. msg[m].when # 0 /\ choice'[m] = choice[m]
    BY <1>9 DEF RowStays
  <2>3. QED
    BY <1>4, <2>1, <2>2 DEF DueInv
<1>10. \A m \in Messages : AsAsked(m)'
  BY <1>4
<1>11. QED
  BY <1>5, <1>6, <1>7, <1>8, <1>9, <1>10

\* Who was dispatched or chosen as before was as asked.
LEMMA DecidedStays ==
  ASSUME DueInv, ScheduledOnce, NEW m \in Messages,
         \/ choice'[m] = choice[m] /\ sentAs'[m] = sentAs[m]
         \/ choice'[m] = NULL \/ sentAs'[m] = NULL
  PROVE  AsAsked(m)'
BY DEF DueInv, AsAsked, Decided

LEMMA SendKeepsDue ==
  ASSUME IInv, IInv', DueInv, Served, NEW m \in Messages, Dispatches(m),
         \A n \in Messages : n # m => choice'[n] = choice[n],
         ScheduledOnce /\ choice'[m] # NULL => choice'[m].when <= now /\ sentAs'[m].archive = choice'[m].archive,
         UNCHANGED <<now, sweep>>, \A f \in Fires : OldFire(f)
  PROVE  DueInv'
<1>1. \A n \in Messages : RowStays(n)
  BY DEF Dispatches, RowStays
<1>2. ASSUME ScheduledOnce, NEW n \in Messages
      PROVE  AsAsked(n)'
  <2>1. CASE n = m
    BY <1>2, <2>1 DEF Dispatches, AsAsked, Decided
  <2>2. CASE n # m
    BY <1>2, <2>2, DecidedStays DEF Dispatches
  <2>3. QED
    BY <2>1, <2>2
<1>3. now <= now'
  BY NumbersAre
<1>4. QED
  BY <1>1, <1>2, <1>3, DueStays

\* A timer that runs sends what is due: the message's time was the timer's, or it was due
\* when the sweep made the timer.  No choice was made of another draft it may send.
LEMMA FirePerformKeepsDue ==
  ASSUME IInv, IInv', DueInv, Served, NEW f \in Fires, FirePerform(f)
  PROVE  DueInv'
<1>1. /\ fire[f].pc = "running" /\ fire' = [fire EXCEPT ![f].pc = "done"]
      /\ UNCHANGED <<req, sweep, mailed, choice, now, allowed, ops, faults>>
  BY FirePerformIs
<1>2. \A h \in Fires : OldFire(h)
  BY <1>1, FireMoves DEF OldFire
<1>3. now <= now' /\ now' = now
  BY <1>1, NumbersAre
<1>4. CASE UNCHANGED <<msg, gmail, sentAs>>
  <2>1. ScheduledOnce => \A m \in Messages : AsAsked(m)'
    BY <1>1, <1>4, DecidedStays
  <2>2. \A m \in Messages : RowStays(m)
    BY <1>1, <1>4 DEF RowStays
  <2>3. QED
    BY <1>1, <1>2, <1>3, <1>4, <2>1, <2>2, DueStays
<1>5. CASE ~UNCHANGED <<msg, gmail, sentAs>>
  <2>1. PICK m \in Messages : /\ Dispatches(m) /\ sentAs'[m].archive = fire[f].archive /\ MessageOK(m)
                              /\ fire[f].message \in Messages /\ msg[fire[f].message].when # 0
    BY <1>5, FireSends
  <2>2. ASSUME ScheduledOnce, choice'[m] # NULL
        PROVE  choice'[m].when <= now /\ sentAs'[m].archive = choice'[m].archive
    <3>1. msg[m].when # 0
      BY <1>1, <2>1, <2>2 DEF MessageOK, Dispatches
    <3>2. m = fire[f].message
      BY <2>1, <2>2, <3>1 DEF DueInv
    <3>3. choice'[m].when = msg[m].when
      BY <1>1, <2>1, <3>1 DEF MessageOK
    <3>4. msg[m].when <= fire[f].at \/ msg[m].when <= now
      BY <1>1, <2>2, <3>2 DEF DueInv
    <3>5. fire[f].at <= now
      BY <1>1 DEF DueInv, Started
    <3>6. msg[m].when \in Nat /\ fire[f].at \in Nat /\ now \in Nat
      BY NumbersAre
    <3>7. msg[m].when <= now
      BY <3>4, <3>5, <3>6
    <3>8. fire[f].archive = choice[m].archive
      BY <1>1, <2>2, <3>1 DEF DueInv
    <3>9. QED
      BY <1>1, <2>1, <3>3, <3>7, <3>8
  <2>3. QED
    BY <1>1, <1>2, <2>1, <2>2, SendKeepsDue
<1>6. QED
  BY <1>4, <1>5

\* The one request to schedule makes the first timer.
LEMMA ScheduleKeepsDue ==
  ASSUME IInv, IInv', DueInv, Served, NEW r \in Requests, Schedule(r)
  PROVE  DueInv'
<1>1. PICK m \in Messages : /\ m = req[r].draft /\ MessageOK(m) /\ req[r].copy \in RowRec
                            /\ req[r].archive \in BOOLEAN /\ req[r].when \in 0 .. Horizon
  BY LoadedIs DEF Schedule, Operations
<1>2. FreeFires # {}
  BY DEF Schedule
<1>3. PICK g \in Fires : g = Least(FreeFires)
  BY <1>2, FreeFireIs
<1> DEFINE when == req[r].when
           row == [req[r].copy EXCEPT !.env = r, !.when = when, !.job = g]
           t == Timer(m, when, req[r].archive)
<1>4. /\ Answer(r) /\ msg' = [msg EXCEPT ![m] = row] /\ fire' = [fire EXCEPT ![g] = t]
      /\ msg[m].type = "draft" /\ req[r].op = "schedule" /\ req[r].pc = "loaded"
      /\ choice'[m] = [when |-> when, archive |-> req[r].archive]
      /\ \A n \in Messages : n # m => choice'[n] = choice[n]
      /\ UNCHANGED <<sweep, sentAs, now>>
  BY <1>1, <1>3 DEF Schedule, Sendable, Locked, Serving, Untouched, IInv, Types
<1>5. row.when = when /\ row.job = g /\ row \in RowRec
  BY <1>1 DEF RowRec
<1>6. t.message = m /\ t.at = when /\ t.pc = "waiting" /\ t.archive = req[r].archive
  BY DEF Timer
<1> HIDE DEF row, t
<1>7. msg'[m].when = when /\ msg'[m].job = g /\ \A n \in Messages : n # m => msg'[n] = msg[n]
  BY <1>4, <1>5, MessageMoves DEF IInv
<1>8. fire'[g] = t /\ \A h \in Fires : h # g => fire'[h] = fire[h]
  BY <1>4 DEF IInv, Types
<1>9. req'[r].op = "schedule" /\ req'[r].pc = "done"
  BY <1>4, AnswerIs DEF IInv
<1>10. Started'
  BY <1>4, <1>6, <1>8 DEF DueInv, Started
<1>11. Asked'
  BY <1>9 DEF Asked
<1>12. /\ \A s \in Requests : req'[s].pc = "idle" => req'[s].op = NULL
       /\ \A n \in Messages : msg'[n].job # NULL => fire'[msg'[n].job].pc # "none"
  <2>1. ASSUME NEW n \in Messages, msg'[n].job # NULL
        PROVE  fire'[msg'[n].job].pc # "none"
    <3>1. CASE n = m
      BY <1>6, <1>7, <1>8, <3>1
    <3>2. CASE n # m
      <4>1. msg'[n].job = msg[n].job /\ msg[n].job \in Fires
        BY <1>7, <2>1, <3>2, RowsAre DEF IInv, RowRec
      <4>2. fire[msg[n].job].pc # "none"
        BY <2>1, <4>1 DEF DueInv
      <4>3. QED
        BY <1>6, <1>8, <4>1, <4>2
    <3>3. QED
      BY <3>1, <3>2
  <2>2. QED
    BY <2>1, ServedOnce
<1>13. ASSUME ScheduledOnce'
       PROVE  /\ \A f \in Fires : fire[f].pc = "none"
              /\ \A n \in Messages : msg[n].when = 0
              /\ sweep = {} /\ \A n \in Messages : AsAsked(n)
  <2>1. ScheduledOnce
    BY <1>13, ServedOnce
  <2>2. ~Asked
    BY <1>4, <2>1 DEF ScheduledOnce, Asked
  <2>3. QED
    BY <2>1, <2>2 DEF DueInv
<1>14. when \in Nat
  BY <1>1, DraftsAssumption
<1>15. ASSUME ScheduledOnce', NEW f \in Fires, fire'[f].pc # "none"
       PROVE  msg'[fire'[f].message].when <= fire'[f].at
  <2>1. f = g
    BY <1>8, <1>13, <1>15
  <2>2. QED
    BY <1>6, <1>7, <1>8, <1>14, <2>1
<1>16. ASSUME ScheduledOnce'
       PROVE  \A n \in Messages : AsAsked(n)'
  <2>1. sentAs'[m] = NULL
    BY <1>1, <1>4 DEF MessageOK
  <2>2. QED
    BY <1>4, <1>13, <1>16, <2>1 DEF AsAsked, Decided
<1>17. ASSUME ScheduledOnce', NEW n \in Messages, msg'[n].when # 0
       PROVE  n = m
  BY <1>7, <1>13, <1>17
<1>18. ASSUME ScheduledOnce', NEW f \in Fires, fire'[f].pc # "none"
       PROVE  fire'[f].archive = choice'[m].archive
  <2>1. f = g
    BY <1>8, <1>13, <1>18
  <2>2. QED
    BY <1>4, <1>6, <1>8, <2>1
<1>19. QED
  BY <1>4, <1>10, <1>11, <1>12, <1>13, <1>15, <1>16, <1>17, <1>18 DEF DueInv

\* A sweep reads what is overdue, and the timer it makes then is for one of those.
LEMMA SweepKeepsDue ==
  ASSUME IInv, IInv', DueInv, Served, SweepStep \/ SweepDies
  PROVE  DueInv'
<1>1. UNCHANGED <<now, choice, sentAs>> /\ now <= now'
  BY NumbersAre DEF SweepStep, SweepRead, SweepRow, SweepDies, Untouched
<1>2. ScheduledOnce => \A m \in Messages : AsAsked(m)'
  BY <1>1, DecidedStays
<1>3. CASE SweepRead
  <2>1. UNCHANGED <<msg, fire>> /\ Overdue # {} /\ sweep' = Overdue /\ UNCHANGED req
    BY <1>3 DEF SweepRead
  <2>2. \A m \in Overdue : msg[m].when # 0 /\ msg[m].when <= now /\ m \in Messages
    <3>1. ASSUME NEW m \in Overdue
          PROVE  msg[m].when # 0 /\ msg[m].when <= now /\ m \in Messages
      <4>1. m \in Messages /\ msg[m].when # 0 /\ msg[m].when + Grace <= now
        BY DEF Overdue, OfType, IsScheduled
      <4>2. msg[m].when \in Nat /\ now \in Nat /\ Grace \in Nat
        BY <4>1, NumbersAre, DraftsAssumption
      <4>3. QED
        BY <4>1, <4>2
    <3>2. QED
      BY <3>1
  <2>3. ScheduledOnce' <=> ScheduledOnce
    BY <2>1 DEF ScheduledOnce
  <2>4. ScheduledOnce => Asked
    BY <2>1, <2>2 DEF DueInv
  <2>5. QED
    BY <1>1, <2>1, <2>2, <2>3, <2>4 DEF DueInv, Started, Asked, AsAsked, Decided
<1>4. ASSUME NEW m \in Messages, SweepRow(m), Unschedulable(msg[m])
      PROVE  DueInv'
  <2>1. PICK g \in Fires, t \in FireRec :
          /\ fire[g].pc = "none" /\ fire'[g] = t /\ \A h \in Fires : h # g => fire'[h] = fire[h]
          /\ t.message = m /\ t.at = 0 /\ t.pc = "waiting"
          /\ msg[m].job \in Fires /\ t.archive = fire[msg[m].job].archive
          /\ msg'[m].job = g /\ msg'[m].when = msg[m].when /\ msg[m].when # 0
          /\ \A n \in Messages : n # m => msg'[n] = msg[n]
    BY <1>4, SweepRowIs
  <2>2. m \in sweep /\ sweep' = sweep \ {m} /\ UNCHANGED <<req, choice, sentAs, now>>
    BY <1>4 DEF SweepRow, Untouched
  <2>3. \A n \in Messages : msg'[n].when = msg[n].when
    BY <2>1
  <2>4. Started'
    BY <2>1, <2>2 DEF DueInv, Started
  <2>5. (ScheduledOnce' <=> ScheduledOnce) /\ (Asked' <=> Asked)
    BY <2>2 DEF ScheduledOnce, Asked
  <2>6. ScheduledOnce => Asked /\ msg[m].when <= now
    BY <2>2 DEF DueInv
  <2>7. ASSUME ScheduledOnce, NEW f \in Fires, fire'[f].pc # "none"
        PROVE  msg'[fire'[f].message].when <= fire'[f].at \/ msg'[fire'[f].message].when <= now'
    <3>1. CASE f = g
      BY <2>1, <2>2, <2>6, <2>7, <3>1
    <3>2. CASE f # g
      <4>1. fire'[f] = fire[f] /\ fire[f].message \in Messages
        BY <2>1, <2>7, <3>2, NumbersAre
      <4>2. QED
        BY <2>2, <2>3, <2>7, <4>1 DEF DueInv
    <3>3. QED
      BY <3>1, <3>2
  <2>8. ScheduledOnce => \A n \in sweep' : msg'[n].when <= now'
    <3>1. sweep \subseteq Messages
      BY DEF IInv, Types
    <3>2. QED
      BY <2>2, <2>3, <3>1 DEF DueInv
  <2>9. \A n \in Messages : msg'[n].job # NULL => fire'[msg'[n].job].pc # "none"
    <3>1. ASSUME NEW n \in Messages, n # m, msg[n].job # NULL
          PROVE  fire'[msg[n].job].pc # "none"
      <4>1. msg[n].job \in Fires /\ fire[msg[n].job].pc # "none"
        BY <3>1, RowsAre DEF IInv, RowRec, DueInv
      <4>2. QED
        BY <2>1, <4>1
    <3>2. QED
      BY <2>1, <3>1
  <2>10. ASSUME ScheduledOnce, NEW f \in Fires, NEW n \in Messages, fire'[f].pc # "none", msg[n].when # 0
         PROVE  fire'[f].archive = choice[n].archive
    <3>1. CASE f = g
      <4>1. n = m
        BY <2>1, <2>10 DEF DueInv
      <4>2. fire[msg[m].job].pc # "none"
        BY <2>1, DraftsAssumption DEF DueInv, Fires
      <4>3. QED
        BY <2>1, <2>10, <3>1, <4>1, <4>2 DEF DueInv
    <3>2. CASE f # g
      BY <2>1, <2>10, <3>2 DEF DueInv
    <3>3. QED
      BY <3>1, <3>2
  <2>11. ScheduledOnce => /\ \A n, k \in Messages : msg'[n].when # 0 /\ msg'[k].when # 0 => n = k
                          /\ \A n \in Messages : AsAsked(n)'
    BY <1>2, <2>3 DEF DueInv
  <2>12. \A r \in Requests : req'[r].pc = "idle" => req'[r].op = NULL
    BY ServedOnce
  <2>13. QED
    BY <2>2, <2>3, <2>4, <2>5, <2>6, <2>7, <2>8, <2>9, <2>10, <2>11, <2>12 DEF DueInv
<1>5. CASE SweepDies \/ \E m \in Messages : SweepRow(m) /\ ~Unschedulable(msg[m])
  <2>1. UNCHANGED <<msg, fire>> /\ sweep' \subseteq sweep
    BY <1>5 DEF SweepDies, SweepRow
  <2>2. QED
    BY <1>1, <1>2, <2>1, DueStays DEF OldFire, RowStays
<1>6. QED
  BY <1>3, <1>4, <1>5 DEF SweepStep

\* What the other steps do to the schedule, the timers and who was dispatched.
Calm ==
  /\ \A m \in Messages : RowStays(m)
  /\ \A f \in Fires : OldFire(f)
  /\ sweep' \subseteq sweep /\ now <= now'
  /\ sentAs' = sentAs
  /\ \A m \in Messages : choice'[m] = choice[m] \/ choice'[m] = NULL

LEMMA CalmKeepsDue ==
  ASSUME IInv, IInv', DueInv, Served, Calm
  PROVE  DueInv'
<1>1. ScheduledOnce => \A m \in Messages : AsAsked(m)'
  BY DecidedStays DEF Calm
<1>2. QED
  BY <1>1, DueStays DEF Calm

LEMMA RowIsCalm ==
  ASSUME IInv, NEW m \in Messages, NEW d \in RowRec, msg' = [msg EXCEPT ![m] = d],
         \/ d.when = msg[m].when /\ d.job = msg[m].job /\ choice'[m] = choice[m]
         \/ d.when = 0 /\ d.job = NULL,
         \A n \in Messages : n # m => choice'[n] = choice[n]
  PROVE  \A n \in Messages : RowStays(n)
<1>1. msg'[m] = d /\ \A n \in Messages : n # m => msg'[n] = msg[n]
  BY MessageMoves DEF IInv
<1>2. QED
  BY <1>1 DEF RowStays

LEMMA RequestIsCalm ==
  ASSUME IInv, NEW r \in Requests, RequestStep(r), ~Send(r), ~Schedule(r)
  PROVE  Calm
<1>0. UNCHANGED <<sentAs, sweep, now>> /\ now <= now'
  <2>1. UNCHANGED <<sentAs, sweep, now>>
    BY DEF RequestStep, Load, LoadReply, Edit, Unschedule, Refused, Delete, CancelFire,
       StartDraftRead, StartDraftWrite, Untouched
  <2>2. QED
    BY <2>1, NumbersAre
<1>1. CASE \/ \E op \in Operations : \E when \in Whens(op), archive \in Archives(op) :
                Load(r, op, when, archive)
           \/ \E replace \in BOOLEAN : LoadReply(r, replace)
           \/ Refused(r) \/ StartDraftRead(r)
  <2>1. UNCHANGED <<msg, fire, choice>>
    BY <1>1 DEF Load, LoadReply, Refused, StartDraftRead
  <2>2. QED
    BY <1>0, <2>1 DEF Calm, OldFire, RowStays
<1>2. CASE Edit(r)
  <2>1. PICK m \in Messages : m = req[r].draft
    BY <1>2 DEF Edit, Serving, IInv, RequestOK
  <2> DEFINE d == IF msg[m].type = "gone" THEN msg[m] ELSE [msg[m] EXCEPT !.env = r]
  <2>2. msg' = [msg EXCEPT ![m] = d] /\ UNCHANGED <<fire, choice>>
    BY <1>2, <2>1 DEF Edit
  <2>3. d \in RowRec /\ d.when = msg[m].when /\ d.job = msg[m].job
    BY RowsAre DEF RowRec, IInv
  <2> HIDE DEF d
  <2>4. QED
    BY <1>0, <2>2, <2>3, RowIsCalm DEF Calm, OldFire
<1>3. CASE Unschedule(r)
  <2>1. PICK m \in Messages : m = req[r].draft /\ req[r].copy \in RowRec
    BY <1>3, LoadedIs DEF Unschedule, Operations
  <2> DEFINE d == [req[r].copy EXCEPT !.when = 0, !.job = NULL]
  <2>2. msg' = [msg EXCEPT ![m] = d] /\ choice' = [choice EXCEPT ![m] = NULL] /\ UNCHANGED fire
    BY <1>3, <2>1 DEF Unschedule
  <2>3. d \in RowRec /\ d.when = 0 /\ d.job = NULL
    <3>1. 0 \in 0 .. Horizon
      BY DraftsAssumption
    <3>2. QED
      BY <2>1, <3>1 DEF RowRec
  <2> HIDE DEF d
  <2>4. choice'[m] = NULL /\ \A n \in Messages : n # m => choice'[n] = choice[n]
    BY <2>2 DEF IInv, Types
  <2>5. QED
    BY <1>0, <2>2, <2>3, <2>4, RowIsCalm DEF Calm, OldFire
<1>4. CASE Delete(r)
  <2>1. PICK m \in Messages : m = req[r].draft
    BY <1>4, LoadedIs DEF Delete, Operations
  <2> DEFINE d == Row("gone", 0, NULL, NULL)
  <2>2. msg' = [msg EXCEPT ![m] = d] /\ UNCHANGED <<fire, choice>>
    BY <1>4, <2>1 DEF Delete
  <2>3. d \in RowRec /\ d.when = 0 /\ d.job = NULL
    <3>1. 0 \in 0 .. Horizon
      BY DraftsAssumption
    <3>2. QED
      BY <3>1 DEF Row, RowRec
  <2> HIDE DEF d
  <2>4. QED
    BY <1>0, <2>2, <2>3, RowIsCalm DEF Calm, OldFire
<1>5. CASE CancelFire(r)
  <2>1. UNCHANGED <<msg, choice>>
    BY <1>5 DEF CancelFire
  <2>2. \A f \in Fires : OldFire(f)
    <3>1. CASE UNCHANGED fire
      BY <3>1 DEF OldFire
    <3>2. CASE ~UNCHANGED fire
      <4>1. /\ req[r].job # NULL /\ fire[req[r].job].pc = "waiting"
            /\ fire' = [fire EXCEPT ![req[r].job].pc = "cancelled"]
        BY <1>5, <3>2 DEF CancelFire
      <4>2. PICK g \in Fires : g = req[r].job
        BY <4>1, RowsAre DEF IInv, ReqRec
      <4>3. fire[g].pc # "none" /\ fire' = [fire EXCEPT ![g].pc = "cancelled"]
        BY <4>1, <4>2
      <4>4. QED
        BY <4>3, FireMoves DEF OldFire
    <3>3. QED
      BY <3>1, <3>2
  <2>3. QED
    BY <1>0, <2>1, <2>2 DEF Calm, RowStays
<1>6. CASE StartDraftWrite(r)
  <2> DEFINE row == NewDraft(r)
             gone == Row("gone", 0, NULL, NULL)
  <2>1. UNCHANGED <<fire, choice>>
    BY <1>6 DEF StartDraftWrite
  <2>2. PICK new \in Messages :
          msg' = [m \in Messages |-> CASE m = new -> row [] m = req[r].draft -> gone [] OTHER -> msg[m]]
    BY <1>6, StartDraftWriteIs
  <2>3. row.when = 0 /\ row.job = NULL /\ gone.when = 0 /\ gone.job = NULL
    BY DEF NewDraft, Row
  <2> HIDE DEF row, gone
  <2>4. \A m \in Messages : RowStays(m)
    <3>1. \A m \in Messages : msg'[m] = msg[m] \/ msg'[m] = row \/ msg'[m] = gone
      BY <2>2
    <3>2. QED
      BY <2>1, <2>3, <3>1 DEF RowStays
  <2>5. QED
    BY <1>0, <2>1, <2>4 DEF Calm, OldFire
<1>7. QED
  BY <1>1, <1>2, <1>3, <1>4, <1>5, <1>6 DEF RequestStep

LEMMA TimerIsCalm ==
  ASSUME IInv, NEW f \in Fires, FireStart(f) \/ FireLost(f) \/ FireAgain(f)
  PROVE  Calm
<1>1. /\ UNCHANGED <<msg, sweep, choice, sentAs, now>> /\ now <= now'
  BY NumbersAre DEF FireStart, FireLost, FireAgain, Untouched
<1>2. PICK pc \in {"running", "lost"} :
        /\ fire[f].pc # "none" /\ fire' = [fire EXCEPT ![f].pc = pc]
        /\ pc = "running" => fire[f].pc \in {"running", "done"} \/ fire[f].at <= now
  BY DEF FireStart, FireLost, FireAgain
<1>3. \A h \in Fires : OldFire(h)
  BY <1>2, FireMoves DEF OldFire
<1>4. QED
  BY <1>1, <1>3 DEF Calm, RowStays

LEMMA MailIsCalm ==
  ASSUME IInv, NEW g \in Mails, MailStep(g) \/ MailDies(g)
  PROVE  Calm
<1>1. UNCHANGED <<fire, sweep, choice, sentAs, now>> /\ now <= now'
  BY NumbersAre DEF MailStep, MailLoad, MailSend, MailMark, MailDies, Untouched
<1>2. CASE UNCHANGED msg
  BY <1>1, <1>2 DEF Calm, OldFire, RowStays
<1>3. CASE MailMark(g)
  <2>1. PICK m \in Messages : m = gmail[g].message
    BY <1>3 DEF MailMark, IInv, MailOK
  <2> DEFINE d == [msg[m] EXCEPT !.type = IF msg[m].type = "gone" THEN "gone" ELSE "sent"]
  <2>2. msg' = [msg EXCEPT ![m] = d]
    BY <1>3, <2>1 DEF MailMark
  <2>3. d \in RowRec /\ d.when = msg[m].when /\ d.job = msg[m].job
    BY RowsAre DEF RowRec, IInv
  <2> HIDE DEF d
  <2>4. QED
    BY <1>1, <2>2, <2>3, RowIsCalm DEF Calm, OldFire
<1>4. QED
  BY <1>2, <1>3 DEF MailStep, MailLoad, MailSend, MailDies

LEMMA DueKeeps ==
  ASSUME IInv, IInv', DueInv, [Next]_vars
  PROVE  DueInv'
<1>1. Served
  BY RequestsAreServed
<1>2. ASSUME NEW r \in Requests, RequestStep(r)
      PROVE  DueInv'
  <2>1. CASE Send(r)
    <3>1. PICK m \in Messages : /\ Dispatches(m) /\ choice'[m].when = now
                                /\ sentAs'[m].archive = choice'[m].archive
                                /\ \A n \in Messages : n # m => choice'[n] = choice[n]
      BY <2>1, SendIs
    <3>2. UNCHANGED <<now, sweep, fire>> /\ choice'[m].when <= now
      BY <2>1, <3>1, NumbersAre DEF Send, Untouched
    <3>3. QED
      BY <1>1, <3>1, <3>2, SendKeepsDue DEF OldFire
  <2>2. CASE Schedule(r)
    BY <1>1, <2>2, ScheduleKeepsDue
  <2>3. CASE ~Send(r) /\ ~Schedule(r)
    BY <1>1, <1>2, <2>3, RequestIsCalm, CalmKeepsDue
  <2>4. QED
    BY <2>1, <2>2, <2>3
<1>3. ASSUME NEW f \in Fires, FireStep(f) \/ FireLost(f) \/ FireAgain(f)
      PROVE  DueInv'
  BY <1>1, <1>3, TimerIsCalm, CalmKeepsDue, FirePerformKeepsDue DEF FireStep
<1>4. ASSUME NEW g \in Mails, MailStep(g) \/ MailDies(g)
      PROVE  DueInv'
  BY <1>1, <1>4, MailIsCalm, CalmKeepsDue
<1>5. CASE SweepStep \/ SweepDies
  BY <1>1, <1>5, SweepKeepsDue
<1>6. CASE Tick \/ Revoke \/ UNCHANGED vars
  <2>1. UNCHANGED <<msg, fire, sweep, choice, sentAs>> /\ now <= now'
    BY <1>6, NumbersAre DEF Tick, Revoke, vars
  <2>2. QED
    BY <1>1, <2>1, CalmKeepsDue DEF Calm, OldFire, RowStays
<1>7. QED
  BY <1>2, <1>3, <1>4, <1>5, <1>6 DEF Next

LEMMA DueStarts == Init => DueInv
<1>1. SUFFICES ASSUME Init
               PROVE  DueInv
  OBVIOUS
<1>2. \A r \in Requests : req[r].op = NULL
  BY <1>1 DEF Init, Idle
<1>3. QED
  BY <1>1, <1>2, StartIs DEF DueInv, Started, AsAsked, Decided

\* As long as nobody schedules a second time, a scheduled draft is not dispatched before
\* the time its user chose: its timer has its perform_at, a rebuilt one is for a draft that
\* was overdue when the sweep read it (email.py), and both look again under the lock.
THEOREM FiredWhenDueIfOnceHolds == Spec => []FiredWhenDueIfOnce
<1>1. Init => DueInv
  BY DueStarts
<1>2. IInv /\ IInv' /\ DueInv /\ [Next]_vars => DueInv'
  BY DueKeeps
<1>3. DueInv => FiredWhenDueIfOnce
  BY DEF DueInv, FiredWhenDueIfOnce, FiredWhenDue, AsAsked
<1>4. QED
  BY <1>1, <1>2, <1>3, InvariantHolds, PTL DEF Spec

-----------------------------------------------------------------------------
(***************************************************************************)
(* Only what its user chose is dispatched.  A timer sends the thread's     *)
(* first draft, which is the one it was made for as long as the draft that *)
(* is scheduled, or about to be, comes before every other: a reply stamps  *)
(* its draft after all that it has read, so that one which lands before    *)
(* another message is a reply that overlapped the one that made it.        *)
(***************************************************************************)
Leads(m) == \A n \in Messages : n < m => msg[n].type # "draft"

Ordered ==
  /\ \A m \in Messages : msg[m].when # 0 => Leads(m)
  /\ \A m \in Messages : sentAs[m] # NULL => choice[m] # NULL
  /\ \A r \in Requests, m \in Messages :
       req[r].pc = "loaded" /\ req[r].op # "reply" /\ req[r].draft = m => Leads(m)

\* What a reply has read is there, and what is there it has read or another reply made.
ReplyOK(r) ==
  /\ req[r].pc = "starting" => req[r].op = "reply"
  /\ req[r].pc = "cancelling" => req[r].op # "reply"
  /\ req[r].pc = "starting" \/ Replied(r) => \A n \in req[r].before : msg[n].type # "none"
  /\ req[r].pc = "starting" =>
       \A n \in Messages : msg[n].type # "none" =>
         n \in req[r].before \/ \E s \in Requests : Replied(s) /\ req[s].made = n

OrderInv == (\A r \in Requests : ReplyOK(r)) /\ (~Overlapped => Ordered)

\* What a request may become without making a draft.
Answers(r) ==
  \/ req'[r] = req[r]
  \/ req'[r].pc \in {"done", "cancelling"} /\ req'[r].op # "reply"
  \/ /\ req'[r].pc = "loaded"
     /\ req'[r].op = "reply" \/ \A m \in Messages : req'[r].draft = m => Leads(m)
  \/ /\ req'[r].pc = "starting" /\ req'[r].op = "reply"
     /\ \A n \in Messages : n \in req'[r].before <=> msg[n].type # "none"

\* Steps that make no message and no draft.
Kinds == \A m \in Messages :
  /\ msg'[m].type # "none" <=> msg[m].type # "none"
  /\ msg'[m].type = "draft" => msg[m].type = "draft"

LEMMA OverlappedStays ==
  ASSUME Served, Overlapped
  PROVE  Overlapped'
BY DEF Served, Overlapped, Replied

LEMMA OrderStays ==
  ASSUME IInv, IInv', OrderInv, Served, Kinds, \A r \in Requests : Answers(r),
         ~Overlapped => \A m \in Messages : /\ msg'[m].when # 0 => msg[m].when # 0 \/ Leads(m)
                                            /\ sentAs'[m] # NULL => choice'[m] # NULL
  PROVE  OrderInv'
<1>1. \A m \in Messages : Leads(m) => Leads(m)'
  BY DEF Leads, Kinds
<1>2. \A s \in Requests : Replied(s) => Replied(s)' /\ req'[s].made = req[s].made
  BY DEF Served, Replied
<1>3. ASSUME NEW r \in Requests
      PROVE  ReplyOK(r)'
  <2>1. CASE req'[r] = req[r]
    <3>1. \A n \in req[r].before : n \in Messages
      BY RowsAre DEF IInv, ReqRec
    <3>2. req'[r].pc = "starting" \/ Replied(r)' => \A n \in req'[r].before : msg'[n].type # "none"
      BY <2>1, <3>1 DEF OrderInv, ReplyOK, Kinds, Replied
    <3>3. ASSUME req'[r].pc = "starting", NEW n \in Messages, msg'[n].type # "none"
          PROVE  n \in req'[r].before \/ \E s \in Requests : Replied(s)' /\ req'[s].made = n
      <4>1. n \in req[r].before \/ \E s \in Requests : Replied(s) /\ req[s].made = n
        BY <2>1, <3>3 DEF OrderInv, ReplyOK, Kinds
      <4>2. QED
        BY <1>2, <2>1, <4>1
    <3>4. QED
      BY <2>1, <3>2, <3>3 DEF OrderInv, ReplyOK
  <2>2. CASE \/ req'[r].pc \in {"done", "cancelling"} /\ req'[r].op # "reply"
             \/ req'[r].pc = "loaded"
    BY <2>2 DEF ReplyOK, Replied
  <2>3. CASE /\ req'[r].pc = "starting" /\ req'[r].op = "reply"
             /\ \A n \in Messages : n \in req'[r].before <=> msg[n].type # "none"
    <3>1. \A n \in req'[r].before : n \in Messages
      BY RowsAre DEF IInv, Types, ReqRec
    <3>2. QED
      BY <2>3, <3>1 DEF ReplyOK, Kinds
  <2>4. QED
    BY <2>1, <2>2, <2>3 DEF Answers
<1>4. ASSUME ~Overlapped'
      PROVE  Ordered'
  <2>1. ~Overlapped /\ Ordered
    BY <1>4, OverlappedStays DEF OrderInv
  <2>2. \A m \in Messages : msg'[m].when # 0 => Leads(m)'
    BY <1>1, <2>1 DEF Ordered
  <2>3. ASSUME NEW r \in Requests, NEW m \in Messages,
               req'[r].pc = "loaded", req'[r].op # "reply", req'[r].draft = m
        PROVE  Leads(m)'
    <3>1. Leads(m)
      BY <2>1, <2>3 DEF Answers, Ordered
    <3>2. QED
      BY <1>1, <3>1
  <2>4. QED
    BY <2>1, <2>2, <2>3 DEF Ordered
<1>5. QED
  BY <1>3, <1>4 DEF OrderInv

\* A reply's draft comes last, or another reply has overlapped it.
LEMMA ReplyKeepsOrder ==
  ASSUME IInv, IInv', OrderInv, Served, NEW r \in Requests, StartDraftWrite(r)
  PROVE  OrderInv'
<1> DEFINE row == NewDraft(r)
           gone == Row("gone", 0, NULL, NULL)
<1>1. /\ req[r].pc = "starting" /\ UNCHANGED <<choice, sentAs>>
  BY StartDraftWriteIs
<1>2. PICK new \in Messages :
        /\ msg[new].type = "none" /\ \A n \in req[r].before : n < new
        /\ req'[r] = [req[r] EXCEPT !.pc = "done", !.made = new]
        /\ \A s \in Requests : s # r => req'[s] = req[s]
        /\ msg' = [m \in Messages |->
                     CASE m = new -> row [] m = req[r].draft -> gone [] OTHER -> msg[m]]
  BY StartDraftWriteIs
<1>3. row.when = 0 /\ row.type = "draft" /\ gone.when = 0 /\ gone.type = "gone"
  BY DEF NewDraft, Row
<1> HIDE DEF row, gone
<1>0. req[r].draft \in Messages => msg[req[r].draft].type # "none"
  BY <1>1, DraftsAssumption DEF IInv, RequestOK, Messages
<1>4. /\ msg'[new].type = "draft" /\ msg'[new].when = 0
      /\ \A m \in Messages : m # new => /\ msg'[m] = msg[m] \/ msg'[m] = gone
                                        /\ msg[m].type # "none" <=> msg'[m].type # "none"
                                        /\ msg'[m].type = "draft" => msg[m].type = "draft"
                                        /\ msg'[m].when # 0 => msg[m].when # 0
  BY <1>0, <1>2, <1>3
<1>5. /\ req'[r].pc = "done" /\ req'[r].op = "reply" /\ req'[r].made = new
      /\ req'[r].before = req[r].before
  BY <1>1, <1>2, RowsAre DEF IInv, ReqRec, OrderInv, ReplyOK
<1>6. Replied(r)' /\ \A s \in Requests : Replied(s) => s # r /\ Replied(s)' /\ req'[s] = req[s]
  BY <1>1, <1>2, <1>5 DEF Replied
<1>7. \A s \in Requests : Replied(s)' => s = r \/ Replied(s)
  BY <1>2 DEF Replied
<1>8. \A s \in Requests : \A n \in req[s].before : n \in Messages
  BY RowsAre DEF IInv, ReqRec
<1>9. \A n \in req[r].before : msg[n].type # "none" /\ n # new
  BY <1>1, <1>2 DEF OrderInv, ReplyOK
<1>10. ASSUME NEW s \in Requests
       PROVE  ReplyOK(s)'
  <2>1. CASE s = r
    BY <1>4, <1>5, <1>8, <1>9, <2>1 DEF ReplyOK
  <2>2. CASE s # r
    <3>1. ReplyOK(s) /\ req'[s] = req[s]
      BY <1>2, <2>2 DEF OrderInv
    <3>2. ASSUME req[s].pc = "starting" \/ Replied(s), NEW n \in req[s].before
          PROVE  msg'[n].type # "none"
      BY <1>2, <1>4, <1>8, <3>1, <3>2 DEF ReplyOK
    <3>3. ASSUME req[s].pc = "starting", NEW n \in Messages, msg'[n].type # "none"
          PROVE  n \in req[s].before \/ \E t \in Requests : Replied(t)' /\ req'[t].made = n
      <4>1. CASE n = new
        BY <1>5, <1>6, <4>1
      <4>2. CASE n # new
        <5>1. msg[n].type # "none"
          BY <1>4, <3>3, <4>2
        <5>2. n \in req[s].before \/ \E t \in Requests : Replied(t) /\ req[t].made = n
          BY <3>1, <3>3, <5>1 DEF ReplyOK
        <5>3. QED
          BY <1>6, <5>2
      <4>3. QED
        BY <4>1, <4>2
    <3>4. QED
      BY <3>1, <3>2, <3>3 DEF ReplyOK, Replied
  <2>3. QED
    BY <2>1, <2>2
<1>11. ASSUME ~Overlapped'
       PROVE  Ordered'
  <2>1. ~Overlapped /\ Ordered
    BY <1>11, OverlappedStays DEF OrderInv
  <2>2. ASSUME NEW n \in Messages, msg[n].type # "none"
        PROVE  n < new
    <3>1. CASE n \in req[r].before
      BY <1>2, <3>1
    <3>2. ASSUME NEW s \in Requests, Replied(s), req[s].made = n, n \notin req[r].before
          PROVE  FALSE
      <4>1. new \notin req[s].before
        BY <1>2, <3>2 DEF OrderInv, ReplyOK
      <4>2. s # r /\ Replied(s)' /\ req'[s] = req[s]
        BY <1>6, <3>2
      <4>3. req'[s].made \notin req'[r].before /\ req'[r].made \notin req'[s].before
        BY <1>5, <3>2, <4>1, <4>2
      <4>4. QED
        BY <1>6, <1>11, <4>2, <4>3 DEF Overlapped
    <3>3. QED
      BY <1>1, <2>2, <3>1, <3>2 DEF OrderInv, ReplyOK
  <2>3. ASSUME NEW m \in Messages, msg[m].type # "none", Leads(m)
        PROVE  Leads(m)'
    <3>1. ASSUME NEW n \in Messages, n < m
          PROVE  msg'[n].type # "draft"
      <4>1. m < new
        BY <2>2, <2>3
      <4>2. n # new
        BY <3>1, <4>1 DEF Messages
      <4>3. QED
        BY <1>4, <2>3, <3>1, <4>2 DEF Leads
    <3>2. QED
      BY <3>1 DEF Leads
  <2>4. ASSUME NEW m \in Messages, msg'[m].when # 0
        PROVE  Leads(m)'
    <3>1. m # new /\ msg[m].when # 0 /\ msg[m].type = "draft"
      BY <1>4, <2>4 DEF IInv, MessageOK
    <3>2. QED
      BY <2>1, <2>3, <3>1 DEF Ordered
  <2>5. ASSUME NEW s \in Requests, NEW m \in Messages,
               req'[s].pc = "loaded", req'[s].op # "reply", req'[s].draft = m
        PROVE  Leads(m)'
    <3>1. s # r /\ req'[s] = req[s]
      BY <1>2, <1>5, <2>5
    <3>2. Leads(m) /\ msg[m].type # "none"
      BY <2>1, <2>5, <3>1 DEF Ordered, IInv, RequestOK
    <3>3. QED
      BY <2>3, <3>2
  <2>6. QED
    BY <1>1, <2>1, <2>4, <2>5 DEF Ordered
<1>12. QED
  BY <1>10, <1>11 DEF OrderInv

\* A step of one row that is a message before and after, and no draft if it was none.
LEMMA KindsAre ==
  ASSUME IInv, NEW m \in Messages, NEW d \in RowRec, msg' = [msg EXCEPT ![m] = d],
         msg[m].type # "none", d.type # "none", d.type = "draft" => msg[m].type = "draft"
  PROVE  Kinds /\ msg'[m] = d /\ \A n \in Messages : n # m => msg'[n] = msg[n]
<1>1. msg'[m] = d /\ \A n \in Messages : n # m => msg'[n] = msg[n]
  BY MessageMoves DEF IInv
<1>2. QED
  BY <1>1 DEF Kinds

LEMMA DispatchIsKind ==
  ASSUME NEW m \in Messages, Dispatches(m)
  PROVE  Kinds
BY DEF Kinds, Dispatches

\* Of a step that dispatches nothing and takes no choice back, only the requests and the
\* schedule are to show.
LEMMA QuietKeepsOrder ==
  ASSUME IInv, IInv', OrderInv, Served, Kinds, UNCHANGED sentAs, \A r \in Requests : Answers(r),
         \A m \in Messages : choice'[m] = choice[m] \/ choice'[m] # NULL \/ msg'[m].type = "draft",
         ~Overlapped => \A m \in Messages : msg'[m].when # 0 => msg[m].when # 0 \/ Leads(m)
  PROVE  OrderInv'
<1>1. ASSUME ~Overlapped, NEW m \in Messages, sentAs'[m] # NULL
      PROVE  choice'[m] # NULL
  BY <1>1 DEF OrderInv, Ordered, IInv, MessageOK
<1>2. QED
  BY <1>1, OrderStays

\* What is answered was no reply.
LEMMA AnswerIsNoReply ==
  ASSUME IInv, NEW r \in Requests, Answer(r), req[r].op # "reply"
  PROVE  \A s \in Requests : Answers(s)
<1>1. /\ req'[r].pc = "done" /\ req'[r].op = req[r].op
      /\ \A s \in Requests : s # r => req'[s] = req[s]
  BY AnswerIs DEF IInv
<1>2. QED
  BY <1>1 DEF Answers

LEMMA RequestKeepsOrder ==
  ASSUME IInv, IInv', DueInv, OrderInv, Served, NEW r \in Requests, RequestStep(r)
  PROVE  OrderInv'
<1>0. req \in [Requests -> ReqRec] /\ req[r] \in ReqRec
  BY RowsAre DEF IInv, Types
<1>1. CASE \E op \in Operations : \E when \in Whens(op), archive \in Archives(op) :
              Load(r, op, when, archive)
  <2>1. PICK op \in Operations : \E when \in Whens(op), archive \in Archives(op) :
              Load(r, op, when, archive)
    BY <1>1
  <2>2. PICK when \in Whens(op), archive \in Archives(op) : Load(r, op, when, archive)
    BY <2>1
  <2> DEFINE d == [pc |-> "loaded", op |-> op, draft |-> First("draft"), copy |-> msg[First("draft")],
                   when |-> when, archive |-> archive, job |-> msg[First("draft")].job,
                   before |-> {}, made |-> NULL]
  <2>3. /\ req' = [req EXCEPT ![r] = d] /\ OfType("draft") # {}
        /\ UNCHANGED <<msg, sentAs, choice>>
    BY <2>2 DEF Load
  <2>4. d.pc = "loaded" /\ d.draft = First("draft")
    OBVIOUS
  <2> HIDE DEF d
  <2>5. Leads(d.draft)
    BY <2>3, <2>4, FirstIs DEF Leads
  <2>6. \A s \in Requests : Answers(s)
    BY <1>0, <2>3, <2>4, <2>5 DEF Answers
  <2>7. QED
    BY <2>3, <2>6, QuietKeepsOrder DEF Kinds
<1>2. CASE \E replace \in BOOLEAN : LoadReply(r, replace)
  <2> DEFINE d == [Idle EXCEPT !.pc = "loaded", !.op = "reply"]
  <2>1. req' = [req EXCEPT ![r] = d] /\ UNCHANGED <<msg, sentAs, choice>>
    BY <1>2 DEF LoadReply
  <2>2. d.pc = "loaded" /\ d.op = "reply"
    BY DEF Idle
  <2> HIDE DEF d
  <2>3. \A s \in Requests : Answers(s)
    BY <1>0, <2>1, <2>2 DEF Answers
  <2>4. QED
    BY <2>1, <2>3, QuietKeepsOrder DEF Kinds
<1>3. CASE Edit(r)
  <2>1. PICK m \in Messages : m = req[r].draft /\ msg[m].type # "none" /\ msg[m] \in RowRec
    BY <1>3, LoadedIs DEF Edit, Operations
  <2> DEFINE d == IF msg[m].type = "gone" THEN msg[m] ELSE [msg[m] EXCEPT !.env = r]
  <2>2. msg' = [msg EXCEPT ![m] = d] /\ UNCHANGED <<choice, sentAs>> /\ Answer(r) /\ req[r].op # "reply"
    BY <1>3, <2>1 DEF Edit, Serving
  <2>3. d \in RowRec /\ d.type = msg[m].type /\ d.when = msg[m].when
    BY <2>1 DEF RowRec
  <2> HIDE DEF d
  <2>4. Kinds /\ msg'[m] = d /\ \A n \in Messages : n # m => msg'[n] = msg[n]
    BY <2>1, <2>2, <2>3, KindsAre
  <2>5. \A n \in Messages : msg'[n].when = msg[n].when
    BY <2>3, <2>4
  <2>6. \A s \in Requests : Answers(s)
    BY <2>2, AnswerIsNoReply
  <2>7. QED
    BY <2>2, <2>4, <2>5, <2>6, QuietKeepsOrder
<1>4. CASE Send(r)
  <2>1. PICK m \in Messages : /\ Dispatches(m) /\ choice'[m] # NULL
                              /\ \A n \in Messages : n # m => choice'[n] = choice[n]
    BY <1>4, SendIs
  <2>2. Kinds /\ \A n \in Messages : msg'[n].when = msg[n].when \/ msg'[n].when = 0
    BY <2>1, DispatchIsKind DEF Dispatches
  <2>3. \A s \in Requests : Answers(s)
    BY <1>4, AnswerIsNoReply DEF Send, Serving
  <2>4. ~Overlapped => \A n \in Messages : sentAs'[n] # NULL => choice'[n] # NULL
    BY <2>1 DEF OrderInv, Ordered, Dispatches
  <2>5. QED
    BY <2>2, <2>3, <2>4, OrderStays
<1>5. CASE Schedule(r)
  <2>1. PICK m \in Messages : /\ m = req[r].draft /\ msg[m].type # "none" /\ req[r].copy \in RowRec
                              /\ req[r].copy.type = "draft" /\ req[r].when \in 0 .. Horizon
    BY <1>5, LoadedIs DEF Schedule, Operations
  <2>2. PICK f \in Fires : f = Least(FreeFires)
    BY <1>5, FreeFireIs DEF Schedule
  <2> DEFINE d == [req[r].copy EXCEPT !.env = r, !.when = req[r].when, !.job = f]
             c == [when |-> req[r].when, archive |-> req[r].archive]
  <2>3. /\ msg' = [msg EXCEPT ![m] = d] /\ choice' = [choice EXCEPT ![m] = c] /\ UNCHANGED sentAs
        /\ Answer(r) /\ msg[m].type = "draft"
        /\ req[r].op = "schedule" /\ req[r].pc = "loaded"
    BY <1>5, <2>1, <2>2 DEF Schedule, Serving, Sendable, Locked
  <2>4. d \in RowRec /\ d.type = "draft"
    BY <2>1 DEF RowRec
  <2> HIDE DEF c, d
  <2>5. Kinds /\ msg'[m] = d /\ \A n \in Messages : n # m => msg'[n] = msg[n]
    BY <2>1, <2>3, <2>4, KindsAre
  <2>6. \A n \in Messages : choice'[n] = choice[n] \/ msg'[n].type = "draft"
    BY <2>3, <2>4, <2>5 DEF IInv, Types
  <2>7. ~Overlapped => Leads(m)
    BY <2>1, <2>3 DEF OrderInv, Ordered
  <2>8. \A s \in Requests : Answers(s)
    BY <2>3, AnswerIsNoReply
  <2>9. ~Overlapped => \A n \in Messages : msg'[n].when # 0 => msg[n].when # 0 \/ Leads(n)
    BY <2>5, <2>7
  <2>10. QED
    BY <2>3, <2>5, <2>6, <2>8, <2>9, QuietKeepsOrder
<1>6. CASE Unschedule(r)
  <2>1. PICK m \in Messages : /\ m = req[r].draft /\ msg[m].type # "none" /\ req[r].copy \in RowRec
                              /\ req[r].copy.type = "draft"
    BY <1>6, LoadedIs DEF Unschedule, Operations
  <2> DEFINE d == [req[r].copy EXCEPT !.when = 0, !.job = NULL]
             q == [req[r] EXCEPT !.pc = "cancelling", !.job = msg[m].job]
  <2>2. /\ msg' = [msg EXCEPT ![m] = d] /\ choice' = [choice EXCEPT ![m] = NULL] /\ UNCHANGED sentAs
        /\ req' = [req EXCEPT ![r] = q] /\ msg[m].type = "draft" /\ req[r].op = "unschedule"
    BY <1>6, <2>1 DEF Unschedule, Serving, Unschedulable, Locked
  <2>3. d \in RowRec /\ d.type = "draft" /\ d.when = 0
    <3>1. 0 \in 0 .. Horizon
      BY DraftsAssumption
    <3>2. QED
      BY <2>1, <3>1 DEF RowRec
  <2>4. q.pc = "cancelling" /\ q.op = "unschedule"
    BY <1>0, <2>2 DEF ReqRec
  <2> HIDE DEF d, q
  <2>5. Kinds /\ msg'[m] = d /\ \A n \in Messages : n # m => msg'[n] = msg[n]
    BY <2>1, <2>2, <2>3, KindsAre
  <2>6. \A n \in Messages : choice'[n] = choice[n] \/ msg'[n].type = "draft"
    BY <2>2, <2>3, <2>5 DEF IInv, Types
  <2>7. \A s \in Requests : Answers(s)
    BY <1>0, <2>2, <2>4 DEF Answers
  <2>8. \A n \in Messages : msg'[n].when # 0 => msg[n].when # 0
    BY <2>3, <2>5
  <2>9. QED
    BY <2>2, <2>5, <2>6, <2>7, <2>8, QuietKeepsOrder
<1>7. CASE Refused(r)
  <2>1. UNCHANGED <<msg, choice, sentAs>> /\ Answer(r) /\ req[r].op # "reply"
    BY <1>7 DEF Refused, Serving
  <2>2. QED
    BY <2>1, AnswerIsNoReply, QuietKeepsOrder DEF Kinds
<1>8. CASE Delete(r)
  <2>1. PICK m \in Messages : m = req[r].draft /\ msg[m].type # "none"
    BY <1>8, LoadedIs DEF Delete, Operations
  <2> DEFINE d == Row("gone", 0, NULL, NULL)
             q == [req[r] EXCEPT !.pc = "cancelling"]
  <2>2. /\ msg' = [msg EXCEPT ![m] = d] /\ UNCHANGED <<choice, sentAs>>
        /\ req' = [req EXCEPT ![r] = q] /\ req[r].op = "delete"
    BY <1>8, <2>1 DEF Delete, Serving
  <2>3. d \in RowRec /\ d.type = "gone" /\ d.when = 0
    <3>1. 0 \in 0 .. Horizon
      BY DraftsAssumption
    <3>2. QED
      BY <3>1 DEF Row, RowRec
  <2>4. q.pc = "cancelling" /\ q.op = "delete"
    BY <1>0, <2>2 DEF ReqRec
  <2> HIDE DEF d, q
  <2>5. Kinds /\ msg'[m] = d /\ \A n \in Messages : n # m => msg'[n] = msg[n]
    BY <2>1, <2>2, <2>3, KindsAre
  <2>6. \A s \in Requests : Answers(s)
    BY <1>0, <2>2, <2>4 DEF Answers
  <2>7. \A n \in Messages : msg'[n].when # 0 => msg[n].when # 0
    BY <2>3, <2>5
  <2>8. QED
    BY <2>2, <2>5, <2>6, <2>7, QuietKeepsOrder
<1>9. CASE CancelFire(r)
  <2>1. UNCHANGED <<msg, choice, sentAs>> /\ Answer(r) /\ req[r].op # "reply"
    BY <1>9 DEF CancelFire, OrderInv, ReplyOK
  <2>2. QED
    BY <2>1, AnswerIsNoReply, QuietKeepsOrder DEF Kinds
<1>10. CASE StartDraftRead(r)
  <2> DEFINE d == [req[r] EXCEPT !.pc = "starting", !.before = Messages \ OfType("none"),
                                 !.draft = IF OfType("draft") = {} THEN NULL ELSE First("draft")]
  <2>1. req' = [req EXCEPT ![r] = d] /\ UNCHANGED <<msg, choice, sentAs>> /\ req[r].op = "reply"
    BY <1>10 DEF StartDraftRead, Serving
  <2>2. d.pc = "starting" /\ d.op = "reply" /\ d.before = Messages \ OfType("none")
    BY <1>0, <2>1 DEF ReqRec
  <2> HIDE DEF d
  <2>3. \A s \in Requests : Answers(s)
    BY <1>0, <2>1, <2>2 DEF Answers, OfType
  <2>4. QED
    BY <2>1, <2>3, QuietKeepsOrder DEF Kinds
<1>11. QED
  BY <1>1, <1>2, <1>3, <1>4, <1>5, <1>6, <1>7, <1>8, <1>9, <1>10, ReplyKeepsOrder DEF RequestStep

\* The first draft is the one whose timer runs: that one is scheduled, and leads.
LEMMA FirePerformKeepsOrder ==
  ASSUME IInv, IInv', OrderInv, Served, NEW f \in Fires, FirePerform(f)
  PROVE  OrderInv'
<1>1. UNCHANGED <<req, choice>>
  BY FirePerformIs
<1>2. \A r \in Requests : Answers(r)
  BY <1>1 DEF Answers
<1>3. CASE UNCHANGED <<msg, gmail, sentAs>>
  BY <1>1, <1>2, <1>3, QuietKeepsOrder DEF Kinds
<1>4. CASE ~UNCHANGED <<msg, gmail, sentAs>>
  <2>1. PICK k \in Messages : k = fire[f].message /\ msg[k].type = "draft" /\ msg[k].when # 0
    BY <1>4, FireSends
  <2>2. PICK m \in Messages : Dispatches(m) /\ \A n \in Messages : n < m => msg[n].type # "draft"
    BY <1>4, FireSends
  <2>3. Kinds /\ \A n \in Messages : msg'[n].when = msg[n].when \/ msg'[n].when = 0
    BY <2>2, DispatchIsKind DEF Dispatches
  <2>4. ASSUME ~Overlapped
        PROVE  choice[m] # NULL
    <3>1. Ordered
      BY <2>4 DEF OrderInv
    <3>2. \A n \in Messages : n < k => msg[n].type # "draft"
      BY <2>1, <3>1 DEF Ordered, Leads
    <3>3. ~(k < m) /\ ~(m < k)
      BY <2>1, <2>2, <3>2 DEF Dispatches
    <3>4. k = m
      BY <3>3 DEF Messages
    <3>5. QED
      BY <2>1, <3>4 DEF IInv, MessageOK
  <2>5. ~Overlapped => \A n \in Messages : sentAs'[n] # NULL => choice'[n] # NULL
    BY <1>1, <2>2, <2>4 DEF OrderInv, Ordered, Dispatches
  <2>6. QED
    BY <1>2, <2>3, <2>5, OrderStays
<1>5. QED
  BY <1>3, <1>4

LEMMA OrderKeeps ==
  ASSUME IInv, IInv', DueInv, OrderInv, [Next]_vars
  PROVE  OrderInv'
<1>1. Served
  BY RequestsAreServed
<1>2. ASSUME NEW r \in Requests, RequestStep(r)
      PROVE  OrderInv'
  BY <1>1, <1>2, RequestKeepsOrder
<1>3. ASSUME UNCHANGED <<req, choice, sentAs>>, Kinds,
             \A m \in Messages : msg'[m].when # 0 => msg[m].when # 0
      PROVE  OrderInv'
  BY <1>1, <1>3, QuietKeepsOrder DEF Answers
<1>4. ASSUME NEW f \in Fires, FireStep(f) \/ FireLost(f) \/ FireAgain(f), ~FirePerform(f)
      PROVE  UNCHANGED <<msg, req, choice, sentAs>>
  BY <1>4 DEF FireStep, FireStart, FireLost, FireAgain
<1>5. ASSUME NEW g \in Mails, MailStep(g) \/ MailDies(g)
      PROVE  OrderInv'
  <2>1. UNCHANGED <<req, choice, sentAs>>
    BY <1>5 DEF MailStep, MailLoad, MailSend, MailMark, MailDies
  <2>2. CASE UNCHANGED msg
    BY <1>3, <2>1, <2>2 DEF Kinds
  <2>3. CASE MailMark(g)
    <3>1. PICK m \in Messages : m = gmail[g].message /\ sentAs[m] # NULL
      BY <2>3 DEF MailMark, IInv, MailOK
    <3> DEFINE d == [msg[m] EXCEPT !.type = IF msg[m].type = "gone" THEN "gone" ELSE "sent"]
    <3>2. msg' = [msg EXCEPT ![m] = d]
      BY <2>3, <3>1 DEF MailMark
    <3>3. d \in RowRec /\ d.when = msg[m].when /\ d.type \in {"gone", "sent"}
      BY RowsAre DEF RowRec, IInv
    <3>4. msg[m].type # "none"
      BY <3>1 DEF IInv, MessageOK
    <3> HIDE DEF d
    <3>5. Kinds /\ msg'[m] = d /\ \A n \in Messages : n # m => msg'[n] = msg[n]
      BY <3>2, <3>3, <3>4, KindsAre
    <3>6. QED
      BY <1>3, <2>1, <3>3, <3>5
  <2>4. QED
    BY <1>5, <2>2, <2>3 DEF MailStep, MailLoad, MailSend, MailDies
<1>6. CASE SweepStep \/ SweepDies
  <2>1. UNCHANGED <<req, choice, sentAs>>
    BY <1>6 DEF SweepStep, SweepRead, SweepRow, SweepDies
  <2>2. CASE UNCHANGED msg
    BY <1>3, <2>1, <2>2 DEF Kinds
  <2>3. ASSUME NEW m \in Messages, SweepRow(m), Unschedulable(msg[m])
        PROVE  OrderInv'
    <3>1. /\ msg'[m].type = "draft" /\ msg'[m].when = msg[m].when
          /\ \A n \in Messages : n # m => msg'[n] = msg[n]
      BY <2>3, SweepRowIs
    <3>2. msg[m].type = "draft"
      BY <2>3 DEF Unschedulable
    <3>3. QED
      BY <1>3, <2>1, <3>1, <3>2 DEF Kinds
  <2>4. QED
    BY <1>6, <2>2, <2>3 DEF SweepStep, SweepRead, SweepRow, SweepDies
<1>7. CASE Tick \/ Revoke \/ UNCHANGED vars
  <2>1. UNCHANGED <<msg, req, choice, sentAs>>
    BY <1>7 DEF Tick, Revoke, vars
  <2>2. QED
    BY <1>3, <2>1 DEF Kinds
<1>8. ASSUME NEW f \in Fires, FireStep(f) \/ FireLost(f) \/ FireAgain(f)
      PROVE  OrderInv'
  BY <1>1, <1>3, <1>4, <1>8, FirePerformKeepsOrder DEF Kinds
<1>9. QED
  BY <1>2, <1>5, <1>6, <1>7, <1>8 DEF Next

\* What the timers and send_draft dispatch was then sent or scheduled by its user, unless
\* two replies overlapped, and is archived or not as they chose as long as nobody schedules
\* a second time (email_drafts.py, app/jobs/email.py): the lock shows that the timer's
\* message is still scheduled, and the message that is scheduled is the first draft.
THEOREM ChosenBeforeSentHolds == Spec => []ChosenBeforeSent
<1>1. Init => DueInv
  BY DueStarts
<1>2. Init => OrderInv
  <2>1. SUFFICES ASSUME Init
                 PROVE  OrderInv
    OBVIOUS
  <2>2. \A r \in Requests : req[r].pc = "idle" /\ req[r].op = NULL
    BY <2>1 DEF Init, Idle
  <2>3. QED
    BY <2>1, <2>2, StartIs DEF OrderInv, Ordered, ReplyOK, Replied
<1>3. IInv /\ IInv' /\ DueInv /\ [Next]_vars => DueInv'
  BY DueKeeps
<1>4. IInv /\ IInv' /\ DueInv /\ OrderInv /\ [Next]_vars => OrderInv'
  BY OrderKeeps
<1>5. DueInv /\ OrderInv => ChosenBeforeSent
  BY DEF DueInv, OrderInv, Ordered, ChosenBeforeSent, AsAsked, Decided
<1>6. QED
  BY <1>1, <1>2, <1>3, <1>4, <1>5, InvariantHolds, PTL DEF Spec

-----------------------------------------------------------------------------
(***************************************************************************)
(* Drafts implements DraftLife                                             *)
(***************************************************************************)
\* Where a message with this row and dispatch is in its life.
Stage(row, sent) ==
  IF row.type = "draft" /\ row.when # 0 THEN "scheduled"
  ELSE IF row.type = "gone" /\ sent # NULL THEN "withdrawn"
  ELSE row.type

LEMMA LifeIs ==
  /\ Life = [m \in Messages |-> Stage(msg[m], sentAs[m])]
  /\ Life' = [m \in Messages |-> Stage(msg'[m], sentAs'[m])]
<1>1. ASSUME NEW m \in Messages
      PROVE  Life[m] = Stage(msg[m], sentAs[m])
  BY DEF Life, Stage, IsScheduled
<1>2. ASSUME NEW m \in Messages
      PROVE  Life'[m] = Stage(msg'[m], sentAs'[m])
  BY DEF Life, Stage, IsScheduled
<1>3. Life = [m \in Messages |-> Life[m]] /\ Life' = [m \in Messages |-> Life'[m]]
  BY DEF Life
<1>4. QED
  BY <1>1, <1>2, <1>3

LEMMA DispatchedIs ==
  ASSUME IInv
  PROVE  Promise!Dispatched = {m \in Messages : sentAs[m] # NULL}
<1>1. ASSUME NEW m \in Messages
      PROVE  Life[m] \in {"sending", "sent", "withdrawn"} <=> sentAs[m] # NULL
  <2>1. MessageOK(m) /\ msg[m] \in RowRec
    BY RowsAre DEF IInv
  <2>2. msg[m].type \in {"none", "draft", "sending", "sent", "gone"}
    BY <2>1 DEF RowRec
  <2>3. QED
    BY <2>1, <2>2, LifeIs DEF Stage, MessageOK
<1>2. QED
  BY <1>1 DEF Promise!Dispatched

LEMMA LifeStays ==
  ASSUME \A m \in Messages : Stage(msg'[m], sentAs'[m]) = Stage(msg[m], sentAs[m]), UNCHANGED mailed
  PROVE  UNCHANGED Promise!vars
<1>1. Life' = Life
  BY LifeIs
<1>2. QED
  BY <1>1 DEF Promise!vars

LEMMA LifeBecomes ==
  ASSUME NEW m \in Messages, NEW from, NEW to, Stage(msg[m], sentAs[m]) \in from,
         Stage(msg'[m], sentAs'[m]) = to, UNCHANGED mailed,
         \A n \in Messages : n # m => msg'[n] = msg[n] /\ sentAs'[n] = sentAs[n]
  PROVE  Promise!Becomes(m, from, to)
<1>1. Life[m] \in from
  BY LifeIs
<1>2. Life' = [Life EXCEPT ![m] = to]
  BY LifeIs
<1>3. QED
  BY <1>1, <1>2 DEF Promise!Becomes

\* A request or a timer that dispatches a message.
LEMMA DispatchIsPromised ==
  ASSUME NEW m \in Messages, Dispatches(m), UNCHANGED mailed
  PROVE  Promise!Next
<1>1. Stage(msg[m], sentAs[m]) \in {"draft", "scheduled"} /\ Stage(msg'[m], sentAs'[m]) = "sending"
  BY DEF Dispatches, Stage
<1>2. \A n \in Messages : n # m => msg'[n] = msg[n] /\ sentAs'[n] = sentAs[n]
  BY DEF Dispatches
<1>3. Promise!Becomes(m, {"draft", "scheduled"}, "sending")
  BY <1>1, <1>2, LifeBecomes
<1>4. QED
  BY <1>3 DEF Promise!Next, Promise!Dispatch

LEMMA ScheduleIsPromised ==
  ASSUME IInv, NEW r \in Requests, Schedule(r) \/ Unschedule(r)
  PROVE  Promise!Next
<1>1. PICK m \in Messages : m = req[r].draft /\ req[r].copy \in RowRec /\ req[r].copy.type = "draft"
                            /\ req[r].when \in 0 .. Horizon /\ (Schedule(r) => req[r].when # 0)
  BY LoadedIs DEF Schedule, Unschedule, Operations
<1>2. UNCHANGED <<sentAs, mailed>> /\ msg[m].type = "draft"
  BY <1>1 DEF Schedule, Unschedule, Sendable, Unschedulable, Locked
<1>3. CASE Schedule(r)
  <2> DEFINE row == [req[r].copy EXCEPT !.env = r, !.when = req[r].when, !.job = Least(FreeFires)]
  <2>1. msg' = [msg EXCEPT ![m] = row] /\ msg[m].when = 0 /\ FreeFires # {}
    BY <1>1, <1>3 DEF Schedule, Sendable, Locked, IsScheduled
  <2>2. row \in RowRec /\ row.type = "draft" /\ row.when # 0
    BY <1>1, <1>3, <2>1, FreeFireIs DEF RowRec
  <2> HIDE DEF row
  <2>3. msg'[m] = row /\ \A n \in Messages : n # m => msg'[n] = msg[n]
    BY <2>1, <2>2, MessageMoves DEF IInv
  <2>4. Stage(msg[m], sentAs[m]) \in {"draft"} /\ Stage(msg'[m], sentAs'[m]) = "scheduled"
    BY <1>2, <2>1, <2>2, <2>3 DEF Stage
  <2>5. Promise!Becomes(m, {"draft"}, "scheduled")
    BY <1>2, <2>3, <2>4, LifeBecomes
  <2>6. QED
    BY <2>5 DEF Promise!Next, Promise!Schedule
<1>4. CASE Unschedule(r)
  <2> DEFINE row == [req[r].copy EXCEPT !.when = 0, !.job = NULL]
  <2>1. msg' = [msg EXCEPT ![m] = row] /\ msg[m].when # 0
    BY <1>1, <1>4 DEF Unschedule, Unschedulable, Locked, IsScheduled
  <2>2. row \in RowRec /\ row.type = "draft" /\ row.when = 0
    <3>1. 0 \in 0 .. Horizon
      BY DraftsAssumption
    <3>2. QED
      BY <1>1, <3>1 DEF RowRec
  <2> HIDE DEF row
  <2>3. msg'[m] = row /\ \A n \in Messages : n # m => msg'[n] = msg[n]
    BY <2>1, <2>2, MessageMoves DEF IInv
  <2>4. Stage(msg[m], sentAs[m]) \in {"scheduled"} /\ Stage(msg'[m], sentAs'[m]) = "draft"
    BY <1>2, <2>1, <2>2, <2>3 DEF Stage
  <2>5. Promise!Becomes(m, {"scheduled"}, "draft")
    BY <1>2, <2>3, <2>4, LifeBecomes
  <2>6. QED
    BY <2>5 DEF Promise!Next, Promise!Unschedule
<1>5. QED
  BY <1>3, <1>4

\* A row removed is a draft discarded, or a message that was dispatched withdrawn.
LEMMA RemovedIs ==
  ASSUME IInv, NEW m \in Messages, msg[m].type # "none", NEW row, row.type = "gone", row.when = 0
  PROVE  /\ Stage(msg[m], sentAs[m]) \in {"draft", "scheduled", "gone", "sending", "sent", "withdrawn"}
         /\ Stage(row, sentAs[m]) = Promise!Removed(Stage(msg[m], sentAs[m]))
         /\ Stage(msg[m], sentAs[m]) \in {"draft", "scheduled"} => Stage(row, sentAs[m]) = "gone"
         /\ Stage(msg[m], sentAs[m]) \in {"sending", "sent"} => Stage(row, sentAs[m]) = "withdrawn"
         /\ Stage(msg[m], sentAs[m]) \in {"gone", "withdrawn"}
            => Stage(row, sentAs[m]) = Stage(msg[m], sentAs[m])
<1>1. MessageOK(m) /\ msg[m] \in RowRec
  BY RowsAre DEF IInv
<1>2. msg[m].type \in {"draft", "sending", "sent", "gone"}
  BY <1>1 DEF RowRec
<1>3. Stage(row, sentAs[m]) = IF sentAs[m] # NULL THEN "withdrawn" ELSE "gone"
  BY DEF Stage
<1>4. CASE msg[m].type = "draft"
  <2>1. sentAs[m] = NULL /\ Stage(msg[m], sentAs[m]) \in {"draft", "scheduled"}
    BY <1>1, <1>4 DEF MessageOK, Stage
  <2>2. QED
    BY <1>3, <2>1 DEF Promise!Removed
<1>5. CASE msg[m].type \in {"sending", "sent"}
  <2>1. sentAs[m] # NULL /\ Stage(msg[m], sentAs[m]) \in {"sending", "sent"}
    BY <1>1, <1>5 DEF MessageOK, Stage
  <2>2. QED
    BY <1>3, <2>1 DEF Promise!Removed
<1>6. CASE msg[m].type = "gone"
  <2>1. Stage(msg[m], sentAs[m]) = IF sentAs[m] # NULL THEN "withdrawn" ELSE "gone"
    BY <1>6 DEF Stage
  <2>2. QED
    BY <1>3, <2>1 DEF Promise!Removed
<1>7. QED
  BY <1>2, <1>4, <1>5, <1>6

LEMMA DeleteIsPromised ==
  ASSUME IInv, NEW r \in Requests, Delete(r)
  PROVE  Promise!Next \/ UNCHANGED Promise!vars
<1>1. PICK m \in Messages : m = req[r].draft /\ msg[m].type # "none"
  BY LoadedIs DEF Delete, Operations
<1> DEFINE row == Row("gone", 0, NULL, NULL)
<1>2. msg' = [msg EXCEPT ![m] = row] /\ UNCHANGED <<sentAs, mailed>>
  BY <1>1 DEF Delete
<1>3. row.type = "gone" /\ row.when = 0 /\ row \in RowRec
  <2>1. 0 \in 0 .. Horizon
    BY DraftsAssumption
  <2>2. QED
    BY <2>1 DEF Row, RowRec
<1> HIDE DEF row
<1>4. msg'[m] = row /\ \A n \in Messages : n # m => msg'[n] = msg[n]
  BY <1>2, <1>3, MessageMoves DEF IInv
<1>5. CASE Stage(msg[m], sentAs[m]) \in {"draft", "scheduled"}
  <2>1. Stage(msg'[m], sentAs'[m]) = "gone"
    BY <1>1, <1>2, <1>3, <1>4, <1>5, RemovedIs
  <2>2. Promise!Becomes(m, {"draft", "scheduled"}, "gone")
    BY <1>2, <1>4, <1>5, <2>1, LifeBecomes
  <2>3. QED
    BY <2>2 DEF Promise!Next, Promise!Discard
<1>6. CASE Stage(msg[m], sentAs[m]) \in {"sending", "sent"}
  <2>1. Stage(msg'[m], sentAs'[m]) = "withdrawn"
    BY <1>1, <1>2, <1>3, <1>4, <1>6, RemovedIs
  <2>2. Promise!Becomes(m, {"sending", "sent"}, "withdrawn")
    BY <1>2, <1>4, <1>6, <2>1, LifeBecomes
  <2>3. QED
    BY <2>2 DEF Promise!Next, Promise!Withdraw
<1>7. CASE Stage(msg[m], sentAs[m]) \in {"gone", "withdrawn"}
  <2>1. Stage(msg'[m], sentAs'[m]) = Stage(msg[m], sentAs[m])
    BY <1>1, <1>2, <1>3, <1>4, <1>7, RemovedIs
  <2>2. \A n \in Messages : Stage(msg'[n], sentAs'[n]) = Stage(msg[n], sentAs[n])
    BY <1>2, <1>4, <2>1
  <2>3. QED
    BY <1>2, <2>2, LifeStays
<1>8. QED
  BY <1>1, <1>3, <1>5, <1>6, <1>7, RemovedIs

LEMMA StartDraftIsPromised ==
  ASSUME IInv, NEW r \in Requests, StartDraftWrite(r)
  PROVE  Promise!Next
<1> DEFINE row == NewDraft(r)
           gone == Row("gone", 0, NULL, NULL)
<1>1. req[r].pc = "starting" /\ UNCHANGED <<mailed, sentAs>>
  BY StartDraftWriteIs
<1>2. PICK new \in Messages :
        /\ msg[new].type = "none"
        /\ msg' = [m \in Messages |->
                     CASE m = new -> row [] m = req[r].draft -> gone [] OTHER -> msg[m]]
  BY StartDraftWriteIs
<1>3. PICK old : old = req[r].draft
  OBVIOUS
<1>4. old \in Messages => msg[old].type # "none" /\ old # new
  <2>1. old \in Messages => old # NULL
    BY DraftsAssumption DEF Messages
  <2>2. QED
    BY <1>1, <1>2, <1>3, <2>1 DEF IInv, RequestOK
<1>5. row.type = "draft" /\ row.when = 0 /\ gone.type = "gone" /\ gone.when = 0
  BY DEF NewDraft, Row
<1> HIDE DEF row, gone
<1>6. msg' = [m \in Messages |-> CASE m = new -> row [] m = old -> gone [] OTHER -> msg[m]]
  BY <1>2, <1>3
<1>7. /\ msg'[new] = row
      /\ old \in Messages => msg'[old] = gone
      /\ \A m \in Messages : m # new /\ m # old => msg'[m] = msg[m]
  BY <1>4, <1>6
<1>8. /\ Stage(msg[new], sentAs[new]) = "none"
      /\ Stage(msg'[new], sentAs'[new]) = "draft"
  BY <1>2, <1>5, <1>7 DEF Stage
<1>9. CASE old \notin Messages
  <2>1. \A n \in Messages : n # new => msg'[n] = msg[n] /\ sentAs'[n] = sentAs[n]
    BY <1>1, <1>7, <1>9
  <2>2. Promise!Becomes(new, {"none"}, "draft")
    BY <1>1, <1>8, <2>1, LifeBecomes
  <2>3. QED
    BY <2>2 DEF Promise!Next, Promise!Start
<1>10. CASE old \in Messages
  <2>1. Stage(msg'[old], sentAs'[old]) = Promise!Removed(Stage(msg[old], sentAs[old]))
    BY <1>1, <1>4, <1>5, <1>7, <1>10, RemovedIs
  <2>2. /\ Life[old] = Stage(msg[old], sentAs[old]) /\ Life[new] = "none"
        /\ Life[old] # "none"
    <3>1. Stage(msg[old], sentAs[old]) \in {"draft", "scheduled", "gone", "sending", "sent", "withdrawn"}
      BY <1>4, <1>5, <1>10, RemovedIs
    <3>2. QED
      BY <1>8, <1>10, <3>1, LifeIs
  <2>3. /\ Life'[old] = Promise!Removed(Life[old]) /\ Life'[new] = "draft"
        /\ \A n \in Messages : n # old /\ n # new => Life'[n] = Life[n]
    BY <1>1, <1>7, <1>8, <1>10, <2>1, <2>2, LifeIs
  <2>4. Life' = [[Life EXCEPT ![old] = Promise!Removed(Life[old])] EXCEPT ![new] = "draft"]
    <3>1. Life = [m \in Messages |-> Life[m]] /\ Life' = [m \in Messages |-> Life'[m]]
      BY DEF Life
    <3>2. QED
      BY <1>4, <1>10, <2>3, <3>1
  <2>5. Promise!Replace(old, new)
    BY <1>1, <2>2, <2>4 DEF Promise!Replace
  <2>6. QED
    BY <1>10, <2>5 DEF Promise!Next
<1>11. QED
  BY <1>9, <1>10

LEMMA MailIsPromised ==
  ASSUME IInv, MailedInv, NEW g \in Mails, MailStep(g)
  PROVE  Promise!Next \/ UNCHANGED Promise!vars
<1>1. CASE MailLoad(g)
  <2>1. UNCHANGED <<msg, sentAs, mailed>>
    BY <1>1 DEF MailLoad
  <2>2. QED
    BY <2>1, LifeStays
<1>2. CASE MailSend(g)
  <2>1. PICK m \in Messages : m = gmail[g].message /\ sentAs[m] # NULL
    BY <1>2 DEF MailSend, IInv, MailOK
  <2>2. /\ gmail[g].pc = "loaded" /\ mailed' = [mailed EXCEPT ![m] = mailed[m] + 1]
        /\ UNCHANGED <<msg, sentAs>>
    BY <1>2, <2>1 DEF MailSend
  <2>3. Life' = Life
    BY <2>2, LifeIs
  <2>4. m \in Promise!Dispatched
    BY <2>1, DispatchedIs
  <2>5. mailed[m] = 0 \/ Promise!Dispatched # {m}
    <3>1. Two \/ mailed[m] = 0
      BY <2>1, <2>2 DEF MailedInv
    <3>2. Two => \E n \in Promise!Dispatched : n # m
      BY DispatchedIs DEF Two
    <3>3. QED
      BY <3>1, <3>2
  <2>6. Promise!Mail(m)
    BY <2>2, <2>3, <2>4, <2>5 DEF Promise!Mail
  <2>7. QED
    BY <2>6 DEF Promise!Next
<1>3. CASE MailMark(g)
  <2>1. PICK m \in Messages : m = gmail[g].message /\ sentAs[m] # NULL /\ mailed[m] > 0
    BY <1>3 DEF MailMark, IInv, MailOK, MailedInv
  <2> DEFINE d == [msg[m] EXCEPT !.type = IF msg[m].type = "gone" THEN "gone" ELSE "sent"]
  <2>2. msg' = [msg EXCEPT ![m] = d] /\ UNCHANGED <<sentAs, mailed>>
    BY <1>3, <2>1 DEF MailMark
  <2>3. msg[m] \in RowRec /\ MessageOK(m)
    BY RowsAre DEF IInv
  <2>4. /\ d \in RowRec /\ d.when = msg[m].when
        /\ (msg[m].type = "gone" => d.type = "gone") /\ (msg[m].type # "gone" => d.type = "sent")
    BY <2>3 DEF RowRec
  <2> HIDE DEF d
  <2>5. msg'[m] = d /\ \A n \in Messages : n # m => msg'[n] = msg[n]
    BY <2>2, <2>4, MessageMoves DEF IInv
  <2>6. msg[m].type \in {"sending", "sent", "gone"} /\ sentAs[m] # NULL
    BY <2>1, <2>3 DEF MessageOK
  <2>7. CASE msg[m].type = "sending"
    <3>1. Stage(msg[m], sentAs[m]) \in {"sending"} /\ Stage(msg'[m], sentAs'[m]) = "sent"
      BY <2>4, <2>5, <2>7 DEF Stage
    <3>2. Promise!Becomes(m, {"sending"}, "sent")
      BY <2>2, <2>5, <3>1, LifeBecomes
    <3>3. QED
      BY <2>1, <3>2 DEF Promise!Next, Promise!Settle
  <2>8. CASE msg[m].type \in {"sent", "gone"}
    <3>1. Stage(msg'[m], sentAs'[m]) = Stage(msg[m], sentAs[m])
      BY <2>2, <2>4, <2>5, <2>6, <2>8 DEF Stage
    <3>2. \A n \in Messages : Stage(msg'[n], sentAs'[n]) = Stage(msg[n], sentAs[n])
      BY <2>2, <2>5, <3>1
    <3>3. QED
      BY <2>2, <3>2, LifeStays
  <2>9. QED
    BY <2>6, <2>7, <2>8
<1>4. QED
  BY <1>1, <1>2, <1>3 DEF MailStep

\* A row that keeps its type and schedule stays where it is in its life.
LEMMA SameStage ==
  ASSUME IInv, NEW m \in Messages, NEW d \in RowRec, msg' = [msg EXCEPT ![m] = d],
         d.type = msg[m].type, d.when = msg[m].when, UNCHANGED <<sentAs, mailed>>
  PROVE  UNCHANGED Promise!vars
<1>1. msg'[m] = d /\ \A n \in Messages : n # m => msg'[n] = msg[n]
  BY MessageMoves DEF IInv
<1>2. \A n \in Messages : Stage(msg'[n], sentAs'[n]) = Stage(msg[n], sentAs[n])
  BY <1>1 DEF Stage
<1>3. QED
  BY <1>2, LifeStays

LEMMA RequestIsPromised ==
  ASSUME IInv, NEW r \in Requests, RequestStep(r)
  PROVE  Promise!Next \/ UNCHANGED Promise!vars
<1>1. CASE \/ \E op \in Operations : \E when \in Whens(op), archive \in Archives(op) :
                Load(r, op, when, archive)
           \/ \E replace \in BOOLEAN : LoadReply(r, replace)
           \/ Refused(r) \/ CancelFire(r) \/ StartDraftRead(r)
  <2>1. UNCHANGED <<msg, sentAs, mailed>>
    BY <1>1 DEF Load, LoadReply, Refused, CancelFire, StartDraftRead
  <2>2. QED
    BY <2>1, LifeStays
<1>2. CASE Edit(r)
  <2>1. PICK m \in Messages : m = req[r].draft
    BY <1>2 DEF Edit, Serving, IInv, RequestOK
  <2> DEFINE d == IF msg[m].type = "gone" THEN msg[m] ELSE [msg[m] EXCEPT !.env = r]
  <2>2. msg' = [msg EXCEPT ![m] = d] /\ UNCHANGED <<sentAs, mailed>>
    BY <1>2, <2>1 DEF Edit
  <2>3. d \in RowRec /\ d.type = msg[m].type /\ d.when = msg[m].when
    BY RowsAre DEF RowRec, IInv
  <2> HIDE DEF d
  <2>4. QED
    BY <2>2, <2>3, SameStage
<1>3. CASE Send(r)
  <2>1. UNCHANGED mailed
    BY <1>3 DEF Send
  <2>2. QED
    BY <1>3, <2>1, SendIs, DispatchIsPromised
<1>4. QED
  BY <1>1, <1>2, <1>3, ScheduleIsPromised, DeleteIsPromised, StartDraftIsPromised DEF RequestStep

LEMMA FireIsPromised ==
  ASSUME IInv, NEW f \in Fires, FireStep(f) \/ FireLost(f) \/ FireAgain(f)
  PROVE  Promise!Next \/ UNCHANGED Promise!vars
<1>1. CASE FirePerform(f) /\ ~UNCHANGED <<msg, gmail, sentAs>>
  <2>1. UNCHANGED mailed
    BY <1>1 DEF FirePerform
  <2>2. QED
    BY <1>1, <2>1, FireSends, DispatchIsPromised
<1>2. CASE ~(FirePerform(f) /\ ~UNCHANGED <<msg, gmail, sentAs>>)
  <2>1. UNCHANGED <<msg, sentAs, mailed>>
    BY <1>2 DEF FireStep, FireStart, FirePerform, FireLost, FireAgain
  <2>2. QED
    BY <2>1, LifeStays
<1>3. QED
  BY <1>1, <1>2

LEMMA SweepIsPromised ==
  ASSUME IInv, SweepStep \/ SweepDies
  PROVE  UNCHANGED Promise!vars
<1>1. ASSUME NEW m \in Messages, SweepRow(m), Unschedulable(msg[m])
      PROVE  UNCHANGED Promise!vars
  <2>1. /\ msg'[m].type = "draft" /\ msg'[m].when = msg[m].when
        /\ \A n \in Messages : n # m => msg'[n] = msg[n]
    BY <1>1, SweepRowIs
  <2>2. msg[m].type = "draft" /\ UNCHANGED <<sentAs, mailed>>
    BY <1>1 DEF SweepRow, Unschedulable
  <2>3. \A n \in Messages : Stage(msg'[n], sentAs'[n]) = Stage(msg[n], sentAs[n])
    BY <2>1, <2>2 DEF Stage
  <2>4. QED
    BY <2>2, <2>3, LifeStays
<1>2. CASE SweepRead \/ SweepDies \/ \E m \in Messages : SweepRow(m) /\ ~Unschedulable(msg[m])
  <2>1. UNCHANGED <<msg, sentAs, mailed>>
    BY <1>2 DEF SweepRead, SweepDies, SweepRow
  <2>2. QED
    BY <2>1, LifeStays
<1>3. QED
  BY <1>1, <1>2 DEF SweepStep

LEMMA StepIsPromised ==
  ASSUME IInv, MailedInv, [Next]_vars
  PROVE  [Promise!Next]_(Promise!vars)
<1>1. ASSUME NEW g \in Mails, MailStep(g) \/ MailDies(g)
      PROVE  Promise!Next \/ UNCHANGED Promise!vars
  BY <1>1, MailIsPromised, NoCrash DEF MailedInv
<1>2. CASE Tick \/ Revoke \/ UNCHANGED vars
  <2>1. UNCHANGED <<msg, sentAs, mailed>>
    BY <1>2 DEF Tick, Revoke, vars
  <2>2. QED
    BY <2>1, LifeStays
<1>3. QED
  BY <1>1, <1>2, RequestIsPromised, FireIsPromised, SweepIsPromised DEF Next

LEMMA StartIsPromised ==
  ASSUME Init
  PROVE  Promise!Init
<1>1. /\ IInv /\ mailed = [m \in Messages |-> 0] /\ \A m \in Messages : sentAs[m] = NULL
  BY InitHolds DEF Init
<1>2. ASSUME NEW m \in Messages
      PROVE  Life[m] \in {"none", "draft"}
  <2>1. msg[m].when = 0 /\ msg[m] \in RowRec /\ MessageOK(m)
    BY <1>1, StartIs, RowsAre DEF IInv
  <2>2. msg[m].type \in {"none", "draft"}
    <3>1. PICK first \in {NewDraft(NULL), NoRow} : msg = [n \in Messages |-> IF n = 1 THEN first ELSE NoRow]
      BY DEF Init
    <3>2. NewDraft(NULL).type = "draft" /\ NoRow.type = "none"
      BY DEF NewDraft, NoRow, Row
    <3>3. msg[m] = NewDraft(NULL) \/ msg[m] = NoRow
      BY <3>1
    <3>4. QED
      BY <3>2, <3>3
  <2>3. QED
    BY <1>1, <2>1, <2>2, LifeIs DEF Stage
<1>3. Life \in [Messages -> {"none", "draft"}]
  <2>1. Life = [m \in Messages |-> Life[m]]
    BY DEF Life
  <2>2. QED
    BY <1>2, <2>1
<1>4. QED
  BY <1>1, <1>3 DEF Promise!Init

\* Where no handler dies after Gmail's answer, every step of the requests, timers, sweeps
\* and mail jobs moves each message forward in the life that DraftLife promises, or not at
\* all: Drafts implements DraftLife.
THEOREM ImplementsDraftLife ==
  ASSUME \A s \in Starts : s.faults["crash"] = 0
  PROVE  Spec => KeepsPromise
<1>1. Init => Promise!Init
  BY StartIsPromised
<1>2. IInv /\ MailedInv /\ [Next]_vars => [Promise!Next]_(Promise!vars)
  BY StepIsPromised
<1>3. QED
  BY <1>1, <1>2, InvariantHolds, MailedInvHolds, PTL DEF Spec, KeepsPromise, Promise!Spec
=============================================================================
