----------------------------- MODULE DraftLife -----------------------------
(***************************************************************************)
(* What scheduled sending promises about each email message of a thread:   *)
(* it moves forward through its life, and whatever requests, timers and    *)
(* repairs race for it, it is handed to the mail provider only after it    *)
(* was dispatched and once, unless another message of the thread was       *)
(* dispatched too.  Drafts implements this.                                *)
(***************************************************************************)
EXTENDS Naturals

CONSTANT Messages

VARIABLES
  life,     (* where each message is                                         *)
  mailed    (* how many times the provider was asked to send it              *)

vars == <<life, mailed>>

Lives == {"none", "draft", "scheduled", "sending", "sent", "gone", "withdrawn"}

Becomes(m, from, to) ==
  /\ life[m] \in from
  /\ life' = [life EXCEPT ![m] = to]
  /\ UNCHANGED mailed

Start(m)      == Becomes(m, {"none"}, "draft")
Schedule(m)   == Becomes(m, {"draft"}, "scheduled")
Unschedule(m) == Becomes(m, {"scheduled"}, "draft")
Dispatch(m)   == Becomes(m, {"draft", "scheduled"}, "sending")
Discard(m)    == Becomes(m, {"draft", "scheduled"}, "gone")

\* A deletion that was started on a draft may land on a dispatched message.
Withdraw(m)   == Becomes(m, {"sending", "sent"}, "withdrawn")

\* Starting a draft removes the one the thread had; that one may meanwhile have been
\* dispatched.
Removed(l) == CASE l \in {"draft", "scheduled", "gone"} -> "gone"
                [] l \in {"sending", "sent", "withdrawn"} -> "withdrawn"

Replace(m, n) ==
  /\ life[m] # "none" /\ life[n] = "none"
  /\ life' = [life EXCEPT ![m] = Removed(@), ![n] = "draft"]
  /\ UNCHANGED mailed

Dispatched == {m \in Messages : life[m] \in {"sending", "sent", "withdrawn"}}

\* The job that mails knows the thread only: those of two messages may both take the first.
Mail(m) ==
  /\ m \in Dispatched /\ (mailed[m] = 0 \/ Dispatched # {m})
  /\ mailed' = [mailed EXCEPT ![m] = @ + 1]
  /\ UNCHANGED life

Settle(m) == mailed[m] > 0 /\ Becomes(m, {"sending"}, "sent")

Init ==
  /\ life \in [Messages -> {"none", "draft"}]
  /\ mailed = [m \in Messages |-> 0]

Next == \E m \in Messages :
  \/ Start(m) \/ Schedule(m) \/ Unschedule(m) \/ Dispatch(m) \/ Discard(m)
  \/ Withdraw(m) \/ Mail(m) \/ Settle(m)
  \/ \E n \in Messages : Replace(m, n)

Spec == Init /\ [][Next]_vars

=============================================================================
