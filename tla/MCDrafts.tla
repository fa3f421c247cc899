------------------------------ MODULE MCDrafts ------------------------------
(***************************************************************************)
(* Instances of Drafts for TLC: what the requests may do, and faults.      *)
(***************************************************************************)
EXTENDS Drafts, TLC

CONSTANTS r1, r2, r3

NoFaults == [f \in Faults |-> 0]

\* A timer is lost, a handler that finished is called again.
Losing == [NoFaults EXCEPT !["lose"] = 1, !["redeliver"] = 1]

\* ... or the sender loses access.
Revoking == [NoFaults EXCEPT !["lose"] = 1, !["revoke"] = 1]

\* ... or the sweeper or the Gmail job dies, twice.
Dying == [NoFaults EXCEPT !["lose"] = 1, !["crash"] = 2]

Asks(first, second, third) ==
  [r \in Requests |-> CASE r = r1 -> first [] r = r2 -> second [] OTHER -> third]

\* Two requests send or schedule, another takes the draft back.
RacingOps == Asks({"send", "schedule"}, {"schedule"}, {"unschedule"})

\* A reply replaces the draft while another request schedules or edits it.
ReplyOps == Asks({"schedule"}, {"reply"}, {"edit", "unschedule", "delete"})

\* One request schedules, another does anything else.
ScheduleOps == Asks({"schedule"}, {"edit", "send", "unschedule", "delete"}, {})

\* A reply comes between two sends.
TwiceOps == Asks({"send"}, {"reply"}, {"send"})

\* Two replies, one of whose drafts is scheduled.
RepliesOps == Asks({"schedule"}, {"reply"}, {"reply"})

SafetyStarts == {[ops |-> RacingOps, faults |-> Losing], [ops |-> ReplyOps, faults |-> Losing],
                 [ops |-> ScheduleOps, faults |-> Revoking], [ops |-> TwiceOps, faults |-> NoFaults],
                 [ops |-> RepliesOps, faults |-> NoFaults]}

LiveStarts == {[ops |-> Asks({"send", "schedule"}, {"send", "schedule"}, {}), faults |-> Dying]}

=============================================================================
