------------------------------- MODULE MCJobs -------------------------------
(***************************************************************************)
(* Instances of Jobs for TLC: which faults may happen together.            *)
(***************************************************************************)
EXTENDS Jobs, TLC

CONSTANTS a, b, x, y, z

NoFaults == [f \in Faults |-> 0]

\* Processes die, a row outlives dead_job_interval_hours.
Crashes == [NoFaults EXCEPT !["crash"] = 2, !["old"] = 1]

\* ... and a member adds another member to its group.
CrashAdd == [NoFaults EXCEPT !["crash"] = 1, !["add"] = 1]

\* Attempts fail or die, one at a time.
Failing == [NoFaults EXCEPT !["raise"] = 2, !["crash"] = 1, !["abort"] = 1]

\* A deadline passes under a running handler, and the next attempt overlaps it.
Overlapping == [NoFaults EXCEPT !["raise"] = 1, !["expire"] = 1, !["abort"] = 1]

\* A job reschedules itself, or is cancelled; the sweeper overtakes a slow flush.
Rescheduling(f) == [NoFaults EXCEPT !["reschedule"] = 1, ![f] = 1]
Overtaking == [NoFaults EXCEPT !["reschedule"] = 1, !["slow"] = 1]
Cancelling == [NoFaults EXCEPT !["cancel"] = 1, !["reschedule"] = 1, !["abort"] = 1]

\* A task vanishes.
Losing == [NoFaults EXCEPT !["lose"] = 1]

From(rows, budgets) == {[rows |-> rows, faults |-> f] : f \in budgets}

\* One fault of a kind, and a death with it where the states can be counted.
Once(kinds) == [f \in Faults |-> IF f \in kinds THEN 1 ELSE 0]
Pairs == {Once({"raise"}), Once({"expire"}), Once({"reschedule"}),
          Once({"abort", "crash"}), Once({"cancel"}), Once({"lose"})}

\* A group of two with deaths or one other fault; one member, or one row outside the
\* group, with everything else that can happen.
SafetyStarts ==
  From({a, b}, Pairs \cup {Crashes}) \cup From({a}, {CrashAdd, Failing, Overlapping, Cancelling})
                          \cup From({x}, {Failing, Cancelling, Overtaking, Losing})

\* A group that grows, a job that reschedules itself, a lost task, a job that fails
\* every time.
LiveStarts ==
  From({a}, {CrashAdd, Losing}) \cup From({x}, {Rescheduling(f) : f \in {"crash", "abort"}})
  \cup From({z}, {NoFaults})

WorkerSymmetry == Permutations(Workers)

=============================================================================
