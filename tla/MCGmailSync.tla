----------------------------- MODULE MCGmailSync -----------------------------
(***************************************************************************)
(* Instances of GmailSync for TLC: which events happen, and how often.     *)
(***************************************************************************)
EXTENDS GmailSync, TLC

CONSTANTS o1, n1, w1, w2

\* A limit that is not reached.
NoLimit == Cardinality(Messages) + 1

StartWith(connected, limit, happening) ==
  [connected |-> connected, limit |-> limit,
   left |-> [e \in Events |-> IF e \in DOMAIN happening THEN happening[e] ELSE 0]]

Start(connected, happening) == StartWith(connected, NoLimit, happening)

\* The onboarding sync stops at its limit.
Limits == StartWith(FALSE, 1, [change |-> 2])

\* The account is being set up while mail arrives; or a call of the set-up raises.
Setup == Start(FALSE, [change |-> 2])
SetupRaises == Start(FALSE, [change |-> 1, fail |-> 1])

\* A worker dies; or a call raises and a push is lost.
Crashes == Start(TRUE, [change |-> 2, crash |-> 1])
Failures == Start(TRUE, [change |-> 2, fail |-> 1, lose |-> 1])

\* The watch dies, or is renewed, while the history moves on.
Watches == Start(TRUE, [change |-> 2, die |-> 1, renew |-> 1])

\* A message is deleted.
Deletes == Start(TRUE, [change |-> 1, delete |-> 1, crash |-> 1])

\* Gmail shows its history late, or no longer has it.
Lags == Start(TRUE, [change |-> 2, lag |-> 1, expire |-> 1])

\* A run takes longer than its lock is good for.
Overruns == Start(TRUE, [change |-> 2, overrun |-> 1])

AllStarts == {Setup, SetupRaises, Limits, Crashes, Failures, Watches, Deletes, Lags, Overruns}

=============================================================================
