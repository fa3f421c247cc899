------------------------- MODULE MCSharedConnection -------------------------
(***************************************************************************)
(* Instances of SharedConnection for TLC: which events a behaviour has.    *)
(***************************************************************************)
EXTENDS SharedConnection, TLC

CONSTANTS t1, t2, t3

Opened(n) == [e \in Events |-> IF e = "open" THEN n ELSE 0]

\* Three tabs come and go while they subscribe; a handshake may overrun.
Handover == [Opened(3) EXCEPT !["hide"] = 1, !["overrun"] = 1, !["close"] = 1, !["subscribe"] = 2]

\* Two tabs, one perhaps opened in the background, and a socket in trouble.
Outage == [Opened(2) EXCEPT !["background"] = 1, !["hide"] = 1, !["subscribe"] = 1,
                            !["drop"] = 1, !["refuse"] = 1, !["offline"] = 1,
                            !["expel"] = 1, !["reject"] = 1, !["abandon"] = 1]

\* Three tabs under one leader.
Counting == [Opened(3) EXCEPT !["subscribe"] = 4]

\* A tab that lags behind a hand-over and the one back.
Lagging == [Opened(2) EXCEPT !["hide"] = 2, !["subscribe"] = 2, !["lag"] = 2]

SafetyStarts == {Handover, Outage, Counting, Lagging}

Recovering == [Opened(2) EXCEPT !["hide"] = 2, !["drop"] = 1, !["refuse"] = 2, !["offline"] = 1]

\* What a lock that is held in the background, or an expelled user, do to the others.
Overrunning == [Opened(2) EXCEPT !["hide"] = 1, !["overrun"] = 1]
Background == [Opened(2) EXCEPT !["background"] = 1, !["hide"] = 1]
Expelled == [Opened(2) EXCEPT !["drop"] = 1, !["expel"] = 1]

LiveStarts == {Recovering, Overrunning, Background, Expelled}

TabSymmetry == Permutations(Tabs)

=============================================================================
