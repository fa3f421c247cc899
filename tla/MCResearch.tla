------------------------------ MODULE MCResearch ------------------------------
(***************************************************************************)
(* Instances of Research for TLC: what goes wrong, and how often.          *)
(***************************************************************************)
EXTENDS Research, TLC

Happening(happening) == [e \in Events |-> IF e \in DOMAIN happening THEN happening[e] ELSE 0]

Failing == Happening([fail |-> 1, parallel |-> 1])
Writing == Happening([rewrite |-> 1, resend |-> 1, parallel |-> 1])
Alone == Happening([fail |-> 1, rewrite |-> 1, resend |-> 1])
Repeating == Happening([again |-> 1, empty |-> 1])

AllStarts == {Failing, Writing, Alone, Repeating}

=============================================================================
