------------------------------ MODULE MCMailbox ------------------------------
(***************************************************************************)
(* Instances of Mailbox for TLC: which events happen, and how often.       *)
(***************************************************************************)
EXTENDS Mailbox, TLC

Happening(happening) == [e \in Events |-> IF e \in DOMAIN happening THEN happening[e] ELSE 0]

Filing == Happening([archive |-> 1, unarchive |-> 1, arrive |-> 1, gmail |-> 1])
Reading == Happening([read |-> 1, unread |-> 1, arrive |-> 1, crash |-> 1])
Snoozing == Happening([snooze |-> 2, arrive |-> 1])
Awaking == Happening([snooze |-> 2, unsnooze |-> 1])
Waking == Happening([read |-> 1, snooze |-> 1, again |-> 1])
Interrupted == Happening([snooze |-> 1, gmail |-> 1, arrive |-> 2])
Elsewhere == Happening([read |-> 1, archive |-> 1, gmail |-> 1, crash |-> 1])

AllStarts == {Filing, Reading, Snoozing, Awaking, Waking, Interrupted, Elsewhere}

=============================================================================
