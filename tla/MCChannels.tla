----------------------------- MODULE MCChannels -----------------------------
(***************************************************************************)
(* Instances of Channels for TLC: what the browsers send, which events     *)
(* happen.                                                                 *)
(***************************************************************************)
EXTENDS Channels, TLC

CONSTANTS s1, s2, t1, t2

AllCallbacks == Sessions \X (1..Length)
AllWaiters == Sessions \X (0..Length)

Sub(t) == [kind |-> "subscribe", topic |-> t]
Unsub(t) == [kind |-> "unsubscribe", topic |-> t]
Say(t) == [kind |-> "say", topic |-> t]

Left(lose, close, reject, broadcast) ==
  [e \in Events |-> CASE e = "lose" -> lose [] e = "close" -> close
                      [] e = "reject" -> reject [] e = "broadcast" -> broadcast]

\* A browser that leaves a topic and comes back, and leaves again.
Toggling == [script |-> (s1 :> <<Sub(t1), Unsub(t1), Sub(t1), Unsub(t1)>>) @@ (s2 :> <<>>),
             left |-> Left(0, 1, 1, 0)]

\* Two browsers on a connection that breaks twice.
Losing == [script |-> (s1 :> <<Sub(t1), Sub(t2), Unsub(t1)>>) @@ (s2 :> <<Sub(t1), Unsub(t1)>>),
           left |-> Left(2, 1, 0, 0)]

\* Two browsers that talk.
Talking == [script |-> (s1 :> <<Sub(t1)>>) @@ (s2 :> <<Sub(t1), Say(t1)>>),
            left |-> Left(1, 1, 1, 1)]

AllStarts == {Toggling, Losing, Talking}
=============================================================================
