-------------------------- MODULE MCLiveDocuments --------------------------
(***************************************************************************)
(* Instances of LiveDocuments for TLC: where the browsers connect and      *)
(* which events a behaviour has.                                           *)
(***************************************************************************)
EXTENDS LiveDocuments, TLC

CONSTANTS s1, s2, c1, c2, o1, o2

\* The second browser is sent to either server; so a server has both browsers or one.
Apart    == (c1 :> {s1}) @@ (c2 :> {s1, s2})
Together == (c1 :> {s1}) @@ (c2 :> {s1})

\* One edit; a session may miss it whenever one begins.
Calm == [e \in Events |-> CASE e = "edit" -> 1 [] e = "gap" -> 3 [] OTHER -> 0]

Moving  == [routes |-> Apart, left |-> [Calm EXCEPT !["disconnect"] = 1]]
Dying   == [routes |-> Apart, left |-> [Calm EXCEPT !["crash"] = 1]]
Failing == [routes |-> Apart, left |-> [Calm EXCEPT !["fail"] = 1]]
Losing  == [routes |-> Apart, left |-> [Calm EXCEPT !["lose"] = 1]]

\* Two rows to merge, two runs of the job, and an insert at any time.
TwoRows == {[id |-> 1, edits |-> {o1}], [id |-> 2, edits |-> {o2}]}
Merging == [routes |-> Together, left |-> [Calm EXCEPT !["merge"] = 2, !["abort"] = 1]]

AllStarts  == {Moving, Dying, Failing, Losing, Merging}
=============================================================================
