--------------------------- MODULE Dissemination ---------------------------
(***************************************************************************)
(* What the mesh promises one node about the others, with no packets,      *)
(* sequence numbers, slots or threads.  Each source publishes states of    *)
(* itself, one after the other.  The node has several views of the mesh.   *)
(* What it learns of a source goes into one view, is newer than what any   *)
(* of its views has of that source, and replaces nothing else; no view     *)
(* ever goes back.  A route rests on one view as a whole, but on any: the  *)
(* next one may rest on a view that is behind.  A restarted node knows     *)
(* nothing.                                                                *)
(***************************************************************************)
EXTENDS Integers

CONSTANTS Remote, View, bound

VARIABLES at,       \* how far each source has published
          view,     \* which publication of each source a view has, 0 for none
          routed    \* the view the last route was computed from, as it was then

dvars == <<at, view, routed>>

Nothing == [r \in Remote |-> 0]

Init ==
    /\ at = Nothing
    /\ view = [v \in View |-> Nothing]
    /\ routed = Nothing

Publish(r) ==
    /\ \E k \in 1 .. bound[r] : k > at[r] /\ at' = [at EXCEPT ![r] = k]
    /\ UNCHANGED <<view, routed>>

Learn(v, r) ==
    /\ \E k \in 1 .. at[r] :
         /\ \A w \in View : k > view[w][r]
         /\ view' = [view EXCEPT ![v][r] = k]
    /\ UNCHANGED <<at, routed>>

Route(v) ==
    /\ routed' = view[v]
    /\ UNCHANGED <<at, view>>

Restart ==
    /\ view' = [v \in View |-> Nothing]
    /\ routed' = Nothing
    /\ UNCHANGED at

Next ==
    \/ \E r \in Remote : Publish(r)
    \/ \E v \in View, r \in Remote : Learn(v, r)
    \/ \E v \in View : Route(v)
    \/ Restart

Spec == Init /\ [][Next]_dvars
=============================================================================
