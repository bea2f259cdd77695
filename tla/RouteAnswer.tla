---------------------------- MODULE RouteAnswer ----------------------------
(***************************************************************************)
(* What loop() may rely on of the answer of routing_compute: Routing keeps *)
(* it for a node of the graph that is no exit, Guidance builds on it.      *)
(***************************************************************************)
EXTENDS Integers

\* The answer to a table that shows the nodes of burning on fire: people are told to
\* stay just if every way costs as much as sheltering, they are sent to a node
\* otherwise, and to none that burns.
IsAnswer(r, burning, threshold) ==
    /\ DOMAIN r = {"next_hop", "cost", "shelter"}
    /\ r.cost \in Nat /\ r.shelter \in BOOLEAN
    /\ r.shelter <=> r.cost >= threshold
    /\ r.shelter <=> r.next_hop = 0
    /\ r.next_hop \notin burning
=============================================================================
