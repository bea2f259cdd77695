--------------------------- MODULE BridgeRoutes ---------------------------
(***************************************************************************)
(* The routes the bridge computes for a snapshot (backend/mqtt_bridge.py,  *)
(* _compute_routes), as a function of the states it has.                   *)
(***************************************************************************)
EXTENDS MqttBridge, Paths

\* dist, of the nodes of an edge.
Lengths == [l \in Links(Graph) |-> Distance(NodeOf(Graph, l[1]), NodeOf(Graph, l[2]))]

\* Mutant: the flame at the far end is not looked at.
ComputeEdgeCostNear(a, b) ==
    LET dist == Lengths[<<a, b>>]
        s    == nodeStates[a]
    IN  IF ~ {a, b} \subseteq DOMAIN nodeStates THEN 1000 * dist
        ELSE IF dist > 0 /\ s.flameDetected THEN BlockedCost
        ELSE dist * (Exp[HazardExponent(10 * s.temperature, s.smoke)] + 100)

\* _compute_edge_cost: the readings of the end the edge starts at, either end's flame,
\* two occupants; as if it were calm, when one end has not reported.
ComputeEdgeCost(a, b) ==
    LET dist == Lengths[<<a, b>>]
        s    == nodeStates[a]
    IN  IF ~ {a, b} \subseteq DOMAIN nodeStates THEN 1000 * dist
        ELSE IF dist > 0 /\ (s.flameDetected \/ nodeStates[b].flameDetected) THEN BlockedCost
        ELSE dist * (Exp[HazardExponent(10 * s.temperature, s.smoke)] + 100)

\* The edges between two nodes.
Between == [l \in Links(Graph) |-> {e \in Graph.edges : {e.from, e.to} = {l[1], l[2]}}]

\* adj: one cost for both directions, the least where an edge is there twice.
Adjacent ==
    [l \in DOMAIN Between |-> Min({ComputeEdgeCost(e.from, e.to) : e \in Between[l]})]

\* origin_candidates: the first nine nodes that reported and are no exits.
Origins ==
    LET all == {k \in DOMAIN Graph.nodes : /\ Graph.nodes[k].kind # "exit"
                                           /\ Graph.nodes[k].id \in DOMAIN nodeStates}
    IN  {Graph.nodes[k].id : k \in {j \in all : Cardinality({i \in all : i <= j}) <= 9}}

\* _compute_routes; their order, which is that of the origins, is left out.
ComputeRoutes ==
    LET cost     == Adjacent
        Path(id) == LET run == Dijkstra(NodeIds(Graph), cost, id)
                    IN  ExtractPath(run.prev,
                                    NearestExit(run.dist, ExitsOf(Graph), ShelterThreshold))
    IN  {path \in {Path(id) : id \in Origins} : Len(path) > 1}

----------------------------------------------------------------------------
\* A route leads from a node that reported to an exit, and uses no edge of which both
\* ends have reported and one reported a flame.  (An edge is not blocked by a flame
\* whose neighbour has not reported: there the route may pass the fire.)
RoutesAvoidFire ==
    \A p \in ComputeRoutes :
        /\ p[1] \in DOMAIN nodeStates /\ p[Len(p)] \in ExitsOf(Graph)
        /\ \A i \in 1 .. Len(p) - 1 :
             /\ <<p[i], p[i + 1]>> \in Links(Graph)
             /\ {p[i], p[i + 1]} \subseteq DOMAIN nodeStates =>
                    ~ nodeStates[p[i]].flameDetected /\ ~ nodeStates[p[i + 1]].flameDetected
=============================================================================
