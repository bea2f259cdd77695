------------------------------- MODULE Paths -------------------------------
(***************************************************************************)
(* Dijkstra's algorithm and the walks back along prev, as functions, the   *)
(* way the backend has them twice (engine.py, mqtt_bridge.py).  cost gives *)
(* the cost of each link, a pair of nodes.  Routing has the algorithm as   *)
(* steps, with any choice among equals; here the choice is some fixed one. *)
(***************************************************************************)
EXTENDS Integers, Sequences, FiniteSets, FiniteSetsExt

Infinity == 2000000000
Nowhere  == <<"none">>

\* One round: the nearest unvisited node u is visited, its neighbours are relaxed.
\* When none that is left can be reached, the loop is left.
Round(cost, s) ==
    LET nearest == {u \in s.left : /\ s.dist[u] < Infinity
                                   /\ \A v \in s.left : s.dist[u] <= s.dist[v]}
        u       == CHOOSE u \in nearest : TRUE
        near    == {v \in s.left \ {u} : /\ <<u, v>> \in DOMAIN cost
                                         /\ s.dist[u] + cost[<<u, v>>] < s.dist[v]}
    IN  IF nearest = {} THEN s
        ELSE [left |-> s.left \ {u},
              dist |-> [v \in DOMAIN s.dist |-> IF v \in near THEN s.dist[u] + cost[<<u, v>>]
                                                ELSE s.dist[v]],
              prev |-> [v \in DOMAIN s.prev |-> IF v \in near THEN u ELSE s.prev[v]]]

\* No more rounds than there are nodes.
Dijkstra(nodes, cost, source) ==
    LET after[k \in 0 .. Cardinality(nodes)] ==
            IF k = 0
            THEN [left |-> nodes,
                  dist |-> [v \in nodes |-> IF v = source THEN 0 ELSE Infinity],
                  prev |-> [v \in nodes |-> Nowhere]]
            ELSE Round(cost, after[k - 1])
    IN  after[Cardinality(nodes)]

\* An exit with the least distance, if that is below the threshold.
NearestExit(dist, exits, threshold) ==
    LET best == {x \in exits : dist[x] < threshold /\ \A y \in exits : dist[x] <= dist[y]}
    IN  IF best = {} THEN Nowhere ELSE CHOOSE x \in best : TRUE

\* A node, its predecessor, and so on; Nowhere from the end of the chain on.
Back(prev, target) ==
    LET back[k \in 0 .. Cardinality(DOMAIN prev)] ==
            IF k = 0 THEN target
            ELSE IF back[k - 1] = Nowhere THEN Nowhere ELSE prev[back[k - 1]]
    IN  back

\* The predecessor chain of a node, from where it starts.
ExtractPath(prev, target) ==
    LET back == Back(prev, target)
        n    == Cardinality({k \in DOMAIN back : back[k] # Nowhere})
    IN  [i \in 1 .. n |-> back[n - i]]

\* The first hop from source on the chain that ends in target.
NextHop(prev, source, target) ==
    LET back == Back(prev, target)
        hops == {k \in DOMAIN back : back[k] # Nowhere /\ prev[back[k]] = source}
    IN  IF hops = {} THEN Nowhere ELSE back[Min(hops)]
=============================================================================
