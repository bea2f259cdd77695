------------------------------ MODULE Routing ------------------------------
(***************************************************************************)
(* Dijkstra's algorithm over the building graph, weighted by what is known *)
(* of the hazards, and the choice of the next hop.  The repository has it  *)
(* twice: routing_compute of firmware/src/routing.cpp, which a node runs   *)
(* on its link-state table, and _dijkstra and compute_next_hop of          *)
(* backend/engine.py, which the digital twin runs for every node on its    *)
(* simulated hazards.  They differ in which edges a flame blocks, in the   *)
(* weights, and in what they do at an exit.  One step is one iteration of  *)
(* a loop of the code.                                                     *)
(*                                                                         *)
(* The table is what the run reads of a node: the level of temperature,    *)
(* smoke and occupancy ("absent" for no entry), whether it burns, and, in  *)
(* the engine, whether its sensors work.  Edge costs are integers (the     *)
(* code's doubles times two).  A node is in the domain of dist when its    *)
(* distance is not infinite.  Where the code takes the first of several    *)
(* minima, in the order of its arrays, any is taken.                       *)
(***************************************************************************)
EXTENDS Integers, Sequences, FiniteSets, Functions

CONSTANTS Node,       \* node ids of the building graph; 0 is none of them
          Exits,      \* the nodes with is_exit
          Edges,      \* [from, to, base], the graph's edges
          Factor,     \* cost per unit of distance for each level of the node left
          Block,      \* BLOCK_MULTIPLIER
          Threshold,  \* SHELTER_THRESHOLD
          Owners,     \* the ids of nodes that route, in the graph or not
          Tables      \* for each rule, the tables a run may read

Rules == {"firmware", "engine"}

Joins(e, u, v) == {e.from, e.to} = {u, v}

ASSUME RoutingAssumption ==
    /\ 0 \notin Node /\ IsFiniteSet(Node)
    /\ Exits \subseteq Node
    /\ \A e \in Edges : /\ e.from \in Node /\ e.to \in Node /\ e.from # e.to
                        /\ e.base \in Nat \ {0}
    /\ \A e, f \in Edges : {e.from, e.to} = {f.from, f.to} => e = f
    /\ Block \in Nat \ {0}
    /\ Threshold \in Nat \ {0}
    /\ \A l \in DOMAIN Factor : Factor[l] \in Nat \ {0}
    /\ \A r \in Rules : \A t \in Tables[r] :
         /\ DOMAIN t = Node
         /\ \A n \in Node : /\ t[n].level \in DOMAIN Factor
                            /\ t[n].flame \in BOOLEAN /\ t[n].sighted \in BOOLEAN

\* One flame on a path costs more than sheltering.
ASSUME BlockAssumption == \A e \in Edges : Block * e.base >= Threshold

\* No path without a flame does, whatever else is known of its nodes.
ASSUME CalmAssumption ==
    \A l \in DOMAIN Factor : \A e \in Edges :
        Cardinality(Node) * (Factor[l] * e.base) < Threshold

VARIABLES
    rule,      \* whose code runs
    own,       \* own_id, source_id
    table,     \* what is known of the nodes
    dist, visited, prev,
    pc,        \* "relax", "walk" or "done"
    walk,      \* the walk back from the nearest exit
    route,     \* ghost: the nodes the walk has passed, walk included
    next_hop, shelter_in_place   \* the result

vars == <<rule, own, table, dist, visited, prev, pc, walk, route, next_hop, shelter_in_place>>

Adjacent(u, v) == \E e \in Edges : Joins(e, u, v)
Base(u, v)     == (CHOOSE e \in Edges : Joins(e, u, v)).base
Near(u)        == {v \in Node : Adjacent(u, v)}

\* A flame blocks the edge from u to v.  The firmware looks at the node that is
\* entered; the engine at both, if the sensors of either work.
Blocked(u, v) ==
    IF rule = "firmware" THEN table[v].flame
    ELSE /\ table[u].flame \/ table[v].flame
         /\ table[u].sighted \/ table[v].sighted

\* The cost per unit of distance from u to v: of the node that is left, or, in
\* the engine, of the worse of the two.
Unit(u, v) ==
    LET here  == Factor[table[u].level]
        there == Factor[table[v].level]
    IN  IF rule = "engine" /\ there > here THEN there ELSE here

\* Mutants of Weight: the flame of the node that is left is looked at; no flame
\* is looked at.
WeightFlameBehind(u, v) ==
    IF table[u].flame THEN Block * Base(u, v) ELSE Unit(u, v) * Base(u, v)
WeightNoFlame(u, v) == Unit(u, v) * Base(u, v)

\* The firmware's cost of a blocked edge is BLOCK_MULTIPLIER times its length;
\* the engine multiplies the whole cost.
Weight(u, v) ==
    IF ~ Blocked(u, v)     THEN Unit(u, v) * Base(u, v)
    ELSE IF rule = "firmware" THEN Block * Base(u, v)
    ELSE Block * (Unit(u, v) * Base(u, v))

\* The engine does not search from an exit.
Searches == own \in Node /\ (rule = "engine" => own \notin Exits)

Init ==
    /\ rule \in Rules
    /\ own \in Owners
    /\ table \in Tables[rule]
    /\ dist = [v \in {own} |-> 0]
    /\ visited = {}
    /\ prev = [v \in Node |-> 0]
    /\ pc = "relax"
    /\ walk = 0
    /\ route = {}
    /\ next_hop = 0
    /\ shelter_in_place = FALSE

Reached  == DOMAIN dist
Frontier == Reached \ visited

\* The nodes of S no other node of S is closer than.
Closest(S) == {u \in S : \A v \in S : dist[u] <= dist[v]}

\* own_id is not in the graph, or the engine stands at an exit: the run returns
\* at once.
NoSearch ==
    /\ pc = "relax"
    /\ ~ Searches
    /\ pc' = "done"
    /\ UNCHANGED <<rule, own, table, dist, visited, prev, walk, route, next_hop,
                   shelter_in_place>>

\* Neighbour v of u is relaxed: it is not final, and u is a shorter way to it.
Improves(u, v) ==
    /\ v \in Near(u) \ (visited \cup {u})
    /\ v \notin Reached \/ dist[u] + Weight(u, v) < dist[v]

\* Mutant: the frontier is taken in any order.
RelaxAny ==
    /\ pc = "relax"
    /\ Searches
    /\ \E u \in Frontier :
         /\ visited' = visited \cup {u}
         /\ dist' = [v \in Reached \cup {w \in Node : Improves(u, w)} |->
                        IF Improves(u, v) THEN dist[u] + Weight(u, v) ELSE dist[v]]
         /\ prev' = [v \in Node |-> IF Improves(u, v) THEN u ELSE prev[v]]
    /\ UNCHANGED <<rule, own, table, pc, walk, route, next_hop, shelter_in_place>>

\* One iteration: the closest node that is not final becomes final and its
\* neighbours are relaxed.
Relax ==
    /\ pc = "relax"
    /\ Searches
    /\ \E u \in Closest(Frontier) :
         /\ visited' = visited \cup {u}
         /\ dist' = [v \in Reached \cup {w \in Node : Improves(u, w)} |->
                        IF Improves(u, v) THEN dist[u] + Weight(u, v) ELSE dist[v]]
         /\ prev' = [v \in Node |-> IF Improves(u, v) THEN u ELSE prev[v]]
    /\ UNCHANGED <<rule, own, table, pc, walk, route, next_hop, shelter_in_place>>

NearestExits == Closest(Exits \cap Reached)

\* No exit under the threshold: shelter in place.  (The engine then says that
\* there is no nearest exit, and so no next hop.)
Shelter ==
    /\ pc = "relax"
    /\ Searches
    /\ Frontier = {}
    /\ \A x \in NearestExits : dist[x] >= Threshold
    /\ shelter_in_place' = TRUE
    /\ pc' = "done"
    /\ UNCHANGED <<rule, own, table, dist, visited, prev, walk, route, next_hop>>

\* The walk back along prev starts at the nearest exit.
StartWalk ==
    /\ pc = "relax"
    /\ Searches
    /\ Frontier = {}
    /\ \E x \in NearestExits :
         /\ dist[x] < Threshold
         /\ walk' = x
         /\ route' = {x}
    /\ pc' = "walk"
    /\ UNCHANGED <<rule, own, table, dist, visited, prev, next_hop, shelter_in_place>>

\* Mutant: the walk goes on past a node without prev.
WalkPast ==
    /\ pc = "walk"
    /\ prev[walk] # own
    /\ walk' = prev[walk]
    /\ route' = route \cup {prev[walk]}
    /\ UNCHANGED <<rule, own, table, dist, visited, prev, pc, next_hop, shelter_in_place>>

WalkBack ==
    /\ pc = "walk"
    /\ prev[walk] \notin {0, own}
    /\ walk' = prev[walk]
    /\ route' = route \cup {prev[walk]}
    /\ UNCHANGED <<rule, own, table, dist, visited, prev, pc, next_hop, shelter_in_place>>

\* Mutant: the walk ends where it starts.
FoundExit ==
    /\ pc = "walk"
    /\ prev[walk] # 0
    /\ next_hop' = walk
    /\ pc' = "done"
    /\ UNCHANGED <<rule, own, table, dist, visited, prev, walk, route, shelter_in_place>>

\* Mutant: the walk looks for the node itself, not for the one before it.
FoundLate ==
    /\ pc = "walk"
    /\ walk = own
    /\ next_hop' = walk
    /\ pc' = "done"
    /\ UNCHANGED <<rule, own, table, dist, visited, prev, walk, route, shelter_in_place>>

Found ==
    /\ pc = "walk"
    /\ prev[walk] = own
    /\ next_hop' = walk
    /\ pc' = "done"
    /\ UNCHANGED <<rule, own, table, dist, visited, prev, walk, route, shelter_in_place>>

\* The walk met a node without prev (the nearest exit is the node itself): the
\* next hop is the closest end of an edge that starts here, if there is one.
\* (The engine would give none; its walk never comes here.)
Fallback ==
    /\ pc = "walk"
    /\ prev[walk] = 0
    /\ LET ends == {e.to : e \in {f \in Edges : f.from = own}} \cap Reached
       IN  IF ends = {} \/ rule = "engine" THEN next_hop' = 0 ELSE next_hop' \in Closest(ends)
    /\ pc' = "done"
    /\ UNCHANGED <<rule, own, table, dist, visited, prev, walk, route, shelter_in_place>>

Next ==
    \/ NoSearch
    \/ Relax
    \/ Shelter
    \/ StartWalk
    \/ WalkBack
    \/ Found
    \/ Fallback

Spec == Init /\ [][Next]_vars /\ WF_vars(Next)

----------------------------------------------------------------------------
(* Properties.                                                             *)

TypeOK ==
    /\ rule \in Rules
    /\ own \in Owners
    /\ table \in Tables[rule]
    /\ Reached \subseteq Node \cup {own}
    /\ dist = [v \in Reached |-> dist[v]]
    /\ \A v \in Reached : dist[v] \in Nat
    /\ visited \subseteq Reached
    /\ prev \in [Node -> Node \cup {0}]
    /\ pc \in {"relax", "walk", "done"}
    /\ walk \in Node \cup {0}
    /\ pc = "walk" => walk # 0
    /\ route \subseteq Node
    /\ next_hop \in Node \cup {0}
    /\ shelter_in_place \in BOOLEAN

\* dist and prev certify each other at every iteration: final distances are
\* below the open ones, no edge out of a final node is a shortcut that was
\* missed, and every distance is that of the node it was reached from plus the
\* edge between them.  With an empty frontier this makes dist the shortest
\* distances.
Certificate ==
    own \in Node =>
        /\ own \in Reached /\ dist[own] = 0 /\ prev[own] = 0
        /\ \A v \in visited : \A w \in Frontier : dist[v] <= dist[w]
        /\ \A u \in visited : \A v \in Near(u) :
               v \in Reached /\ dist[v] <= dist[u] + Weight(u, v)
        /\ \A v \in Reached \ {own} :
               /\ prev[v] \in visited
               /\ v \in Near(prev[v])
               /\ dist[v] = dist[prev[v]] + Weight(prev[v], v)

\* The route a node settles on, down to the exit, has no edge that a flame
\* blocks, and starts at a neighbour.  (A node that is itself an exit is another
\* matter: the firmware's fallback gives it the nearest end of an edge that starts
\* at it, although test/firmware/test_dijkstra.cpp expects none; the engine gives
\* it none.)
RouteNotBurning ==
    pc = "done" /\ next_hop # 0 /\ own \notin Exits =>
        /\ next_hop \in route \cap Near(own)
        /\ \A v \in route : ~ Blocked(prev[v], v)

----------------------------------------------------------------------------
(* The right answer, by a definition that knows nothing of Dijkstra: the   *)
(* paths themselves.                                                       *)

\* The paths that pass no node twice.
Paths == {p \in UNION {Injection(1 .. n, Node) : n \in 1 .. Cardinality(Node)} :
             \A i \in 2 .. Len(p) : p[i] \in Near(p[i - 1])}

\* Those from u to an exit.
Escapes == [u \in Node |-> {p \in Paths : p[1] = u /\ p[Len(p)] \in Exits}]

Length(p) == LET sum[i \in 1 .. Len(p)] ==
                   IF i = 1 THEN 0 ELSE sum[i - 1] + Weight(p[i - 1], p[i])
             IN  sum[Len(p)]

\* The cost of the cheapest way from u to an exit, under the table of the run.
Cheapest(u) == CHOOSE c \in {Length(p) : p \in Escapes[u]} :
                   \A p \in Escapes[u] : c <= Length(p)

\* The exits the run finds are as far as the cheapest path to any exit costs, and
\* it finds none only where no path leads to one.
CostIsCheapest ==
    pc = "done" /\ Searches =>
        /\ NearestExits = {} => Escapes[own] = {}
        /\ \A x \in NearestExits : Escapes[own] # {} /\ dist[x] = Cheapest(own)

\* People are told to stay exactly when a flame blocks every way to an exit.
ShelterIffBlocked ==
    pc = "done" /\ Searches =>
        (shelter_in_place <=>
            \A p \in Escapes[own] : \E i \in 2 .. Len(p) : Blocked(p[i - 1], p[i]))

\* The next hop is the first step of a cheapest path, so that nodes with the
\* same table never send people round in a circle: each hop leaves the rest of
\* a cheapest path.
NextHopIsCheapest ==
    pc = "done" /\ next_hop # 0 /\ own \notin Exits =>
        /\ Escapes[next_hop] # {}
        /\ Cheapest(own) = Weight(own, next_hop) + Cheapest(next_hop)

\* A run ends.
Terminates == <>(pc = "done")
=============================================================================
