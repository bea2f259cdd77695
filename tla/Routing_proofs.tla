--------------------------- MODULE Routing_proofs ---------------------------
(***************************************************************************)
(* What routing_compute and the engine's _dijkstra promise for every       *)
(* graph, every table and every cost function.                             *)
(***************************************************************************)
EXTENDS Routing, RouteAnswer, Lemmas, FiniteSetTheorems, TLAPS

----------------------------------------------------------------------------
(* Edges and their costs.                                                  *)

\* Between neighbours there is an edge, the one Base looks up.
LEMMA BaseOK ==
    ASSUME NEW u \in Node, NEW v \in Near(u)
    PROVE  \E e \in Edges : Base(u, v) = e.base /\ e.base \in Nat \ {0}
<1>1. PICK f \in Edges : Joins(f, u, v)
  BY DEF Near, Adjacent
<1>2. (CHOOSE e \in Edges : Joins(e, u, v)) \in Edges
  BY <1>1
<1> QED
  BY <1>2, RoutingAssumption DEF Base

LEMMA ProductPositive ==
    ASSUME NEW a \in Nat \ {0}, NEW b \in Nat \ {0}
    PROVE  a * b \in Nat \ {0}
OBVIOUS

LEMMA ProductGrows ==
    ASSUME NEW a \in Nat \ {0}, NEW b \in Nat \ {0}
    PROVE  a * b >= b
OBVIOUS

LEMMA ProductMonotone ==
    ASSUME NEW a \in Nat, NEW b \in Nat, NEW c \in Nat, a <= b
    PROVE  a * c <= b * c
<1>1. b * c = a * c + (b - a) * c
  OBVIOUS
<1>2. (b - a) * c \in Nat /\ a * c \in Nat
  OBVIOUS
<1> QED
  BY <1>1, <1>2

\* Every edge costs something, and an edge a flame blocks costs at least the
\* threshold of sheltering.
LEMMA WeightOK ==
    ASSUME TypeOK, NEW u \in Node, NEW v \in Near(u)
    PROVE  /\ Weight(u, v) \in Nat \ {0}
           /\ Blocked(u, v) => Weight(u, v) >= Threshold
<1> DEFINE open    == Unit(u, v) * Base(u, v)
           blocked == Block * Base(u, v)
           both    == Block * open
<1>1. PICK e \in Edges : Base(u, v) = e.base /\ e.base \in Nat \ {0}
  BY BaseOK
<1>2. Block \in Nat \ {0} /\ blocked >= Threshold /\ Threshold \in Nat
  BY <1>1, RoutingAssumption, BlockAssumption
<1>3. Unit(u, v) \in Nat \ {0}
  BY RoutingAssumption DEF TypeOK, Unit, Near
<1>4. open \in Nat \ {0} /\ blocked \in Nat \ {0}
  BY <1>1, <1>2, <1>3, ProductPositive
<1>5. both \in Nat \ {0}
  BY <1>2, <1>4, ProductPositive
<1>6. both >= blocked
  <2>1. both = Unit(u, v) * blocked
    BY <1>1, <1>2, <1>3
  <2> QED
    BY <2>1, <1>3, <1>4, ProductGrows
<1>7. both >= Threshold
  BY <1>2, <1>4, <1>5, <1>6
<1>8. Weight(u, v) = IF ~ Blocked(u, v) THEN open
                     ELSE IF rule = "firmware" THEN blocked ELSE both
  BY DEF Weight
<1> HIDE DEF open, blocked, both
<1> QED
  BY <1>2, <1>4, <1>5, <1>7, <1>8

----------------------------------------------------------------------------
(* Type correctness and the certificate.                                   *)

\* What one iteration leaves behind, for the node u that becomes final.
LEMMA RelaxStep ==
    ASSUME Relax
    PROVE  \E u \in Closest(Frontier) :
             /\ visited' = visited \cup {u}
             /\ Reached' = Reached \cup {w \in Node : Improves(u, w)}
             /\ \A v \in Reached' :
                  dist'[v] = IF Improves(u, v) THEN dist[u] + Weight(u, v) ELSE dist[v]
             /\ dist' = [v \in Reached' |-> dist'[v]]
             /\ prev' = [v \in Node |-> IF Improves(u, v) THEN u ELSE prev[v]]
<1>1. PICK u \in Closest(Frontier) :
        /\ visited' = visited \cup {u}
        /\ dist' = [v \in Reached \cup {w \in Node : Improves(u, w)} |->
                       IF Improves(u, v) THEN dist[u] + Weight(u, v) ELSE dist[v]]
        /\ prev' = [v \in Node |-> IF Improves(u, v) THEN u ELSE prev[v]]
  BY DEF Relax
<1>2. Reached' = Reached \cup {w \in Node : Improves(u, w)}
  BY <1>1 DEF Reached
<1>3. \A v \in Reached' :
        dist'[v] = IF Improves(u, v) THEN dist[u] + Weight(u, v) ELSE dist[v]
  BY <1>1, <1>2
<1>4. dist' = [v \in Reached' |-> dist'[v]]
  BY <1>1, <1>2
<1> QED
  BY <1>1, <1>2, <1>3, <1>4

LEMMA InitOK == Init => TypeOK /\ Certificate
<1> SUFFICES ASSUME Init PROVE TypeOK /\ Certificate
  OBVIOUS
<1>1. Reached = {own} /\ dist[own] = 0 /\ dist = [v \in Reached |-> dist[v]]
  BY DEF Init, Reached
<1>2. TypeOK
  BY <1>1 DEF Init, TypeOK
<1>3. Certificate
  BY <1>1 DEF Init, Certificate, Frontier
<1> QED
  BY <1>2, <1>3

LEMMA NextTypeOK == TypeOK /\ [Next]_vars => TypeOK'
<1> SUFFICES ASSUME TypeOK, [Next]_vars PROVE TypeOK'
  OBVIOUS
<1> USE DEF TypeOK
<1>1. CASE NoSearch
  BY <1>1 DEF NoSearch, Reached
<1>2. CASE Relax
  <2>1. PICK u \in Closest(Frontier) :
             /\ visited' = visited \cup {u}
             /\ Reached' = Reached \cup {w \in Node : Improves(u, w)}
             /\ \A v \in Reached' :
                  dist'[v] = IF Improves(u, v) THEN dist[u] + Weight(u, v) ELSE dist[v]
             /\ dist' = [v \in Reached' |-> dist'[v]]
             /\ prev' = [v \in Node |-> IF Improves(u, v) THEN u ELSE prev[v]]
    BY <1>2, RelaxStep
  <2>2. u \in Reached /\ u \in Node /\ dist[u] \in Nat
    BY <1>2 DEF Closest, Frontier, Relax, Searches
  <2>3. \A v \in Reached' : dist'[v] \in Nat
    <3>1. ASSUME NEW v \in Reached', Improves(u, v) PROVE dist[u] + Weight(u, v) \in Nat
      BY <2>2, <3>1, WeightOK DEF Improves
    <3> QED
      BY <2>1, <3>1
  <2>4. prev' \in [Node -> Node \cup {0}]
    BY <2>1, <2>2
  <2>5. Reached' \subseteq Node \cup {own'} /\ visited' \subseteq Reached'
    BY <1>2, <2>1, <2>2 DEF Relax
  <2> QED
    BY <1>2, <2>1, <2>3, <2>4, <2>5 DEF Relax
<1>3. CASE Shelter
  BY <1>3 DEF Shelter, Reached
<1>4. CASE StartWalk
  BY <1>4, RoutingAssumption DEF StartWalk, Reached, NearestExits, Closest
<1>5. CASE WalkBack
  <2>1. walk \in Node
    BY <1>5 DEF WalkBack
  <2> QED
    BY <1>5, <2>1 DEF WalkBack, Reached
<1>6. CASE Found
  BY <1>6 DEF Found, Reached
<1>7. CASE Fallback
  <2>1. next_hop' \in Node \cup {0}
    BY <1>7, RoutingAssumption DEF Fallback, Closest
  <2> QED
    BY <1>7, <2>1 DEF Fallback, Reached
<1>8. CASE UNCHANGED vars
  BY <1>8 DEF vars, Reached
<1> QED
  BY <1>1, <1>2, <1>3, <1>4, <1>5, <1>6, <1>7, <1>8 DEF Next

\* The run's variables keep their types: distances are finite where they exist,
\* and predecessors are nodes of the graph.
THEOREM RoutingTypeCorrect == Spec => []TypeOK
<1>1. Init => TypeOK
  BY InitOK
<1> QED
  BY <1>1, NextTypeOK, PTL DEF Spec

\* One iteration keeps the certificate.
LEMMA RelaxCertificate ==
    ASSUME TypeOK, TypeOK', Certificate, Relax
    PROVE  Certificate'
<1>1. PICK u \in Closest(Frontier) :
        /\ visited' = visited \cup {u}
        /\ Reached' = Reached \cup {w \in Node : Improves(u, w)}
        /\ \A v \in Reached' :
             dist'[v] = IF Improves(u, v) THEN dist[u] + Weight(u, v) ELSE dist[v]
        /\ prev' = [v \in Node |-> IF Improves(u, v) THEN u ELSE prev[v]]
  BY RelaxStep
<1>2. own \in Node /\ own' = own /\ table' = table /\ rule' = rule
  BY DEF Relax, Searches
<1>3. /\ u \in Reached /\ u \notin visited /\ u \in Node
      /\ \A w \in Frontier : dist[u] <= dist[w]
  BY <1>2 DEF Closest, Frontier, TypeOK
<1>4. /\ \A v \in Reached : dist[v] \in Nat /\ v \in Node
      /\ \A v \in Reached' : dist'[v] \in Nat
      /\ visited \subseteq Reached
  BY <1>2 DEF TypeOK
<1>5. \A a \in Node : \A b \in Near(a) : Weight(a, b) \in Nat \ {0} /\ Weight(a, b)' = Weight(a, b)
  BY <1>2, WeightOK DEF Weight, Blocked, Unit
<1>6. /\ own \in Reached /\ dist[own] = 0 /\ prev[own] = 0
      /\ \A v \in visited : \A w \in Frontier : dist[v] <= dist[w]
      /\ \A a \in visited : \A v \in Near(a) : v \in Reached /\ dist[v] <= dist[a] + Weight(a, v)
      /\ \A v \in Reached \ {own} :
             /\ prev[v] \in visited
             /\ v \in Near(prev[v])
             /\ dist[v] = dist[prev[v]] + Weight(prev[v], v)
  BY <1>2 DEF Certificate
\* Nodes that were final, and u itself, keep their distance; an improved
\* distance is not below that of u.
<1>7. \A v \in visited \cup {u} : ~ Improves(u, v) /\ dist'[v] = dist[v]
  BY <1>1, <1>3, <1>4 DEF Improves
<1>8. \A v \in visited : dist[v] <= dist[u]
  BY <1>3, <1>6 DEF Frontier
<1>9. ~ Improves(u, own)
  BY <1>3, <1>4, <1>5, <1>6, <1>7 DEF Improves
<1>10. own \in Reached' /\ dist'[own] = 0 /\ prev'[own] = 0
  BY <1>1, <1>2, <1>6, <1>9
<1>11. ASSUME NEW v \in visited', NEW w \in Frontier' PROVE dist'[v] <= dist'[w]
  <2>1. dist'[v] = dist[v] /\ dist[v] <= dist[u] /\ dist[v] \in Nat /\ dist[u] \in Nat
    BY <1>1, <1>3, <1>4, <1>7, <1>8
  <2>2. dist[u] <= dist'[w]
    <3>1. CASE Improves(u, w)
      <4>1. dist'[w] = dist[u] + Weight(u, w) /\ Weight(u, w) \in Nat
        BY <1>1, <1>3, <1>5, <3>1 DEF Improves, Frontier
      <4> QED
        BY <2>1, <4>1
    <3>2. CASE ~ Improves(u, w)
      <4>1. w \in Frontier /\ dist'[w] = dist[w]
        BY <1>1, <3>2 DEF Frontier
      <4> QED
        BY <1>3, <4>1
    <3> QED
      BY <3>1, <3>2
  <2>3. dist'[w] \in Nat
    BY <1>4 DEF Frontier
  <2> QED
    BY <2>1, <2>2, <2>3
<1>12. ASSUME NEW a \in visited', NEW v \in Near(a)
       PROVE  v \in Reached' /\ dist'[v] <= dist'[a] + Weight(a, v)
  <2>1. a \in Node /\ dist'[a] = dist[a] /\ dist[a] \in Nat /\ Weight(a, v) \in Nat \ {0}
    BY <1>1, <1>3, <1>4, <1>5, <1>7
  <2>2. CASE a \in visited
    <3>1. v \in Reached /\ dist[v] <= dist[a] + Weight(a, v)
      BY <1>6, <2>2
    <3>2. dist'[v] <= dist[v]
      <4>1. CASE Improves(u, v)
        <5>1. dist'[v] = dist[u] + Weight(u, v) /\ dist[u] + Weight(u, v) < dist[v]
          BY <1>1, <3>1, <4>1 DEF Improves
        <5>2. dist[u] \in Nat /\ Weight(u, v) \in Nat /\ dist[v] \in Nat
          BY <1>3, <1>4, <1>5, <3>1, <4>1 DEF Improves
        <5> QED
          BY <5>1, <5>2
      <4>2. CASE ~ Improves(u, v)
        BY <1>1, <1>4, <3>1, <4>2
      <4> QED
        BY <4>1, <4>2
    <3>3. v \in Reached' /\ dist'[v] \in Nat /\ dist[v] \in Nat
      BY <1>1, <1>4, <3>1
    <3> QED
      BY <2>1, <3>1, <3>2, <3>3
  <2>3. CASE a = u
    <3>1. CASE Improves(u, v)
      <4>1. v \in Reached' /\ dist'[v] = dist[u] + Weight(u, v)
        BY <1>1, <3>1 DEF Improves, Near
      <4> QED
        BY <2>1, <2>3, <4>1
    <3>2. CASE ~ Improves(u, v) /\ v \in visited \cup {u}
      <4>1. dist'[v] = dist[v] /\ dist[v] <= dist[u] /\ v \in Reached
        BY <1>3, <1>4, <1>7, <1>8, <3>2
      <4>2. v \in Reached' /\ dist[v] \in Nat
        BY <1>1, <1>4, <4>1
      <4> QED
        BY <2>1, <2>3, <4>1, <4>2
    <3>3. CASE ~ Improves(u, v) /\ v \notin visited \cup {u}
      <4>1. v \in Reached /\ ~ (dist[u] + Weight(u, v) < dist[v])
        BY <2>3, <3>3 DEF Improves
      <4>2. dist'[v] = dist[v] /\ v \in Reached' /\ dist[v] \in Nat
        BY <1>1, <1>4, <3>3, <4>1
      <4> QED
        BY <2>1, <2>3, <4>1, <4>2
    <3> QED
      BY <3>1, <3>2, <3>3
  <2> QED
    BY <1>1, <2>2, <2>3
<1>13. ASSUME NEW v \in Reached' \ {own}
       PROVE  /\ prev'[v] \in visited'
              /\ v \in Near(prev'[v])
              /\ dist'[v] = dist'[prev'[v]] + Weight(prev'[v], v)
  <2>1. v \in Node
    BY <1>1, <1>4
  <2>2. CASE Improves(u, v)
    BY <1>1, <1>7, <2>1, <2>2 DEF Improves
  <2>3. CASE ~ Improves(u, v)
    <3>1. v \in Reached \ {own} /\ prev'[v] = prev[v] /\ dist'[v] = dist[v]
      BY <1>1, <2>1, <2>3
    <3>2. prev[v] \in visited /\ dist'[prev[v]] = dist[prev[v]]
      BY <1>6, <1>7, <3>1
    <3> QED
      BY <1>1, <1>6, <3>1, <3>2
  <2> QED
    BY <2>2, <2>3
<1>14. \A a \in visited' : \A v \in Near(a) : Weight(a, v)' = Weight(a, v)
  BY <1>1, <1>3, <1>4, <1>5
<1>15. \A v \in Reached' \ {own} : Weight(prev[v], v)' = Weight(prev'[v], v)
  BY <1>2 DEF Weight, Blocked, Unit
<1> QED
  BY <1>2, <1>10, <1>11, <1>12, <1>13, <1>14, <1>15 DEF Certificate

LEMMA NextCertificate == TypeOK /\ Certificate /\ [Next]_vars => Certificate'
<1> SUFFICES ASSUME TypeOK, Certificate, [Next]_vars PROVE Certificate'
  OBVIOUS
<1>1. TypeOK'
  BY NextTypeOK
<1>2. CASE Relax
  BY <1>1, <1>2, RelaxCertificate
<1>3. CASE UNCHANGED <<rule, own, table, dist, visited, prev>>
  BY <1>3 DEF Certificate, Frontier, Reached, Weight, Blocked, Unit
<1>4. ~ Relax => UNCHANGED <<rule, own, table, dist, visited, prev>>
  BY DEF Next, NoSearch, Shelter, StartWalk, WalkBack, Found, Fallback, vars
<1> QED
  BY <1>2, <1>3, <1>4

\* At every iteration of the search, whatever the graph, the costs and the
\* order in which equally distant nodes are taken, dist and prev certify each
\* other.
THEOREM DistancesAreCertified == Spec => []Certificate
<1>1. Init => TypeOK /\ Certificate
  BY InitOK
<1>2. TypeOK /\ Certificate /\ [Next]_vars => (TypeOK /\ Certificate)'
  BY NextTypeOK, NextCertificate
<1>3. [](TypeOK /\ Certificate) => []Certificate
  BY PTL
<1> QED
  BY <1>1, <1>2, <1>3, PTL DEF Spec

----------------------------------------------------------------------------
(* The walk back from the exit.                                            *)

\* A node reached over a blocked edge is as far as sheltering.
LEMMA FlamesAreFar ==
    ASSUME TypeOK, Certificate, own \in Node
    PROVE  \A v \in Reached \ {own} : Blocked(prev[v], v) => dist[v] >= Threshold
<1> SUFFICES ASSUME NEW v \in Reached \ {own}, Blocked(prev[v], v)
             PROVE  dist[v] >= Threshold
  OBVIOUS
<1>1. /\ prev[v] \in visited
      /\ v \in Near(prev[v])
      /\ dist[v] = dist[prev[v]] + Weight(prev[v], v)
  BY DEF Certificate
<1>2. prev[v] \in Node /\ dist[prev[v]] \in Nat
  BY <1>1 DEF TypeOK
<1>3. Weight(prev[v], v) \in Nat /\ Weight(prev[v], v) >= Threshold
  BY <1>1, <1>2, WeightOK
<1>4. Threshold \in Nat
  BY RoutingAssumption
<1> QED
  BY <1>1, <1>2, <1>3, <1>4

\* What the walk keeps: it has passed only nodes cheaper than sheltering, and
\* not the node it is for, unless that node is an exit.
Walking ==
    /\ pc # "done" => next_hop = 0
    /\ pc = "walk" =>
         /\ own \in Node
         /\ walk \in route
         /\ \A v \in route : v \in Reached /\ dist[v] < Threshold
         /\ own \in route => own \in Exits

LEMMA StartWalking ==
    ASSUME TypeOK, Walking, StartWalk
    PROVE  Walking'
<1>1. PICK x \in NearestExits : dist[x] < Threshold /\ walk' = x /\ route' = {x}
  BY DEF StartWalk
<1>2. x \in Exits /\ x \in Reached
  BY <1>1 DEF NearestExits, Closest
<1>3. own' = own /\ own \in Node /\ Reached' = Reached /\ dist' = dist /\ next_hop' = 0
  BY DEF StartWalk, Searches, Reached, Walking
<1> QED
  BY <1>1, <1>2, <1>3 DEF Walking

\* Where the walk stands, the node before it is nearer to the start, and there
\* is none only at the start.
LEMMA NodeBefore ==
    ASSUME TypeOK, Certificate, Walking, pc = "walk"
    PROVE  /\ prev[walk] = 0 => walk = own
           /\ prev[walk] # 0 =>
                /\ walk # own
                /\ walk \in Near(prev[walk])
                /\ prev[walk] \in Reached
                /\ dist[prev[walk]] < Threshold
<1>1. walk \in Reached /\ dist[walk] < Threshold /\ dist[walk] \in Nat /\ own \in Node
  BY DEF Walking, TypeOK
<1>2. prev[own] = 0
  BY <1>1 DEF Certificate
<1>3. ASSUME walk # own
      PROVE  /\ prev[walk] # 0 /\ walk \in Near(prev[walk]) /\ prev[walk] \in Reached
             /\ dist[prev[walk]] < Threshold
  <2>1. /\ prev[walk] \in visited
        /\ walk \in Near(prev[walk])
        /\ dist[walk] = dist[prev[walk]] + Weight(prev[walk], walk)
    BY <1>1, <1>3 DEF Certificate
  <2>2. prev[walk] \in Node /\ prev[walk] \in Reached /\ dist[prev[walk]] \in Nat
    BY <1>1, <2>1 DEF TypeOK
  <2>3. Weight(prev[walk], walk) \in Nat
    BY <2>1, <2>2, WeightOK
  <2>4. Threshold \in Nat /\ 0 \notin Node
    BY RoutingAssumption
  <2>5. dist[prev[walk]] < Threshold
    BY <1>1, <2>1, <2>2, <2>3, <2>4
  <2> QED
    BY <2>1, <2>2, <2>4, <2>5
<1> QED
  BY <1>2, <1>3

LEMMA NextWalking ==
    ASSUME TypeOK, Certificate, Walking, RouteNotBurning, [Next]_vars
    PROVE  Walking' /\ RouteNotBurning'
<1>1. CASE NoSearch
  BY <1>1 DEF NoSearch, Walking, RouteNotBurning
<1>2. CASE Relax
  BY <1>2 DEF Relax, Walking, RouteNotBurning
<1>3. CASE Shelter
  BY <1>3 DEF Shelter, Walking, RouteNotBurning
<1>4. CASE StartWalk
  <2>1. RouteNotBurning'
    BY <1>4 DEF StartWalk, RouteNotBurning
  <2> QED
    BY <1>4, <2>1, StartWalking
<1>5. CASE WalkBack
  <2>1. prev[walk] \in Reached /\ dist[prev[walk]] < Threshold /\ prev[walk] # own
    BY <1>5, NodeBefore DEF WalkBack
  <2> QED
    BY <1>5, <2>1 DEF WalkBack, Walking, RouteNotBurning, Reached
<1>6. CASE Found
  <2>1. Walking'
    BY <1>6 DEF Found, Walking
  <2>2. own \in Node /\ walk \in route /\ walk \in Near(own)
    BY <1>6, NodeBefore, RoutingAssumption DEF Found, Walking
  <2>3. ASSUME own \notin Exits, NEW v \in route PROVE ~ Blocked(prev[v], v)
    <3>1. v \in Reached \ {own} /\ dist[v] < Threshold /\ dist[v] \in Nat
      BY <1>6, <2>3 DEF Found, Walking, TypeOK
    <3>2. Blocked(prev[v], v) => dist[v] >= Threshold
      BY <2>2, <3>1, FlamesAreFar
    <3>3. Threshold \in Nat
      BY RoutingAssumption
    <3>4. ~ (dist[v] >= Threshold)
      BY <3>1, <3>3
    <3> QED
      BY <3>2, <3>4
  <2>4. /\ own' = own /\ route' = route /\ next_hop' = walk
        /\ \A v \in route : Blocked(prev[v], v)' = Blocked(prev[v], v)
    BY <1>6 DEF Found, Blocked
  <2>5. RouteNotBurning'
    BY <2>2, <2>3, <2>4 DEF RouteNotBurning
  <2> QED
    BY <2>1, <2>5
<1>7. CASE Fallback
  <2>1. own \in Exits /\ own' = own /\ pc' = "done"
    BY <1>7, NodeBefore DEF Fallback, Walking
  <2> QED
    BY <2>1 DEF Walking, RouteNotBurning
<1>8. CASE UNCHANGED vars
  BY <1>8 DEF vars, Walking, RouteNotBurning, Reached, Blocked
<1> QED
  BY <1>1, <1>2, <1>3, <1>4, <1>5, <1>6, <1>7, <1>8 DEF Next

\* The route a run settles on has no blocked edge, by the firmware's rule or by
\* the engine's: a node behind one is at least the threshold away, and the walk
\* passes only nodes below it.
THEOREM RoutesDoNotBurn == Spec => []RouteNotBurning
<1> DEFINE IInv == TypeOK /\ Certificate /\ Walking /\ RouteNotBurning
<1>1. Init => IInv
  BY InitOK DEF Init, Walking, RouteNotBurning
<1>2. IInv /\ [Next]_vars => IInv'
  BY NextTypeOK, NextCertificate, NextWalking
<1>3. IInv => RouteNotBurning
  OBVIOUS
<1> HIDE DEF IInv
<1> QED
  BY <1>1, <1>2, <1>3, PTL DEF Spec

----------------------------------------------------------------------------
(* Walks through the building and their costs.                             *)

\* A walk may pass a node twice.
IsWalk(p) == /\ p \in Seq(Node) /\ Len(p) >= 1
             /\ \A i \in 2 .. Len(p) : p[i] \in Near(p[i - 1])

\* c[i] is the cost of p down to its i-th node, for the first n of them.
IsCost(c, p, n) ==
    c = [i \in 1 .. n |-> IF i = 1 THEN 0 ELSE c[i - 1] + Weight(p[i - 1], p[i])]

LEMMA StepWeight ==
    ASSUME TypeOK, NEW p, IsWalk(p), NEW i \in 2 .. Len(p)
    PROVE  Weight(p[i - 1], p[i]) \in Nat \ {0}
<1>1. p[i - 1] \in Node /\ p[i] \in Near(p[i - 1])
  BY DEF IsWalk
<1> QED
  BY <1>1, WeightOK

\* The recursive function in Length exists.
LEMMA CostsExist ==
    ASSUME TypeOK, NEW p, IsWalk(p)
    PROVE  \E c \in [1 .. Len(p) -> Nat] : IsCost(c, p, Len(p))
<1> DEFINE T == {n \in Nat : \E c \in [1 .. n -> Nat] : IsCost(c, p, n)}
<1>1. Len(p) \in Nat /\ Len(p) >= 1
  BY DEF IsWalk
<1>2. 1 \in T
  <2> DEFINE c == [i \in 1 .. 1 |-> 0]
  <2>1. c \in [1 .. 1 -> Nat] /\ IsCost(c, p, 1)
    BY DEF IsCost
  <2> HIDE DEF c
  <2> QED
    BY <2>1
<1>3. ASSUME NEW n \in 1 .. Len(p) - 1, n \in T PROVE n + 1 \in T
  <2>1. PICK c \in [1 .. n -> Nat] : IsCost(c, p, n)
    BY <1>3
  <2> DEFINE w == Weight(p[n], p[n + 1])
             d == [i \in 1 .. n + 1 |-> IF i = n + 1 THEN c[n] + w ELSE c[i]]
  <2>2. w \in Nat
    <3>1. n + 1 \in 2 .. Len(p) /\ (n + 1) - 1 = n
      OBVIOUS
    <3> QED
      BY <3>1, StepWeight
  <2>3. c[n] \in Nat
    OBVIOUS
  <2>4. d \in [1 .. n + 1 -> Nat]
    <3> HIDE DEF w
    <3> QED
      BY <2>2, <2>3
  <2>5. ASSUME NEW i \in 1 .. n + 1
        PROVE  d[i] = IF i = 1 THEN 0 ELSE d[i - 1] + Weight(p[i - 1], p[i])
    <3>1. CASE i = n + 1
      BY <3>1
    <3>2. CASE i # n + 1
      <4>1. c[i] = IF i = 1 THEN 0 ELSE c[i - 1] + Weight(p[i - 1], p[i])
        BY <2>1, <3>2 DEF IsCost
      <4> QED
        BY <3>2, <4>1
    <3> QED
      BY <3>1, <3>2
  <2>6. IsCost(d, p, n + 1)
    <3>1. d = [i \in 1 .. n + 1 |-> d[i]]
      BY <2>4
    <3> HIDE DEF d
    <3> QED
      BY <2>5, <3>1 DEF IsCost
  <2> HIDE DEF d
  <2> QED
    BY <2>4, <2>6
<1>4. Len(p) \in 1 .. Len(p) /\ 1 .. Len(p) \subseteq T
  <2> HIDE DEF T
  <2> QED
    BY <1>1, <1>2, <1>3, UpTo
<1> QED
  BY <1>4

\* What Length is, without recursion.
LEMMA LengthIs ==
    ASSUME TypeOK, NEW p, IsWalk(p)
    PROVE  \E c \in [1 .. Len(p) -> Nat] :
             /\ c[1] = 0
             /\ \A i \in 2 .. Len(p) : c[i] = c[i - 1] + Weight(p[i - 1], p[i])
             /\ Length(p) = c[Len(p)]
<1> DEFINE c == CHOOSE f : IsCost(f, p, Len(p))
<1>1. IsCost(c, p, Len(p))
  BY CostsExist
<1>2. Length(p) = c[Len(p)]
  BY DEF Length, IsCost
<1>3. Len(p) \in Nat /\ Len(p) >= 1
  BY DEF IsWalk
<1> HIDE DEF c
<1>4. /\ c[1] = 0
      /\ \A i \in 2 .. Len(p) : c[i] = c[i - 1] + Weight(p[i - 1], p[i])
      /\ c = [i \in 1 .. Len(p) |-> c[i]]
  BY <1>1, <1>3 DEF IsCost
<1>5. 1 .. Len(p) \subseteq {i \in 1 .. Len(p) : c[i] \in Nat}
  <2>1. ASSUME NEW i \in 1 .. Len(p) - 1, c[i] \in Nat PROVE c[i + 1] \in Nat
    <3>1. i + 1 \in 2 .. Len(p) /\ (i + 1) - 1 = i
      BY <1>3
    <3>2. Weight(p[i], p[i + 1]) \in Nat
      BY <3>1, StepWeight
    <3>3. c[i + 1] = c[i] + Weight(p[i], p[i + 1])
      BY <1>4, <3>1
    <3> QED
      BY <2>1, <3>2, <3>3
  <2> DEFINE T == {i \in 1 .. Len(p) : c[i] \in Nat}
  <2>2. \A i \in 1 .. Len(p) - 1 : i \in T => i + 1 \in T
    BY <1>3, <2>1
  <2>3. 1 \in T
    BY <1>3, <1>4
  <2> HIDE DEF T
  <2>4. 1 .. Len(p) \subseteq T
    BY <1>3, <2>2, <2>3, UpTo
  <2> QED
    BY <2>4 DEF T
<1>6. c \in [1 .. Len(p) -> Nat]
  BY <1>4, <1>5
<1> QED
  BY <1>2, <1>4, <1>6

LEMMA LengthNat ==
    ASSUME TypeOK, NEW p, IsWalk(p)
    PROVE  Length(p) \in Nat
<1>1. Len(p) \in 1 .. Len(p)
  BY DEF IsWalk
<1> QED
  BY <1>1, LengthIs

----------------------------------------------------------------------------
(* The certified distances are those of the paths.                         *)

\* The search is over and every distance is final.
Searched == own \in Node /\ Frontier = {}

\* No walk from the start is shorter than the distance of where it ends: of the
\* places where it might be there would be a first one.
LEMMA NoWalkIsShorter ==
    ASSUME TypeOK, Certificate, Searched, NEW p, IsWalk(p), p[1] = own
    PROVE  p[Len(p)] \in Reached /\ dist[p[Len(p)]] <= Length(p)
<1>1. PICK c \in [1 .. Len(p) -> Nat] :
        /\ c[1] = 0
        /\ \A i \in 2 .. Len(p) : c[i] = c[i - 1] + Weight(p[i - 1], p[i])
        /\ Length(p) = c[Len(p)]
  BY LengthIs
<1>2. Len(p) \in Nat /\ Len(p) >= 1
  BY DEF IsWalk
<1> DEFINE T == {i \in 1 .. Len(p) : p[i] \in Reached /\ dist[p[i]] <= c[i]}
<1>3. 1 \in T
  BY <1>1, <1>2 DEF Certificate, Searched
<1>4. ASSUME NEW i \in 1 .. Len(p) - 1, i \in T PROVE i + 1 \in T
  <2> DEFINE w == Weight(p[i], p[i + 1])
  <2>1. i + 1 \in 2 .. Len(p) /\ (i + 1) - 1 = i
    BY <1>2
  <2>2. p[i] \in visited /\ p[i + 1] \in Near(p[i])
    BY <1>4, <2>1 DEF Searched, Frontier, IsWalk
  <2>3. p[i + 1] \in Reached /\ dist[p[i + 1]] <= dist[p[i]] + w
    BY <2>2 DEF Certificate, Searched
  <2>4. w \in Nat /\ c[i + 1] = c[i] + w
    BY <1>1, <2>1, StepWeight
  <2>5. dist[p[i]] \in Nat /\ dist[p[i + 1]] \in Nat /\ c[i] \in Nat /\ dist[p[i]] <= c[i]
    BY <1>1, <1>4, <2>3 DEF TypeOK
  <2> HIDE DEF w
  <2>6. dist[p[i + 1]] <= c[i + 1]
    BY <2>3, <2>4, <2>5
  <2> QED
    BY <2>1, <2>3, <2>6
<1>5. 1 .. Len(p) \subseteq T
  <2> HIDE DEF T
  <2> QED
    BY <1>2, <1>3, <1>4, UpTo
<1> QED
  BY <1>1, <1>2, <1>5

\* A walk along prev, seen from its start.
IsTrail(p) ==
    /\ IsWalk(p)
    /\ p[1] \in Reached
    /\ \A i \in 2 .. Len(p) : p[i] \in Reached \ {own} /\ prev[p[i]] = p[i - 1]

\* Down a trail the distances grow, by the costs of its edges.
LEMMA TrailCost ==
    ASSUME TypeOK, Certificate, own \in Node, NEW p, IsTrail(p)
    PROVE  /\ \A i \in 1 .. Len(p) : p[i] \in Reached /\ dist[p[i]] \in Nat
           /\ \A i \in 2 .. Len(p) :
                  dist[p[i]] = dist[p[i - 1]] + Weight(p[i - 1], p[i])
           /\ Length(p) + dist[p[1]] = dist[p[Len(p)]]
<1>1. PICK c \in [1 .. Len(p) -> Nat] :
        /\ c[1] = 0
        /\ \A i \in 2 .. Len(p) : c[i] = c[i - 1] + Weight(p[i - 1], p[i])
        /\ Length(p) = c[Len(p)]
  BY LengthIs DEF IsTrail
<1>2. Len(p) \in Nat /\ Len(p) >= 1
  BY DEF IsTrail, IsWalk
<1>3. \A i \in 1 .. Len(p) : p[i] \in Reached /\ dist[p[i]] \in Nat
  <2>1. \A i \in 1 .. Len(p) : p[i] \in Reached
    BY <1>2 DEF IsTrail
  <2> QED
    BY <2>1 DEF TypeOK
<1>4. \A i \in 2 .. Len(p) : dist[p[i]] = dist[p[i - 1]] + Weight(p[i - 1], p[i])
  BY DEF IsTrail, Certificate
<1> DEFINE T == {i \in 1 .. Len(p) : c[i] + dist[p[1]] = dist[p[i]]}
<1>5. 1 \in T
  BY <1>1, <1>2, <1>3
<1>6. ASSUME NEW i \in 1 .. Len(p) - 1, i \in T PROVE i + 1 \in T
  <2> DEFINE w == Weight(p[i], p[i + 1])
  <2>1. i + 1 \in 2 .. Len(p) /\ (i + 1) - 1 = i
    BY <1>2
  <2>2. w \in Nat /\ c[i + 1] = c[i] + w /\ dist[p[i + 1]] = dist[p[i]] + w
    BY <1>1, <1>4, <2>1, StepWeight DEF IsTrail
  <2>3. dist[p[i]] \in Nat /\ dist[p[1]] \in Nat /\ c[i] \in Nat /\ c[i] + dist[p[1]] = dist[p[i]]
    BY <1>2, <1>3, <1>6
  <2> HIDE DEF w
  <2>4. c[i + 1] + dist[p[1]] = dist[p[i + 1]]
    BY <2>2, <2>3
  <2> QED
    BY <2>1, <2>4
<1>7. 1 .. Len(p) \subseteq T
  <2> HIDE DEF T
  <2> QED
    BY <1>2, <1>5, <1>6, UpTo
<1> QED
  BY <1>1, <1>2, <1>3, <1>4, <1>7

\* So the nodes of a trail are further and further away ...
LEMMA TrailGrows ==
    ASSUME TypeOK, Certificate, own \in Node, NEW p, IsTrail(p),
           NEW i \in 1 .. Len(p), NEW j \in 1 .. Len(p), i < j
    PROVE  dist[p[i]] < dist[p[j]]
<1>1. Len(p) \in Nat
  BY DEF IsTrail, IsWalk
<1>2. \A k \in 1 .. Len(p) : dist[p[k]] \in Nat
  BY TrailCost
<1> DEFINE T == {k \in 1 .. Len(p) : k > i => dist[p[i]] < dist[p[k]]}
<1>3. 1 \in T
  BY <1>1
<1>4. ASSUME NEW k \in 1 .. Len(p) - 1, k \in T PROVE k + 1 \in T
  <2> DEFINE w == Weight(p[k], p[k + 1])
  <2>1. k + 1 \in 2 .. Len(p) /\ (k + 1) - 1 = k
    BY <1>1
  <2>2. dist[p[k + 1]] = dist[p[k]] + w
    BY <2>1, TrailCost
  <2>3. w \in Nat \ {0}
    BY <2>1, StepWeight DEF IsTrail
  <2>4. k = i \/ k > i => dist[p[i]] < dist[p[k + 1]]
    <3> HIDE DEF w
    <3> QED
      BY <1>1, <1>2, <1>4, <2>1, <2>2, <2>3
  <2> QED
    BY <1>1, <2>1, <2>4
<1>5. 1 .. Len(p) \subseteq T
  <2> HIDE DEF T
  <2> QED
    BY <1>1, <1>3, <1>4, UpTo
<1> QED
  BY <1>5

\* ... which makes it a path.
LEMMA TrailIsPath ==
    ASSUME TypeOK, Certificate, own \in Node, NEW p, IsTrail(p)
    PROVE  p \in Paths
<1>1. p \in [1 .. Len(p) -> Node] /\ Len(p) \in Nat /\ Len(p) >= 1
  BY DEF IsTrail, IsWalk
<1>2. \A i, j \in 1 .. Len(p) : p[i] = p[j] => i = j
  <2> SUFFICES ASSUME NEW i \in 1 .. Len(p), NEW j \in 1 .. Len(p), i < j
               PROVE  p[i] # p[j]
    BY <1>1
  <2>1. dist[p[i]] < dist[p[j]] /\ dist[p[i]] \in Nat
    BY TrailGrows, TrailCost
  <2> QED
    BY <2>1
<1>3. p \in Injection(1 .. Len(p), Node)
  BY <1>1, <1>2 DEF Injection, IsInjective
<1>4. Cardinality(1 .. Len(p)) <= Cardinality(Node)
  BY <1>3, FS_Injection, RoutingAssumption
<1>5. Cardinality(1 .. Len(p)) = Len(p) /\ Cardinality(Node) \in Nat
  BY <1>1, FS_Interval, FS_CardinalityType, RoutingAssumption
<1>6. Len(p) \in 1 .. Cardinality(Node)
  BY <1>1, <1>4, <1>5
<1> QED
  BY <1>3, <1>6 DEF Paths, IsTrail, IsWalk

\* To every node that was reached there is a trail: of those without one there
\* would be a nearest.
LEMMA TrailTo ==
    ASSUME TypeOK, Certificate, own \in Node, NEW v \in Reached
    PROVE  \E p : IsTrail(p) /\ p[1] = own /\ p[Len(p)] = v
<1> DEFINE Led(x) == \E p : IsTrail(p) /\ p[1] = own /\ p[Len(p)] = x
           T == {d \in Nat : \E x \in Reached : dist[x] = d /\ ~ Led(x)}
<1> SUFFICES ASSUME T # {} PROVE FALSE
  BY DEF TypeOK
<1>1. PICK d \in T : \A k \in T : d <= k
  <2>1. T \in SUBSET Nat
    OBVIOUS
  <2> HIDE DEF T
  <2> QED
    BY <2>1, LeastNumber
<1>2. PICK x \in Reached : dist[x] = d /\ ~ Led(x)
  BY <1>1
<1>3. ASSUME x = own PROVE FALSE
  <2> DEFINE p == <<own>>
  <2>1. p \in Seq(Node) /\ Len(p) = 1 /\ p[1] = own
    OBVIOUS
  <2>2. own \in Reached
    BY DEF Certificate
  <2> HIDE DEF p
  <2>3. IsTrail(p) /\ p[Len(p)] = own
    BY <2>1, <2>2 DEF IsTrail, IsWalk
  <2> QED
    BY <1>2, <1>3, <2>1, <2>3
<1>4. /\ prev[x] \in visited /\ x \in Near(prev[x])
      /\ dist[x] = dist[prev[x]] + Weight(prev[x], x)
  BY <1>3 DEF Certificate
<1>5. prev[x] \in Reached /\ prev[x] \in Node /\ dist[prev[x]] \in Nat /\ x \in Node
  BY <1>4 DEF TypeOK
<1>6. Weight(prev[x], x) \in Nat \ {0}
  BY <1>4, <1>5, WeightOK
<1>7. dist[prev[x]] < d
  BY <1>2, <1>4, <1>5, <1>6
<1>8. dist[prev[x]] \notin T
  BY <1>1, <1>5, <1>7
<1>9. PICK q : IsTrail(q) /\ q[1] = own /\ q[Len(q)] = prev[x]
  BY <1>5, <1>8
<1> DEFINE p == Append(q, x)
           n == Len(q)
<1>10. q \in Seq(Node) /\ n \in Nat /\ n >= 1
  BY <1>9 DEF IsTrail, IsWalk
<1>11. /\ p \in Seq(Node) /\ Len(p) = n + 1
       /\ \A i \in 1 .. n : p[i] = q[i]
       /\ p[n + 1] = x
  BY <1>5, <1>10
<1> HIDE DEF p, n
<1>12. ASSUME NEW i \in 2 .. Len(p)
       PROVE  /\ p[i] \in Near(p[i - 1])
              /\ p[i] \in Reached \ {own} /\ prev[p[i]] = p[i - 1]
  <2>1. CASE i = n + 1
    <3>1. p[i] = x /\ p[i - 1] = prev[x]
      BY <1>9, <1>10, <1>11, <2>1 DEF n
    <3> QED
      BY <1>2, <1>3, <1>4, <3>1
  <2>2. CASE i # n + 1
    <3>1. i \in 2 .. Len(q) /\ p[i] = q[i] /\ p[i - 1] = q[i - 1]
      BY <1>10, <1>11, <2>2 DEF n
    <3> QED
      BY <1>9, <3>1 DEF IsTrail, IsWalk
  <2> QED
    BY <2>1, <2>2
<1>13. p[1] = own /\ p[1] \in Reached /\ p[Len(p)] = x /\ Len(p) >= 1
  BY <1>9, <1>10, <1>11 DEF Certificate
<1>14. IsTrail(p)
  BY <1>11, <1>12, <1>13 DEF IsTrail, IsWalk
<1> QED
  BY <1>2, <1>13, <1>14

LEMMA PathIsWalk ==
    ASSUME NEW p \in Paths
    PROVE  IsWalk(p) /\ Len(p) <= Cardinality(Node)
<1>1. PICK n \in 1 .. Cardinality(Node) : p \in Injection(1 .. n, Node)
  BY DEF Paths
<1>2. p \in [1 .. n -> Node]
  BY <1>1 DEF Injection
<1>3. Cardinality(Node) \in Nat
  BY FS_CardinalityType, RoutingAssumption
<1>4. p \in Seq(Node) /\ Len(p) = n
  BY <1>2
<1> QED
  BY <1>3, <1>4 DEF Paths, IsWalk

\* There is a cheapest path if there is one at all.
LEMMA CheapestIs ==
    ASSUME TypeOK, NEW u \in Node, Escapes[u] # {}
    PROVE  /\ \E p \in Escapes[u] : Cheapest(u) = Length(p)
           /\ \A p \in Escapes[u] : Cheapest(u) <= Length(p)
           /\ Cheapest(u) \in Nat
<1> DEFINE T == {Length(p) : p \in Escapes[u]}
<1>1. ASSUME NEW p \in Escapes[u] PROVE Length(p) \in Nat
  <2>1. IsWalk(p)
    BY PathIsWalk DEF Escapes
  <2> QED
    BY <2>1, LengthNat
<1>2. PICK c \in T : \A k \in T : c <= k
  <2>1. T \in SUBSET Nat /\ T # {}
    BY <1>1
  <2> HIDE DEF T
  <2> QED
    BY <2>1, LeastNumber
<1>3. \E d \in {Length(p) : p \in Escapes[u]} : \A p \in Escapes[u] : d <= Length(p)
  BY <1>2
<1>4. Cheapest(u) \in T /\ \A p \in Escapes[u] : Cheapest(u) <= Length(p)
  BY <1>3 DEF Cheapest
<1> QED
  BY <1>1, <1>4

\* The nearest of the exits that were reached, if any was.
LEMMA NearestExists ==
    ASSUME TypeOK, NEW x \in Exits \cap Reached
    PROVE  \E y \in NearestExits : dist[y] <= dist[x]
<1> DEFINE T == {dist[y] : y \in Exits \cap Reached}
<1>1. PICK d \in T : \A k \in T : d <= k
  <2>1. T \in SUBSET Nat /\ T # {}
    BY DEF TypeOK
  <2> HIDE DEF T
  <2> QED
    BY <2>1, LeastNumber
<1>2. PICK y \in Exits \cap Reached : dist[y] = d
  BY <1>1
<1>3. \A z \in Exits \cap Reached : dist[y] <= dist[z]
  BY <1>1, <1>2
<1> QED
  BY <1>2, <1>3 DEF NearestExits, Closest

\* A path no flame blocks costs less than sheltering.
LEMMA CalmIsCheap ==
    ASSUME TypeOK, NEW p \in Paths,
           \A i \in 2 .. Len(p) : ~ Blocked(p[i - 1], p[i])
    PROVE  Length(p) < Threshold
<1> DEFINE N == Cardinality(Node)
<1>1. IsWalk(p) /\ Len(p) <= N /\ Len(p) \in Nat /\ Len(p) >= 1 /\ N \in Nat
      /\ Threshold \in Nat \ {0}
  BY PathIsWalk, FS_CardinalityType, RoutingAssumption DEF IsWalk
<1>2. PICK c \in [1 .. Len(p) -> Nat] :
        /\ c[1] = 0
        /\ \A i \in 2 .. Len(p) : c[i] = c[i - 1] + Weight(p[i - 1], p[i])
        /\ Length(p) = c[Len(p)]
  BY <1>1, LengthIs
<1>3. ASSUME NEW i \in 2 .. Len(p)
      PROVE  N * Weight(p[i - 1], p[i]) < Threshold
  <2> DEFINE u == p[i - 1]
             v == p[i]
  <2>1. u \in Node /\ v \in Near(u) /\ ~ Blocked(u, v)
    BY <1>1 DEF IsWalk
  <2>2. PICK e \in Edges : Base(u, v) = e.base
    BY <2>1, BaseOK
  <2>3. PICK l \in DOMAIN Factor : Unit(u, v) = Factor[l]
    BY <2>1, RoutingAssumption DEF TypeOK, Unit, Near
  <2>4. Weight(u, v) = Factor[l] * e.base
    BY <2>1, <2>2, <2>3 DEF Weight
  <2> QED
    BY <2>4, CalmAssumption
<1> DEFINE T == {i \in 1 .. Len(p) : N * c[i] <= (i - 1) * Threshold}
<1>4. 1 \in T
  BY <1>1, <1>2
<1>5. ASSUME NEW i \in 1 .. Len(p) - 1, i \in T PROVE i + 1 \in T
  <2> DEFINE w == Weight(p[i], p[i + 1])
  <2>1. i + 1 \in 2 .. Len(p) /\ (i + 1) - 1 = i
    BY <1>1
  <2>2. w \in Nat /\ N * w < Threshold /\ c[i + 1] = c[i] + w
    BY <1>1, <1>2, <1>3, <2>1, StepWeight
  <2>3. c[i] \in Nat /\ N * c[i] <= (i - 1) * Threshold
    BY <1>5
  <2> HIDE DEF w, N
  <2>4. N * c[i + 1] = N * c[i] + N * w
    BY <1>1, <2>2, <2>3
  <2>5. i * Threshold = (i - 1) * Threshold + Threshold
    BY <1>1
  <2>6. N * c[i] \in Nat /\ N * w \in Nat /\ (i - 1) * Threshold \in Nat
    BY <1>1, <2>1, <2>2, <2>3
  <2>7. N * c[i + 1] <= i * Threshold
    BY <1>1, <2>2, <2>3, <2>4, <2>5, <2>6
  <2> QED
    BY <2>1, <2>7
<1>6. 1 .. Len(p) \subseteq T
  <2> HIDE DEF T
  <2> QED
    BY <1>1, <1>4, <1>5, UpTo
<1>7. Len(p) \in T
  BY <1>1, <1>6
<1> DEFINE k == c[Len(p)]
<1>8. k \in Nat /\ N * k <= (Len(p) - 1) * Threshold
  BY <1>1, <1>7
<1> HIDE DEF k, N, T
<1>9. (Len(p) - 1) * Threshold < N * Threshold
  <2>1. (Len(p) - 1) * Threshold <= (N - 1) * Threshold
    <3>1. Len(p) - 1 \in Nat /\ N - 1 \in Nat /\ Len(p) - 1 <= N - 1
      BY <1>1
    <3> QED
      BY <1>1, <3>1, ProductMonotone
  <2>2. N * Threshold = (N - 1) * Threshold + Threshold
    BY <1>1
  <2>3. (Len(p) - 1) * Threshold \in Int /\ (N - 1) * Threshold \in Int
    BY <1>1
  <2> QED
    BY <1>1, <2>1, <2>2, <2>3
<1>10. ASSUME k >= Threshold PROVE FALSE
  <2>1. N * k >= N * Threshold
    BY <1>1, <1>8, <1>10
  <2>2. N * k \in Int /\ N * Threshold \in Int /\ (Len(p) - 1) * Threshold \in Int
    BY <1>1, <1>8
  <2> QED
    BY <1>8, <1>9, <2>1, <2>2
<1> QED
  BY <1>1, <1>2, <1>8, <1>10 DEF k

\* One node put in front of a walk.
LEMMA InFront ==
    ASSUME NEW u \in Node, NEW q, IsWalk(q), q[1] \in Near(u)
    PROVE  \E r : /\ IsWalk(r) /\ Len(r) = Len(q) + 1 /\ r[1] = u
                  /\ \A i \in 1 .. Len(q) : r[i + 1] = q[i]
<1> DEFINE r == <<u>> \o q
<1>1. q \in Seq(Node) /\ Len(q) \in Nat /\ Len(q) >= 1
  BY DEF IsWalk
<1>2. /\ r \in Seq(Node) /\ Len(r) = Len(q) + 1 /\ r[1] = u
      /\ \A i \in 1 .. Len(q) : r[i + 1] = q[i]
  BY <1>1
<1> HIDE DEF r
<1>3. ASSUME NEW i \in 2 .. Len(r) PROVE r[i] \in Near(r[i - 1])
  <2>1. CASE i = 2
    <3>1. r[2] = q[1] /\ r[1] = u
      <4>1. 1 \in 1 .. Len(q) /\ 1 + 1 = 2
        BY <1>1
      <4> QED
        BY <1>2, <4>1
    <3> QED
      BY <2>1, <3>1
  <2>2. CASE i # 2
    <3>1. i - 1 \in 2 .. Len(q) /\ (i - 1) + 1 = i /\ (i - 2) + 1 = i - 1
          /\ i - 2 \in 1 .. Len(q) /\ (i - 1) - 1 = i - 2 /\ i - 1 \in 1 .. Len(q)
      BY <1>1, <1>2, <2>2
    <3>2. r[i] = q[i - 1] /\ r[i - 1] = q[i - 2]
      BY <1>2, <3>1
    <3> QED
      BY <3>1, <3>2 DEF IsWalk
  <2> QED
    BY <2>1, <2>2
<1> QED
  BY <1>1, <1>2, <1>3 DEF IsWalk

\* Its edge is added to the cost.
LEMMA InFrontCost ==
    ASSUME TypeOK, NEW q, NEW r, IsWalk(q), IsWalk(r), Len(r) = Len(q) + 1,
           \A i \in 1 .. Len(q) : r[i + 1] = q[i]
    PROVE  Length(r) = Weight(r[1], q[1]) + Length(q)
<1>1. Len(q) \in Nat /\ Len(q) >= 1
  BY DEF IsWalk
<1>2. PICK c \in [1 .. Len(q) -> Nat] :
        /\ c[1] = 0
        /\ \A i \in 2 .. Len(q) : c[i] = c[i - 1] + Weight(q[i - 1], q[i])
        /\ Length(q) = c[Len(q)]
  BY LengthIs
<1>3. PICK d \in [1 .. Len(r) -> Nat] :
        /\ d[1] = 0
        /\ \A i \in 2 .. Len(r) : d[i] = d[i - 1] + Weight(r[i - 1], r[i])
        /\ Length(r) = d[Len(r)]
  BY LengthIs
<1> DEFINE w == Weight(r[1], q[1])
           T == {i \in 1 .. Len(q) : d[i + 1] = w + c[i]}
<1>4. r[2] = q[1]
  <2>1. 1 \in 1 .. Len(q) /\ 1 + 1 = 2
    BY <1>1
  <2> QED
    BY <2>1
<1>5. w \in Nat
  <2>1. 2 \in 2 .. Len(r) /\ 2 - 1 = 1
    BY <1>1
  <2> QED
    BY <1>4, <2>1, StepWeight
<1>6. 1 \in T
  <2>1. 2 \in 2 .. Len(r) /\ 2 - 1 = 1 /\ 1 + 1 = 2 /\ 1 \in 1 .. Len(q)
    BY <1>1
  <2>2. d[2] = d[1] + w
    BY <1>3, <1>4, <2>1
  <2> HIDE DEF w
  <2> QED
    BY <1>2, <1>3, <1>5, <2>1, <2>2
<1>7. ASSUME NEW i \in 1 .. Len(q) - 1, i \in T PROVE i + 1 \in T
  <2> DEFINE v == Weight(q[i], q[i + 1])
  <2>1. /\ i + 1 \in 2 .. Len(q) /\ (i + 1) - 1 = i /\ i \in 1 .. Len(q)
        /\ (i + 1) + 1 \in 2 .. Len(r) /\ ((i + 1) + 1) - 1 = i + 1
    BY <1>1
  <2>2. c[i + 1] = c[i] + v /\ v \in Nat
    BY <1>2, <2>1, StepWeight
  <2>3. d[(i + 1) + 1] = d[i + 1] + v
    BY <1>3, <2>1
  <2>4. d[i + 1] = w + c[i] /\ c[i] \in Nat
    BY <1>2, <1>7, <2>1
  <2> HIDE DEF v, w
  <2>5. d[(i + 1) + 1] = w + c[i + 1]
    BY <1>5, <2>2, <2>3, <2>4
  <2> QED
    BY <2>1, <2>5
<1>8. 1 .. Len(q) \subseteq T
  <2> HIDE DEF T
  <2> QED
    BY <1>1, <1>6, <1>7, UpTo
<1> QED
  BY <1>1, <1>2, <1>3, <1>8

\* With every distance final, the nearest exit is as far as the cheapest path to
\* any exit costs.
LEMMA NearestIsCheapest ==
    ASSUME TypeOK, Certificate, Searched
    PROVE  /\ NearestExits = {} => Escapes[own] = {}
           /\ \A x \in NearestExits : Escapes[own] # {} /\ dist[x] = Cheapest(own)
<1>1. ASSUME NEW p \in Escapes[own]
      PROVE  \E y \in NearestExits : dist[y] <= Length(p)
  <2>1. p \in Paths /\ p[1] = own /\ p[Len(p)] \in Exits /\ IsWalk(p)
    BY PathIsWalk DEF Escapes, Searched
  <2>2. p[Len(p)] \in Reached /\ dist[p[Len(p)]] <= Length(p)
    BY <2>1, NoWalkIsShorter
  <2>3. PICK y \in NearestExits : dist[y] <= dist[p[Len(p)]]
    BY <2>1, <2>2, NearestExists
  <2>4. dist[y] \in Nat /\ dist[p[Len(p)]] \in Nat
    BY <2>2 DEF TypeOK, NearestExits, Closest
  <2>5. Length(p) \in Nat
    BY <2>1, LengthNat
  <2> QED
    BY <2>2, <2>3, <2>4, <2>5
<1>2. ASSUME NEW x \in NearestExits
      PROVE  Escapes[own] # {} /\ dist[x] = Cheapest(own)
  <2>1. x \in Exits /\ x \in Reached /\ dist[x] \in Nat
    BY DEF NearestExits, Closest, TypeOK
  <2>2. PICK p : IsTrail(p) /\ p[1] = own /\ p[Len(p)] = x
    BY <2>1, TrailTo DEF Searched
  <2>3. p \in Paths
    BY <2>2, TrailIsPath DEF Searched
  <2>4. p \in Escapes[own]
    BY <2>1, <2>2, <2>3 DEF Escapes, Searched
  <2>5. Length(p) = dist[x]
    <3>1. Length(p) + dist[p[1]] = dist[p[Len(p)]]
      BY <2>2, TrailCost DEF Searched
    <3>2. dist[own] = 0
      BY DEF Certificate, Searched
    <3>3. Length(p) \in Nat
      BY <2>2, LengthNat DEF IsTrail
    <3> QED
      BY <2>2, <3>1, <3>2, <3>3
  <2>6. /\ \E q \in Escapes[own] : Cheapest(own) = Length(q)
        /\ \A q \in Escapes[own] : Cheapest(own) <= Length(q)
        /\ Cheapest(own) \in Nat
    BY <2>4, CheapestIs DEF Searched
  <2>7. PICK y \in NearestExits : dist[y] <= Cheapest(own)
    BY <1>1, <2>6
  <2>8. dist[x] <= dist[y] /\ dist[y] \in Nat
    BY DEF NearestExits, Closest, TypeOK
  <2> QED
    BY <2>1, <2>4, <2>5, <2>6, <2>7, <2>8
<1> QED
  BY <1>1, <1>2

\* A trail leads from v to a nearest exit.
Leads(v) == \E p : IsTrail(p) /\ p[1] = v /\ p[Len(p)] \in NearestExits

\* The first node of such a trail after the start is the first step of a cheapest
\* path, and the rest of the trail is a cheapest path from there.
LEMMA FirstStepIsCheapest ==
    ASSUME TypeOK, Certificate, Searched,
           NEW h \in Reached \ {own}, prev[h] = own, Leads(h)
    PROVE  /\ Escapes[h] # {}
           /\ Cheapest(own) = Weight(own, h) + Cheapest(h)
<1>1. PICK p : IsTrail(p) /\ p[1] = h /\ p[Len(p)] \in NearestExits
  BY DEF Leads
<1> DEFINE x == p[Len(p)]
           w == Weight(own, h)
<1>2. h \in Node /\ own \in Node /\ h \in Near(own) /\ w \in Nat
  <2>1. h \in Node /\ own \in Node /\ h \in Near(own)
    BY DEF Certificate, Searched, TypeOK
  <2> QED
    BY <2>1, WeightOK
<1>3. x \in Exits /\ dist[x] \in Nat /\ dist[x] = Cheapest(own)
  <2>1. x \in NearestExits
    BY <1>1
  <2> HIDE DEF x
  <2>2. dist[x] = Cheapest(own)
    BY <2>1, NearestIsCheapest
  <2> QED
    BY <2>1, <2>2 DEF NearestExits, Closest, TypeOK
<1>4. p \in Escapes[h]
  <2>1. p \in Paths
    BY <1>1, TrailIsPath DEF Searched
  <2> QED
    BY <1>1, <1>2, <1>3, <2>1 DEF Escapes
<1>5. Length(p) + w = dist[x] /\ Length(p) \in Nat
  <2>1. dist[h] = dist[own] + w /\ dist[own] = 0
    BY DEF Certificate, Searched
  <2>2. Length(p) + dist[h] = dist[x]
    BY <1>1, TrailCost DEF Searched
  <2>3. Length(p) \in Nat
    BY <1>1, LengthNat DEF IsTrail
  <2> HIDE DEF w, x
  <2> QED
    BY <1>2, <2>1, <2>2, <2>3
<1>6. /\ \E q \in Escapes[h] : Cheapest(h) = Length(q)
      /\ \A q \in Escapes[h] : Cheapest(h) <= Length(q)
      /\ Cheapest(h) \in Nat
  BY <1>2, <1>4, CheapestIs
<1>7. PICK q \in Escapes[h] : Cheapest(h) = Length(q)
  BY <1>6
<1>8. q \in Paths /\ q[1] = h /\ q[Len(q)] \in Exits /\ IsWalk(q)
  BY <1>2, PathIsWalk DEF Escapes
<1>9. PICK r : /\ IsWalk(r) /\ Len(r) = Len(q) + 1 /\ r[1] = own
               /\ \A i \in 1 .. Len(q) : r[i + 1] = q[i]
  BY <1>2, <1>8, InFront
<1>10. Length(r) = w + Cheapest(h)
  BY <1>7, <1>8, <1>9, InFrontCost
<1>11. r[Len(r)] = q[Len(q)]
  BY <1>8, <1>9 DEF IsWalk
<1>12. r[Len(r)] \in Reached /\ dist[r[Len(r)]] <= Length(r)
  BY <1>9, NoWalkIsShorter
<1>13. PICK y \in NearestExits : dist[y] <= dist[r[Len(r)]]
  BY <1>8, <1>11, <1>12, NearestExists
<1>14. dist[x] <= dist[y] /\ dist[y] \in Nat /\ dist[r[Len(r)]] \in Nat
  BY <1>1, <1>12 DEF NearestExits, Closest, TypeOK
<1> HIDE DEF x, w
<1>15. dist[x] <= w + Cheapest(h)
  BY <1>2, <1>3, <1>6, <1>10, <1>12, <1>13, <1>14
<1>16. w + Cheapest(h) <= dist[x]
  BY <1>2, <1>4, <1>5, <1>6
<1>17. dist[x] = w + Cheapest(h)
  BY <1>2, <1>3, <1>6, <1>15, <1>16
<1> QED
  BY <1>3, <1>4, <1>17 DEF w

\* A distance is below the threshold just if a path that no flame blocks ends
\* there.
LEMMA BlockedIsFar ==
    ASSUME TypeOK, Certificate, Searched
    PROVE  (\A x \in NearestExits : dist[x] >= Threshold) <=>
               \A p \in Escapes[own] : \E i \in 2 .. Len(p) : Blocked(p[i - 1], p[i])
<1>1. ASSUME \A x \in NearestExits : dist[x] >= Threshold,
             NEW p \in Escapes[own],
             \A i \in 2 .. Len(p) : ~ Blocked(p[i - 1], p[i])
      PROVE  FALSE
  <2>1. p \in Paths /\ p[1] = own /\ p[Len(p)] \in Exits /\ IsWalk(p)
    BY PathIsWalk DEF Escapes, Searched
  <2>2. Length(p) < Threshold /\ Length(p) \in Nat
    BY <1>1, <2>1, CalmIsCheap, LengthNat
  <2>3. p[Len(p)] \in Reached /\ dist[p[Len(p)]] <= Length(p)
    BY <2>1, NoWalkIsShorter
  <2>4. PICK y \in NearestExits : dist[y] <= dist[p[Len(p)]]
    BY <2>1, <2>3, NearestExists
  <2>5. dist[y] \in Nat /\ dist[p[Len(p)]] \in Nat /\ Threshold \in Nat
    BY <2>3, RoutingAssumption DEF TypeOK, NearestExits, Closest
  <2>6. dist[y] >= Threshold
    BY <1>1
  <2> QED
    BY <2>2, <2>3, <2>4, <2>5, <2>6
<1>2. ASSUME \A p \in Escapes[own] : \E i \in 2 .. Len(p) : Blocked(p[i - 1], p[i]),
             NEW x \in NearestExits
      PROVE  dist[x] >= Threshold
  <2>1. x \in Exits /\ x \in Reached /\ own \in Node
    BY DEF NearestExits, Closest, Searched
  <2>2. PICK p : IsTrail(p) /\ p[1] = own /\ p[Len(p)] = x
    BY <2>1, TrailTo
  <2>3. p \in Paths
    BY <2>1, <2>2, TrailIsPath
  <2>4. p \in Escapes[own]
    BY <2>1, <2>2, <2>3 DEF Escapes
  <2>5. PICK i \in 2 .. Len(p) : Blocked(p[i - 1], p[i])
    BY <1>2, <2>4
  <2>6. p[i] \in Reached \ {own} /\ prev[p[i]] = p[i - 1]
    BY <2>2 DEF IsTrail
  <2>7. dist[p[i]] >= Threshold
    BY <2>1, <2>5, <2>6, FlamesAreFar
  <2>8. i \in 1 .. Len(p) /\ Len(p) \in 1 .. Len(p) /\ (i = Len(p) \/ i < Len(p))
    BY <2>2 DEF IsTrail, IsWalk
  <2>9. dist[p[i]] <= dist[x] /\ dist[p[i]] \in Nat /\ dist[x] \in Nat
    <3>1. dist[p[i]] \in Nat /\ dist[x] \in Nat
      BY <2>1, <2>6 DEF TypeOK
    <3>2. i < Len(p) => dist[p[i]] < dist[p[Len(p)]]
      BY <2>1, <2>2, <2>8, TrailGrows
    <3> QED
      BY <2>2, <2>8, <3>1, <3>2
  <2>10. Threshold \in Nat
    BY RoutingAssumption
  <2> QED
    BY <2>7, <2>9, <2>10
<1> QED
  BY <1>1, <1>2

----------------------------------------------------------------------------
(* What a run answers.                                                     *)

\* The walk follows a trail to a nearest exit that is below the threshold; at the
\* end, shelter was chosen by the nearest exits, and a hop, but for a node at an
\* exit, is where the trail leaves the start.
Outcome ==
    /\ pc = "relax" => ~ shelter_in_place
    /\ pc = "walk" =>
         /\ Searches /\ Frontier = {} /\ ~ shelter_in_place
         /\ \E x \in NearestExits : dist[x] < Threshold
         /\ Leads(walk)
    /\ pc = "done" /\ Searches =>
         /\ Frontier = {}
         /\ shelter_in_place <=> \A x \in NearestExits : dist[x] >= Threshold
    /\ pc = "done" /\ next_hop # 0 /\ own \notin Exits =>
         /\ Searches /\ Frontier = {}
         /\ next_hop \in Reached \ {own} /\ prev[next_hop] = own
         /\ Leads(next_hop)

\* What a step that leaves the search alone cannot change.
LEMMA SearchKept ==
    ASSUME UNCHANGED <<rule, own, table, dist, visited, prev>>
    PROVE  /\ Reached' = Reached /\ Frontier' = Frontier /\ NearestExits' = NearestExits
           /\ Searches' = Searches
           /\ \A v : Leads(v) => Leads(v)'
<1>1. Reached' = Reached /\ Frontier' = Frontier /\ NearestExits' = NearestExits
  BY DEF Reached, Frontier, NearestExits, Closest
<1>2. Searches' = Searches
  BY DEF Searches
<1>3. \A p : IsTrail(p) => IsTrail(p)'
  BY <1>1 DEF IsTrail, IsWalk
<1>4. \A v : Leads(v) => Leads(v)'
  BY <1>1, <1>3 DEF Leads
<1> QED
  BY <1>1, <1>2, <1>4

\* The walk starts at an exit, and one step back puts one node in front.
LEMMA LeadsFromExit ==
    ASSUME NEW x \in NearestExits
    PROVE  Leads(x)
<1> DEFINE p == <<x>>
<1>1. x \in Node /\ x \in Reached
  BY RoutingAssumption DEF NearestExits, Closest
<1>2. p \in Seq(Node) /\ Len(p) = 1 /\ p[1] = x
  BY <1>1
<1> HIDE DEF p
<1>3. IsTrail(p) /\ p[Len(p)] = x
  BY <1>1, <1>2 DEF IsTrail, IsWalk
<1> QED
  BY <1>2, <1>3 DEF Leads

LEMMA LeadsBack ==
    ASSUME NEW v \in Reached \ {own}, NEW u \in Reached, u \in Node,
           prev[v] = u, v \in Near(u), Leads(v)
    PROVE  Leads(u)
<1>1. PICK q : IsTrail(q) /\ q[1] = v /\ q[Len(q)] \in NearestExits
  BY DEF Leads
<1>2. IsWalk(q) /\ q \in Seq(Node) /\ Len(q) \in Nat /\ Len(q) >= 1
  BY <1>1 DEF IsTrail, IsWalk
<1>3. PICK r : /\ IsWalk(r) /\ Len(r) = Len(q) + 1 /\ r[1] = u
               /\ \A i \in 1 .. Len(q) : r[i + 1] = q[i]
  BY <1>1, <1>2, InFront
<1>4. ASSUME NEW i \in 2 .. Len(r)
      PROVE  r[i] \in Reached \ {own} /\ prev[r[i]] = r[i - 1]
  <2>1. CASE i = 2
    <3>1. 1 \in 1 .. Len(q) /\ 1 + 1 = 2
      BY <1>2
    <3>2. r[2] = v
      BY <1>1, <1>3, <3>1
    <3> QED
      BY <1>3, <2>1, <3>2
  <2>2. CASE i # 2
    <3>1. i - 1 \in 2 .. Len(q) /\ (i - 1) + 1 = i /\ (i - 2) + 1 = i - 1
          /\ i - 2 \in 1 .. Len(q) /\ (i - 1) - 1 = i - 2 /\ i - 1 \in 1 .. Len(q)
      BY <1>2, <1>3, <2>2
    <3>2. r[i] = q[i - 1] /\ r[i - 1] = q[i - 2]
      BY <1>3, <3>1
    <3> QED
      BY <1>1, <3>1, <3>2 DEF IsTrail
  <2> QED
    BY <2>1, <2>2
<1>5. IsTrail(r)
  BY <1>3, <1>4 DEF IsTrail
<1>6. r[Len(r)] \in NearestExits
  <2>1. Len(q) \in 1 .. Len(q)
    BY <1>2
  <2> QED
    BY <1>1, <1>3, <2>1
<1> QED
  BY <1>3, <1>5, <1>6 DEF Leads

LEMMA NextOutcome ==
    ASSUME TypeOK, Certificate, Walking, Outcome, [Next]_vars
    PROVE  Outcome'
<1>1. CASE NoSearch
  BY <1>1 DEF NoSearch, Walking, Outcome, Searches
<1>2. CASE Relax
  BY <1>2 DEF Relax, Outcome
<1>3. CASE Shelter
  <2>1. UNCHANGED <<rule, own, table, dist, visited, prev>>
    BY <1>3 DEF Shelter
  <2>2. Frontier' = {} /\ NearestExits' = NearestExits /\ dist' = dist
    BY <1>3, <2>1, SearchKept DEF Shelter
  <2>3. next_hop' = 0
    BY <1>3 DEF Shelter, Walking
  <2> QED
    BY <1>3, <2>2, <2>3 DEF Shelter, Outcome
<1>4. CASE StartWalk
  <2>1. UNCHANGED <<rule, own, table, dist, visited, prev>>
    BY <1>4 DEF StartWalk
  <2>2. PICK x \in NearestExits : dist[x] < Threshold /\ walk' = x
    BY <1>4 DEF StartWalk
  <2>3. Leads(x)
    BY LeadsFromExit
  <2>4. Leads(walk)'
    BY <2>1, <2>2, <2>3, SearchKept
  <2>5. Searches' /\ Frontier' = {} /\ NearestExits' = NearestExits /\ dist' = dist
    BY <1>4, <2>1, SearchKept DEF StartWalk
  <2>6. ~ shelter_in_place' /\ pc' = "walk"
    BY <1>4 DEF StartWalk, Outcome
  <2> QED
    BY <2>2, <2>4, <2>5, <2>6 DEF Outcome
<1>5. CASE WalkBack
  <2>1. UNCHANGED <<rule, own, table, dist, visited, prev>> /\ pc = "walk" /\ pc' = "walk"
    BY <1>5 DEF WalkBack
  <2>2. /\ walk # own /\ walk \in Near(prev[walk]) /\ prev[walk] \in Reached
        /\ walk \in Reached /\ own \in Node
    BY <1>5, NodeBefore DEF WalkBack, Walking
  <2>3. prev[walk] \in Node
    BY <2>2 DEF TypeOK
  <2>4. Leads(walk)
    BY <2>1 DEF Outcome
  <2>5. Leads(prev[walk])
    BY <2>2, <2>3, <2>4, LeadsBack
  <2>6. Leads(walk)'
    BY <1>5, <2>1, <2>5, SearchKept DEF WalkBack
  <2>7. Searches' /\ Frontier' = {} /\ NearestExits' = NearestExits /\ dist' = dist
    BY <2>1, SearchKept DEF Outcome
  <2>8. ~ shelter_in_place' /\ \E x \in NearestExits : dist[x] < Threshold
    BY <1>5 DEF WalkBack, Outcome
  <2> QED
    BY <2>1, <2>6, <2>7, <2>8 DEF Outcome
<1>6. CASE Found \/ Fallback
  <2>1. /\ UNCHANGED <<rule, own, table, dist, visited, prev>>
        /\ pc = "walk" /\ pc' = "done" /\ shelter_in_place' = shelter_in_place
    BY <1>6 DEF Found, Fallback
  <2>2. /\ Searches' /\ Frontier' = {} /\ NearestExits' = NearestExits /\ dist' = dist
        /\ Reached' = Reached
    BY <2>1, SearchKept DEF Outcome
  <2>3. \A x \in NearestExits : dist[x] \in Nat
    BY DEF NearestExits, Closest, TypeOK
  <2>4. shelter_in_place' <=> \A x \in NearestExits' : dist'[x] >= Threshold
    <3>1. ~ shelter_in_place' /\ \E x \in NearestExits : dist[x] < Threshold
      BY <2>1 DEF Outcome
    <3>2. Threshold \in Nat
      BY RoutingAssumption
    <3> QED
      BY <2>2, <2>3, <3>1, <3>2
  <2>5. CASE Found
    <3>1. next_hop' = walk /\ prev[walk] = own /\ own \in Node
      BY <2>1, <2>5 DEF Found, Walking
    <3>2. walk # own /\ walk \in Reached /\ Leads(walk)
      BY <2>1, <3>1, NodeBefore, RoutingAssumption DEF Outcome, Walking
    <3>3. Leads(next_hop)'
      BY <2>1, <3>1, <3>2, SearchKept
    <3> QED
      BY <2>1, <2>2, <2>4, <3>1, <3>2, <3>3 DEF Outcome
  <2>6. CASE Fallback
    <3>1. own \in Exits
      BY <2>1, <2>6, NodeBefore DEF Fallback, Walking
    <3> QED
      BY <2>1, <2>2, <2>4, <3>1 DEF Outcome
  <2> QED
    BY <1>6, <2>5, <2>6
<1>7. CASE UNCHANGED vars
  <2>1. UNCHANGED <<rule, own, table, dist, visited, prev>>
    BY <1>7 DEF vars
  <2>2. /\ Searches' = Searches /\ Frontier' = Frontier /\ NearestExits' = NearestExits
        /\ Reached' = Reached
    BY <2>1, SearchKept
  <2>3. UNCHANGED <<pc, walk, next_hop, shelter_in_place, own, dist, prev>>
    BY <1>7 DEF vars
  <2>4. Leads(walk) => Leads(walk)'
    BY <2>1, <2>3, SearchKept
  <2>5. Leads(next_hop) => Leads(next_hop)'
    BY <2>1, <2>3, SearchKept
  <2> QED
    BY <2>2, <2>3, <2>4, <2>5 DEF Outcome
<1> QED
  BY <1>1, <1>2, <1>3, <1>4, <1>5, <1>6, <1>7 DEF Next

Answered == TypeOK /\ Certificate /\ Walking /\ RouteNotBurning /\ Outcome

LEMMA AnsweredAlways == Spec => []Answered
<1>1. Init => Answered
  <2>1. Init => Outcome
    BY DEF Init, Outcome
  <2>2. Init => Walking /\ RouteNotBurning
    BY DEF Init, Walking, RouteNotBurning
  <2> QED
    BY <2>1, <2>2, InitOK DEF Answered
<1>2. Answered /\ [Next]_vars => Answered'
  BY NextTypeOK, NextCertificate, NextWalking, NextOutcome DEF Answered
<1> QED
  BY <1>1, <1>2, PTL DEF Spec

\* The exit that routing_compute or the engine settles on is as near as any path
\* leads, on any graph: Dijkstra's algorithm is right, for the weights of the
\* code and whatever is taken first among equals.
THEOREM CostsAreCheapest == Spec => []CostIsCheapest
<1>1. Answered => CostIsCheapest
  <2> SUFFICES ASSUME Answered, pc = "done", Searches
               PROVE  /\ NearestExits = {} => Escapes[own] = {}
                      /\ \A x \in NearestExits :
                             Escapes[own] # {} /\ dist[x] = Cheapest(own)
    BY DEF CostIsCheapest
  <2>1. Searched
    BY DEF Answered, Outcome, Searched, Searches
  <2> QED
    BY <2>1, NearestIsCheapest DEF Answered
<1> QED
  BY <1>1, AnsweredAlways, PTL

\* Nobody shelters while a way out is free of flames, and nobody is sent out when
\* none is.
THEOREM SheltersIffBlocked == Spec => []ShelterIffBlocked
<1>1. Answered => ShelterIffBlocked
  <2> SUFFICES ASSUME Answered, pc = "done", Searches
               PROVE  shelter_in_place <=>
                        \A p \in Escapes[own] : \E i \in 2 .. Len(p) : Blocked(p[i - 1], p[i])
    BY DEF ShelterIffBlocked
  <2>1. Searched
    BY DEF Answered, Outcome, Searched, Searches
  <2>2. shelter_in_place <=> \A x \in NearestExits : dist[x] >= Threshold
    BY DEF Answered, Outcome
  <2> QED
    BY <2>1, <2>2, BlockedIsFar DEF Answered
<1> QED
  BY <1>1, AnsweredAlways, PTL

\* Whoever follows the hops of nodes that know the same walks a cheapest path: each
\* hop leaves the rest of one, so nobody is sent round in a circle.
THEOREM NextHopsAreCheapest == Spec => []NextHopIsCheapest
<1>1. Answered => NextHopIsCheapest
  <2> SUFFICES ASSUME Answered, pc = "done", next_hop # 0, own \notin Exits
               PROVE  /\ Escapes[next_hop] # {}
                      /\ Cheapest(own) = Weight(own, next_hop) + Cheapest(next_hop)
    BY DEF NextHopIsCheapest
  <2>1. /\ Searched
        /\ next_hop \in Reached \ {own} /\ prev[next_hop] = own /\ Leads(next_hop)
    BY DEF Answered, Outcome, Searched, Searches
  <2> QED
    BY <2>1, FirstStepIsCheapest DEF Answered
<1> QED
  BY <1>1, AnsweredAlways, PTL

\* Hops lead downhill: a node sends people to one whose way out is cheaper, so among
\* nodes with the same table nobody is sent back to where he was.
THEOREM HopsLeadDown ==
    Spec => [](pc = "done" /\ next_hop # 0 /\ own \notin Exits
                   => Cheapest(next_hop) < Cheapest(own))
<1>1. Answered => (pc = "done" /\ next_hop # 0 /\ own \notin Exits
                       => Cheapest(next_hop) < Cheapest(own))
  <2> SUFFICES ASSUME Answered, pc = "done", next_hop # 0, own \notin Exits
               PROVE  Cheapest(next_hop) < Cheapest(own)
    OBVIOUS
  <2>1. /\ TypeOK /\ Certificate /\ Searched
        /\ next_hop \in Reached \ {own} /\ prev[next_hop] = own /\ Leads(next_hop)
    BY DEF Answered, Outcome, Searched, Searches
  <2>2. /\ Escapes[next_hop] # {}
        /\ Cheapest(own) = Weight(own, next_hop) + Cheapest(next_hop)
    BY <2>1, FirstStepIsCheapest
  <2>3. own \in Node /\ next_hop \in Node /\ next_hop \in Near(own)
    BY <2>1 DEF Searched, Certificate, TypeOK
  <2>4. Weight(own, next_hop) \in Nat \ {0}
    BY <2>1, <2>3, WeightOK
  <2>5. Cheapest(next_hop) \in Nat
    BY <2>1, <2>2, <2>3, CheapestIs
  <2> QED
    BY <2>2, <2>4, <2>5
<1> QED
  BY <1>1, AnsweredAlways, PTL

----------------------------------------------------------------------------
(* The fallback. *)

\* The walk back finds no first hop only for a node that is an exit, and never in the
\* engine: the fallback is for nobody else (routing.cpp:167).
THEOREM FallbackIsForExits ==
    Spec => [](pc = "walk" /\ prev[walk] = 0 => own \in Exits /\ rule = "firmware")
<1>1. Answered => (pc = "walk" /\ prev[walk] = 0 => own \in Exits /\ rule = "firmware")
  <2> SUFFICES ASSUME Answered, pc = "walk", prev[walk] = 0
               PROVE  own \in Exits /\ rule = "firmware"
    OBVIOUS
  <2>1. walk = own /\ walk \in route
    BY NodeBefore DEF Answered, Walking
  <2>2. own \in Exits
    BY <2>1 DEF Answered, Walking
  <2>3. Searches /\ rule \in Rules
    BY DEF Answered, Outcome, TypeOK
  <2> QED
    BY <2>2, <2>3 DEF Searches, Rules
<1> QED
  BY <1>1, AnsweredAlways, PTL

----------------------------------------------------------------------------
(* A run ends. *)

\* A step ends the search or the walk; or it makes one more node final; or it takes
\* the walk nearer to the start.
Descends ==
    \/ pc = "relax" /\ pc' # "relax"
    \/ pc = "walk" /\ pc' = "done"
    \/ pc = "relax" /\ pc' = "relax" /\ \E u \in Node \ visited : visited' = visited \cup {u}
    \/ /\ pc = "walk" /\ pc' = "walk" /\ dist' = dist
       /\ {walk, walk'} \subseteq Reached /\ dist[walk'] < dist[walk]

\* Every loop of routing_compute and of the engine descends, on any graph and table,
\* so that a run takes no more steps than there are nodes and costs of a way.
THEOREM RunsDescend == Spec => [][Descends]_vars
<1>1. ASSUME Answered, Next PROVE Descends
  <2>1. TypeOK /\ Certificate /\ Walking
    BY <1>1 DEF Answered
  <2>2. CASE NoSearch \/ Shelter \/ StartWalk
    BY <2>2 DEF NoSearch, Shelter, StartWalk, Descends
  <2>3. CASE Found \/ Fallback
    BY <2>3 DEF Found, Fallback, Descends
  <2>4. CASE Relax
    <3>1. PICK u \in Closest(Frontier) : visited' = visited \cup {u}
      BY <2>4 DEF Relax
    <3>2. u \in Node \ visited
      BY <2>1, <2>4, <3>1 DEF Closest, Frontier, TypeOK, Relax, Searches
    <3> QED
      BY <2>4, <3>1, <3>2 DEF Relax, Descends
  <2>5. CASE WalkBack
    <3>1. /\ pc = "walk" /\ prev[walk] # 0 /\ walk' = prev[walk] /\ pc' = pc /\ dist' = dist
      BY <2>5 DEF WalkBack
    <3>2. /\ own \in Node /\ walk \in Reached /\ walk # own
          /\ prev[walk] \in Reached /\ walk \in Near(prev[walk])
      BY <2>1, <3>1, NodeBefore DEF Walking
    <3>3. dist[walk] = dist[prev[walk]] + Weight(prev[walk], walk)
      BY <2>1, <3>2 DEF Certificate
    <3>4. prev[walk] \in Node /\ dist[prev[walk]] \in Nat
      BY <2>1, <3>1, <3>2 DEF TypeOK
    <3>5. Weight(prev[walk], walk) \in Nat \ {0}
      BY <2>1, <3>2, <3>4, WeightOK
    <3>6. dist[walk'] < dist[walk]
      BY <3>1, <3>3, <3>4, <3>5
    <3> QED
      BY <3>1, <3>2, <3>6 DEF Descends
  <2> QED
    BY <1>1, <2>2, <2>3, <2>4, <2>5 DEF Next
<1>2. Answered /\ [Next]_vars => [Descends]_vars
  BY <1>1
<1> QED
  BY <1>2, AnsweredAlways, PTL DEF Spec

----------------------------------------------------------------------------
(* What the rest of loop() is given. *)

\* The result of a run.  Where no exit is reached the code's cost is infinite, for
\* which Threshold stands.
Result ==
    [next_hop |-> next_hop,
     cost     |-> IF NearestExits = {} THEN Threshold ELSE dist[CHOOSE x \in NearestExits : TRUE],
     shelter  |-> shelter_in_place]

Burning == {v \in Node : table[v].flame}

\* A node that is no exit is given a hop unless it is told to shelter.
Replies == pc = "done" /\ Searches /\ own \notin Exits => (shelter_in_place <=> next_hop = 0)

LEMMA NextReplies ==
    ASSUME Answered, Replies, [Next]_vars
    PROVE  Replies'
<1>1. TypeOK /\ Certificate /\ Walking /\ Outcome
  BY DEF Answered
<1>2. CASE NoSearch
  BY <1>2 DEF NoSearch, Replies, Searches
<1>3. CASE Relax \/ StartWalk \/ WalkBack
  BY <1>1, <1>3 DEF Relax, StartWalk, WalkBack, Replies
<1>4. CASE Shelter
  BY <1>1, <1>4 DEF Shelter, Walking, Replies
<1>5. CASE Found
  <2>1. next_hop' = walk /\ walk # 0 /\ shelter_in_place' = FALSE
    BY <1>1, <1>5 DEF Found, TypeOK, Outcome
  <2> QED
    BY <2>1 DEF Replies
<1>6. CASE Fallback
  <2>1. own \in Exits /\ own' = own
    BY <1>1, <1>6, NodeBefore DEF Fallback, Walking
  <2> QED
    BY <2>1, <1>6 DEF Replies, Fallback
<1>7. CASE UNCHANGED vars
  BY <1>7 DEF vars, Replies, Searches
<1> QED
  BY <1>2, <1>3, <1>4, <1>5, <1>6, <1>7 DEF Next

\* What a node of the graph that is no exit is answered is what Guidance takes for
\* granted: it shelters just if the way costs as much, and is given a hop otherwise, none
\* that burns.
THEOREM AnswersAreKept ==
    Spec => [](pc = "done" /\ rule = "firmware" /\ own \in Node \ Exits
                   => IsAnswer(Result, Burning, Threshold))
<1>1. Init => Replies
  BY DEF Init, Replies
<1>2. Spec => []Replies
  BY <1>1, NextReplies, AnsweredAlways, PTL DEF Spec
<1>3. ASSUME Answered, Replies, pc = "done", rule = "firmware", own \in Node \ Exits
      PROVE  IsAnswer(Result, Burning, Threshold)
  <2>1. Searches /\ TypeOK /\ RouteNotBurning
    BY <1>3 DEF Answered, Searches
  <2>2. shelter_in_place <=> \A x \in NearestExits : dist[x] >= Threshold
    BY <1>3, <2>1 DEF Answered, Outcome
  <2>3. \A x, y \in NearestExits : dist[x] = dist[y] /\ dist[x] \in Nat
    BY <2>1 DEF NearestExits, Closest, TypeOK
  <2> DEFINE c == Result.cost
  <2>4. c \in Nat /\ (shelter_in_place <=> c >= Threshold)
    <3>1. Threshold \in Nat
      BY RoutingAssumption
    <3>2. CASE NearestExits = {}
      BY <2>2, <3>1, <3>2 DEF Result
    <3>3. CASE NearestExits # {}
      <4>1. PICK x \in NearestExits : c = dist[x]
        BY <3>3 DEF Result
      <4> HIDE DEF c
      <4> QED
        BY <2>2, <2>3, <4>1
    <3> QED
      BY <3>2, <3>3
  <2>5. shelter_in_place <=> next_hop = 0
    BY <1>3, <2>1 DEF Replies
  <2>6. next_hop \notin Burning
    <3>1. CASE next_hop = 0
      BY <3>1, RoutingAssumption DEF Burning
    <3>2. CASE next_hop # 0
      BY <1>3, <2>1, <3>2 DEF RouteNotBurning, Blocked, Burning
    <3> QED
      BY <3>1, <3>2
  <2>7. /\ DOMAIN Result = {"next_hop", "cost", "shelter"}
        /\ Result.next_hop = next_hop /\ Result.shelter = shelter_in_place
    BY DEF Result
  <2>8. shelter_in_place \in BOOLEAN
    BY <2>1 DEF TypeOK
  <2> HIDE DEF c
  <2> QED
    BY <2>4, <2>5, <2>6, <2>7, <2>8 DEF IsAnswer, c
<1>4. Answered /\ Replies =>
          (pc = "done" /\ rule = "firmware" /\ own \in Node \ Exits
               => IsAnswer(Result, Burning, Threshold))
  BY <1>3
<1> QED
  BY <1>2, <1>4, AnsweredAlways, PTL
=============================================================================
