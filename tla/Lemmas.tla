------------------------------- MODULE Lemmas -------------------------------
(***************************************************************************)
(* What the proofs of several modules share: induction over numbers and    *)
(* finite sets, folds, the ids of a graph of a building, the cost of an    *)
(* edge, what Dijkstra's algorithm and the walks of Paths compute, and the *)
(* checksum of the packets.                                                *)
(***************************************************************************)
EXTENDS Placement, Costing, Paths, Checksum,
        WellFoundedInduction, FiniteSetTheorems, SequenceTheorems, TLAPS

(* The least-number principle, the form in which the proofs do induction: of the
   places where a claim fails there is a first one. *)

\* Any natural numbers at all have a least among them.
LEMMA LeastNumber ==
    ASSUME NEW T \in SUBSET Nat, T # {}
    PROVE  \E m \in T : \A k \in T : m <= k
<1>1. IsWellFoundedOn(OpToRel(<, Nat), Nat)
  BY NatLessThanWellFounded
<1>2. PICK m \in T : \A k \in T : ~ (<<k, m>> \in OpToRel(<, Nat))
  BY <1>1, WFMin
<1>3. \A k \in T : ~ (k < m)
  BY <1>2 DEF OpToRel
<1> QED
  BY <1>3

\* A set of numbers that has every number up to n has them all: what is true of
\* 1, and of i + 1 whenever it is true of i, is true up to n.
LEMMA UpTo ==
    ASSUME NEW n \in Nat, NEW T,
           n >= 1 => 1 \in T,
           \A i \in 1 .. n - 1 : i \in T => i + 1 \in T
    PROVE  1 .. n \subseteq T
<1> SUFFICES ASSUME (1 .. n) \ T # {} PROVE FALSE
  OBVIOUS
<1>1. PICK m \in (1 .. n) \ T : \A k \in (1 .. n) \ T : m <= k
  <2>1. (1 .. n) \ T \in SUBSET Nat
    OBVIOUS
  <2> QED
    BY <2>1, LeastNumber
<1>2. m # 1
  BY <1>1
<1>3. m - 1 \in 1 .. n - 1 /\ m - 1 \in T
  BY <1>1, <1>2
<1>4. (m - 1) + 1 \in T
  BY <1>3
<1> QED
  BY <1>1, <1>4

\* The same from 0 on.
LEMMA FromZero ==
    ASSUME NEW n \in Nat, NEW T,
           0 \in T,
           \A i \in 0 .. n - 1 : i \in T => i + 1 \in T
    PROVE  0 .. n \subseteq T
<1> SUFFICES ASSUME (0 .. n) \ T # {} PROVE FALSE
  OBVIOUS
<1>1. PICK m \in (0 .. n) \ T : \A k \in (0 .. n) \ T : m <= k
  <2>1. (0 .. n) \ T \in SUBSET Nat
    OBVIOUS
  <2> QED
    BY <2>1, LeastNumber
<1>2. m # 0
  BY <1>1
<1>3. m - 1 \in 0 .. n - 1 /\ m - 1 \in T
  BY <1>1, <1>2
<1>4. (m - 1) + 1 \in T
  BY <1>3
<1> QED
  BY <1>1, <1>4

----------------------------------------------------------------------------
(* Finite sets. *)

\* The values of a function at finitely many places are finitely many.
LEMMA ImageIsFinite ==
    ASSUME NEW S, IsFiniteSet(S), NEW f
    PROVE  IsFiniteSet({f[x] : x \in S})
<1> DEFINE T == {f[x] : x \in S}
           g == [x \in S |-> f[x]]
<1>1. g \in Surjection(S, T)
  BY DEF Surjection
<1> QED
  BY <1>1, FS_Surjection

----------------------------------------------------------------------------
(* Folds. *)

\* A claim about the subsets of a finite set that is true of the empty set, and of
\* any other if it is true of that without one of its elements.
LEMMA FiniteInduction ==
    ASSUME NEW S, IsFiniteSet(S), NEW T,
           {} \in T,
           \A s \in SUBSET S : s # {} => \E x \in s : s \ {x} \in T => s \in T
    PROVE  SUBSET S \subseteq T
<1> SUFFICES ASSUME NEW r \in SUBSET S, r \notin T PROVE FALSE
  OBVIOUS
<1> DEFINE bad   == {s \in SUBSET S : s \notin T}
           sizes == {Cardinality(s) : s \in bad}
<1>1. \A s \in SUBSET S : IsFiniteSet(s)
  BY FS_Subset
<1>2. \A s \in SUBSET S : Cardinality(s) \in Nat
  BY <1>1, FS_CardinalityType
<1>3. sizes \in SUBSET Nat /\ sizes # {}
  BY <1>2
<1>4. PICK m \in sizes : \A k \in sizes : m <= k
  <2> HIDE DEF sizes
  <2> QED
    BY <1>3, LeastNumber
<1>5. PICK s \in bad : m = Cardinality(s)
  BY <1>4
<1>6. PICK x \in s : s \ {x} \in T => s \in T
  BY <1>5
<1>7. s \ {x} \in bad
  BY <1>5, <1>6
<1>8. Cardinality(s \ {x}) = Cardinality(s) - 1
  BY <1>1, <1>5, <1>6, FS_RemoveElement
<1>9. Cardinality(s \ {x}) \in sizes
  BY <1>7
<1>10. m <= m - 1 /\ m \in Nat
  <2>1. m = Cardinality(s)
    BY <1>5
  <2> HIDE DEF sizes, bad
  <2>2. m <= Cardinality(s \ {x})
    BY <1>4, <1>9
  <2>3. m \in Nat
    BY <1>3, <1>4
  <2> QED
    BY <1>8, <2>1, <2>2, <2>3
<1> QED
  BY <1>10

\* The recursive function in MapThenFoldSet, with G for what is done with an element.
IsFold(iter, S, base, G) ==
    iter = [s \in SUBSET S |->
                IF s = {} THEN base
                ELSE LET x == CHOOSE x \in s : TRUE IN G[<<x, iter[s \ {x}]>>]]

\* It exists ...
LEMMA FoldExists ==
    ASSUME NEW S, IsFiniteSet(S), NEW base, NEW G
    PROVE  \E iter : IsFold(iter, S, base, G)
<1> DEFINE N == Cardinality(S)
           Sub(n) == {s \in SUBSET S : Cardinality(s) <= n}
           Step(it, s) == IF s = {} THEN base
                          ELSE LET x == CHOOSE x \in s : TRUE IN G[<<x, it[s \ {x}]>>]
           Is(it, n) == it = [s \in Sub(n) |-> Step(it, s)]
           T == {n \in 0 .. N : \E it : Is(it, n)}
<1>1. N \in Nat
  BY FS_CardinalityType
<1>2. \A s \in SUBSET S : IsFiniteSet(s) /\ Cardinality(s) \in 0 .. N
  BY FS_Subset, FS_CardinalityType
<1> HIDE DEF N
<1>3. 0 \in T
  <2> DEFINE it == [s \in Sub(0) |-> base]
  <2>1. \A s \in Sub(0) : s = {}
    BY <1>2, FS_EmptySet
  <2>2. Is(it, 0)
    BY <2>1
  <2> HIDE DEF it, Is
  <2> QED
    BY <1>1, <2>2
<1>4. ASSUME NEW n \in 0 .. N - 1, n \in T PROVE n + 1 \in T
  <2>1. PICK it : Is(it, n)
    BY <1>4
  <2> DEFINE m    == n + 1
             more == [s \in Sub(m) |-> IF Cardinality(s) <= n THEN it[s] ELSE Step(it, s)]
  <2>2. ASSUME NEW s \in Sub(m) PROVE more[s] = Step(more, s)
    <3>1. CASE s = {}
      <4>1. Cardinality(s) <= n
        BY <1>1, <3>1, FS_EmptySet
      <4>2. more[s] = it[s] /\ it[s] = Step(it, s)
        BY <2>1, <4>1
      <4> QED
        BY <3>1, <4>2
    <3>2. CASE s # {}
      <4> DEFINE x == CHOOSE x \in s : TRUE
                 r == s \ {x}
      <4>1. x \in s
        BY <3>2
      <4>2. Cardinality(r) = Cardinality(s) - 1 /\ r \in SUBSET S
        BY <1>2, <4>1, FS_RemoveElement
      <4>3. Cardinality(r) <= n /\ r \in Sub(m)
        BY <1>1, <1>2, <4>2
      <4>4. more[r] = it[r]
        BY <4>3
      <4>5. more[s] = Step(it, s)
        BY <2>1
      <4> QED
        BY <3>2, <4>4, <4>5
    <3> QED
      BY <3>1, <3>2
  <2>3. more = [s \in Sub(m) |-> more[s]]
    OBVIOUS
  <2> HIDE DEF more
  <2>4. Is(more, m)
    BY <2>2, <2>3
  <2> HIDE DEF Is
  <2> QED
    BY <1>1, <2>4
<1>5. 0 .. N \subseteq T
  <2> HIDE DEF T
  <2> QED
    BY <1>1, <1>3, <1>4, FromZero
<1>6. PICK it : Is(it, N)
  <2>1. N \in 0 .. N
    BY <1>1
  <2> QED
    BY <1>5, <2>1
<1>7. Sub(N) = SUBSET S
  BY <1>2
<1>8. it = [s \in SUBSET S |-> Step(it, s)]
  BY <1>6, <1>7, Zenon
<1>9. IsFold(it, S, base, G)
  BY <1>8, Zenon DEF IsFold
<1> QED
  BY <1>9, Zenon

\* ... and stays where one step does not leave.
LEMMA FoldStays ==
    ASSUME NEW S, IsFiniteSet(S), NEW A, NEW iter,
           iter[{}] \in A,
           \A s \in SUBSET S : s # {} => \E x \in s : iter[s \ {x}] \in A => iter[s] \in A
    PROVE  \A s \in SUBSET S : iter[s] \in A
<1> DEFINE T == {s \in SUBSET S : iter[s] \in A}
<1>1. {} \in T
  OBVIOUS
<1>2. \A s \in SUBSET S : s # {} => \E x \in s : s \ {x} \in T => s \in T
  OBVIOUS
<1>3. SUBSET S \subseteq T
  <2> HIDE DEF T
  <2> QED
    BY <1>1, <1>2, FiniteInduction
<1> QED
  BY <1>3

----------------------------------------------------------------------------
(* Functions that are defined by recursion on a number. *)

IsIterated(f, n, base, G) ==
    f = [k \in 0 .. n |-> IF k = 0 THEN base ELSE G[f[k - 1]]]

LEMMA IterationExists ==
    ASSUME NEW N \in Nat, NEW base, NEW G
    PROVE  \E f : IsIterated(f, N, base, G)
<1> DEFINE T == {n \in 0 .. N : \E f : IsIterated(f, n, base, G)}
<1>1. 0 \in T
  <2> DEFINE f == [k \in 0 .. 0 |-> base]
  <2>1. IsIterated(f, 0, base, G)
    BY DEF IsIterated
  <2> HIDE DEF f
  <2> QED
    BY <2>1
<1>2. ASSUME NEW n \in 0 .. N - 1, n \in T PROVE n + 1 \in T
  <2>1. PICK f : IsIterated(f, n, base, G)
    BY <1>2
  <2> DEFINE m    == n + 1
             more == [k \in 0 .. m |-> IF k = m THEN G[f[n]] ELSE f[k]]
  <2>2. ASSUME NEW k \in 0 .. m
        PROVE  more[k] = IF k = 0 THEN base ELSE G[more[k - 1]]
    <3>1. CASE k = m
      BY <3>1
    <3>2. CASE k # m
      <4>1. k \in 0 .. n /\ (k # 0 => k - 1 \in 0 .. m /\ k - 1 # m)
        BY <3>2
      <4>2. more[k] = f[k] /\ (k # 0 => more[k - 1] = f[k - 1])
        BY <3>2, <4>1
      <4> QED
        BY <2>1, <4>1, <4>2 DEF IsIterated
    <3> QED
      BY <3>1, <3>2
  <2>3. more = [k \in 0 .. m |-> more[k]]
    OBVIOUS
  <2> HIDE DEF more
  <2>4. IsIterated(more, m, base, G)
    BY <2>2, <2>3 DEF IsIterated
  <2> QED
    BY <2>4
<1>3. 0 .. N \subseteq T
  <2> HIDE DEF T
  <2> QED
    BY <1>1, <1>2, FromZero
<1>4. N \in 0 .. N
  OBVIOUS
<1>5. N \in T
  BY <1>3, <1>4
<1> QED
  BY <1>5

\* It stays where one step does not leave.
LEMMA IterationStays ==
    ASSUME NEW N \in Nat, NEW f, NEW A,
           f[0] \in A,
           \A k \in 0 .. N - 1 : f[k] \in A => f[k + 1] \in A
    PROVE  \A k \in 0 .. N : f[k] \in A
<1> DEFINE T == {n \in 0 .. N : f[n] \in A}
<1>1. 0 \in T
  OBVIOUS
<1>2. \A k \in 0 .. N - 1 : k \in T => k + 1 \in T
  OBVIOUS
<1>3. 0 .. N \subseteq T
  <2> HIDE DEF T
  <2> QED
    BY <1>1, <1>2, FromZero
<1> QED
  BY <1>3

----------------------------------------------------------------------------
(* Dijkstra's algorithm. *)

LEMMA InfinityIsANumber == Infinity \in Nat /\ Infinity > 0
BY SMT DEF Infinity

\* The links between nodes have costs of some set.
Priced(cost, nodes, Price) ==
    \A u, v \in nodes : <<u, v>> \in DOMAIN cost => cost[<<u, v>>] \in Price

\* The states of a search among nodes.
SearchState(nodes) ==
    [left : SUBSET nodes, dist : [nodes -> 0 .. Infinity], prev : [nodes -> nodes \cup {Nowhere}]]

\* Who has a predecessor got the distance from there, over a link; who has none is the
\* source, or was not reached.
Backed(s, nodes, cost, source) ==
    /\ s.dist \in [nodes -> 0 .. Infinity]
    /\ s.prev \in [nodes -> nodes \cup {Nowhere}]
    /\ s.dist[source] = 0 /\ s.prev[source] = Nowhere
    /\ \A v \in nodes :
         /\ s.prev[v] # Nowhere => /\ <<s.prev[v], v>> \in DOMAIN cost
                                   /\ s.dist[v] = s.dist[s.prev[v]] + cost[<<s.prev[v], v>>]
         /\ s.prev[v] = Nowhere => v = source \/ s.dist[v] = Infinity

\* And a predecessor was visited: its distance does not change any more.
Searching(nodes, cost, source) ==
    {s \in SearchState(nodes) : /\ Backed(s, nodes, cost, source)
                                /\ \A v \in nodes : s.prev[v] \notin s.left}

Unsearched(nodes, source) ==
    [left |-> nodes,
     dist |-> [v \in nodes |-> IF v = source THEN 0 ELSE Infinity],
     prev |-> [v \in nodes |-> Nowhere]]

LEMMA UnsearchedSearches ==
    ASSUME NEW nodes, Nowhere \notin nodes, NEW source \in nodes, NEW cost
    PROVE  Unsearched(nodes, source) \in Searching(nodes, cost, source)
<1> DEFINE s == Unsearched(nodes, source)
<1>1. s.dist \in [nodes -> 0 .. Infinity] /\ s.prev = [v \in nodes |-> Nowhere] /\ s.left = nodes
      /\ \A v \in nodes : s.dist[v] = IF v = source THEN 0 ELSE Infinity
  BY InfinityIsANumber DEF Unsearched
<1>2. s \in SearchState(nodes)
  <2>1. s.prev \in [nodes -> nodes \cup {Nowhere}]
    BY <1>1
  <2>2. s = [left |-> s.left, dist |-> s.dist, prev |-> s.prev]
    BY DEF Unsearched
  <2> HIDE DEF s
  <2> QED
    BY <1>1, <2>1, <2>2 DEF SearchState
<1> HIDE DEF s
<1>3. Backed(s, nodes, cost, source)
  BY <1>1 DEF Backed
<1>4. s \in Searching(nodes, cost, source)
  BY <1>1, <1>2, <1>3 DEF Searching
<1> QED
  BY <1>4 DEF s

LEMMA RoundSearches ==
    ASSUME NEW nodes, Nowhere \notin nodes, NEW source \in nodes,
           NEW cost, Priced(cost, nodes, Nat),
           NEW s \in Searching(nodes, cost, source)
    PROVE  Round(cost, s) \in Searching(nodes, cost, source)
<1> DEFINE nearest == {u \in s.left : /\ s.dist[u] < Infinity
                                      /\ \A v \in s.left : s.dist[u] <= s.dist[v]}
           u       == CHOOSE u \in nearest : TRUE
           near    == {v \in s.left \ {u} : /\ <<u, v>> \in DOMAIN cost
                                            /\ s.dist[u] + cost[<<u, v>>] < s.dist[v]}
           t       == [left |-> s.left \ {u},
                       dist |-> [v \in DOMAIN s.dist |-> IF v \in near THEN s.dist[u] + cost[<<u, v>>]
                                                         ELSE s.dist[v]],
                       prev |-> [v \in DOMAIN s.prev |-> IF v \in near THEN u ELSE s.prev[v]]]
<1>1. Round(cost, s) = IF nearest = {} THEN s ELSE t
  BY DEF Round
<1>2. /\ s \in SearchState(nodes) /\ Backed(s, nodes, cost, source)
      /\ \A v \in nodes : s.prev[v] \notin s.left
      /\ s.left \subseteq nodes /\ s.dist \in [nodes -> 0 .. Infinity]
      /\ s.prev \in [nodes -> nodes \cup {Nowhere}]
  BY DEF Searching, SearchState
<1>3. SUFFICES ASSUME nearest # {} PROVE t \in Searching(nodes, cost, source)
  BY <1>1
<1>4. u \in s.left
  BY <1>3
<1> HIDE DEF u
<1>5. /\ t.left = s.left \ {u}
      /\ t.dist = [v \in nodes |-> IF v \in near THEN s.dist[u] + cost[<<u, v>>] ELSE s.dist[v]]
      /\ t.prev = [v \in nodes |-> IF v \in near THEN u ELSE s.prev[v]]
  BY <1>2
<1>6. \A v \in near : /\ v \in s.left \ {u} /\ v \in nodes /\ <<u, v>> \in DOMAIN cost
                      /\ cost[<<u, v>>] \in Nat
                      /\ s.dist[u] + cost[<<u, v>>] \in 0 .. Infinity
                      /\ s.dist[u] + cost[<<u, v>>] < s.dist[v]
  <2> SUFFICES ASSUME NEW v \in near
               PROVE  /\ v \in s.left \ {u} /\ v \in nodes /\ <<u, v>> \in DOMAIN cost
                      /\ cost[<<u, v>>] \in Nat
                      /\ s.dist[u] + cost[<<u, v>>] \in 0 .. Infinity
                      /\ s.dist[u] + cost[<<u, v>>] < s.dist[v]
    OBVIOUS
  <2>1. v \in s.left \ {u} /\ v \in nodes /\ <<u, v>> \in DOMAIN cost
        /\ s.dist[u] + cost[<<u, v>>] < s.dist[v]
    BY <1>2
  <2>2. cost[<<u, v>>] \in Nat
    BY <1>2, <1>4, <2>1 DEF Priced
  <2> QED
    BY <1>2, <1>4, <2>1, <2>2, InfinityIsANumber
<1>7. t.dist \in [nodes -> 0 .. Infinity] /\ t.prev \in [nodes -> nodes \cup {Nowhere}]
      /\ t.left \in SUBSET nodes
  <2> HIDE DEF near, t
  <2> QED
    BY <1>2, <1>4, <1>5, <1>6
<1>8. t \in SearchState(nodes)
  BY <1>7 DEF SearchState
<1> HIDE DEF t, near
<1>9. source \notin near
  <2>1. s.dist[source] = 0
    BY <1>2 DEF Backed
  <2> SUFFICES ASSUME source \in near PROVE FALSE
    OBVIOUS
  <2> DEFINE d == s.dist[u] + cost[<<u, source>>]
  <2>2. d \in 0 .. Infinity /\ d < s.dist[source]
    BY <1>6
  <2> HIDE DEF d
  <2> QED
    BY <2>1, <2>2, InfinityIsANumber
<1>10. \A v \in nodes : t.prev[v] \notin t.left
  BY <1>2, <1>4, <1>5
<1>11. ASSUME NEW v \in nodes
       PROVE  /\ t.prev[v] # Nowhere => /\ <<t.prev[v], v>> \in DOMAIN cost
                                        /\ t.dist[v] = t.dist[t.prev[v]] + cost[<<t.prev[v], v>>]
              /\ t.prev[v] = Nowhere => v = source \/ t.dist[v] = Infinity
  <2>1. CASE v \in near
    <3>1. u \notin near /\ u \in nodes
      BY <1>2, <1>4, <1>6
    <3> QED
      BY <1>5, <1>6, <2>1, <3>1
  <2>2. CASE v \notin near
    <3>1. s.prev[v] \notin near
      BY <1>2, <1>6
    <3>2. t.prev[v] = s.prev[v] /\ t.dist[v] = s.dist[v]
      BY <1>5, <2>2
    <3>3. s.prev[v] \in nodes => t.dist[s.prev[v]] = s.dist[s.prev[v]]
      BY <1>5, <3>1
    <3> QED
      BY <1>2, <3>2, <3>3 DEF Backed
  <2> QED
    BY <2>1, <2>2
<1>12. t.dist[source] = 0 /\ t.prev[source] = Nowhere
  BY <1>2, <1>5, <1>9 DEF Backed
<1>13. Backed(t, nodes, cost, source)
  BY <1>7, <1>11, <1>12 DEF Backed
<1> QED
  BY <1>8, <1>10, <1>13 DEF Searching

\* What Dijkstra's algorithm finds is backed by its predecessors.
LEMMA DijkstraBacked ==
    ASSUME NEW nodes, IsFiniteSet(nodes), Nowhere \notin nodes, NEW source \in nodes,
           NEW cost, Priced(cost, nodes, Nat)
    PROVE  Backed(Dijkstra(nodes, cost, source), nodes, cost, source)
<1> DEFINE N == Cardinality(nodes)
           A == Searching(nodes, cost, source)
           G == [s \in A |-> Round(cost, s)]
           Is(f) == f = [k \in 0 .. N |-> IF k = 0 THEN Unsearched(nodes, source)
                                          ELSE Round(cost, f[k - 1])]
           after == CHOOSE f : Is(f)
<1>1. N \in Nat
  BY FS_CardinalityType
<1>2. Dijkstra(nodes, cost, source) = after[N]
  BY DEF Dijkstra, Unsearched
<1> HIDE DEF N
<1>3. \E f : Is(f)
  <2>1. PICK f : IsIterated(f, N, Unsearched(nodes, source), G)
    BY <1>1, IterationExists
  <2>2. f[0] \in A
    BY <1>1, <2>1, UnsearchedSearches DEF IsIterated
  <2>3. \A k \in 0 .. N - 1 : f[k] \in A => f[k + 1] \in A
    <3> SUFFICES ASSUME NEW k \in 0 .. N - 1, f[k] \in A PROVE f[k + 1] \in A
      OBVIOUS
    <3>1. f[k + 1] = G[f[k]]
      BY <1>1, <2>1 DEF IsIterated
    <3> QED
      BY <3>1, RoundSearches
  <2>4. \A k \in 0 .. N : f[k] \in A
    <3> HIDE DEF A
    <3> QED
      BY <1>1, <2>2, <2>3, IterationStays
  <2>5. \A k \in 0 .. N : k # 0 => G[f[k - 1]] = Round(cost, f[k - 1])
    BY <1>1, <2>4
  <2> HIDE DEF G
  <2>6. Is(f)
    BY <2>1, <2>5 DEF IsIterated
  <2> QED
    BY <2>6
<1>4. Is(after)
  BY <1>3
<1> HIDE DEF after
<1>5. after[0] \in A
  BY <1>1, <1>4, UnsearchedSearches
<1>6. \A k \in 0 .. N - 1 : after[k] \in A => after[k + 1] \in A
  <2> SUFFICES ASSUME NEW k \in 0 .. N - 1, after[k] \in A PROVE after[k + 1] \in A
    OBVIOUS
  <2>1. after[k + 1] = Round(cost, after[k])
    BY <1>1, <1>4
  <2> QED
    BY <2>1, RoundSearches
<1>7. after[N] \in A
  <2>1. \A k \in 0 .. N : after[k] \in A
    <3> HIDE DEF A
    <3> QED
      BY <1>1, <1>5, <1>6, IterationStays
  <2> QED
    BY <1>1, <2>1
<1> QED
  BY <1>2, <1>7 DEF Searching

----------------------------------------------------------------------------
(* The walk back along the predecessors. *)

Follows(back, prev, n, x) ==
    /\ back \in [0 .. n -> DOMAIN prev \cup {Nowhere}]
    /\ back[0] = x
    /\ \A k \in 0 .. n - 1 :
           back[k + 1] = IF back[k] = Nowhere THEN Nowhere ELSE prev[back[k]]

LEMMA BackFollows ==
    ASSUME NEW nodes, IsFiniteSet(nodes), Nowhere \notin nodes,
           NEW prev \in [nodes -> nodes \cup {Nowhere}], NEW x \in nodes \cup {Nowhere}
    PROVE  Follows(Back(prev, x), prev, Cardinality(nodes), x)
<1> DEFINE N == Cardinality(nodes)
           A == nodes \cup {Nowhere}
           G == [y \in A |-> IF y = Nowhere THEN Nowhere ELSE prev[y]]
           Is(f) == f = [k \in 0 .. N |-> IF k = 0 THEN x
                                          ELSE IF f[k - 1] = Nowhere THEN Nowhere ELSE prev[f[k - 1]]]
           back == CHOOSE f : Is(f)
<1>1. N \in Nat /\ DOMAIN prev = nodes
  BY FS_CardinalityType
<1>2. Back(prev, x) = back
  BY <1>1 DEF Back
<1>3. \A y \in A : G[y] \in A
  OBVIOUS
<1> HIDE DEF N
<1>4. \E f : Is(f)
  <2>1. PICK f : IsIterated(f, N, x, G)
    BY <1>1, IterationExists
  <2>2. f[0] \in A
    BY <1>1, <2>1 DEF IsIterated
  <2>3. \A k \in 0 .. N - 1 : f[k] \in A => f[k + 1] \in A
    <3> SUFFICES ASSUME NEW k \in 0 .. N - 1, f[k] \in A PROVE f[k + 1] \in A
      OBVIOUS
    <3>1. f[k + 1] = G[f[k]]
      <4> HIDE DEF G, A
      <4>1. k + 1 \in 0 .. N /\ k + 1 # 0 /\ (k + 1) - 1 = k
        BY <1>1
      <4> QED
        BY <2>1, <4>1 DEF IsIterated
    <3> QED
      BY <1>3, <3>1
  <2>4. \A k \in 0 .. N : f[k] \in A
    <3> HIDE DEF A
    <3> QED
      BY <1>1, <2>2, <2>3, IterationStays
  <2>5. \A k \in 0 .. N : k # 0 => k - 1 \in 0 .. N
    BY <1>1
  <2>6. \A k \in 0 .. N : k # 0 =>
            G[f[k - 1]] = IF f[k - 1] = Nowhere THEN Nowhere ELSE prev[f[k - 1]]
    BY <2>4, <2>5
  <2> HIDE DEF G
  <2>7. Is(f)
    BY <2>1, <2>6 DEF IsIterated
  <2> QED
    BY <2>7
<1>5. Is(back)
  BY <1>4
<1> HIDE DEF back
<1>6. back[0] = x
  BY <1>1, <1>5
<1>7. \A k \in 0 .. N - 1 :
          back[k + 1] = IF back[k] = Nowhere THEN Nowhere ELSE prev[back[k]]
  <2> SUFFICES ASSUME NEW k \in 0 .. N - 1
               PROVE  back[k + 1] = IF back[k] = Nowhere THEN Nowhere ELSE prev[back[k]]
    OBVIOUS
  <2>1. k + 1 \in 0 .. N /\ k + 1 # 0 /\ (k + 1) - 1 = k
    BY <1>1
  <2> QED
    BY <1>5, <2>1
<1>8. \A k \in 0 .. N : back[k] \in A
  <2>1. \A k \in 0 .. N - 1 : back[k] \in A => back[k + 1] \in A
    BY <1>7
  <2>2. back[0] \in A
    BY <1>6
  <2> HIDE DEF A
  <2> QED
    BY <1>1, <2>1, <2>2, IterationStays
<1>9. back \in [0 .. N -> A]
  BY <1>5, <1>8
<1> QED
  BY <1>1, <1>2, <1>6, <1>7, <1>9 DEF Follows, N

\* Where the walk ends: in the source, after m nodes that are all different.
WalkLeads(back, n, d, cost, source, x, m) ==
    /\ m \in 1 .. n
    /\ \A k \in 0 .. n : back[k] # Nowhere <=> k < m
    /\ back[m - 1] = source
    /\ \A k \in 0 .. m - 2 :
         /\ back[k] # source
         /\ d.prev[back[k]] = back[k + 1]
         /\ <<back[k + 1], back[k]>> \in DOMAIN cost
         /\ cost[<<back[k + 1], back[k]>>] <= d.dist[x]

\* A node that was reached, over links that all cost something, is led to.
LEMMA WalksLead ==
    ASSUME NEW nodes, IsFiniteSet(nodes), Nowhere \notin nodes, NEW source \in nodes,
           NEW cost, Priced(cost, nodes, Nat \ {0}),
           NEW d, Backed(d, nodes, cost, source),
           NEW x \in nodes, d.dist[x] < Infinity,
           NEW back, Follows(back, d.prev, Cardinality(nodes), x)
    PROVE  \E m : WalkLeads(back, Cardinality(nodes), d, cost, source, x, m)
<1> DEFINE N == Cardinality(nodes)
<1>1. N \in Nat
  BY FS_CardinalityType
<1>2. /\ d.dist \in [nodes -> 0 .. Infinity] /\ d.prev \in [nodes -> nodes \cup {Nowhere}]
      /\ DOMAIN d.prev = nodes
  BY DEF Backed
<1>3. /\ back \in [0 .. N -> nodes \cup {Nowhere}] /\ back[0] = x
      /\ \A k \in 0 .. N - 1 :
             back[k + 1] = IF back[k] = Nowhere THEN Nowhere ELSE d.prev[back[k]]
  BY <1>2 DEF Follows
<1> HIDE DEF N
\* One step back is over a link, and nearer to the source by what the link costs.
<1>4. ASSUME NEW k \in 0 .. N - 1, back[k + 1] # Nowhere
      PROVE  /\ back[k] \in nodes /\ back[k + 1] \in nodes
             /\ d.prev[back[k]] = back[k + 1]
             /\ <<back[k + 1], back[k]>> \in DOMAIN cost
             /\ cost[<<back[k + 1], back[k]>>] \in Nat \ {0}
             /\ d.dist[back[k]] = d.dist[back[k + 1]] + cost[<<back[k + 1], back[k]>>]
  <2>1. k \in 0 .. N /\ k + 1 \in 0 .. N
    BY <1>1
  <2>2. back[k] # Nowhere
    BY <1>3, <1>4
  <2>3. back[k] \in nodes /\ back[k + 1] \in nodes /\ d.prev[back[k]] = back[k + 1]
    BY <1>3, <1>4, <2>1, <2>2
  <2>4. <<back[k + 1], back[k]>> \in DOMAIN cost
        /\ d.dist[back[k]] = d.dist[back[k + 1]] + cost[<<back[k + 1], back[k]>>]
    BY <1>4, <2>3 DEF Backed
  <2>5. cost[<<back[k + 1], back[k]>>] \in Nat \ {0}
    BY <2>3, <2>4 DEF Priced
  <2> QED
    BY <2>3, <2>4, <2>5
<1> DEFINE Down(j, k) == back[k] # Nowhere =>
                             back[j] # Nowhere /\ d.dist[back[k]] < d.dist[back[j]]
           T == {k \in 0 .. N : \A j \in 0 .. k - 1 : Down(j, k)}
<1>5. 0 .. N \subseteq T
  <2>1. 0 \in T
    BY <1>1
  <2>2. ASSUME NEW k \in 0 .. N - 1, k \in T PROVE k + 1 \in T
    <3>1. SUFFICES ASSUME NEW j \in 0 .. k, back[k + 1] # Nowhere
                   PROVE  back[j] # Nowhere /\ d.dist[back[k + 1]] < d.dist[back[j]]
      BY <1>1
    <3>2. back[k] \in nodes /\ d.dist[back[k + 1]] < d.dist[back[k]]
      <4> DEFINE c == cost[<<back[k + 1], back[k]>>]
      <4>1. back[k] \in nodes /\ back[k + 1] \in nodes /\ c \in Nat \ {0}
            /\ d.dist[back[k]] = d.dist[back[k + 1]] + c
        BY <1>4, <3>1
      <4> HIDE DEF c
      <4>2. d.dist[back[k + 1]] \in Nat
        BY <1>2, <4>1
      <4> QED
        BY <4>1, <4>2
    <3>3. CASE j = k
      BY <3>2, <3>3
    <3>4. CASE j # k
      <4>1. j \in 0 .. k - 1 /\ j \in 0 .. N
        BY <3>4, <1>1
      <4>2. back[j] # Nowhere /\ d.dist[back[k]] < d.dist[back[j]]
        BY <2>2, <3>2, <4>1
      <4>3. back[j] \in nodes /\ back[k + 1] \in nodes
        BY <1>3, <1>4, <3>1, <4>1, <4>2
      <4> QED
        BY <1>2, <3>2, <4>2, <4>3
    <3> QED
      BY <3>3, <3>4
  <2> HIDE DEF T
  <2> QED
    BY <1>1, <2>1, <2>2, FromZero
<1>6. \A k \in 0 .. N : \A j \in 0 .. k - 1 : Down(j, k)
  BY <1>5
<1> HIDE DEF T
\* There are not enough nodes for the walk to go on for ever.
<1>7. \E k \in 0 .. N : back[k] = Nowhere
  <2> SUFFICES ASSUME \A k \in 0 .. N : back[k] # Nowhere PROVE FALSE
    OBVIOUS
  <2>1. back \in [0 .. N -> nodes]
    BY <1>3
  <2>2. IsFiniteSet(0 .. N) /\ Cardinality(0 .. N) = N + 1
    BY <1>1, FS_Interval
  <2>3. Cardinality(nodes) < Cardinality(0 .. N)
    BY <1>1, <2>2 DEF N
  <2>4. PICK j, k \in 0 .. N : j # k /\ back[j] = back[k]
    BY <2>1, <2>2, <2>3, FS_PigeonHole
  <2>5. j \in 0 .. k - 1 \/ k \in 0 .. j - 1
    BY <2>4
  <2>6. d.dist[back[k]] < d.dist[back[j]] \/ d.dist[back[j]] < d.dist[back[k]]
    BY <1>6, <2>5
  <2>7. d.dist[back[k]] \in Nat
    BY <1>2, <2>1
  <2> QED
    BY <2>4, <2>6, <2>7
<1>8. PICK m \in 0 .. N : back[m] = Nowhere /\ \A k \in 0 .. N : back[k] = Nowhere => m <= k
  <2> DEFINE S == {k \in 0 .. N : back[k] = Nowhere}
  <2>1. S \in SUBSET Nat /\ S # {}
    BY <1>1, <1>7
  <2>2. PICK m \in S : \A k \in S : m <= k
    <3> HIDE DEF S
    <3> QED
      BY <2>1, LeastNumber
  <2> QED
    BY <2>2
<1>9. m # 0 /\ m \in 1 .. N
  BY <1>1, <1>3, <1>8
<1>10. \A k \in 0 .. N : back[k] # Nowhere <=> k < m
  <2> SUFFICES ASSUME NEW k \in 0 .. N PROVE back[k] # Nowhere <=> k < m
    OBVIOUS
  <2>1. k < m => back[k] # Nowhere
    BY <1>8
  <2>2. k > m => m \in 0 .. k - 1
    BY <1>8
  <2>3. k > m => back[k] = Nowhere
    BY <1>6, <1>8, <2>2
  <2> QED
    BY <1>8, <2>1, <2>3
<1>11. \A k \in 0 .. m - 1 : back[k] \in nodes /\ d.dist[back[k]] \in Nat /\ d.dist[back[k]] <= d.dist[x]
  <2> SUFFICES ASSUME NEW k \in 0 .. m - 1
               PROVE  back[k] \in nodes /\ d.dist[back[k]] \in Nat /\ d.dist[back[k]] <= d.dist[x]
    OBVIOUS
  <2>1. k \in 0 .. N /\ k < m
    BY <1>1, <1>9
  <2>2. back[k] \in nodes
    BY <1>3, <1>10, <2>1
  <2>3. d.dist[back[k]] \in Nat /\ d.dist[x] \in Nat
    BY <1>2, <2>2
  <2>4. k # 0 => 0 \in 0 .. k - 1
    BY <2>1
  <2>5. k # 0 => d.dist[back[k]] < d.dist[back[0]]
    BY <1>6, <1>10, <2>1, <2>4
  <2> QED
    BY <1>3, <2>2, <2>3, <2>5
<1>12. back[m - 1] = source
  <2>1. m - 1 \in 0 .. m - 1 /\ m - 1 \in 0 .. N - 1 /\ (m - 1) + 1 = m
    BY <1>1, <1>9
  <2>2. back[m - 1] \in nodes /\ d.dist[back[m - 1]] <= d.dist[x] /\ d.dist[back[m - 1]] \in Nat
    BY <1>11, <2>1
  <2>3. back[m] = d.prev[back[m - 1]]
    BY <1>3, <2>1, <2>2
  <2>4. back[m - 1] = source \/ d.dist[back[m - 1]] = Infinity
    BY <1>8, <2>2, <2>3 DEF Backed
  <2>5. d.dist[x] \in Nat
    BY <1>2
  <2> QED
    BY <2>2, <2>4, <2>5, InfinityIsANumber
<1>13. ASSUME NEW k \in 0 .. m - 2
       PROVE  /\ back[k] # source
              /\ d.prev[back[k]] = back[k + 1]
              /\ <<back[k + 1], back[k]>> \in DOMAIN cost
              /\ cost[<<back[k + 1], back[k]>>] <= d.dist[x]
  <2> DEFINE c == cost[<<back[k + 1], back[k]>>]
  <2>1. k \in 0 .. N - 1 /\ k + 1 \in 0 .. N /\ k + 1 < m /\ k \in 0 .. m - 1 /\ k + 1 \in 0 .. m - 1
    BY <1>1, <1>9
  <2>2. back[k + 1] # Nowhere
    BY <1>10, <2>1
  <2>3. /\ d.prev[back[k]] = back[k + 1] /\ <<back[k + 1], back[k]>> \in DOMAIN cost
        /\ c \in Nat /\ d.dist[back[k]] = d.dist[back[k + 1]] + c
    BY <1>4, <2>1, <2>2
  <2>4. back[k] # source
    BY <2>2, <2>3 DEF Backed
  <2>5. d.dist[back[k]] <= d.dist[x] /\ d.dist[back[k]] \in Nat /\ d.dist[back[k + 1]] \in Nat
    BY <1>11, <2>1
  <2>6. d.dist[x] \in Nat
    BY <1>2
  <2>7. c <= d.dist[x]
    <3> HIDE DEF c
    <3> QED
      BY <2>3, <2>5, <2>6
  <2> QED
    BY <2>3, <2>4, <2>7
<1>14. WalkLeads(back, N, d, cost, source, x, m)
  BY <1>9, <1>10, <1>12, <1>13 DEF WalkLeads
<1> QED
  BY <1>14 DEF N

\* A route: from source to x, over links that cost no more than the whole.
IsRoute(path, nodes, cost, whole, source, x) ==
    /\ path \in Seq(nodes) /\ Len(path) >= 1
    /\ path[1] = source /\ path[Len(path)] = x
    /\ \A i \in 1 .. Len(path) - 1 : /\ <<path[i], path[i + 1]>> \in DOMAIN cost
                                     /\ cost[<<path[i], path[i + 1]>>] <= whole

\* What _extract_path returns is a route, and what _next_hop returns is its second node.
LEMMA PathsAreRoutes ==
    ASSUME NEW nodes, IsFiniteSet(nodes), Nowhere \notin nodes, NEW source \in nodes,
           NEW cost, Priced(cost, nodes, Nat \ {0}),
           NEW d, Backed(d, nodes, cost, source),
           NEW x \in nodes, d.dist[x] < Infinity
    PROVE  /\ IsRoute(ExtractPath(d.prev, x), nodes, cost, d.dist[x], source, x)
           /\ NextHop(d.prev, source, x) = IF Len(ExtractPath(d.prev, x)) > 1
                                           THEN ExtractPath(d.prev, x)[2] ELSE Nowhere
<1> DEFINE N == Cardinality(nodes)
           back == Back(d.prev, x)
<1>1. N \in Nat
  BY FS_CardinalityType
<1>2. d.prev \in [nodes -> nodes \cup {Nowhere}] /\ DOMAIN d.prev = nodes
      /\ d.prev[source] = Nowhere
  BY DEF Backed
<1>3. Follows(back, d.prev, N, x)
  BY <1>2, BackFollows
<1>4. PICK m : WalkLeads(back, N, d, cost, source, x, m)
  <2> HIDE DEF back
  <2> QED
    BY <1>3, WalksLead
<1>5. back \in [0 .. N -> nodes \cup {Nowhere}] /\ back[0] = x /\ DOMAIN back = 0 .. N
  BY <1>2, <1>3 DEF Follows
<1> HIDE DEF N
<1>6. /\ m \in 1 .. N
      /\ \A k \in 0 .. N : back[k] # Nowhere <=> k < m
      /\ back[m - 1] = source
      /\ \A k \in 0 .. m - 2 : /\ back[k] # source
                               /\ d.prev[back[k]] = back[k + 1]
                               /\ <<back[k + 1], back[k]>> \in DOMAIN cost
                               /\ cost[<<back[k + 1], back[k]>>] <= d.dist[x]
  BY <1>4 DEF WalkLeads
<1> DEFINE path == ExtractPath(d.prev, x)
<1>7. path = [i \in 1 .. m |-> back[m - i]]
  <2>1. {k \in DOMAIN back : back[k] # Nowhere} = 0 .. m - 1
    BY <1>1, <1>5, <1>6
  <2>2. Cardinality(0 .. m - 1) = m
    BY <1>6, FS_Interval
  <2>3. path = [i \in 1 .. Cardinality({k \in DOMAIN back : back[k] # Nowhere}) |->
                   back[Cardinality({k \in DOMAIN back : back[k] # Nowhere}) - i]]
    BY DEF ExtractPath
  <2> HIDE DEF path, back
  <2> QED
    BY <2>1, <2>2, <2>3
<1> HIDE DEF path
<1>8. \A k \in 0 .. m - 1 : back[k] \in nodes
  BY <1>1, <1>5, <1>6
<1>9. path \in Seq(nodes) /\ Len(path) = m /\ \A i \in 1 .. m : path[i] = back[m - i]
  <2>1. \A i \in 1 .. m : back[m - i] \in nodes
    BY <1>6, <1>8
  <2>2. m \in Nat
    BY <1>6
  <2> HIDE DEF back
  <2>3. path \in [1 .. m -> nodes]
    BY <1>7, <2>1
  <2>4. path \in Seq(nodes)
    BY <2>2, <2>3
  <2>5. Len(path) = m
    BY <2>2, <2>3, <2>4
  <2> QED
    BY <1>7, <2>4, <2>5
<1> HIDE DEF back
<1>10. IsRoute(path, nodes, cost, d.dist[x], source, x)
  <2>1. path[1] = source /\ path[m] = x
    BY <1>5, <1>6, <1>9
  <2>2. ASSUME NEW i \in 1 .. m - 1
        PROVE  /\ <<path[i], path[i + 1]>> \in DOMAIN cost
               /\ cost[<<path[i], path[i + 1]>>] <= d.dist[x]
    <3>1. m - (i + 1) \in 0 .. m - 2 /\ (m - (i + 1)) + 1 = m - i /\ i \in 1 .. m /\ i + 1 \in 1 .. m
      BY <1>6
    <3>2. path[i] = back[(m - (i + 1)) + 1] /\ path[i + 1] = back[m - (i + 1)]
      BY <1>9, <3>1
    <3> QED
      BY <1>6, <3>1, <3>2
  <2> QED
    BY <1>6, <1>9, <2>1, <2>2 DEF IsRoute
<1>11. NextHop(d.prev, source, x) = IF Len(path) > 1 THEN path[2] ELSE Nowhere
  <2> DEFINE hops == {k \in DOMAIN back : back[k] # Nowhere /\ d.prev[back[k]] = source}
  <2>1. NextHop(d.prev, source, x) = IF hops = {} THEN Nowhere ELSE back[Min(hops)]
    BY DEF NextHop, back
  <2>2. \A k \in hops : k = m - 2
    <3> SUFFICES ASSUME NEW k \in hops PROVE k = m - 2
      OBVIOUS
    <3>1. k \in 0 .. N /\ k < m /\ d.prev[back[k]] = source
      BY <1>5, <1>6
    <3>2. k # m - 1
      BY <1>2, <1>6, <3>1
    <3>3. CASE k = m - 2
      BY <3>3
    <3>4. CASE k # m - 2
      <4>1. k \in 0 .. m - 2 /\ k + 1 \in 0 .. m - 2
        BY <1>6, <3>1, <3>2, <3>4
      <4>2. back[k + 1] # source /\ d.prev[back[k]] = back[k + 1]
        BY <1>6, <4>1
      <4> QED
        BY <3>1, <4>2
    <3> QED
      BY <3>3, <3>4
  <2>3. CASE m = 1
    <3>1. hops = {}
      BY <1>5, <2>2, <2>3
    <3> HIDE DEF hops
    <3> QED
      BY <1>9, <2>1, <2>3, <3>1
  <2>4. CASE m # 1
    <3>1. m - 2 \in 0 .. m - 2 /\ m - 2 \in 0 .. N /\ m - 2 < m /\ (m - 2) + 1 = m - 1
      BY <1>1, <1>6, <2>4
    <3>2. m - 2 \in hops
      BY <1>5, <1>6, <3>1
    <3>3. hops = {m - 2}
      BY <2>2, <3>2
    <3>4. m - 2 \in Int
      BY <3>1
    <3> HIDE DEF hops
    <3>5. Min(hops) = m - 2
      BY <3>3, <3>4 DEF Min
    <3>6. path[2] = back[m - 2]
      BY <1>6, <1>9, <2>4
    <3> QED
      BY <1>6, <1>9, <2>1, <2>4, <3>3, <3>5, <3>6
  <2> QED
    BY <2>3, <2>4
<1> QED
  BY <1>10, <1>11 DEF path

\* Without an exit there is neither.
LEMMA NoExitNoPath ==
    ASSUME NEW nodes, IsFiniteSet(nodes), Nowhere \notin nodes,
           NEW prev \in [nodes -> nodes \cup {Nowhere}], NEW source
    PROVE  ExtractPath(prev, Nowhere) = << >> /\ NextHop(prev, source, Nowhere) = Nowhere
<1> DEFINE N == Cardinality(nodes)
           back == Back(prev, Nowhere)
           T == {k \in 0 .. N : back[k] = Nowhere}
<1>1. N \in Nat
  BY FS_CardinalityType
<1>2. Follows(back, prev, N, Nowhere)
  BY BackFollows
<1> HIDE DEF N, back
<1>3. 0 \in T /\ \A k \in 0 .. N - 1 : k \in T => k + 1 \in T
  BY <1>1, <1>2 DEF Follows
<1>4. 0 .. N \subseteq T
  <2> HIDE DEF T
  <2> QED
    BY <1>1, <1>3, FromZero
<1>5. DOMAIN back = 0 .. N /\ \A k \in DOMAIN back : back[k] = Nowhere
  BY <1>2, <1>4 DEF Follows
<1>6. {k \in DOMAIN back : back[k] # Nowhere} = {}
      /\ {k \in DOMAIN back : back[k] # Nowhere /\ prev[back[k]] = source} = {}
  BY <1>5
<1>7. Cardinality({k \in DOMAIN back : back[k] # Nowhere}) = 0
  BY <1>6, FS_EmptySet
<1>8. ExtractPath(prev, Nowhere) = << >>
  <2>1. ExtractPath(prev, Nowhere) = [i \in 1 .. 0 |-> back[0 - i]]
    BY <1>7 DEF ExtractPath, back
  <2>2. [i \in 1 .. 0 |-> back[0 - i]] = << >>
    OBVIOUS
  <2> QED
    BY <2>1, <2>2
<1>9. NextHop(prev, source, Nowhere) = Nowhere
  BY <1>6 DEF NextHop, back
<1> QED
  BY <1>8, <1>9

----------------------------------------------------------------------------
(* The community modules' operators on sets of numbers, their sums and folds. *)

\* A finite set of numbers has a greatest one.
LEMMA MaxIn ==
    ASSUME NEW S, IsFiniteSet(S), S # {}, S \subseteq Int
    PROVE  Max(S) \in S /\ \A k \in S : k <= Max(S)
<1> DEFINE Top(s) == \E m \in s : \A k \in s : m >= k
           T == {s \in SUBSET S : s = {} \/ Top(s)}
<1>1. {} \in T
  OBVIOUS
<1>2. ASSUME NEW s \in SUBSET S, s # {} PROVE \E x \in s : s \ {x} \in T => s \in T
  <2>1. PICK x \in s : TRUE
    BY <1>2
  <2>2. ASSUME s \ {x} \in T PROVE Top(s)
    <3>1. CASE s \ {x} = {}
      <4>1. s = {x} /\ x \in Int
        BY <2>1, <3>1
      <4> QED
        BY <4>1
    <3>2. CASE Top(s \ {x})
      <4>1. PICK m \in s \ {x} : \A k \in s \ {x} : m >= k
        BY <3>2
      <4>2. m \in Int /\ x \in Int /\ \A k \in s : k \in Int
        BY <2>1
      <4>3. CASE m >= x
        BY <4>1, <4>3
      <4>4. CASE ~ (m >= x)
        <5>1. \A k \in s : x >= k
          BY <4>1, <4>2, <4>4
        <5> QED
          BY <2>1, <5>1
      <4> QED
        BY <4>3, <4>4
    <3> QED
      BY <2>2, <3>1, <3>2
  <2> QED
    BY <2>1, <2>2
<1>3. SUBSET S \subseteq T
  <2> HIDE DEF T
  <2> QED
    BY <1>1, <1>2, FiniteInduction
<1>4. Top(S)
  BY <1>3
<1>5. Max(S) \in S /\ \A k \in S : Max(S) >= k
  BY <1>4 DEF Max
<1> QED
  BY <1>5

LEMMA MinIn ==
    ASSUME NEW S, S # {}, S \subseteq Nat
    PROVE  Min(S) \in S /\ \A k \in S : Min(S) <= k
<1>1. \E m \in S : \A k \in S : m <= k
  BY LeastNumber
<1> QED
  BY <1>1 DEF Min

\* The values of a fold of which no step leaves A are all in A.
LEMMA FoldIn ==
    ASSUME NEW S, IsFiniteSet(S), NEW A, NEW base \in A, NEW G \in [S \X A -> A]
    PROVE  \E iter : IsFold(iter, S, base, G) /\ \A s \in SUBSET S : iter[s] \in A
<1>1. PICK iter : IsFold(iter, S, base, G)
  BY FoldExists
<1>2. iter[{}] \in A
  BY <1>1 DEF IsFold
<1>3. ASSUME NEW s \in SUBSET S, s # {} PROVE \E x \in s : iter[s \ {x}] \in A => iter[s] \in A
  <2> DEFINE x == CHOOSE x \in s : TRUE
  <2>1. x \in s
    BY <1>3
  <2>2. iter[s] = G[<<x, iter[s \ {x}]>>]
    BY <1>1, <1>3 DEF IsFold
  <2> HIDE DEF x
  <2> QED
    BY <2>1, <2>2
<1>4. \A s \in SUBSET S : iter[s] \in A
  BY <1>2, <1>3, FoldStays
<1> QED
  BY <1>1, <1>4

SumOver(h, S) == MapThenSumSet(LAMBDA k : h[k], S)

\* A sum stays where adding a term does not leave.
LEMMA SumStays ==
    ASSUME NEW S, IsFiniteSet(S), NEW h, NEW A, 0 \in A,
           \A k \in S : \A y \in A : h[k] + y \in A
    PROVE  SumOver(h, S) \in A
<1> DEFINE G == [p \in S \X A |-> h[p[1]] + p[2]]
           Is(f) == f = [s \in SUBSET S |->
                             IF s = {} THEN 0
                             ELSE LET x == CHOOSE x \in s : TRUE IN h[x] + f[s \ {x}]]
           iter == CHOOSE f : Is(f)
<1>1. SumOver(h, S) = iter[S]
  BY DEF SumOver, MapThenSumSet, MapThenFoldSet
<1>2. G \in [S \X A -> A]
  OBVIOUS
<1>3. \E f : Is(f)
  <2>1. PICK f : IsFold(f, S, 0, G) /\ \A s \in SUBSET S : f[s] \in A
    <3> HIDE DEF G
    <3> QED
      BY <1>2, FoldIn
  <2>2. ASSUME NEW s \in SUBSET S, s # {}
        PROVE  LET x == CHOOSE x \in s : TRUE IN G[<<x, f[s \ {x}]>>] = h[x] + f[s \ {x}]
    <3> DEFINE x == CHOOSE x \in s : TRUE
    <3>1. x \in s
      BY <2>2
    <3> HIDE DEF x
    <3>2. G[<<x, f[s \ {x}]>>] = h[x] + f[s \ {x}]
      BY <2>1, <3>1
    <3> QED
      BY <3>2 DEF x
  <2> HIDE DEF G
  <2>3. Is(f)
    BY <2>1, <2>2 DEF IsFold
  <2> QED
    BY <2>3
<1>4. Is(iter)
  BY <1>3
<1> HIDE DEF iter
<1>5. iter[{}] \in A
  BY <1>4
<1>6. ASSUME NEW s \in SUBSET S, s # {} PROVE \E x \in s : iter[s \ {x}] \in A => iter[s] \in A
  <2> DEFINE x == CHOOSE x \in s : TRUE
  <2>1. x \in s
    BY <1>6
  <2>2. iter[s] = h[x] + iter[s \ {x}]
    BY <1>4, <1>6
  <2> HIDE DEF x
  <2> QED
    BY <2>1, <2>2
<1>7. iter[S] \in A
  <2>1. \A s \in SUBSET S : iter[s] \in A
    BY <1>5, <1>6, FoldStays
  <2> QED
    BY <2>1
<1> QED
  BY <1>1, <1>7

----------------------------------------------------------------------------
(* Numbers. *)

LEMMA ClampedIn ==
    ASSUME NEW a \in Int, NEW low \in Int, NEW high \in Int, low <= high
    PROVE  Clamped(a, low, high) \in low .. high
BY DEF Clamped, AtMost

LEMMA Quotient ==
    ASSUME NEW n \in Nat, NEW d \in Nat \ {0}
    PROVE  n \div d \in Nat /\ n % d \in 0 .. d - 1
OBVIOUS

----------------------------------------------------------------------------
(* Graphs of buildings, and the costs of their edges. *)

IsGraph(g) == g \in BuildingGraph /\ WellPlaced(g)

LEMMA GraphTypes ==
    ASSUME NEW g, IsGraph(g)
    PROVE  /\ g.nodes \in Seq(BuildingNode) /\ ToSet(g.nodes) \subseteq BuildingNode
           /\ \A k \in DOMAIN g.nodes : g.nodes[k] \in ToSet(g.nodes) /\ k \in Nat \ {0}
<1>1. g.nodes \in Seq(BuildingNode)
  BY DEF IsGraph, BuildingGraph
<1> QED
  BY <1>1 DEF ToSet

\* The positions of a sequence are finitely many.
LEMMA PlacesAreFinite ==
    ASSUME NEW A, NEW sq \in Seq(A)
    PROVE  /\ DOMAIN sq = 1 .. Len(sq) /\ Len(sq) \in Nat /\ IsFiniteSet(DOMAIN sq)
           /\ \A k \in DOMAIN sq : sq[k] \in A
<1>1. DOMAIN sq = 1 .. Len(sq) /\ Len(sq) \in Nat
  OBVIOUS
<1>2. IsFiniteSet(1 .. Len(sq))
  BY <1>1, FS_Interval
<1> QED
  BY <1>1, <1>2

\* Each id is that of one node.
LEMMA NodeOfId ==
    ASSUME NEW g, IsGraph(g), NEW id \in NodeIds(g)
    PROVE  /\ NodeOf(g, id) \in ToSet(g.nodes) /\ NodeOf(g, id).id = id
           /\ NodeOf(g, id) \in BuildingNode
<1>1. \E n \in ToSet(g.nodes) : n.id = id
  BY DEF NodeIds
<1>2. NodeOf(g, id) \in ToSet(g.nodes) /\ NodeOf(g, id).id = id
  BY <1>1 DEF NodeOf
<1> QED
  BY <1>2, GraphTypes

LEMMA IdOfNode ==
    ASSUME NEW g, IsGraph(g), NEW n \in ToSet(g.nodes)
    PROVE  n.id \in NodeIds(g) /\ NodeOf(g, n.id) = n
<1>1. n.id \in NodeIds(g)
  BY DEF NodeIds
<1>2. NodeOf(g, n.id) \in ToSet(g.nodes) /\ NodeOf(g, n.id).id = n.id
  BY <1>1, NodeOfId
<1>3. PICK i \in DOMAIN g.nodes, j \in DOMAIN g.nodes :
          g.nodes[i] = n /\ g.nodes[j] = NodeOf(g, n.id)
  BY <1>2 DEF ToSet
<1> QED
  BY <1>1, <1>2, <1>3 DEF IsGraph, WellPlaced

LEMMA NodeIdFacts ==
    ASSUME NEW g, IsGraph(g)
    PROVE  /\ IsFiniteSet(NodeIds(g)) /\ NodeIds(g) \subseteq NodeId
           /\ Nowhere \notin NodeIds(g) /\ ExitsOf(g) \subseteq NodeIds(g)
<1>1. IsFiniteSet(DOMAIN g.nodes)
  <2>1. g.nodes \in Seq(BuildingNode)
    BY GraphTypes
  <2> QED
    BY <2>1, PlacesAreFinite
<1>2. IsFiniteSet(NodeIds(g))
  <2> DEFINE f == [k \in DOMAIN g.nodes |-> g.nodes[k].id]
  <2>1. NodeIds(g) = {f[k] : k \in DOMAIN g.nodes}
    BY DEF NodeIds, ToSet
  <2> HIDE DEF f
  <2> QED
    BY <1>1, <2>1, ImageIsFinite
<1>3. NodeIds(g) \subseteq NodeId
  BY GraphTypes DEF NodeIds, BuildingNode
<1>4. Nowhere \notin NodeId
  BY DEF Nowhere, NodeId
<1>5. ExitsOf(g) \subseteq NodeIds(g)
  BY DEF ExitsOf, NodeIds
<1> QED
  BY <1>2, <1>3, <1>4, <1>5

LEMMA ExponentIn ==
    ASSUME NEW temp \in Int, NEW smoke \in Int
    PROVE  HazardExponent(temp, smoke) \in 0 .. 70
<1> DEFINE t == (22 * (temp - 250)) \div 550
           u == (16 * smoke) \div 1000
<1>1. HazardExponent(temp, smoke) = Clamped(t, 0, 22) + Clamped(u, 0, 16)
  BY DEF HazardExponent
<1>2. t \in Int /\ u \in Int
  BY SMT
<1> HIDE DEF t, u
<1>3. Clamped(t, 0, 22) \in 0 .. 22
  BY <1>2 DEF Clamped, AtMost
<1>4. Clamped(u, 0, 16) \in 0 .. 16
  BY <1>2 DEF Clamped, AtMost
<1> QED
  BY <1>1, <1>3, <1>4

\* The table of exp: a thousand, and 1.105 times as much at every step.
LEMMA ExpSteps == Exp[0] = 1000 /\ \A k \in 0 .. 69 : Exp[k + 1] = (Exp[k] * 1105) \div 1000
<1> DEFINE G == [y \in Nat |-> (y * 1105) \div 1000]
           A == {y \in Nat : y >= 1000}
           Is(f) == f = [x \in 0 .. 70 |-> IF x = 0 THEN 1000 ELSE (f[x - 1] * 1105) \div 1000]
<1>1. \A y \in A : G[y] \in A
  <2> SUFFICES ASSUME NEW y \in A PROVE (y * 1105) \div 1000 \in A
    OBVIOUS
  <2> QED
    BY SMT
<1>2. PICK f : IsIterated(f, 70, 1000, G)
  <2> HIDE DEF G, A, Is
  <2>1. 70 \in Nat
    OBVIOUS
  <2> QED
    BY <2>1, IterationExists
<1>3. f[0] \in A /\ \A k \in 0 .. 69 : f[k] \in A => f[k + 1] \in A
  <2>1. \A k \in 0 .. 69 : f[k + 1] = G[f[k]]
    BY <1>2, SMT DEF IsIterated
  <2>2. f[0] \in A
    BY <1>2 DEF IsIterated
  <2> HIDE DEF A, G
  <2> QED
    BY <1>1, <2>1, <2>2
<1>4. \A k \in 0 .. 70 : f[k] \in A
  <2>1. \A k \in 0 .. 70 - 1 : f[k] \in A => f[k + 1] \in A
    BY <1>3
  <2> HIDE DEF A
  <2> QED
    BY <1>3, <2>1, IterationStays
<1>5. Is(f)
  <2>1. \A k \in 0 .. 70 : k # 0 => k - 1 \in 0 .. 70
    OBVIOUS
  <2>2. \A k \in 0 .. 70 : k # 0 => G[f[k - 1]] = (f[k - 1] * 1105) \div 1000
    BY <1>4, <2>1
  <2> HIDE DEF G
  <2> QED
    BY <1>2, <2>2 DEF IsIterated
<1> HIDE DEF Is
<1>6. Exp = CHOOSE g : Is(g)
  BY DEF Exp, Is
<1>7. Is(Exp)
  BY <1>5, <1>6
<1>8. \A k \in 0 .. 69 : Exp[k + 1] = (Exp[k] * 1105) \div 1000
  BY <1>7, SMT DEF Is
<1>9. Exp[0] = 1000
  BY <1>7 DEF Is
<1> QED
  BY <1>8, <1>9

LEMMA ExpIsPositive == \A x \in 0 .. 70 : Exp[x] \in Nat /\ Exp[x] >= 1000
<1> DEFINE A == {y \in Nat : y >= 1000}
<1>1. \A y \in A : (y * 1105) \div 1000 \in A
  BY SMT
<1>2. Exp[0] \in A
  BY ExpSteps
<1>3. \A k \in 0 .. 70 - 1 : Exp[k] \in A => Exp[k + 1] \in A
  <2> SUFFICES ASSUME NEW k \in 0 .. 70 - 1, Exp[k] \in A PROVE Exp[k + 1] \in A
    OBVIOUS
  <2>1. k \in 0 .. 69
    OBVIOUS
  <2> HIDE DEF A
  <2>2. Exp[k + 1] = (Exp[k] * 1105) \div 1000
    BY <2>1, ExpSteps
  <2> QED
    BY <1>1, <2>2
<1>4. \A k \in 0 .. 70 : Exp[k] \in A
  <2> HIDE DEF A
  <2> QED
    BY <1>2, <1>3, IterationStays
<1> QED
  BY <1>4

\* It ascends, ...
LEMMA ExpAscends ==
    \A x \in 0 .. 70 : \A y \in x .. 70 : Exp[x] <= Exp[y]
<1> SUFFICES ASSUME NEW x \in 0 .. 70, NEW y \in x .. 70 PROVE Exp[x] <= Exp[y]
  OBVIOUS
<1> DEFINE n == y - x
           T == {k \in 0 .. n : Exp[x] <= Exp[x + k]}
<1>1. n \in Nat /\ x + n = y /\ n <= 70 - x
  OBVIOUS
<1>2. 0 \in T
  <2>1. x + 0 = x
    OBVIOUS
  <2> QED
    BY <1>1, <2>1, ExpIsPositive
<1>3. ASSUME NEW k \in 0 .. n - 1, k \in T PROVE k + 1 \in T
  <2>1. x + k \in 0 .. 69 /\ x + k \in 0 .. 70 /\ (x + k) + 1 = x + (k + 1) /\ k + 1 \in 0 .. n
    BY <1>1
  <2>2. Exp[x + (k + 1)] = (Exp[x + k] * 1105) \div 1000
    BY <2>1, ExpSteps
  <2>3. Exp[x + k] \in Nat /\ Exp[x] \in Nat
    BY <2>1, ExpIsPositive
  <2>4. Exp[x] <= Exp[x + k]
    BY <1>3
  <2> DEFINE a == Exp[x + k]
             b == Exp[x]
  <2> HIDE DEF a, b
  <2>5. a \in Nat => a <= (a * 1105) \div 1000 /\ (a * 1105) \div 1000 \in Nat
    BY SMT
  <2>6. b <= (a * 1105) \div 1000
    BY <2>3, <2>4, <2>5 DEF a, b
  <2> QED
    BY <2>1, <2>2, <2>6 DEF a, b
<1>4. 0 .. n \subseteq T
  <2> HIDE DEF T, n
  <2> QED
    BY <1>1, <1>2, <1>3, FromZero
<1>5. n \in 0 .. n
  BY <1>1
<1>6. n \in T
  <2> HIDE DEF T, n
  <2> QED
    BY <1>4, <1>5
<1> QED
  BY <1>1, <1>6

\* ... and less than trebles in eight steps.
LEMMA ExpTrebles ==
    ASSUME NEW x \in 0 .. 62
    PROVE  Exp[x + 8] <= 3 * Exp[x]
<1>1. \A k \in 0 .. 8 : x + k \in 0 .. 70 /\ Exp[x + k] \in Nat
  <2>1. \A k \in 0 .. 8 : x + k \in 0 .. 70
    OBVIOUS
  <2> QED
    BY <2>1, ExpIsPositive
<1>2. \A k \in 0 .. 7 : 1000 * Exp[x + (k + 1)] <= 1105 * Exp[x + k]
  <2> SUFFICES ASSUME NEW k \in 0 .. 7 PROVE 1000 * Exp[x + (k + 1)] <= 1105 * Exp[x + k]
    OBVIOUS
  <2>1. x + k \in 0 .. 69 /\ (x + k) + 1 = x + (k + 1) /\ k \in 0 .. 8
    OBVIOUS
  <2>2. Exp[x + (k + 1)] = (Exp[x + k] * 1105) \div 1000
    BY <2>1, ExpSteps
  <2>3. Exp[x + k] \in Nat
    BY <1>1, <2>1
  <2> DEFINE a == Exp[x + k]
  <2> HIDE DEF a
  <2>4. a \in Nat => 1000 * ((a * 1105) \div 1000) <= 1105 * a
    BY SMT
  <2> QED
    BY <2>2, <2>3, <2>4 DEF a
<1> DEFINE f == [k \in 0 .. 8 |-> Exp[x + k]]
<1>3. \A k \in 0 .. 8 : f[k] \in Nat
  BY <1>1
<1>4. \A k \in 0 .. 7 : 1000 * f[k + 1] <= 1105 * f[k]
  BY <1>2
<1>5. f[0] = Exp[x] /\ f[8] = Exp[x + 8]
  OBVIOUS
<1> HIDE DEF f
<1>6. /\ f[0] \in Nat /\ f[1] \in Nat /\ f[2] \in Nat /\ f[3] \in Nat /\ f[4] \in Nat
      /\ f[5] \in Nat /\ f[6] \in Nat /\ f[7] \in Nat /\ f[8] \in Nat
  BY <1>3
<1>7. /\ 1000 * f[1] <= 1105 * f[0] /\ 1000 * f[2] <= 1105 * f[1] /\ 1000 * f[3] <= 1105 * f[2]
      /\ 1000 * f[4] <= 1105 * f[3] /\ 1000 * f[5] <= 1105 * f[4] /\ 1000 * f[6] <= 1105 * f[5]
      /\ 1000 * f[7] <= 1105 * f[6] /\ 1000 * f[8] <= 1105 * f[7]
  BY <1>4, SMT
<1>8. f[8] <= 3 * f[0]
  BY <1>6, <1>7, SMT
<1> QED
  BY <1>5, <1>8

\* The hazard of an edge that does not burn stays far below the cost of one that does.
LEMMA ExpIsModest == \A x \in 0 .. 38 : Exp[x] \in Nat /\ Exp[x] <= 250000
<1>1. Exp[0] = 1000
  BY ExpSteps
<1>2. Exp[0 + 8] <= 3 * Exp[0]
  BY ExpTrebles
<1>3. Exp[8 + 8] <= 3 * Exp[8]
  BY ExpTrebles
<1>4. Exp[16 + 8] <= 3 * Exp[16]
  BY ExpTrebles
<1>5. Exp[24 + 8] <= 3 * Exp[24]
  BY ExpTrebles
<1>6. Exp[32 + 8] <= 3 * Exp[32]
  BY ExpTrebles
<1>7. Exp[8] \in Nat /\ Exp[16] \in Nat /\ Exp[24] \in Nat /\ Exp[32] \in Nat /\ Exp[40] \in Nat
  BY ExpIsPositive
<1>8. Exp[40] <= 250000
  BY <1>1, <1>2, <1>3, <1>4, <1>5, <1>6, <1>7
<1>9. ASSUME NEW x \in 0 .. 38 PROVE Exp[x] \in Nat /\ Exp[x] <= Exp[40]
  <2>1. x \in 0 .. 70 /\ 40 \in x .. 70
    OBVIOUS
  <2>2. Exp[x] \in Nat
    BY <2>1, ExpIsPositive
  <2>3. Exp[x] <= Exp[40]
    BY <2>1, ExpAscends
  <2> QED
    BY <2>2, <2>3
<1> QED
  BY <1>7, <1>8, <1>9

\* Multiplication and division are monotone.
LEMMA ProductsAscend ==
    ASSUME NEW k \in Nat, NEW a \in Nat, NEW b \in Nat, a <= b
    PROVE  k * a <= k * b
<1> DEFINE c == b - a
<1>1. c \in Nat /\ b = a + c
  OBVIOUS
<1> HIDE DEF c
<1>2. k * (a + c) = k * a + k * c
  BY <1>1, SMT
<1>3. k * a \in Nat /\ k * c \in Nat
  BY <1>1, SMT
<1> QED
  BY <1>1, <1>2, <1>3

LEMMA QuotientBound ==
    ASSUME NEW n \in Nat, NEW d \in Nat \ {0}, NEW q \in Nat
    PROVE  q <= n \div d <=> q * d <= n
OBVIOUS

LEMMA QuotientsAscend ==
    ASSUME NEW n \in Int, NEW m \in Int, NEW d \in Nat \ {0}, n <= m
    PROVE  n \div d \in Int /\ m \div d \in Int /\ n \div d <= m \div d
OBVIOUS

LEMMA ClampedAscends ==
    ASSUME NEW a \in Int, NEW b \in Int, NEW low \in Int, NEW high \in Int, low <= high, a <= b
    PROVE  /\ Clamped(a, low, high) \in low .. high /\ Clamped(b, low, high) \in low .. high
           /\ Clamped(a, low, high) <= Clamped(b, low, high)
BY DEF Clamped, AtMost

LEMMA BlockIsHigh == BlockedCost \in Nat \ {0} /\ BlockedCost = ShelterThreshold /\ ShelterThreshold <= Infinity
BY SMT DEF BlockedCost, ShelterThreshold, Infinity

\* What a search among the nodes of a graph finds: a route to an exit below the
\* threshold, which begins with the next hop, or no path and no next hop.
LEMMA SearchFinds ==
    ASSUME NEW nodes, IsFiniteSet(nodes), Nowhere \notin nodes, NEW id \in nodes,
           NEW exits \in SUBSET nodes, NEW cost, Priced(cost, nodes, Nat \ {0})
    PROVE  LET d    == Dijkstra(nodes, cost, id)
               x    == NearestExit(d.dist, exits, ShelterThreshold)
               path == ExtractPath(d.prev, x)
               hop  == NextHop(d.prev, id, x)
           IN  \/ path = << >> /\ hop = Nowhere
               \/ \E y \in exits, w \in Nat :
                    /\ w < ShelterThreshold /\ IsRoute(path, nodes, cost, w, id, y)
                    /\ hop = IF Len(path) > 1 THEN path[2] ELSE Nowhere
<1> DEFINE d    == Dijkstra(nodes, cost, id)
           best == {y \in exits : /\ d.dist[y] < ShelterThreshold
                                  /\ \A z \in exits : d.dist[y] <= d.dist[z]}
           x    == NearestExit(d.dist, exits, ShelterThreshold)
<1>1. Priced(cost, nodes, Nat)
  BY DEF Priced
<1>2. Backed(d, nodes, cost, id)
  BY <1>1, DijkstraBacked
<1>3. d.prev \in [nodes -> nodes \cup {Nowhere}] /\ d.dist \in [nodes -> 0 .. Infinity]
  BY <1>2 DEF Backed
<1>4. x = IF best = {} THEN Nowhere ELSE CHOOSE y \in best : TRUE
  BY DEF NearestExit
<1> HIDE DEF d, x
<1>5. CASE best = {}
  <2>1. x = Nowhere
    BY <1>4, <1>5
  <2> QED
    BY <1>3, <2>1, NoExitNoPath DEF d, x
<1>6. CASE best # {}
  <2>1. x \in best
    BY <1>4, <1>6
  <2>2. x \in exits /\ x \in nodes /\ d.dist[x] < ShelterThreshold
    BY <2>1
  <2>3. d.dist[x] \in Nat /\ d.dist[x] < Infinity
    BY <1>3, <2>2, BlockIsHigh, InfinityIsANumber
  <2>4. IsRoute(ExtractPath(d.prev, x), nodes, cost, d.dist[x], id, x)
    BY <1>1, <1>2, <2>2, <2>3, PathsAreRoutes
  <2>5. NextHop(d.prev, id, x) = IF Len(ExtractPath(d.prev, x)) > 1
                                 THEN ExtractPath(d.prev, x)[2] ELSE Nowhere
    BY <1>1, <1>2, <2>2, <2>3, PathsAreRoutes
  <2> QED
    BY <2>2, <2>3, <2>4, <2>5 DEF d, x
<1> QED
  BY <1>5, <1>6

----------------------------------------------------------------------------
(* The checksum of the packets.  Of two packets that are fed into registers side by
   side only the difference matters: the places where the registers differ. *)

Register == [1 .. 16 -> Bit]

Diff(r, s) == {k \in 1 .. 16 : r[k] # s[k]}

\* What becomes of a difference when one bit more is fed, which is another one or not.
Turned(D, flip) ==
    {k \in 1 .. 16 : \/ k = 16 /\ ~ (1 \in D <=> flip)
                     \/ k \in {1, 14} /\ ~ (k + 1 \in D <=> ~ (1 \in D <=> flip))
                     \/ k \notin {1, 14, 16} /\ k + 1 \in D}

Xor(A, B) == (A \ B) \cup (B \ A)

\* Two bits add up to one.
LEMMA BitsAdd ==
    ASSUME NEW x \in Bit, NEW y \in Bit
    PROVE  BitXor(x, y) \in Bit /\ (BitXor(x, y) = 1 <=> x # y)
<1>1. /\ (0 + 0) % 2 = 0 /\ (0 + 1) % 2 = 1 /\ (1 + 0) % 2 = 1 /\ (1 + 1) % 2 = 0
  BY SMT
<1> QED
  BY <1>1, SMT DEF Bit, BitXor

LEMMA BitsDiffer ==
    ASSUME NEW x \in Bit, NEW y \in Bit, NEW u \in Bit, NEW v \in Bit
    PROVE  BitXor(x, y) # BitXor(u, v) <=> ~ (x # u <=> y # v)
<1>1. BitXor(x, y) \in Bit /\ (BitXor(x, y) = 1 <=> x # y)
  BY BitsAdd
<1>2. BitXor(u, v) \in Bit /\ (BitXor(u, v) = 1 <=> u # v)
  BY BitsAdd
<1> DEFINE p == BitXor(x, y)
           q == BitXor(u, v)
<1> HIDE DEF p, q
<1>3. p \in {0, 1} /\ q \in {0, 1}
  BY <1>1, <1>2 DEF p, q, Bit
<1>4. (p = 1 <=> x # y) /\ (q = 1 <=> u # v)
  BY <1>1, <1>2 DEF p, q
<1>5. x \in {0, 1} /\ y \in {0, 1} /\ u \in {0, 1} /\ v \in {0, 1}
  BY DEF Bit
<1>6. p # q <=> ~ (x # u <=> y # v)
  BY <1>3, <1>4, <1>5, SMT
<1> QED
  BY <1>6 DEF p, q

\* One step, place by place.
LEMMA ShiftBits ==
    ASSUME NEW r \in Register, NEW a \in Bit
    PROVE  /\ Shift(r, a) \in Register
           /\ Shift(r, a)[16] = BitXor(r[1], a)
           /\ \A k \in {1, 14} : Shift(r, a)[k] = BitXor(r[k + 1], BitXor(r[1], a))
           /\ \A k \in (1 .. 15) \ {1, 14} : Shift(r, a)[k] = r[k + 1]
<1> DEFINE out == BitXor(r[1], a)
           m(k) == CASE k = 16          -> out
                     [] k \in {1, 14}   -> BitXor(r[k + 1], out)
                     [] k \notin {1, 14, 16} -> r[k + 1]
<1>1. Shift(r, a) = [k \in 1 .. 16 |-> m(k)]
  BY DEF Shift
<1>2. \A k \in 1 .. 16 : r[k] \in Bit
  BY DEF Register
<1>3. out \in Bit
  <2>1. r[1] \in Bit
    BY <1>2
  <2> QED
    BY <2>1, BitsAdd
<1>4. m(16) = out
  OBVIOUS
<1> HIDE DEF out
<1>5. \A k \in {1, 14} : m(k) = BitXor(r[k + 1], out)
  OBVIOUS
<1>6. \A k \in (1 .. 15) \ {1, 14} : m(k) = r[k + 1]
  OBVIOUS
<1> HIDE DEF m
<1>7. \A k \in {1, 14} : k + 1 \in 1 .. 16 /\ k \in 1 .. 16
  OBVIOUS
<1>8. \A k \in {1, 14} : m(k) \in Bit
  <2> SUFFICES ASSUME NEW k \in {1, 14} PROVE m(k) \in Bit
    OBVIOUS
  <2>1. r[k + 1] \in Bit /\ m(k) = BitXor(r[k + 1], out)
    BY <1>2, <1>5, <1>7
  <2> HIDE DEF out
  <2> QED
    BY <1>3, <2>1, BitsAdd
<1>9. \A k \in (1 .. 15) \ {1, 14} : m(k) \in Bit
  BY <1>2, <1>6
<1>10. \A k \in 1 .. 16 : k = 16 \/ k \in {1, 14} \/ k \in (1 .. 15) \ {1, 14}
  OBVIOUS
<1>11. \A k \in 1 .. 16 : m(k) \in Bit
  BY <1>3, <1>4, <1>8, <1>9, <1>10
<1>12. Shift(r, a) \in Register
  BY <1>1, <1>11 DEF Register
<1> QED
  BY <1>1, <1>4, <1>5, <1>6, <1>12 DEF out

\* The difference after a step is a function of that before it.
LEMMA DiffTurns ==
    ASSUME NEW r \in Register, NEW s \in Register, NEW a \in Bit, NEW b \in Bit
    PROVE  Diff(Shift(r, a), Shift(s, b)) = Turned(Diff(r, s), a # b)
<1> DEFINE D == Diff(r, s)
           q == Shift(r, a)
           t == Shift(s, b)
           x == BitXor(r[1], a)
           y == BitXor(s[1], b)
<1>1. \A k \in 1 .. 16 : r[k] \in Bit /\ s[k] \in Bit /\ (k \in D <=> r[k] # s[k])
  BY DEF Register, Diff
<1>2. D \subseteq 1 .. 16
  BY DEF Diff
<1>3. x \in Bit /\ y \in Bit /\ (x # y <=> ~ (1 \in D <=> a # b))
  <2>1. 1 \in 1 .. 16
    OBVIOUS
  <2>2. r[1] \in Bit /\ s[1] \in Bit /\ (1 \in D <=> r[1] # s[1])
    BY <1>1, <2>1
  <2> HIDE DEF D
  <2>3. x \in Bit /\ y \in Bit
    BY <2>2, BitsAdd
  <2>4. x # y <=> ~ (r[1] # s[1] <=> a # b)
    BY <2>2, BitsDiffer
  <2> QED
    BY <2>2, <2>3, <2>4
<1>4. /\ q[16] = x
      /\ \A k \in {1, 14} : q[k] = BitXor(r[k + 1], x)
      /\ \A k \in (1 .. 15) \ {1, 14} : q[k] = r[k + 1]
  BY ShiftBits
<1>5. /\ t[16] = y
      /\ \A k \in {1, 14} : t[k] = BitXor(s[k + 1], y)
      /\ \A k \in (1 .. 15) \ {1, 14} : t[k] = s[k + 1]
  BY ShiftBits
<1> HIDE DEF x, y, q, t, D
<1>6. ASSUME NEW k \in 1 .. 16 PROVE q[k] # t[k] <=> k \in Turned(D, a # b)
  <2>1. CASE k = 16
    BY <1>3, <1>4, <1>5, <2>1 DEF Turned
  <2>2. CASE k \in {1, 14}
    <3>1. k + 1 \in 1 .. 16 /\ k # 16
      BY <2>2
    <3>2. q[k] # t[k] <=> ~ (r[k + 1] # s[k + 1] <=> x # y)
      <4>1. r[k + 1] \in Bit /\ s[k + 1] \in Bit
        BY <1>1, <3>1
      <4>2. q[k] = BitXor(r[k + 1], x) /\ t[k] = BitXor(s[k + 1], y)
        BY <1>4, <1>5, <2>2
      <4> QED
        BY <1>3, <4>1, <4>2, BitsDiffer
    <3>3. q[k] # t[k] <=> ~ (k + 1 \in D <=> ~ (1 \in D <=> a # b))
      BY <1>1, <1>3, <3>1, <3>2
    <3> QED
      BY <2>2, <3>1, <3>3 DEF Turned
  <2>3. CASE k \in (1 .. 15) \ {1, 14}
    <3>1. k + 1 \in 1 .. 16
      BY <2>3
    <3> QED
      BY <1>1, <1>4, <1>5, <2>3, <3>1 DEF Turned
  <2> QED
    BY <2>1, <2>2, <2>3
<1>7. Turned(D, a # b) \subseteq 1 .. 16
  BY DEF Turned
<1> QED
  BY <1>6, <1>7 DEF Diff, q, t, D

\* Differences add up.
LEMMA TurnedLinear ==
    ASSUME NEW A \in SUBSET (1 .. 16), NEW B \in SUBSET (1 .. 16)
    PROVE  Turned(Xor(A, B), FALSE) = Xor(Turned(A, FALSE), Turned(B, FALSE))
<1> DEFINE C == Xor(A, B)
<1>1. \A k : k \in C <=> ~ (k \in A <=> k \in B)
  BY DEF Xor
<1> HIDE DEF C
<1>2. \A k \in 1 .. 16 : k \in Turned(C, FALSE) <=> k \in Xor(Turned(A, FALSE), Turned(B, FALSE))
  <2> SUFFICES ASSUME NEW k \in 1 .. 16
               PROVE  k \in Turned(C, FALSE) <=> k \in Xor(Turned(A, FALSE), Turned(B, FALSE))
    OBVIOUS
  <2>1. CASE k = 16
    BY <1>1, <2>1 DEF Turned, Xor
  <2>2. CASE k \in {1, 14}
    BY <1>1, <2>2 DEF Turned, Xor
  <2>3. CASE k \notin {1, 14, 16}
    BY <1>1, <2>3 DEF Turned, Xor
  <2> QED
    BY <2>1, <2>2, <2>3
<1>3. Turned(C, FALSE) \subseteq 1 .. 16 /\ Xor(Turned(A, FALSE), Turned(B, FALSE)) \subseteq 1 .. 16
  BY DEF Turned, Xor
<1> QED
  BY <1>2, <1>3 DEF C

\* A difference never vanishes by itself, nor two become one.
LEMMA TurnedInjective ==
    ASSUME NEW A \in SUBSET (1 .. 16), NEW B \in SUBSET (1 .. 16),
           Turned(A, FALSE) = Turned(B, FALSE)
    PROVE  A = B
<1>1. \A k \in 1 .. 16 : k \in Turned(A, FALSE) <=> k \in Turned(B, FALSE)
  OBVIOUS
<1>2. 16 \in Turned(A, FALSE) <=> 16 \in Turned(B, FALSE)
  BY <1>1
<1>3. 1 \in A <=> 1 \in B
  BY <1>2 DEF Turned
<1>4. ASSUME NEW k \in 2 .. 16 PROVE k \in A <=> k \in B
  <2>1. k - 1 \in 1 .. 16 /\ k - 1 # 16 /\ (k - 1) + 1 = k
    OBVIOUS
  <2>2. k - 1 \in Turned(A, FALSE) <=> k - 1 \in Turned(B, FALSE)
    BY <1>1, <2>1
  <2>3. CASE k - 1 \in {1, 14}
    BY <1>3, <2>1, <2>2, <2>3 DEF Turned
  <2>4. CASE k - 1 \notin {1, 14}
    BY <2>1, <2>2, <2>4 DEF Turned
  <2> QED
    BY <2>3, <2>4
<1>5. \A k \in 1 .. 16 : k = 1 \/ k \in 2 .. 16
  OBVIOUS
<1>6. \A k \in 1 .. 16 : k \in A <=> k \in B
  BY <1>3, <1>4, <1>5
<1> QED
  BY <1>6

\* Without the lowest place, it only moves.
LEMMA TurnedMoves ==
    ASSUME NEW A \in SUBSET (2 .. 16)
    PROVE  /\ Turned(A, FALSE) \subseteq 1 .. 15
           /\ \A k \in 1 .. 15 : k \in Turned(A, FALSE) <=> k + 1 \in A
<1>1. 1 \notin A /\ 17 \notin A
  OBVIOUS
<1> QED
  BY <1>1 DEF Turned

\* A difference D of two registers while they are fed the same bits.
Drifts(W, D) ==
    /\ W \in [0 .. 240 -> SUBSET (1 .. 16)]
    /\ W[0] = D
    /\ \A m \in 0 .. 239 : W[m + 1] = Turned(W[m], FALSE)

LEMMA DriftExists ==
    ASSUME NEW D \in SUBSET (1 .. 16)
    PROVE  \E W : Drifts(W, D)
<1> DEFINE A == SUBSET (1 .. 16)
           G == [S \in A |-> Turned(S, FALSE)]
<1>1. PICK f : IsIterated(f, 240, D, G)
  <2> HIDE DEF G
  <2>1. 240 \in Nat
    OBVIOUS
  <2> QED
    BY <2>1, IterationExists
<1>2. \A S : Turned(S, FALSE) \in A
  BY DEF Turned
<1>3. f[0] = D /\ \A k \in 0 .. 239 : f[k + 1] = G[f[k]]
  <2> HIDE DEF G, A
  <2>1. \A k \in 0 .. 239 : k + 1 \in 0 .. 240 /\ k + 1 # 0 /\ (k + 1) - 1 = k
    OBVIOUS
  <2> QED
    BY <1>1, <2>1 DEF IsIterated
<1>4. \A k \in 0 .. 240 : f[k] \in A
  <2>1. \A k \in 0 .. 240 - 1 : f[k] \in A => f[k + 1] \in A
    <3>1. \A S \in A : G[S] \in A
      BY <1>2
    <3> HIDE DEF A, G
    <3> QED
      BY <1>3, <3>1
  <2>2. f[0] \in A
    BY <1>3
  <2> HIDE DEF A
  <2> QED
    BY <2>1, <2>2, IterationStays
<1>5. \A k \in 0 .. 239 : f[k + 1] = Turned(f[k], FALSE)
  <2> SUFFICES ASSUME NEW k \in 0 .. 239 PROVE f[k + 1] = Turned(f[k], FALSE)
    OBVIOUS
  <2>1. k \in 0 .. 240
    OBVIOUS
  <2> HIDE DEF A
  <2>2. f[k] \in A
    BY <1>4, <2>1
  <2>3. f[k + 1] = G[f[k]]
    BY <1>3
  <2>4. G[f[k]] = Turned(f[k], FALSE)
    BY <2>2
  <2> QED
    BY <2>3, <2>4
<1>6. f \in [0 .. 240 -> A]
  <2> HIDE DEF A, G
  <2>1. f = [k \in 0 .. 240 |-> f[k]]
    BY <1>1 DEF IsIterated
  <2> QED
    BY <1>4, <2>1
<1> QED
  BY <1>3, <1>5, <1>6 DEF Drifts

\* The highest place takes fifteen steps to the lowest.
LEMMA DriftStarts ==
    ASSUME NEW W, Drifts(W, {16})
    PROVE  \A m \in 0 .. 15 : W[m] = {16 - m}
<1> DEFINE T == {m \in 0 .. 15 : W[m] = {16 - m}}
<1>1. 0 \in T
  BY DEF Drifts
<1>2. ASSUME NEW m \in 0 .. 15 - 1, m \in T PROVE m + 1 \in T
  <2>1. W[m] = {16 - m} /\ 16 - m \in 2 .. 16 /\ m \in 0 .. 239 /\ m + 1 \in 0 .. 15
    BY <1>2
  <2>2. W[m + 1] = Turned({16 - m}, FALSE)
    BY <2>1 DEF Drifts
  <2>3. {16 - m} \in SUBSET (2 .. 16)
    BY <2>1
  <2>4. /\ Turned({16 - m}, FALSE) \subseteq 1 .. 15
        /\ \A k \in 1 .. 15 : k \in Turned({16 - m}, FALSE) <=> k + 1 \in {16 - m}
    BY <2>3, TurnedMoves
  <2>5. Turned({16 - m}, FALSE) = {16 - (m + 1)}
    <3>1. 15 - m \in 1 .. 15 /\ (15 - m) + 1 = 16 - m /\ 16 - (m + 1) = 15 - m
      BY <2>1
    <3>2. 15 - m \in Turned({16 - m}, FALSE)
      BY <2>4, <3>1
    <3>3. ASSUME NEW k \in Turned({16 - m}, FALSE) PROVE k = 15 - m
      <4>1. k \in 1 .. 15 /\ k + 1 = 16 - m
        BY <2>4
      <4> QED
        BY <3>1, <4>1
    <3> QED
      BY <3>1, <3>2, <3>3
  <2> QED
    BY <2>1, <2>2, <2>5
<1>3. 0 .. 15 \subseteq T
  <2> HIDE DEF T
  <2>1. 15 \in Nat
    OBVIOUS
  <2> QED
    BY <1>1, <1>2, <2>1, FromZero
<1> QED
  BY <1>3

Pair(W, m) == Xor(W[m], W[m + 1])

\* A difference together with the next one drifts as well.
LEMMA PairTurns ==
    ASSUME NEW W, NEW D, Drifts(W, D), NEW m \in 0 .. 238
    PROVE  /\ Pair(W, m) \in SUBSET (1 .. 16)
           /\ Pair(W, m + 1) = Turned(Pair(W, m), FALSE)
<1>1. /\ m \in 0 .. 239 /\ m + 1 \in 0 .. 239 /\ m \in 0 .. 240 /\ m + 1 \in 0 .. 240
  OBVIOUS
<1>2. /\ W[m] \in SUBSET (1 .. 16) /\ W[m + 1] \in SUBSET (1 .. 16)
      /\ W[m + 1] = Turned(W[m], FALSE) /\ W[(m + 1) + 1] = Turned(W[m + 1], FALSE)
  BY <1>1 DEF Drifts
<1>3. Pair(W, m) \in SUBSET (1 .. 16)
  BY <1>2 DEF Pair, Xor
<1>4. Turned(Xor(W[m], W[m + 1]), FALSE) = Xor(Turned(W[m], FALSE), Turned(W[m + 1], FALSE))
  BY <1>2, TurnedLinear
<1>5. Pair(W, m + 1) = Turned(Pair(W, m), FALSE)
  BY <1>2, <1>4 DEF Pair
<1> QED
  BY <1>3, <1>5

\* What two neighbours become, fifteen steps later: the polynomial has the factor x + 1,
\* and the other one is x^15 + x + 1.
LEMMA PairAfterFifteen ==
    ASSUME NEW W, Drifts(W, {16})
    PROVE  \A m \in 0 .. 220 : Pair(W, m + 15) = Xor(Pair(W, m), Pair(W, m + 1))
<1> DEFINE T == {m \in 0 .. 220 : Pair(W, m + 15) = Xor(Pair(W, m), Pair(W, m + 1))}
<1>1. 0 \in T
  <2>1. W[0] = {16} /\ W[1] = {15} /\ W[2] = {14} /\ W[14] = {2} /\ W[15] = {1}
    <3>1. \A m \in 0 .. 15 : W[m] = {16 - m}
      BY DriftStarts
    <3> QED
      BY <3>1
  <2>2. Pair(W, 0) = {15, 16} /\ Pair(W, 1) = {14, 15} /\ Pair(W, 14) = {1, 2}
    BY <2>1 DEF Pair, Xor
  <2>3. Pair(W, 14 + 1) = Turned(Pair(W, 14), FALSE)
    <3>1. 14 \in 0 .. 238
      OBVIOUS
    <3> QED
      BY <3>1, PairTurns
  <2>4. Turned({1, 2}, FALSE) = {14, 16}
    BY DEF Turned
  <2>5. Xor({15, 16}, {14, 15}) = {14, 16}
    BY DEF Xor
  <2>6. 14 + 1 = 15 /\ 0 + 15 = 15 /\ 0 + 1 = 1
    OBVIOUS
  <2>7. Pair(W, 15) = {14, 16}
    BY <2>2, <2>3, <2>4, <2>6
  <2>8. Pair(W, 0 + 15) = Xor(Pair(W, 0), Pair(W, 0 + 1))
    BY <2>2, <2>5, <2>6, <2>7
  <2> QED
    BY <2>8
<1>2. ASSUME NEW m \in 0 .. 220 - 1, m \in T PROVE m + 1 \in T
  <2>1. /\ m \in 0 .. 238 /\ m + 1 \in 0 .. 238 /\ m + 15 \in 0 .. 238
        /\ (m + 15) + 1 = (m + 1) + 15 /\ m + 1 \in 0 .. 220
    OBVIOUS
  <2>2. Pair(W, m) \in SUBSET (1 .. 16) /\ Pair(W, m + 1) = Turned(Pair(W, m), FALSE)
    BY <2>1, PairTurns
  <2>3. Pair(W, m + 1) \in SUBSET (1 .. 16)
        /\ Pair(W, (m + 1) + 1) = Turned(Pair(W, m + 1), FALSE)
    BY <2>1, PairTurns
  <2>4. Pair(W, (m + 1) + 15) = Turned(Pair(W, m + 15), FALSE)
    <3>1. Pair(W, (m + 15) + 1) = Turned(Pair(W, m + 15), FALSE)
      BY <2>1, PairTurns
    <3> QED
      BY <2>1, <3>1
  <2>5. Pair(W, m + 15) = Xor(Pair(W, m), Pair(W, m + 1))
    BY <1>2
  <2>6. Turned(Xor(Pair(W, m), Pair(W, m + 1)), FALSE)
        = Xor(Turned(Pair(W, m), FALSE), Turned(Pair(W, m + 1), FALSE))
    BY <2>2, <2>3, TurnedLinear
  <2>7. Pair(W, (m + 1) + 15) = Xor(Pair(W, m + 1), Pair(W, (m + 1) + 1))
    BY <2>2, <2>3, <2>4, <2>5, <2>6
  <2> QED
    BY <2>1, <2>7
<1>3. 0 .. 220 \subseteq T
  <2> HIDE DEF T
  <2>1. 220 \in Nat
    OBVIOUS
  <2> QED
    BY <1>1, <1>2, <2>1, FromZero
<1> QED
  BY <1>3

\* So every fifteen steps it reaches one place further down, and the highest stays.
LEMMA PairSpreads ==
    ASSUME NEW W, Drifts(W, {16})
    PROVE  \A b \in 0 .. 14 : {15 - b, 16} \subseteq Pair(W, 15 * b)
<1> DEFINE U(b) == Pair(W, 15 * b)
           T == {b \in 0 .. 14 : {15 - b, 16} \subseteq U(b) /\ U(b) \subseteq (15 - b) .. 16}
<1>1. 0 \in T
  <2>1. W[0] = {16} /\ W[1] = {15}
    <3>1. \A m \in 0 .. 15 : W[m] = {16 - m}
      BY DriftStarts
    <3> QED
      BY <3>1
  <2>2. U(0) = {15, 16}
    <3>1. 15 * 0 = 0 /\ 0 + 1 = 1
      OBVIOUS
    <3> QED
      BY <2>1, <3>1 DEF Pair, Xor
  <2> HIDE DEF U
  <2> QED
    BY <2>2
<1>2. ASSUME NEW b \in 0 .. 14 - 1, b \in T PROVE b + 1 \in T
  <2>1. /\ 15 * b \in 0 .. 238 /\ 15 * b \in 0 .. 220
        /\ 15 * b + 15 = 15 * (b + 1) /\ 15 - b \in 2 .. 15
    OBVIOUS
  <2>2. U(b + 1) = Xor(U(b), Pair(W, 15 * b + 1))
    <3>1. Pair(W, 15 * b + 15) = Xor(Pair(W, 15 * b), Pair(W, 15 * b + 1))
      BY <2>1, PairAfterFifteen
    <3> QED
      BY <2>1, <3>1
  <2>3. Pair(W, 15 * b + 1) = Turned(U(b), FALSE)
    BY <2>1, PairTurns
  <2>4. {15 - b, 16} \subseteq U(b) /\ U(b) \subseteq (15 - b) .. 16
    BY <1>2
  <2> HIDE DEF U
  <2>5. U(b) \in SUBSET (2 .. 16)
    BY <2>1, <2>4
  <2> DEFINE V == Turned(U(b), FALSE)
  <2>6. /\ V \subseteq 1 .. 15
        /\ \A k \in 1 .. 15 : k \in V <=> k + 1 \in U(b)
    BY <2>5, TurnedMoves
  <2> HIDE DEF V
  <2>7. 16 \notin V /\ 14 - b \in V /\ V \subseteq (14 - b) .. 15
    <3>1. 14 - b \in 1 .. 15 /\ (14 - b) + 1 = 15 - b
      BY <2>1
    <3>2. 14 - b \in V
      BY <2>4, <2>6, <3>1
    <3>3. ASSUME NEW k \in V PROVE k \in (14 - b) .. 15
      <4>1. k \in 1 .. 15 /\ k + 1 \in (15 - b) .. 16
        BY <2>4, <2>6
      <4> QED
        BY <2>1, <4>1
    <3> QED
      BY <2>6, <3>2, <3>3
  <2>8. 14 - b \notin U(b)
    BY <2>1, <2>4
  <2>9. U(b + 1) = Xor(U(b), V)
    BY <2>2, <2>3 DEF V
  <2>10. 16 \in U(b + 1) /\ 14 - b \in U(b + 1)
    BY <2>4, <2>7, <2>8, <2>9 DEF Xor
  <2>11. U(b + 1) \subseteq (14 - b) .. 16
    <3>1. \A k \in U(b + 1) : k \in U(b) \/ k \in V
      BY <2>9 DEF Xor
    <3>2. (15 - b) .. 16 \subseteq (14 - b) .. 16 /\ (14 - b) .. 15 \subseteq (14 - b) .. 16
      BY <2>1
    <3> QED
      BY <2>4, <2>7, <3>1, <3>2
  <2>12. 15 - (b + 1) = 14 - b /\ b + 1 \in 0 .. 14
    BY <2>1
  <2> QED
    BY <2>10, <2>11, <2>12
<1>3. 0 .. 14 \subseteq T
  <2> HIDE DEF T
  <2>1. 14 \in Nat
    OBVIOUS
  <2> QED
    BY <1>1, <1>2, <2>1, FromZero
<1> QED
  BY <1>3

\* A difference in the lowest place alone does not come back to that within 210 steps.
LEMMA DriftGoesOn ==
    ASSUME NEW W, Drifts(W, {16}), NEW d \in 1 .. 210
    PROVE  W[15 + d] # {1}
<1> SUFFICES ASSUME W[15 + d] = {1} PROVE FALSE
  OBVIOUS
<1>1. \A m \in 0 .. 15 : W[m] = {16 - m}
  BY DriftStarts
<1>2. \A k \in 0 .. 15 : W[d + (15 - k)] = W[15 - k]
  <2> DEFINE T == {k \in 0 .. 15 : W[d + (15 - k)] = W[15 - k]}
  <2>1. 0 \in T
    <3>1. W[15] = {1}
      BY <1>1
    <3>2. d + (15 - 0) = 15 + d /\ 15 - 0 = 15
      OBVIOUS
    <3> QED
      BY <3>1, <3>2
  <2>2. ASSUME NEW k \in 0 .. 15 - 1, k \in T PROVE k + 1 \in T
    <3> DEFINE m == 15 - (k + 1)
    <3>1. /\ m \in 0 .. 239 /\ d + m \in 0 .. 239 /\ m + 1 = 15 - k
          /\ (d + m) + 1 = d + (15 - k) /\ m \in 0 .. 240 /\ d + m \in 0 .. 240 /\ k + 1 \in 0 .. 15
      OBVIOUS
    <3> HIDE DEF m
    <3>2. /\ W[m] \in SUBSET (1 .. 16) /\ W[d + m] \in SUBSET (1 .. 16)
          /\ W[m + 1] = Turned(W[m], FALSE)
          /\ W[(d + m) + 1] = Turned(W[d + m], FALSE)
      BY <3>1 DEF Drifts
    <3>3. W[d + (15 - k)] = W[15 - k]
      BY <2>2
    <3>4. Turned(W[d + m], FALSE) = Turned(W[m], FALSE)
      BY <3>1, <3>2, <3>3
    <3>5. W[d + m] = W[m]
      BY <3>2, <3>4, TurnedInjective
    <3> QED
      BY <3>1, <3>5 DEF m
  <2>3. 0 .. 15 \subseteq T
    <3> HIDE DEF T
    <3>1. 15 \in Nat
      OBVIOUS
    <3> QED
      BY <2>1, <2>2, <3>1, FromZero
  <2> QED
    BY <2>3
<1>3. ASSUME NEW k \in 0 .. 15 PROVE W[d + k] = W[k]
  <2>1. 15 - k \in 0 .. 15 /\ 15 - (15 - k) = k
    OBVIOUS
  <2> QED
    BY <1>2, <2>1
<1>4. \E b \in 1 .. 14, c \in 0 .. 14 : d + c = 15 * b
  <2>1. (d + 14) \div 15 \in 1 .. 14 /\ 15 * ((d + 14) \div 15) - d \in 0 .. 14
    BY SMT
  <2> QED
    BY <2>1
<1>5. PICK b \in 1 .. 14, c \in 0 .. 14 : d + c = 15 * b
  BY <1>4
<1>6. Pair(W, 15 * b) = Pair(W, c)
  <2>1. c \in 0 .. 15 /\ c + 1 \in 0 .. 15 /\ (d + c) + 1 = d + (c + 1)
    OBVIOUS
  <2>2. W[d + c] = W[c] /\ W[d + (c + 1)] = W[c + 1]
    BY <1>3, <2>1
  <2> QED
    BY <1>5, <2>1, <2>2 DEF Pair
<1>7. Pair(W, c) = {15 - c, 16 - c}
  <2>1. c \in 0 .. 15 /\ c + 1 \in 0 .. 15 /\ 16 - (c + 1) = 15 - c /\ 15 - c # 16 - c
    OBVIOUS
  <2>2. W[c] = {16 - c} /\ W[c + 1] = {15 - c}
    BY <1>1, <2>1
  <2> QED
    BY <2>1, <2>2 DEF Pair, Xor
<1>8. {15 - b, 16} \subseteq Pair(W, 15 * b)
  <2>1. b \in 0 .. 14
    OBVIOUS
  <2> QED
    BY <2>1, PairSpreads
<1>9. 15 - b \in {15 - c, 16 - c} /\ 16 \in {15 - c, 16 - c}
  BY <1>6, <1>7, <1>8
<1> QED
  BY <1>9

\* The registers while some bits are fed.
Feeds(R, bits) ==
    /\ R \in [0 .. Len(bits) -> Register]
    /\ R[0] = [k \in 1 .. 16 |-> 1]
    /\ \A i \in 1 .. Len(bits) : R[i] = Shift(R[i - 1], bits[i])

\* The recursive function in Crc16 exists, and its values are registers.
LEMMA CrcFeeds ==
    ASSUME NEW bits \in Seq(Bit)
    PROVE  \E R : Feeds(R, bits) /\ Crc16(bits) = R[Len(bits)]
<1> DEFINE N == Len(bits)
           ones == [k \in 1 .. 16 |-> 1]
           Step(f, i) == IF i = 0 THEN ones ELSE Shift(f[i - 1], bits[i])
           Is(f, n) == f = [i \in 0 .. n |-> Step(f, i)]
           T == {n \in 0 .. N : \E f : Is(f, n)}
<1>1. N \in Nat /\ \A i \in 1 .. N : bits[i] \in Bit
  OBVIOUS
<1>2. ones \in Register
  BY DEF Register, Bit
<1> HIDE DEF N, ones
<1>3. 0 \in T
  <2> DEFINE f == [i \in 0 .. 0 |-> ones]
  <2>1. Is(f, 0)
    OBVIOUS
  <2> HIDE DEF f, Is
  <2> QED
    BY <1>1, <2>1
<1>4. ASSUME NEW n \in 0 .. N - 1, n \in T PROVE n + 1 \in T
  <2>1. PICK f : Is(f, n)
    BY <1>4
  <2> DEFINE m    == n + 1
             more == [i \in 0 .. m |-> IF i = m THEN Shift(f[n], bits[m]) ELSE f[i]]
  <2>2. ASSUME NEW i \in 0 .. m PROVE more[i] = Step(more, i)
    <3>1. CASE i = m
      <4>1. i # 0 /\ i - 1 = n /\ n \in 0 .. m /\ n # m
        BY <1>1, <3>1
      <4> QED
        BY <3>1, <4>1
    <3>2. CASE i # m
      <4>1. i \in 0 .. n /\ (i # 0 => i - 1 \in 0 .. m /\ i - 1 # m)
        BY <1>1, <3>2
      <4>2. more[i] = f[i] /\ (i # 0 => more[i - 1] = f[i - 1])
        BY <3>2, <4>1
      <4>3. f[i] = Step(f, i)
        BY <2>1, <4>1
      <4> QED
        BY <4>2, <4>3
    <3> QED
      BY <3>1, <3>2
  <2>3. more = [i \in 0 .. m |-> more[i]]
    OBVIOUS
  <2> HIDE DEF more
  <2>4. Is(more, m)
    BY <2>2, <2>3
  <2> HIDE DEF Is
  <2> QED
    BY <1>1, <2>4
<1>5. 0 .. N \subseteq T
  <2> HIDE DEF T
  <2> QED
    BY <1>1, <1>3, <1>4, FromZero
<1> DEFINE R == CHOOSE f : Is(f, N)
<1>6. Is(R, N)
  <2>1. N \in 0 .. N
    BY <1>1
  <2>2. N \in T
    <3> HIDE DEF T
    <3> QED
      BY <1>5, <2>1
  <2> HIDE DEF Is
  <2> QED
    BY <2>2
<1>7. Crc16(bits) = R[N]
  BY DEF Crc16, N, ones
<1> HIDE DEF R
<1>8. R[0] = ones /\ \A i \in 1 .. N : R[i] = Shift(R[i - 1], bits[i])
  BY <1>1, <1>6
<1>9. \A i \in 0 .. N : R[i] \in Register
  <2> DEFINE A == {i \in 0 .. N : R[i] \in Register}
  <2>1. 0 \in A
    BY <1>1, <1>2, <1>8
  <2>2. ASSUME NEW i \in 0 .. N - 1, i \in A PROVE i + 1 \in A
    <3>1. i + 1 \in 1 .. N /\ (i + 1) - 1 = i /\ i + 1 \in 0 .. N
      BY <1>1
    <3>2. R[i + 1] = Shift(R[i], bits[i + 1])
      BY <1>8, <3>1
    <3>3. bits[i + 1] \in Bit /\ R[i] \in Register
      BY <1>1, <2>2, <3>1
    <3>4. R[i + 1] \in Register
      BY <3>2, <3>3, ShiftBits
    <3> QED
      BY <3>1, <3>4
  <2>3. 0 .. N \subseteq A
    <3> HIDE DEF A
    <3> QED
      BY <1>1, <2>1, <2>2, FromZero
  <2> QED
    BY <2>3
<1>10. R \in [0 .. N -> Register]
  BY <1>6, <1>9
<1>11. Feeds(R, bits)
  BY <1>8, <1>10 DEF Feeds, N, ones
<1> QED
  BY <1>7, <1>11 DEF N

\* What was fed first does not depend on what follows.
LEMMA FeedsAgree ==
    ASSUME NEW p \in Seq(Bit), NEW q \in Seq(Bit), NEW R, NEW S, Feeds(R, p), Feeds(S, q),
           NEW n \in Nat, n <= Len(p), n <= Len(q), \A i \in 1 .. n : p[i] = q[i]
    PROVE  R[n] = S[n]
<1> DEFINE T == {i \in 0 .. n : R[i] = S[i]}
<1>1. 0 \in T
  BY DEF Feeds
<1>2. ASSUME NEW i \in 0 .. n - 1, i \in T PROVE i + 1 \in T
  <2>1. i + 1 \in 1 .. Len(p) /\ i + 1 \in 1 .. Len(q) /\ i + 1 \in 1 .. n
        /\ (i + 1) - 1 = i /\ i + 1 \in 0 .. n
    OBVIOUS
  <2>2. R[i + 1] = Shift(R[i], p[i + 1]) /\ S[i + 1] = Shift(S[i], q[i + 1])
    BY <2>1 DEF Feeds
  <2>3. R[i + 1] = S[i + 1]
    BY <1>2, <2>1, <2>2
  <2> QED
    BY <2>1, <2>3
<1>3. 0 .. n \subseteq T
  <2> HIDE DEF T
  <2> QED
    BY <1>1, <1>2, FromZero
<1> QED
  BY <1>3

LEMMA BitsCancel ==
    ASSUME NEW x \in Bit
    PROVE  BitXor(x, x) = 0 /\ BitXor(x, 0) = x
<1>1. 0 % 2 = 0 /\ 2 % 2 = 0 /\ 1 % 2 = 1
  BY SMT
<1> QED
  BY <1>1, SMT DEF Bit, BitXor

\* A packet with its checksum leaves nothing in the register.
LEMMA ValidEndsInZero ==
    ASSUME NEW p \in Seq(Bit), Len(p) >= 16, CrcValid(p), NEW R, Feeds(R, p)
    PROVE  R[Len(p)] = [k \in 1 .. 16 |-> 0]
<1> DEFINE n == Len(p) - 16
           c == SubSeq(p, Len(p) - 15, Len(p))
           start == SubSeq(p, 1, n)
<1>1. Len(p) \in Nat /\ n \in Nat /\ n + 16 = Len(p) /\ \A i \in 1 .. Len(p) : p[i] \in Bit
  OBVIOUS
<1>2. start \in Seq(Bit) /\ Len(start) = n /\ \A i \in 1 .. n : start[i] = p[i]
  BY <1>1
<1>3. \A k \in 1 .. 16 : c[k] = p[n + k]
  BY <1>1
<1>4. Crc16(start) = c
  BY DEF CrcValid
<1> HIDE DEF n, c, start
<1>5. PICK S : Feeds(S, start) /\ Crc16(start) = S[Len(start)]
  BY <1>2, CrcFeeds
<1>6. R[n] = c
  <2>1. n <= Len(start) /\ n <= Len(p)
    BY <1>1, <1>2
  <2>2. R[n] = S[n]
    BY <1>1, <1>2, <1>5, <2>1, FeedsAgree
  <2> QED
    BY <1>2, <1>4, <1>5, <2>2
<1>7. \A i \in 0 .. Len(p) : R[i] \in Register
  BY DEF Feeds
<1> DEFINE Rest(m) == [k \in 1 .. 16 |-> IF k + m <= 16 THEN p[n + (k + m)] ELSE 0]
           T == {m \in 0 .. 16 : R[n + m] = Rest(m)}
<1>8. 0 \in T
  <2>1. R[n] \in Register
    BY <1>1, <1>7
  <2>2. R[n] = [k \in 1 .. 16 |-> R[n][k]]
    BY <2>1 DEF Register
  <2>3. \A k \in 1 .. 16 : k + 0 <= 16 /\ k + 0 = k /\ R[n][k] = p[n + k]
    <3>1. \A k \in 1 .. 16 : k + 0 <= 16 /\ k + 0 = k
      OBVIOUS
    <3>2. \A k \in 1 .. 16 : R[n][k] = p[n + k]
      BY <1>3, <1>6, Zenon
    <3> QED
      BY <3>1, <3>2
  <2>4. Rest(0) = [k \in 1 .. 16 |-> p[n + k]]
    BY <2>3
  <2>5. R[n] = Rest(0)
    BY <2>2, <2>3, <2>4
  <2>6. n + 0 = n
    BY <1>1
  <2> HIDE DEF Rest
  <2> QED
    BY <2>5, <2>6
<1>9. ASSUME NEW m \in 0 .. 16 - 1, m \in T PROVE m + 1 \in T
  <2> DEFINE r == R[n + m]
             b == p[n + (1 + m)]
  <2>1. /\ n + m \in 0 .. Len(p) /\ n + (1 + m) \in 1 .. Len(p) /\ n + (1 + m) \in 0 .. Len(p)
        /\ (n + (1 + m)) - 1 = n + m /\ n + (m + 1) = n + (1 + m) /\ m + 1 \in 0 .. 16
    BY <1>1
  <2>2. r \in Register /\ b \in Bit
    BY <1>1, <1>7, <2>1
  <2>3. R[n + (1 + m)] = Shift(r, b)
    BY <2>1 DEF Feeds
  <2>4. \A k \in 1 .. 16 : r[k] = IF k + m <= 16 THEN p[n + (k + m)] ELSE 0
    BY <1>9
  <2>5. r[1] = b
    BY <2>4
  <2>6. BitXor(r[1], b) = 0
    BY <2>2, <2>5, BitsCancel
  <2> HIDE DEF r, b
  <2>7. \A k \in 1 .. 15 : Shift(r, b)[k] = r[k + 1]
    <3>1. ASSUME NEW k \in {1, 14} PROVE Shift(r, b)[k] = r[k + 1]
      <4>1. r[k + 1] \in Bit
        BY <2>2 DEF Register
      <4>2. BitXor(r[k + 1], 0) = r[k + 1]
        BY <4>1, BitsCancel
      <4>3. Shift(r, b)[k] = BitXor(r[k + 1], BitXor(r[1], b))
        BY <2>2, <3>1, ShiftBits
      <4> QED
        BY <2>6, <4>2, <4>3
    <3>2. \A k \in (1 .. 15) \ {1, 14} : Shift(r, b)[k] = r[k + 1]
      BY <2>2, ShiftBits
    <3> QED
      BY <3>1, <3>2
  <2>8. Shift(r, b)[16] = 0
    BY <2>2, <2>6, ShiftBits
  <2>9. ASSUME NEW k \in 1 .. 16
        PROVE  Shift(r, b)[k] = IF k + (m + 1) <= 16 THEN p[n + (k + (m + 1))] ELSE 0
    <3>1. CASE k = 16
      BY <2>8, <3>1
    <3>2. CASE k # 16
      <4>1. k \in 1 .. 15 /\ k + 1 \in 1 .. 16 /\ (k + 1) + m = k + (m + 1)
        BY <3>2
      <4>2. Shift(r, b)[k] = r[k + 1]
        BY <2>7, <4>1
      <4>3. r[k + 1] = IF (k + 1) + m <= 16 THEN p[n + ((k + 1) + m)] ELSE 0
        BY <2>4, <4>1
      <4> QED
        BY <4>1, <4>2, <4>3
    <3> QED
      BY <3>1, <3>2
  <2>10. Shift(r, b) \in Register
    BY <2>2, ShiftBits
  <2>11. Shift(r, b) = [k \in 1 .. 16 |-> Shift(r, b)[k]]
    BY <2>10 DEF Register
  <2> DEFINE t == Shift(r, b)
  <2> HIDE DEF t
  <2>12. t = Rest(m + 1)
    BY <2>9, <2>11 DEF t
  <2> HIDE DEF Rest
  <2> QED
    BY <2>1, <2>3, <2>12 DEF t
<1>10. 0 .. 16 \subseteq T
  <2> HIDE DEF T
  <2>1. 16 \in Nat
    OBVIOUS
  <2> QED
    BY <1>8, <1>9, <2>1, FromZero
<1>11. R[n + 16] = Rest(16)
  <2> HIDE DEF Rest
  <2> QED
    BY <1>10
<1>12. Rest(16) = [k \in 1 .. 16 |-> 0]
  <2>1. \A k \in 1 .. 16 : ~ (k + 16 <= 16)
    OBVIOUS
  <2> QED
    BY <2>1
<1> QED
  BY <1>1, <1>11, <1>12

\* So of two valid packets the differences end in none.
LEMMA ValidsEndAlike ==
    ASSUME NEW p \in Seq(Bit), NEW q \in Seq(Bit), Len(q) = Len(p), Len(p) >= 16,
           CrcValid(p), CrcValid(q)
    PROVE  \E D \in [0 .. Len(p) -> SUBSET (1 .. 16)] :
              /\ D[0] = {} /\ D[Len(p)] = {}
              /\ \A k \in 1 .. Len(p) : D[k] = Turned(D[k - 1], p[k] # q[k])
<1>1. PICK R : Feeds(R, p)
  BY CrcFeeds
<1>2. PICK S : Feeds(S, q)
  BY CrcFeeds
<1> DEFINE N == Len(p)
           D == [k \in 0 .. N |-> Diff(R[k], S[k])]
<1>3. N \in Nat /\ N >= 16 /\ Len(q) = N /\ \A k \in 1 .. N : p[k] \in Bit /\ q[k] \in Bit
  OBVIOUS
<1>4. /\ R \in [0 .. N -> Register] /\ S \in [0 .. N -> Register]
      /\ R[0] = [k \in 1 .. 16 |-> 1] /\ S[0] = [k \in 1 .. 16 |-> 1]
      /\ \A k \in 1 .. N : R[k] = Shift(R[k - 1], p[k]) /\ S[k] = Shift(S[k - 1], q[k])
  BY <1>1, <1>2, <1>3 DEF Feeds
<1>5. R[N] = [k \in 1 .. 16 |-> 0] /\ S[N] = [k \in 1 .. 16 |-> 0]
  <2>1. R[N] = [k \in 1 .. 16 |-> 0]
    BY <1>1, ValidEndsInZero
  <2>2. S[Len(q)] = [k \in 1 .. 16 |-> 0]
    BY <1>2, <1>3, ValidEndsInZero
  <2> QED
    BY <1>3, <2>1, <2>2
<1> HIDE DEF N
<1>6. D \in [0 .. N -> SUBSET (1 .. 16)]
  BY DEF Diff
<1>7. D[0] = {} /\ D[N] = {}
  <2>1. \A r, s : r = s => Diff(r, s) = {}
    BY DEF Diff
  <2>2. 0 \in 0 .. N /\ N \in 0 .. N
    BY <1>3
  <2> QED
    BY <1>4, <1>5, <2>1, <2>2
<1>8. ASSUME NEW k \in 1 .. N PROVE D[k] = Turned(D[k - 1], p[k] # q[k])
  <2>1. k \in 0 .. N /\ k - 1 \in 0 .. N
    BY <1>3
  <2>2. R[k - 1] \in Register /\ S[k - 1] \in Register /\ p[k] \in Bit /\ q[k] \in Bit
    BY <1>3, <1>4, <2>1
  <2>3. Diff(Shift(R[k - 1], p[k]), Shift(S[k - 1], q[k]))
        = Turned(Diff(R[k - 1], S[k - 1]), p[k] # q[k])
    BY <2>2, DiffTurns
  <2>4. R[k] = Shift(R[k - 1], p[k]) /\ S[k] = Shift(S[k - 1], q[k])
    BY <1>4
  <2>5. D[k] = Diff(R[k], S[k]) /\ D[k - 1] = Diff(R[k - 1], S[k - 1])
    BY <2>1
  <2> QED
    BY <2>3, <2>4, <2>5
<1> HIDE DEF D
<1> QED
  BY <1>6, <1>7, <1>8 DEF N

\* A single flip into no difference, and the one difference a flip undoes.
LEMMA TurnedOnce ==
    /\ Turned({}, TRUE) = Turned({1}, FALSE)
    /\ \A D \in SUBSET (1 .. 16) : Turned(D, TRUE) = {} => D = {1}
    /\ \A D \in SUBSET (1 .. 16) : Turned(D, FALSE) = {} => D = {}
    /\ Turned({}, FALSE) = {}
<1>1. Turned({}, TRUE) = {1, 14, 16} /\ Turned({1}, FALSE) = {1, 14, 16}
  BY DEF Turned
<1>2. Turned({}, FALSE) = {} /\ Turned({1}, TRUE) = {}
  BY DEF Turned
<1>3. ASSUME NEW D \in SUBSET (1 .. 16), Turned(D, FALSE) = {} PROVE D = {}
  BY <1>2, <1>3, TurnedInjective
<1>4. ASSUME NEW D \in SUBSET (1 .. 16), Turned(D, TRUE) = {} PROVE D = {1}
  <2>1. 16 \notin Turned(D, TRUE) /\ \A k \in 1 .. 15 : k \notin Turned(D, TRUE)
    BY <1>4
  <2>2. 1 \in D
    BY <2>1 DEF Turned
  <2>3. ASSUME NEW k \in 2 .. 16 PROVE k \notin D
    <3>1. k - 1 \in 1 .. 15 /\ k - 1 \in 1 .. 16 /\ (k - 1) + 1 = k /\ k - 1 # 16
      OBVIOUS
    <3>2. k - 1 \notin Turned(D, TRUE)
      BY <2>1, <3>1
    <3>3. CASE k - 1 \in {1, 14}
      BY <2>2, <3>1, <3>2, <3>3 DEF Turned
    <3>4. CASE k - 1 \notin {1, 14}
      BY <3>1, <3>2, <3>4 DEF Turned
    <3> QED
      BY <3>3, <3>4
  <2>4. \A k \in 1 .. 16 : k = 1 \/ k \in 2 .. 16
    OBVIOUS
  <2>5. D \subseteq {1}
    BY <2>3, <2>4
  <2> QED
    BY <2>2, <2>5
<1> QED
  BY <1>1, <1>2, <1>3, <1>4

\* Of packets of up to 211 bits (the injector's 25 bytes, the firmware's 26), one that
\* differs from a valid one in one or two bits is not valid.
THEOREM CrcNoticesDamage ==
    ASSUME NEW p \in Seq(Bit), NEW q \in Seq(Bit), Len(q) = Len(p), Len(p) \in 16 .. 211,
           NEW i \in 1 .. Len(p), NEW j \in i .. Len(p),
           \A k \in 1 .. Len(p) : p[k] # q[k] <=> k \in {i, j},
           CrcValid(p)
    PROVE  ~ CrcValid(q)
<1> SUFFICES ASSUME CrcValid(q) PROVE FALSE
  OBVIOUS
<1> DEFINE N == Len(p)
<1>1. PICK D \in [0 .. N -> SUBSET (1 .. 16)] :
          /\ D[0] = {} /\ D[N] = {}
          /\ \A k \in 1 .. N : D[k] = Turned(D[k - 1], p[k] # q[k])
  <2>1. Len(p) >= 16
    OBVIOUS
  <2> QED
    BY <2>1, ValidsEndAlike
<1>2. N \in 16 .. 211 /\ i \in 1 .. N /\ j \in i .. N
  OBVIOUS
<1> HIDE DEF N
<1>3. /\ \A k \in (1 .. N) \ {i, j} : D[k] = Turned(D[k - 1], FALSE)
      /\ D[i] = Turned(D[i - 1], TRUE) /\ D[j] = Turned(D[j - 1], TRUE)
  <2>1. ASSUME NEW k \in (1 .. N) \ {i, j} PROVE D[k] = Turned(D[k - 1], FALSE)
    <3>1. (p[k] # q[k]) = FALSE
      BY DEF N
    <3> QED
      BY <1>1, <3>1
  <2>2. ASSUME NEW k \in {i, j} PROVE D[k] = Turned(D[k - 1], TRUE)
    <3>1. (p[k] # q[k]) = TRUE /\ k \in 1 .. N
      BY <1>2 DEF N
    <3> QED
      BY <1>1, <3>1
  <2> QED
    BY <2>1, <2>2
\* Nothing before the first flip ...
<1>4. D[i - 1] = {}
  <2> DEFINE n == i - 1
             T == {k \in 0 .. n : D[k] = {}}
  <2>1. n \in Nat /\ n < i /\ n < N
    BY <1>2
  <2>2. 0 \in T
    BY <1>1, <2>1
  <2>3. ASSUME NEW k \in 0 .. n - 1, k \in T PROVE k + 1 \in T
    <3>1. k + 1 \in (1 .. N) \ {i, j} /\ (k + 1) - 1 = k /\ k + 1 \in 0 .. n
      BY <1>2, <2>1
    <3>2. D[k + 1] = Turned(D[(k + 1) - 1], FALSE) /\ D[k] = {}
      BY <1>3, <2>3, <3>1
    <3>3. D[k + 1] = {}
      BY <3>1, <3>2, TurnedOnce
    <3> QED
      BY <3>1, <3>3
  <2>4. 0 .. n \subseteq T
    <3> HIDE DEF T, n
    <3> QED
      BY <2>1, <2>2, <2>3, FromZero
  <2> QED
    BY <2>1, <2>4
\* ... and something after the last.
<1>5. D[j] = {}
  <2> DEFINE n == N - j
             T == {k \in 0 .. n : D[N - k] = {}}
  <2>1. n \in Nat /\ n + j = N
    BY <1>2
  <2>2. 0 \in T
    BY <1>1, <1>2, <2>1
  <2>3. ASSUME NEW k \in 0 .. n - 1, k \in T PROVE k + 1 \in T
    <3>1. N - k \in (1 .. N) \ {i, j} /\ (N - k) - 1 = N - (k + 1) /\ k + 1 \in 0 .. n
          /\ N - (k + 1) \in 0 .. N
      BY <1>2, <2>1
    <3>2. D[N - k] = Turned(D[N - (k + 1)], FALSE)
      BY <1>3, <3>1
    <3>3. D[N - k] = {} /\ D[N - (k + 1)] \in SUBSET (1 .. 16)
      BY <1>1, <2>3, <3>1
    <3>4. D[N - (k + 1)] = {}
      BY <3>2, <3>3, TurnedOnce
    <3> QED
      BY <3>1, <3>4
  <2>4. 0 .. n \subseteq T
    <3> HIDE DEF T, n
    <3> QED
      BY <2>1, <2>2, <2>3, FromZero
  <2>5. n \in 0 .. n /\ N - n = j
    BY <1>2, <2>1
  <2> QED
    BY <2>4, <2>5
<1>6. D[j - 1] = {1}
  <2>1. j \in 1 .. N /\ j - 1 \in 0 .. N
    BY <1>2
  <2>2. D[j - 1] \in SUBSET (1 .. 16)
    BY <1>1, <2>1
  <2> QED
    BY <1>3, <1>5, <2>2, TurnedOnce
<1>7. CASE i = j
  BY <1>4, <1>6, <1>7
<1>8. CASE i # j
  <2> DEFINE d == j - i
  <2>1. d \in 1 .. 210 /\ d \in Nat
    BY <1>2, <1>8
  <2>2. PICK W : Drifts(W, {16})
    <3>1. {16} \in SUBSET (1 .. 16)
      OBVIOUS
    <3> QED
      BY <3>1, DriftExists
  <2>3. W[15] = {1}
    <3>1. \A m \in 0 .. 15 : W[m] = {16 - m}
      BY <2>2, DriftStarts
    <3>2. 15 \in 0 .. 15 /\ 16 - 15 = 1
      OBVIOUS
    <3>3. W[15] = {16 - 15}
      BY <3>1, <3>2
    <3> QED
      BY <3>2, <3>3
  <2>4. \A m \in 0 .. 239 : W[m + 1] = Turned(W[m], FALSE)
    BY <2>2 DEF Drifts
  <2>5. D[i] = W[15 + 1]
    <3>1. 15 \in 0 .. 239
      OBVIOUS
    <3>2. W[15 + 1] = Turned({1}, FALSE)
      BY <2>3, <2>4, <3>1
    <3> QED
      BY <1>3, <1>4, <3>2, TurnedOnce
  <2> DEFINE n == d - 1
             T == {k \in 0 .. n : D[i + k] = W[15 + (1 + k)]}
  <2>6. n \in Nat /\ n <= 209 /\ i + n = j - 1 /\ 1 + n = d
    BY <1>2, <2>1
  <2>7. 0 \in T
    <3>1. i + 0 = i /\ 1 + 0 = 1
      BY <1>2
    <3> QED
      BY <2>5, <2>6, <3>1
  <2>8. ASSUME NEW k \in 0 .. n - 1, k \in T PROVE k + 1 \in T
    <3>1. /\ i + (k + 1) \in (1 .. N) \ {i, j} /\ (i + (k + 1)) - 1 = i + k /\ k + 1 \in 0 .. n
          /\ 15 + (1 + k) \in 0 .. 239 /\ (15 + (1 + k)) + 1 = 15 + (1 + (k + 1))
      BY <1>2, <2>6
    <3>2. D[i + (k + 1)] = Turned(D[i + k], FALSE)
      BY <1>3, <3>1
    <3>3. W[15 + (1 + (k + 1))] = Turned(W[15 + (1 + k)], FALSE)
      BY <2>4, <3>1
    <3> QED
      BY <2>8, <3>1, <3>2, <3>3
  <2>9. 0 .. n \subseteq T
    <3> HIDE DEF T, n
    <3> QED
      BY <2>6, <2>7, <2>8, FromZero
  <2>10. D[j - 1] = W[15 + d]
    <3>1. n \in T
      <4>1. n \in 0 .. n
        BY <2>6
      <4> HIDE DEF n, T
      <4> QED
        BY <2>9, <4>1
    <3> HIDE DEF n, d
    <3> QED
      BY <2>6, <3>1
  <2>11. W[15 + d] # {1}
    <3> HIDE DEF d
    <3> QED
      BY <2>1, <2>2, DriftGoesOn
  <2> QED
    BY <1>6, <2>10, <2>11
<1> QED
  BY <1>7, <1>8

\* The bits of a number.
LEMMA BitsAre ==
    ASSUME NEW n \in Nat, NEW width \in Nat \ {0}
    PROVE  Bits(n, width) \in Seq(Bit) /\ Len(Bits(n, width)) = width
<1> DEFINE G == [y \in Nat |-> y \div 2]
           Is(f) == f = [i \in 1 .. width |-> IF i = 1 THEN n ELSE f[i - 1] \div 2]
           last == width - 1
<1>1. last \in Nat /\ width \in Nat
  OBVIOUS
<1>2. \A y \in Nat : G[y] = y \div 2 /\ y \div 2 \in Nat
  BY SMT
<1> HIDE DEF G
<1>3. PICK h : IsIterated(h, last, n, G)
  <2> HIDE DEF last
  <2> QED
    BY <1>1, IterationExists
<1>4. h[0] = n /\ \A k \in 0 .. last - 1 : h[k + 1] = G[h[k]]
  <2>1. \A k \in 0 .. last - 1 : k + 1 \in 0 .. last /\ k + 1 # 0 /\ (k + 1) - 1 = k
    OBVIOUS
  <2> QED
    BY <1>1, <1>3, <2>1 DEF IsIterated
<1>5. \A k \in 0 .. last : h[k] \in Nat
  <2>1. \A k \in 0 .. last - 1 : h[k] \in Nat => h[k + 1] \in Nat
    BY <1>2, <1>4
  <2> HIDE DEF last
  <2> QED
    BY <1>1, <1>4, <2>1, IterationStays
<1> DEFINE f == [i \in 1 .. width |-> h[i - 1]]
<1>6. \A i \in 1 .. width : f[i] \in Nat /\ f[i] = IF i = 1 THEN n ELSE f[i - 1] \div 2
  <2> SUFFICES ASSUME NEW i \in 1 .. width
               PROVE  f[i] \in Nat /\ f[i] = IF i = 1 THEN n ELSE f[i - 1] \div 2
    OBVIOUS
  <2>1. i - 1 \in 0 .. last
    BY <1>1
  <2>2. f[i] = h[i - 1] /\ f[i] \in Nat
    BY <1>5, <2>1
  <2>3. CASE i = 1
    BY <1>4, <2>2, <2>3
  <2>4. CASE i # 1
    <3>1. i - 1 \in 1 .. width /\ (i - 1) - 1 \in 0 .. last - 1 /\ ((i - 1) - 1) + 1 = i - 1
          /\ (i - 1) - 1 \in 0 .. last
      BY <1>1, <2>4
    <3>2. h[i - 1] = G[h[(i - 1) - 1]]
      BY <1>4, <3>1
    <3>3. f[i - 1] = h[(i - 1) - 1]
      BY <3>1
    <3>4. h[(i - 1) - 1] \in Nat
      BY <1>5, <3>1
    <3> QED
      BY <1>2, <2>2, <2>4, <3>2, <3>3, <3>4
  <2> QED
    BY <2>3, <2>4
<1>7. Is(f)
  <2>1. f = [i \in 1 .. width |-> f[i]]
    OBVIOUS
  <2> HIDE DEF f
  <2> QED
    BY <1>6, <2>1
<1> HIDE DEF Is, f
<1> DEFINE left == CHOOSE g : Is(g)
<1>8. Is(left)
  BY <1>7
<1>9. Bits(n, width) = [i \in 1 .. width |-> left[i] % 2]
  BY DEF Bits, Is
<1> HIDE DEF left
<1>10. \A i \in 1 .. width : left[i] \in Nat
  <2> DEFINE T == {k \in 0 .. last : left[k + 1] \in Nat}
  <2>1. \A i \in 1 .. width : left[i] = IF i = 1 THEN n ELSE left[i - 1] \div 2
    BY <1>8 DEF Is
  <2>2. 0 \in T
    <3>1. 1 \in 1 .. width /\ 0 + 1 = 1
      OBVIOUS
    <3> QED
      BY <1>1, <2>1, <3>1
  <2>3. ASSUME NEW k \in 0 .. last - 1, k \in T PROVE k + 1 \in T
    <3>1. (k + 1) + 1 \in 1 .. width /\ (k + 1) + 1 # 1 /\ ((k + 1) + 1) - 1 = k + 1 /\ k + 1 \in 0 .. last
      BY <1>1
    <3>2. left[(k + 1) + 1] = left[k + 1] \div 2
      BY <2>1, <3>1
    <3> QED
      BY <1>2, <2>3, <3>1, <3>2
  <2>4. 0 .. last \subseteq T
    <3> HIDE DEF T, last
    <3> QED
      BY <1>1, <2>2, <2>3, FromZero
  <2>5. ASSUME NEW i \in 1 .. width PROVE left[i] \in Nat
    <3>1. i - 1 \in 0 .. last /\ (i - 1) + 1 = i
      BY <1>1
    <3> QED
      BY <2>4, <3>1
  <2> QED
    BY <2>5
<1>11. \A i \in 1 .. width : left[i] % 2 \in Bit
  <2>1. \A y \in Nat : y % 2 \in {0, 1}
    BY SMT
  <2> QED
    BY <1>10, <2>1 DEF Bit
<1> DEFINE b(i) == left[i] % 2
<1> HIDE DEF b
<1>12. [i \in 1 .. width |-> b(i)] \in Seq(Bit) /\ Len([i \in 1 .. width |-> b(i)]) = width
  BY <1>1, <1>11 DEF b
<1> QED
  BY <1>9, <1>12 DEF b

\* A register is a sequence of 16 bits.
LEMMA RegistersAreSequences ==
    ASSUME NEW r \in Register
    PROVE  r \in Seq(Bit) /\ Len(r) = 16
<1>1. r = [k \in 1 .. 16 |-> r[k]] /\ \A k \in 1 .. 16 : r[k] \in Bit
  BY DEF Register
<1>2. [k \in 1 .. 16 |-> r[k]] \in Seq(Bit) /\ Len([k \in 1 .. 16 |-> r[k]]) = 16
  BY <1>1
<1> QED
  BY <1>1, <1>2

\* Data and their checksum are a valid packet.
LEMMA ChecksumIsValid ==
    ASSUME NEW start \in Seq(Bit), NEW c \in Seq(Bit), Len(c) = 16
    PROVE  /\ start \o c \in Seq(Bit) /\ Len(start \o c) = Len(start) + 16
           /\ c = Crc16(start) => CrcValid(start \o c)
<1> DEFINE p == start \o c
           n == Len(start)
<1>1. p \in Seq(Bit) /\ n \in Nat /\ Len(p) = n + 16
      /\ \A i \in 1 .. n + 16 : p[i] = IF i <= n THEN start[i] ELSE c[i - n]
  <2>1. /\ p \in Seq(Bit) /\ Len(p) = n + Len(c)
        /\ \A i \in 1 .. n + Len(c) : p[i] = IF i <= n THEN start[i] ELSE c[i - n]
    BY ConcatProperties, Zenon
  <2>2. n \in Nat
    BY LenProperties
  <2> HIDE DEF p
  <2> QED
    BY <2>1, <2>2
<1> HIDE DEF p
<1>2. SubSeq(p, 1, Len(p) - 16) = start
  <2> DEFINE s == SubSeq(p, 1, n)
  <2>1. Len(p) - 16 = n /\ \A i \in 1 .. n : p[i] \in Bit
    BY <1>1
  <2>2. s \in Seq(Bit) /\ Len(s) = n /\ \A i \in 1 .. n : s[i] = p[i]
    BY <1>1, <2>1
  <2>3. \A i \in 1 .. n : s[i] = start[i]
    BY <1>1, <2>2
  <2> HIDE DEF s
  <2>4. s = start
    BY <2>2, <2>3, SeqEqual
  <2> QED
    BY <2>1, <2>4 DEF s
<1>3. SubSeq(p, Len(p) - 15, Len(p)) = c
  <2> DEFINE s == SubSeq(p, n + 1, n + 16)
  <2>1. Len(p) - 15 = n + 1 /\ Len(p) = n + 16 /\ \A i \in n + 1 .. n + 16 : p[i] \in Bit
    BY <1>1
  <2>2. s \in Seq(Bit) /\ Len(s) = 16 /\ \A i \in 1 .. 16 : s[i] = p[n + i]
    BY <1>1, <2>1
  <2>3. \A i \in 1 .. 16 : s[i] = c[i]
    <3>1. \A i \in 1 .. 16 : n + i \in 1 .. n + 16 /\ ~ (n + i <= n) /\ (n + i) - n = i
      BY <1>1
    <3> QED
      BY <1>1, <2>2, <3>1
  <2> HIDE DEF s
  <2>4. s = c
    BY <2>2, <2>3, SeqEqual
  <2> QED
    BY <2>1, <2>4 DEF s
<1>4. c = Crc16(start) => CrcValid(p)
  BY <1>2, <1>3 DEF CrcValid
<1> QED
  BY <1>1, <1>4 DEF p

\* One or two bits of a packet, flipped.
Flipped(p, i, j) == [k \in DOMAIN p |-> IF k \in {i, j} THEN 1 - p[k] ELSE p[k]]

LEMMA FlippedBits ==
    ASSUME NEW p \in Seq(Bit), NEW i \in 1 .. Len(p), NEW j \in i .. Len(p)
    PROVE  /\ Flipped(p, i, j) \in Seq(Bit) /\ Len(Flipped(p, i, j)) = Len(p)
           /\ \A k \in 1 .. Len(p) : p[k] # Flipped(p, i, j)[k] <=> k \in {i, j}
<1> DEFINE n == Len(p)
           q == Flipped(p, i, j)
<1>1. n \in Nat /\ DOMAIN p = 1 .. n /\ \A k \in 1 .. n : p[k] \in {0, 1}
  BY DEF Bit
<1>2. q = [k \in 1 .. n |-> IF k \in {i, j} THEN 1 - p[k] ELSE p[k]]
  BY <1>1 DEF Flipped
<1>3. ASSUME NEW k \in 1 .. n
      PROVE  q[k] \in Bit /\ (p[k] # q[k] <=> k \in {i, j})
  <2>1. q[k] = IF k \in {i, j} THEN 1 - p[k] ELSE p[k]
    BY <1>2
  <2>2. p[k] = 0 \/ p[k] = 1
    BY <1>1
  <2> QED
    BY <2>1, <2>2 DEF Bit
<1> HIDE DEF q
<1>4. q = [k \in 1 .. n |-> q[k]]
  BY <1>2
<1>5. [k \in 1 .. n |-> q[k]] \in Seq(Bit) /\ Len([k \in 1 .. n |-> q[k]]) = n
  BY <1>1, <1>3
<1> QED
  BY <1>3, <1>4, <1>5 DEF q
=============================================================================
