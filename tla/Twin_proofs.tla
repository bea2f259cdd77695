----------------------------- MODULE Twin_proofs -----------------------------
(***************************************************************************)
(* The theorems about the digital twin.                                    *)
(***************************************************************************)
EXTENDS Twin, Lemmas

(* Numbers. *)

\* A larger number has no smaller multiple.
LEMMA Times ==
    ASSUME NEW a \in Nat, NEW b \in Nat, NEW c \in Nat, a <= b
    PROVE  c * a <= c * b /\ c * a \in Nat
OBVIOUS

\* Every number up to (n + 1)^2 has an integer root.
LEMMA RootExists ==
    ASSUME NEW q \in Nat, NEW n \in Nat, q < (n + 1) * (n + 1)
    PROVE  \E d \in 0 .. n : d * d <= q /\ q < (d + 1) * (d + 1)
<1> DEFINE T == {d \in 0 .. n : q < (d + 1) * (d + 1)}
<1>1. T \in SUBSET Nat /\ T # {}
  <2>1. n \in T
    OBVIOUS
  <2>2. T \in SUBSET Nat
    OBVIOUS
  <2> HIDE DEF T
  <2> QED
    BY <2>1, <2>2
<1>2. PICK m \in T : \A k \in T : m <= k
  <2> HIDE DEF T
  <2> QED
    BY <1>1, LeastNumber
<1>3. CASE m = 0
  BY <1>2, <1>3
<1>4. CASE m # 0
  <2>1. m - 1 \in 0 .. n /\ m - 1 \notin T /\ (m - 1) + 1 = m
    BY <1>2, <1>4
  <2>2. ~ (q < m * m)
    BY <2>1
  <2>3. m * m \in Nat
    BY <1>2
  <2> QED
    BY <1>2, <2>2, <2>3
<1> QED
  BY <1>3, <1>4

----------------------------------------------------------------------------
(* Graphs a simulation is made from. *)

IsPlan(g) ==
    /\ IsGraph(g)
    /\ \A k \in DOMAIN g.floors : g.floors[k].width > 0 /\ g.floors[k].depth > 0

LEMMA PlanIsGraph == \A g : IsPlan(g) => IsGraph(g)
BY DEF IsPlan

LEMMA PlanTypes ==
    ASSUME NEW g, IsPlan(g)
    PROVE  /\ g.nodes \in Seq(BuildingNode) /\ g.floors \in Seq(PlanOfFloor)
           /\ ToSet(g.nodes) \subseteq BuildingNode
           /\ \A k \in DOMAIN g.nodes : g.nodes[k] \in ToSet(g.nodes) /\ k \in Nat \ {0}
           /\ \A k \in DOMAIN g.floors : /\ g.floors[k] \in PlanOfFloor /\ k \in Nat
                                         /\ g.floors[k].width \in Nat \ {0}
                                         /\ g.floors[k].depth \in Nat \ {0}
<1>1. g.floors \in Seq(PlanOfFloor)
  BY DEF IsPlan, IsGraph, BuildingGraph
<1>2. ASSUME NEW k \in DOMAIN g.floors
      PROVE  /\ g.floors[k] \in PlanOfFloor /\ k \in Nat
             /\ g.floors[k].width \in Nat \ {0} /\ g.floors[k].depth \in Nat \ {0}
  <2>1. g.floors[k] \in PlanOfFloor /\ k \in Nat
    BY <1>1
  <2>2. g.floors[k].width \in Nat /\ g.floors[k].depth \in Nat
    BY <2>1 DEF PlanOfFloor
  <2> QED
    BY <2>1, <2>2 DEF IsPlan
<1> QED
  BY <1>1, <1>2, GraphTypes, PlanIsGraph

----------------------------------------------------------------------------
(* Hazards are percentages. *)

Percent == 0 .. Full

LEMMA Sizes ==
    /\ Cols \in Nat \ {0} /\ Rows \in Nat \ {0} /\ Dts \subseteq Nat \ {0}
    /\ MaxOrigins \in Nat \ {0} /\ MaxSteps \in Nat \ {0}
BY TwinAssumption

LEMMA CellIn ==
    ASSUME NEW c \in 0 .. Cols - 1, NEW r \in 0 .. Rows - 1
    PROVE  c + Cols * r \in Cells
<1>1. Cols * r <= Cols * (Rows - 1) /\ Cols * r \in Nat
  BY Sizes, Times
<1>2. Cols * (Rows - 1) = Cols * Rows - Cols /\ Cols * Rows \in Nat
  BY Sizes
<1> HIDE DEF Cells
<1>3. c + Cols * r <= Cols * Rows - 1 /\ c + Cols * r \in Nat
  <2> DEFINE a == Cols * r
             b == Cols * Rows
  <2>1. a <= b - Cols /\ a \in Nat /\ b \in Nat
    BY <1>1, <1>2
  <2> HIDE DEF a, b
  <2>2. c + a <= b - 1 /\ c + a \in Nat
    BY <2>1, Sizes
  <2> QED
    BY <2>2 DEF a, b
<1> QED
  BY <1>2, <1>3 DEF Cells

LEMMA GridCellIn ==
    ASSUME NEW g, IsPlan(g), NEW n \in BuildingNode
    PROVE  GridCell(g, n) \in Cells
<1> DEFINE known == {k \in DOMAIN g.floors : g.floors[k].index = n.floor}
           f == g.floors[Min(known)]
           a == ((n.position.x + f.width) * Cols) \div (2 * f.width)
           b == ((n.position.z + f.depth) * Rows) \div (2 * f.depth)
<1>1. GridCell(g, n) = IF known = {} THEN 0
                       ELSE Clamped(a, 0, Cols - 1) + Cols * Clamped(b, 0, Rows - 1)
  BY DEF GridCell
<1>2. 0 \in 0 .. Cols - 1 /\ 0 \in 0 .. Rows - 1 /\ 0 + Cols * 0 = 0
  BY Sizes
<1>3. 0 \in Cells
  BY <1>2, CellIn
<1>4. CASE known = {}
  BY <1>1, <1>3, <1>4
<1>5. CASE known # {}
  <2>1. known \in SUBSET Nat
    BY PlanTypes
  <2>2. \E m \in known : \A k \in known : m <= k
    <3> HIDE DEF known
    <3> QED
      BY <1>5, <2>1, LeastNumber
  <2>3. Min(known) \in known
    <3> HIDE DEF known
    <3> QED
      BY <2>2 DEF Min
  <2>4. f.width \in Nat \ {0} /\ f.depth \in Nat \ {0}
    BY <2>3, PlanTypes
  <2>5. n.position.x \in Int /\ n.position.z \in Int
    BY DEF BuildingNode, Vec3
  <2> HIDE DEF known, f
  <2>6. a \in Int /\ b \in Int
    BY <2>4, <2>5, Sizes
  <2> HIDE DEF a, b
  <2>7. Cols - 1 \in Int /\ 0 <= Cols - 1 /\ Rows - 1 \in Int /\ 0 <= Rows - 1 /\ 0 \in Int
    BY Sizes
  <2>8. Clamped(a, 0, Cols - 1) \in 0 .. Cols - 1
    BY <2>6, <2>7, ClampedIn
  <2>9. Clamped(b, 0, Rows - 1) \in 0 .. Rows - 1
    BY <2>6, <2>7, ClampedIn
  <2> QED
    BY <1>1, <1>5, <2>8, <2>9, CellIn
<1> QED
  BY <1>4, <1>5

LEMMA AtMostFull ==
    ASSUME NEW a \in Nat
    PROVE  AtMost(Full, a) \in Percent
BY DEF AtMost, Full, Percent

Grid == [Cells -> Percent]
Cold == [k \in Cells |-> 0]

\* The neighbours of a cell, and what is left of it by blurring.
Near(i) == {j \in Cells : \/ j \in {i - 1, i + 1} /\ j \div Cols = i \div Cols
                          \/ j \in {i - Cols, i + Cols}}
Mixed(h, i) == 4 * h[i] + SumOver(h, Near(i))

LEMMA BlurredIs ==
    ASSUME NEW h, NEW dt
    PROVE  Blurred(h, dt) = [i \in Cells |-> AtMost(Full, (Mixed(h, i) * (500 + dt))
                                                   \div (500 * (4 + Cardinality(Near(i)))))]
BY DEF Blurred, Near, Mixed, SumOver

LEMMA NearIsFinite ==
    ASSUME NEW i \in Cells
    PROVE  IsFiniteSet(Near(i)) /\ Cardinality(Near(i)) \in Nat /\ Near(i) \subseteq Cells
<1>1. IsFiniteSet(Cells)
  BY Sizes, FS_Interval DEF Cells
<1>2. Near(i) \subseteq Cells
  BY DEF Near
<1> QED
  BY <1>1, <1>2, FS_Subset, FS_CardinalityType

LEMMA BlurredIn ==
    ASSUME NEW h \in Grid, NEW dt \in Dts
    PROVE  Blurred(h, dt) \in Grid
<1>1. ASSUME NEW i \in Cells
      PROVE  AtMost(Full, (Mixed(h, i) * (500 + dt)) \div (500 * (4 + Cardinality(Near(i))))) \in Percent
  <2>1. \A k \in Cells : h[k] \in Nat
    BY DEF Grid, Percent
  <2>2. \A k \in Near(i) : \A y \in Nat : h[k] + y \in Nat
    BY <2>1, NearIsFinite
  <2>3. SumOver(h, Near(i)) \in Nat
    BY <2>2, NearIsFinite, SumStays
  <2>4. Mixed(h, i) \in Nat
    BY <2>1, <2>3 DEF Mixed
  <2> DEFINE a == Mixed(h, i) * (500 + dt)
             b == 500 * (4 + Cardinality(Near(i)))
  <2>5. a \in Nat /\ b \in Nat \ {0}
    BY <2>4, NearIsFinite, Sizes
  <2> HIDE DEF a, b
  <2>6. a \div b \in Nat
    BY <2>5, Quotient
  <2>7. AtMost(Full, a \div b) \in Percent
    BY <2>6, AtMostFull
  <2> QED
    BY <2>7 DEF a, b
<1> QED
  BY <1>1, BlurredIs DEF Grid

\* What is cold stays cold.
LEMMA BlurredCold ==
    ASSUME NEW dt \in Dts
    PROVE  Blurred(Cold, dt) = Cold
<1>1. ASSUME NEW i \in Cells
      PROVE  AtMost(Full, (Mixed(Cold, i) * (500 + dt)) \div (500 * (4 + Cardinality(Near(i))))) = 0
  <2>1. \A k \in Cells : Cold[k] = 0
    BY DEF Cold
  <2> HIDE DEF Cold
  <2>2. \A k \in Near(i) : \A y \in {0} : Cold[k] + y \in {0}
    BY <2>1, NearIsFinite
  <2>3. SumOver(Cold, Near(i)) \in {0}
    BY <2>2, NearIsFinite, SumStays
  <2>4. Mixed(Cold, i) = 0
    BY <2>1, <2>3 DEF Mixed
  <2> DEFINE b == 500 * (4 + Cardinality(Near(i)))
  <2>5. b \in Nat \ {0}
    BY NearIsFinite
  <2> HIDE DEF b
  <2>6. 0 \div b = 0 /\ 0 * (500 + dt) = 0
    BY <2>5, Sizes
  <2>7. AtMost(Full, 0) = 0
    BY DEF AtMost, Full
  <2> QED
    BY <2>4, <2>6, <2>7 DEF b
<1>2. Blurred(Cold, dt) = [i \in Cells |-> 0]
  <2> HIDE DEF Cold
  <2> QED
    BY <1>1, BlurredIs
<1> QED
  BY <1>2 DEF Cold

LEMMA SquareBound ==
    ASSUME NEW a \in Int, NEW b \in Nat, -b <= a, a <= b
    PROVE  a * a \in Nat /\ a * a <= b * b
<1>1. CASE a >= 0
  <2>1. a * a <= a * b /\ a * b <= b * b
    BY <1>1, Times
  <2> QED
    BY <1>1, <2>1
<1>2. CASE a < 0
  <2> DEFINE c == -a
  <2>1. c \in Nat /\ c <= b
    BY <1>2
  <2> HIDE DEF c
  <2>2. c * c <= c * b /\ b * c <= b * b /\ b * c = c * b
    BY <2>1, Times
  <2>3. a * a = c * c
    BY DEF c
  <2> QED
    BY <2>1, <2>2, <2>3
<1> QED
  BY <1>1, <1>2

LEMMA CellCoordinates ==
    ASSUME NEW i \in Cells
    PROVE  i % Cols \in 0 .. Cols - 1 /\ i \div Cols \in 0 .. Rows - 1
<1> DEFINE q == i \div Cols
           r == i % Cols
<1>1. i \in Nat /\ i < Cols * Rows
  BY Sizes DEF Cells
<1>2. q \in Nat /\ r \in 0 .. Cols - 1
  BY <1>1, Sizes, Quotient
<1>3. i = Cols * q + r
  BY <1>1, Sizes
<1> HIDE DEF q, r
<1>4. ~ (q >= Rows)
  <2> SUFFICES ASSUME q >= Rows PROVE FALSE
    OBVIOUS
  <2>1. Cols * Rows <= Cols * q
    BY <1>2, Sizes, Times
  <2> DEFINE a == Cols * Rows
             b == Cols * q
  <2>2. a \in Nat /\ b \in Nat
    BY <1>2, Sizes
  <2> HIDE DEF a, b
  <2> QED
    BY <1>1, <1>2, <1>3, <2>1, <2>2 DEF a, b
<1>5. q \in 0 .. Rows - 1
  BY <1>2, <1>4, Sizes
<1> QED
  BY <1>2, <1>5 DEF q, r

LEMMA GapIsANumber ==
    ASSUME NEW i \in Cells, NEW j \in Cells
    PROVE  Gap(i, j) \in Nat
<1> DEFINE dr == (i \div Cols) - (j \div Cols)
           dc == (i % Cols) - (j % Cols)
           q  == 100 * (dr * dr + dc * dc)
           n  == 10 * (Cols + Rows)
<1>1. /\ dr \in Int /\ dr <= Rows /\ -Rows <= dr
      /\ dc \in Int /\ dc <= Cols /\ -Cols <= dc
  BY CellCoordinates, Sizes
<1>2. Gap(i, j) = CHOOSE d \in 0 .. n : d * d <= q /\ q < (d + 1) * (d + 1)
  BY DEF Gap
<1> HIDE DEF dr, dc
<1>3. /\ dr * dr \in Nat /\ dr * dr <= Rows * Rows
      /\ dc * dc \in Nat /\ dc * dc <= Cols * Cols
  BY <1>1, Sizes, SquareBound
<1>4. q \in Nat /\ n \in Nat
  BY <1>3, Sizes
<1>5. q < (n + 1) * (n + 1)
  <2>1. (n + 1) * (n + 1) = 100 * (Cols * Cols) + 100 * (Rows * Rows) + 200 * (Cols * Rows)
                                + 20 * Cols + 20 * Rows + 1
    BY Sizes
  <2>2. Cols * Rows \in Nat /\ Cols * Cols \in Nat /\ Rows * Rows \in Nat
    BY Sizes
  <2> QED
    BY <1>3, <2>1, <2>2, Sizes
<1> HIDE DEF q, n
<1>6. \E d \in 0 .. n : d * d <= q /\ q < (d + 1) * (d + 1)
  BY <1>4, <1>5, RootExists
<1>7. Gap(i, j) \in 0 .. n
  <2> DEFINE P == {d \in 0 .. n : d * d <= q /\ q < (d + 1) * (d + 1)}
  <2>1. Gap(i, j) = CHOOSE d \in 0 .. n : d * d <= q /\ q < (d + 1) * (d + 1)
    BY <1>2
  <2> QED
    BY <1>6, <2>1
<1> QED
  BY <1>4, <1>7

LEMMA HeatedIn ==
    ASSUME NEW h \in Grid, NEW o \in Cells, NEW scenario, NEW dt \in Dts
    PROVE  Heated(h, o, scenario, dt) \in Grid
<1> DEFINE growth == Growth(scenario)
           radius == IF scenario = "flashover" THEN 3 ELSE 2
<1>1. growth \in Nat /\ radius \in Nat
  BY DEF Growth
<1>2. Heated(h, o, scenario, dt) =
          [i \in Cells |->
              IF Gap(i, o) > 10 * radius THEN h[i]
              ELSE AtMost(Full, h[i] + (growth * dt * (10 * (radius + 1) - Gap(i, o)))
                                           \div (100 * (radius + 1)))]
  BY DEF Heated
<1> HIDE DEF growth, radius
<1>3. ASSUME NEW i \in Cells, ~ (Gap(i, o) > 10 * radius)
      PROVE  AtMost(Full, h[i] + (growth * dt * (10 * (radius + 1) - Gap(i, o)))
                                      \div (100 * (radius + 1))) \in Percent
  <2> DEFINE a == growth * dt
             b == 10 * (radius + 1) - Gap(i, o)
             c == 100 * (radius + 1)
  <2>1. Gap(i, o) \in Nat
    BY GapIsANumber
  <2>2. a \in Nat /\ b \in Nat /\ c \in Nat \ {0}
    BY <1>1, <1>3, <2>1, Sizes
  <2>3. h[i] \in Nat
    BY DEF Grid, Percent
  <2> HIDE DEF a, b, c
  <2>4. a * b \in Nat
    BY <2>2
  <2>5. (a * b) \div c \in Nat
    BY <2>2, <2>4, Quotient
  <2>6. AtMost(Full, h[i] + (a * b) \div c) \in Percent
    <3>1. h[i] + (a * b) \div c \in Nat
      BY <2>3, <2>5
    <3> QED
      BY <3>1, AtMostFull
  <2> QED
    BY <2>6 DEF a, b, c
<1>4. \A i \in Cells : h[i] \in Percent
  BY DEF Grid
<1> QED
  BY <1>2, <1>3, <1>4 DEF Grid

----------------------------------------------------------------------------
(* Diffusion. *)

Hazards(g) == [Floors(g) -> Grid]

\* The fires that heat something.
Origin(g, fires) == {id \in DOMAIN fires \cap NodeIds(g) : NodeOf(g, id).floor \in Floors(g)}

\* What diffusion may make of a hazard: a floor that was cold and has no fire is cold.
Spread(g, fires, hazard) ==
    {hz \in Hazards(g) :
        \A f \in Floors(g) :
            hz[f] # Cold => \/ hazard[f] # Cold
                            \/ \E id \in Origin(g, fires) : NodeOf(g, id).floor = f}

LEMMA DiffuseSpreads ==
    ASSUME NEW s, IsPlan(s.graph), s.hazard \in Hazards(s.graph), NEW dt \in Dts
    PROVE  DiffuseHazard(s, dt) \in Spread(s.graph, s.fires, s.hazard)
<1> DEFINE g == s.graph
           S == Origin(g, s.fires)
           A == Spread(g, s.fires, s.hazard)
           blurred == [f \in DOMAIN s.hazard |-> Blurred(s.hazard[f], dt)]
           Heat(hz, id) == [hz EXCEPT ![NodeOf(g, id).floor] =
                                Heated(@, GridCell(g, NodeOf(g, id)), s.fires[id], dt)]
           G == [p \in S \X A |-> Heat(p[2], p[1])]
           Is(f) == f = [r \in SUBSET S |->
                             IF r = {} THEN blurred
                             ELSE LET x == CHOOSE x \in r : TRUE IN Heat(f[r \ {x}], x)]
           iter == CHOOSE f : Is(f)
<1>1. DiffuseHazard(s, dt) = iter[S]
  BY DEF DiffuseHazard, FoldSet, MapThenFoldSet, Origin
<1>2. IsFiniteSet(S)
  BY NodeIdFacts, PlanIsGraph, FS_Subset DEF Origin
<1>3. blurred \in A
  <2>1. DOMAIN s.hazard = Floors(g)
    BY DEF Hazards
  <2>2. \A f \in Floors(g) : s.hazard[f] \in Grid /\ Blurred(s.hazard[f], dt) \in Grid
    BY BlurredIn DEF Hazards
  <2>3. \A f \in Floors(g) : s.hazard[f] = Cold => Blurred(s.hazard[f], dt) = Cold
    BY BlurredCold
  <2> QED
    BY <2>1, <2>2, <2>3 DEF Spread, Hazards
<1>4. ASSUME NEW id \in S, NEW hz \in A PROVE Heat(hz, id) \in A
  <2> DEFINE k == NodeOf(g, id).floor
             o == GridCell(g, NodeOf(g, id))
             new == Heated(hz[k], o, s.fires[id], dt)
  <2>1. k \in Floors(g) /\ o \in Cells
    BY NodeOfId, PlanIsGraph, GridCellIn DEF Origin
  <2>2. hz \in Hazards(g)
    BY DEF Spread
  <2>3. new \in Grid
    BY <2>1, <2>2, HeatedIn DEF Hazards
  <2>4. Heat(hz, id) = [f \in Floors(g) |-> IF f = k THEN new ELSE hz[f]]
    BY <2>1, <2>2 DEF Hazards
  <2> HIDE DEF Heat, new, o
  <2>5. Heat(hz, id) \in Hazards(g)
    BY <2>2, <2>3, <2>4 DEF Hazards
  <2>6. ASSUME NEW f \in Floors(g), Heat(hz, id)[f] # Cold
        PROVE  s.hazard[f] # Cold \/ \E i \in S : NodeOf(g, i).floor = f
    <3>1. CASE f = k
      BY <3>1
    <3>2. CASE f # k
      <4>1. hz[f] # Cold
        BY <2>4, <2>6, <3>2
      <4> QED
        BY <4>1 DEF Spread
    <3> QED
      BY <3>1, <3>2
  <2> QED
    BY <2>5, <2>6 DEF Spread
<1> HIDE DEF Heat, blurred
<1>5. G \in [S \X A -> A]
  BY <1>4
<1>6. \E f : Is(f)
  <2>1. PICK f : IsFold(f, S, blurred, G) /\ \A r \in SUBSET S : f[r] \in A
    <3> HIDE DEF G, S, A
    <3> QED
      BY <1>2, <1>3, <1>5, FoldIn
  <2>2. ASSUME NEW r \in SUBSET S, r # {}
        PROVE  LET x == CHOOSE x \in r : TRUE IN G[<<x, f[r \ {x}]>>] = Heat(f[r \ {x}], x)
    <3> DEFINE x == CHOOSE x \in r : TRUE
    <3>1. x \in r
      BY <2>2
    <3> HIDE DEF x, S, A
    <3>2. G[<<x, f[r \ {x}]>>] = Heat(f[r \ {x}], x)
      BY <2>1, <3>1
    <3> QED
      BY <3>2 DEF x
  <2> HIDE DEF G, S, A
  <2>3. Is(f)
    BY <2>1, <2>2 DEF IsFold
  <2> QED
    BY <2>3
<1>7. Is(iter)
  BY <1>6
<1> HIDE DEF iter, S, A
<1>8. iter[{}] \in A
  BY <1>3, <1>7
<1>9. ASSUME NEW r \in SUBSET S, r # {} PROVE \E x \in r : iter[r \ {x}] \in A => iter[r] \in A
  <2> DEFINE x == CHOOSE x \in r : TRUE
  <2>1. x \in r
    BY <1>9
  <2>2. iter[r] = Heat(iter[r \ {x}], x)
    BY <1>7, <1>9
  <2> HIDE DEF x
  <2> QED
    BY <1>4, <2>1, <2>2
<1>10. iter[S] \in A
  <2>1. \A r \in SUBSET S : iter[r] \in A
    BY <1>2, <1>8, <1>9, FoldStays
  <2> QED
    BY <2>1
<1> QED
  BY <1>1, <1>10 DEF A

----------------------------------------------------------------------------
(* Costs. *)

LEMMA MaxOfTwo ==
    ASSUME NEW a \in Int, NEW b \in Int
    PROVE  Max({a, b}) \in {a, b} /\ Max({a, b}) >= a /\ Max({a, b}) >= b
<1>1. \E x \in {a, b} : \A y \in {a, b} : x >= y
  OBVIOUS
<1>2. Max({a, b}) \in {a, b} /\ \A y \in {a, b} : Max({a, b}) >= y
  BY <1>1 DEF Max
<1> QED
  BY <1>2

LEMMA NodeHazardIn ==
    ASSUME NEW s, IsPlan(s.graph), s.hazard \in Hazards(s.graph), NEW n \in BuildingNode
    PROVE  NodeHazard(s, n) \in Percent
<1>1. GridCell(s.graph, n) \in Cells
  BY GridCellIn
<1>2. 0 \in Percent
  BY DEF Percent, Full
<1> QED
  BY <1>1, <1>2 DEF NodeHazard, Hazards, Grid

LEMMA OccupantsIn ==
    ASSUME NEW s, IsPlan(s.graph), s.hazard \in Hazards(s.graph), NEW n \in BuildingNode
    PROVE  Occupants(s, n) \in 0 .. 3
<1> DEFINE h == NodeHazard(s, n)
           base == IF n.kind = "hallway" THEN 2 ELSE 3
<1>1. h \in 0 .. 100
  BY NodeHazardIn DEF Percent, Full
<1> HIDE DEF h
<1>2. Rounded(h * 2, 100) \in 0 .. 2
  BY <1>1, SMT DEF Rounded
<1>3. Rounded(h * 3, 100) \in 0 .. 3
  BY <1>1, SMT DEF Rounded
<1>4. base - Rounded(h * base, 100) \in 0 .. 3
  BY <1>2, <1>3
<1> QED
  BY <1>4 DEF Occupants, h, Full

\* A node shows its flame while its sensor works.
Flame(s, n) == NodeHazard(s, n) > 75 /\ n.id \notin s.noSensor

LEMMA EdgeCostIs ==
    ASSUME NEW s, IsPlan(s.graph), s.hazard \in Hazards(s.graph),
           NEW a \in BuildingNode, NEW b \in BuildingNode, Distance(a, b) \in 1 .. 500
    PROVE  /\ EdgeCost(s, a, b) \in Nat \ {0}
           /\ Flame(s, a) \/ Flame(s, b) => EdgeCost(s, a, b) = BlockedCost
<1> DEFINE h    == Max({NodeHazard(s, a), NodeHazard(s, b)})
           occ  == Max({Occupants(s, a), Occupants(s, b)})
           x    == HazardExponent(220 + 38 * h, 12 * h)
           cost == Distance(a, b) * (Exp[x] + 50 * occ)
<1>1. EdgeCost(s, a, b) = IF cost > 0 /\ h > 75 /\ ~ {a.id, b.id} \subseteq s.noSensor
                          THEN BlockedCost ELSE cost
  BY DEF EdgeCost
<1>2. NodeHazard(s, a) \in 0 .. 100 /\ NodeHazard(s, b) \in 0 .. 100
  BY NodeHazardIn DEF Percent, Full
<1>3. h \in 0 .. 100 /\ h >= NodeHazard(s, a) /\ h >= NodeHazard(s, b)
  <2> DEFINE p == NodeHazard(s, a)
             q == NodeHazard(s, b)
  <2>1. p \in Int /\ q \in Int
    BY <1>2
  <2>2. h = Max({p, q})
    OBVIOUS
  <2> HIDE DEF p, q, h
  <2>3. h \in {p, q} /\ h >= p /\ h >= q
    BY <2>1, <2>2, MaxOfTwo
  <2> QED
    BY <1>2, <2>3 DEF p, q
<1>4. occ \in 0 .. 3
  <2> DEFINE p == Occupants(s, a)
             q == Occupants(s, b)
  <2>1. p \in 0 .. 3 /\ q \in 0 .. 3
    BY OccupantsIn
  <2>2. occ = Max({p, q})
    OBVIOUS
  <2> HIDE DEF p, q, occ
  <2>3. occ \in {p, q}
    <3>1. p \in Int /\ q \in Int
      BY <2>1
    <3> QED
      BY <2>2, <3>1, MaxOfTwo
  <2> QED
    BY <2>1, <2>3
<1> HIDE DEF h, occ
<1>5. x \in 0 .. 70
  <2> DEFINE t == (22 * ((220 + 38 * h) - 250)) \div 550
             u == (16 * (12 * h)) \div 1000
  <2>1. x = Clamped(t, 0, 22) + Clamped(u, 0, 16)
    BY DEF HazardExponent
  <2>2. t \in Int /\ u \in Int
    BY <1>3, SMT
  <2> HIDE DEF t, u, x
  <2>3. Clamped(t, 0, 22) \in 0 .. 22
    BY <2>2 DEF Clamped, AtMost
  <2>4. Clamped(u, 0, 16) \in 0 .. 16
    BY <2>2 DEF Clamped, AtMost
  <2> QED
    BY <2>1, <2>3, <2>4
<1> HIDE DEF x
<1>6. Exp[x] \in Nat \ {0}
  BY <1>5, ExpIsPositive
<1>7. cost \in Nat \ {0}
  <2> DEFINE d == Distance(a, b)
             e == Exp[x] + 50 * occ
  <2>1. d \in Nat \ {0} /\ e \in Nat \ {0}
    BY <1>4, <1>6
  <2> HIDE DEF d, e
  <2>2. d * e \in Nat \ {0}
    BY <2>1
  <2> QED
    BY <2>2 DEF d, e
<1> HIDE DEF cost
<1>8. EdgeCost(s, a, b) \in Nat \ {0}
  BY <1>1, <1>7, BlockIsHigh
<1>9. ASSUME Flame(s, a) \/ Flame(s, b) PROVE EdgeCost(s, a, b) = BlockedCost
  <2>1. h > 75 /\ ~ {a.id, b.id} \subseteq s.noSensor
    BY <1>2, <1>3, <1>9 DEF Flame
  <2> QED
    BY <1>1, <1>7, <2>1
<1> QED
  BY <1>8, <1>9

LEMMA CostsArePrices ==
    ASSUME NEW s, IsPlan(s.graph), s.hazard \in Hazards(s.graph)
    PROVE  /\ Priced(Costs(s), NodeIds(s.graph), Nat \ {0})
           /\ DOMAIN Costs(s) = Links(s.graph)
<1> DEFINE g == s.graph
<1>1. DOMAIN Costs(s) = Links(g)
  BY DEF Costs
<1>2. ASSUME NEW u \in NodeIds(g), NEW v \in NodeIds(g), <<u, v>> \in Links(g)
      PROVE  Costs(s)[<<u, v>>] \in Nat \ {0}
  <2>1. Costs(s)[<<u, v>>] = EdgeCost(s, NodeOf(g, u), NodeOf(g, v))
    BY <1>2 DEF Costs
  <2>2. Distance(NodeOf(g, u), NodeOf(g, v)) \in 1 .. 500
    BY <1>2 DEF IsPlan, IsGraph, WellPlaced
  <2> QED
    BY <2>1, <2>2, NodeOfId, PlanIsGraph, EdgeCostIs
<1> QED
  BY <1>1, <1>2 DEF Priced

\* A link that costs less than the threshold joins two nodes without a flame.
LEMMA CheapLinksAreCalm ==
    ASSUME NEW s, IsPlan(s.graph), s.hazard \in Hazards(s.graph),
           NEW u \in NodeIds(s.graph), NEW v \in NodeIds(s.graph), <<u, v>> \in Links(s.graph),
           Costs(s)[<<u, v>>] < ShelterThreshold
    PROVE  ~ Flame(s, NodeOf(s.graph, u)) /\ ~ Flame(s, NodeOf(s.graph, v))
<1> DEFINE g == s.graph
<1>1. Costs(s)[<<u, v>>] = EdgeCost(s, NodeOf(g, u), NodeOf(g, v))
  BY DEF Costs
<1>2. Distance(NodeOf(g, u), NodeOf(g, v)) \in 1 .. 500
  BY DEF IsPlan, IsGraph, WellPlaced
<1>3. EdgeCost(s, NodeOf(g, u), NodeOf(g, v)) # BlockedCost
  BY <1>1, BlockIsHigh
<1> QED
  BY <1>2, <1>3, NodeOfId, PlanIsGraph, EdgeCostIs

----------------------------------------------------------------------------
(* The routes of a snapshot. *)

PathFrom(s, id) ==
    ExtractPath(Search(s, Costs(s), id).prev, Search(s, Costs(s), id).exit)
HopFrom(s, id) ==
    NextHop(Search(s, Costs(s), id).prev, id, Search(s, Costs(s), id).exit)

\* From each node there is either a route below the threshold, which begins with the next
\* hop, or no path and no next hop.
LEMMA PathFinds ==
    ASSUME NEW s, IsPlan(s.graph), s.hazard \in Hazards(s.graph), NEW id \in NodeIds(s.graph)
    PROVE  \/ PathFrom(s, id) = << >> /\ HopFrom(s, id) = Nowhere
           \/ \E x \in ExitsOf(s.graph), w \in Nat :
                /\ w < ShelterThreshold
                /\ IsRoute(PathFrom(s, id), NodeIds(s.graph), Costs(s), w, id, x)
                /\ HopFrom(s, id) = IF Len(PathFrom(s, id)) > 1 THEN PathFrom(s, id)[2] ELSE Nowhere
<1> DEFINE nodes == NodeIds(s.graph)
           exits == ExitsOf(s.graph)
           d     == Dijkstra(nodes, Costs(s), id)
           x     == NearestExit(d.dist, exits, ShelterThreshold)
<1>1. PathFrom(s, id) = ExtractPath(d.prev, x) /\ HopFrom(s, id) = NextHop(d.prev, id, x)
  BY DEF Search, PathFrom, HopFrom
<1>2. Priced(Costs(s), nodes, Nat \ {0})
  BY CostsArePrices
<1>3. IsFiniteSet(nodes) /\ Nowhere \notin nodes /\ exits \in SUBSET nodes
  BY NodeIdFacts, PlanIsGraph
<1> HIDE DEF nodes, exits
<1>4. LET path == ExtractPath(d.prev, x)
          hop  == NextHop(d.prev, id, x)
      IN  \/ path = << >> /\ hop = Nowhere
          \/ \E y \in exits, w \in Nat :
               /\ w < ShelterThreshold /\ IsRoute(path, nodes, Costs(s), w, id, y)
               /\ hop = IF Len(path) > 1 THEN path[2] ELSE Nowhere
  BY <1>2, <1>3, SearchFinds DEF nodes
<1> QED
  BY <1>1, <1>4 DEF nodes, exits

\* What RoutesAreSafe says of a snapshot of a graph.
Safe(g, sn) ==
    /\ \A p \in sn.routes :
         /\ p[Len(p)] \in ExitsOf(g)
         /\ \A i \in 1 .. Len(p) - 1 : <<p[i], p[i + 1]>> \in Links(g)
         /\ \A i \in 1 .. Len(p) : ~ sn.nodes[p[i]].flameDetected
    /\ \A n \in Origins(g) :
         LET mine == {p \in sn.routes : p[1] = n.id}
         IN  sn.nodes[n.id].nextHop = IF mine = {} THEN Nowhere
                                      ELSE (CHOOSE p \in mine : TRUE)[2]

LEMMA OriginsAreNodes ==
    ASSUME NEW g, IsPlan(g), NEW n \in Origins(g)
    PROVE  n \in ToSet(g.nodes) /\ n.kind # "exit" /\ n.id \in NodeIds(g)
<1>1. n \in ToSet(g.nodes) /\ n.kind # "exit"
  BY PlanTypes DEF Origins
<1> QED
  BY <1>1, IdOfNode, PlanIsGraph

\* What a snapshot says of a node.
LEMMA SnapshotOfNode ==
    ASSUME NEW s, IsPlan(s.graph), NEW id \in NodeIds(s.graph)
    PROVE  /\ SnapshotOf(s).nodes[id] = BuildNodeState(s, Costs(s), NodeOf(s.graph, id))
           /\ SnapshotOf(s).nodes[id].flameDetected <=> Flame(s, NodeOf(s.graph, id))
           /\ SnapshotOf(s).nodes[id].nextHop =
                  IF NodeOf(s.graph, id).kind = "exit" THEN Nowhere ELSE HopFrom(s, id)
<1> DEFINE n == NodeOf(s.graph, id)
           st == BuildNodeState(s, Costs(s), n)
<1>1. SnapshotOf(s).nodes[id] = st
  BY DEF SnapshotOf, BuildNodeStates
<1>2. n.id = id
  BY NodeOfId, PlanIsGraph
<1>3. st.flameDetected <=> Flame(s, n)
  BY DEF BuildNodeState, Flame
<1>4. st.nextHop = ComputeNextHop(s, Costs(s), n)
  BY DEF BuildNodeState
<1> HIDE DEF n, st
<1>5. ComputeNextHop(s, Costs(s), n) = IF n.kind = "exit" THEN Nowhere ELSE HopFrom(s, id)
  BY <1>2 DEF ComputeNextHop, HopFrom
<1> QED
  BY <1>1, <1>3, <1>4, <1>5 DEF n, st

LEMMA RoutesAre ==
    ASSUME NEW s
    PROVE  SnapshotOf(s).routes =
               {p \in {PathFrom(s, n.id) : n \in Origins(s.graph)} : Len(p) > 1}
BY DEF SnapshotOf, BuildRoutes, PathFrom

LEMMA SnapshotIsSafe ==
    ASSUME NEW s, IsPlan(s.graph), s.hazard \in Hazards(s.graph)
    PROVE  Safe(s.graph, SnapshotOf(s))
<1> DEFINE g == s.graph
           sn == SnapshotOf(s)
           nodes == NodeIds(g)
<1>1. ASSUME NEW n \in Origins(g)
      PROVE  \/ PathFrom(s, n.id) = << >> /\ HopFrom(s, n.id) = Nowhere
             \/ \E x \in ExitsOf(g), w \in Nat :
                  /\ w < ShelterThreshold
                  /\ IsRoute(PathFrom(s, n.id), nodes, Costs(s), w, n.id, x)
                  /\ HopFrom(s, n.id) = IF Len(PathFrom(s, n.id)) > 1
                                        THEN PathFrom(s, n.id)[2] ELSE Nowhere
  BY OriginsAreNodes, PathFinds
<1>2. ASSUME NEW p \in sn.routes
      PROVE  /\ p[Len(p)] \in ExitsOf(g)
             /\ \A i \in 1 .. Len(p) - 1 : <<p[i], p[i + 1]>> \in Links(g)
             /\ \A i \in 1 .. Len(p) : ~ sn.nodes[p[i]].flameDetected
  <2>1. PICK n \in Origins(g) : p = PathFrom(s, n.id) /\ Len(p) > 1
    BY RoutesAre
  <2>2. p # << >>
    BY <2>1
  <2>3. PICK x \in ExitsOf(g), w \in Nat : w < ShelterThreshold /\ IsRoute(p, nodes, Costs(s), w, n.id, x)
    BY <1>1, <2>1, <2>2
  <2>4. p \in Seq(nodes) /\ p[Len(p)] = x
        /\ \A i \in 1 .. Len(p) - 1 : /\ <<p[i], p[i + 1]>> \in DOMAIN Costs(s)
                                      /\ Costs(s)[<<p[i], p[i + 1]>>] <= w
    BY <2>3 DEF IsRoute
  <2>5. Len(p) \in Nat /\ \A i \in 1 .. Len(p) : p[i] \in nodes
    BY <2>4
  <2> HIDE DEF nodes, g
  <2>6. ASSUME NEW i \in 1 .. Len(p) - 1
        PROVE  /\ <<p[i], p[i + 1]>> \in Links(g)
               /\ ~ Flame(s, NodeOf(g, p[i])) /\ ~ Flame(s, NodeOf(g, p[i + 1]))
    <3>1. p[i] \in nodes /\ p[i + 1] \in nodes
      BY <2>5
    <3>2. <<p[i], p[i + 1]>> \in Links(g)
      BY <2>4, CostsArePrices DEF g
    <3> DEFINE c == Costs(s)[<<p[i], p[i + 1]>>]
    <3>3. c \in Nat
      BY <3>1, <3>2, CostsArePrices DEF Priced, nodes, g
    <3>4. c <= w
      BY <2>4
    <3>5. c < ShelterThreshold
      <4> HIDE DEF c
      <4> QED
        BY <2>3, <3>3, <3>4, BlockIsHigh
    <3> QED
      BY <3>1, <3>2, <3>5, CheapLinksAreCalm DEF nodes, g
  <2>7. ASSUME NEW i \in 1 .. Len(p) PROVE ~ sn.nodes[p[i]].flameDetected
    <3>1. ~ Flame(s, NodeOf(g, p[i]))
      <4>1. CASE i < Len(p)
        <5>1. i \in 1 .. Len(p) - 1
          BY <2>5, <4>1
        <5> QED
          BY <2>6, <5>1
      <4>2. CASE i = Len(p)
        <5>1. i - 1 \in 1 .. Len(p) - 1 /\ (i - 1) + 1 = i
          BY <2>1, <2>5, <4>2
        <5>2. ~ Flame(s, NodeOf(g, p[(i - 1) + 1]))
          BY <2>6, <5>1
        <5> QED
          BY <5>1, <5>2
      <4> QED
        BY <2>5, <4>1, <4>2
    <3> QED
      BY <2>5, <3>1, SnapshotOfNode DEF nodes, g
  <2> QED
    BY <2>3, <2>4, <2>6, <2>7
<1>3. ASSUME NEW n \in Origins(g)
      PROVE  LET mine == {p \in sn.routes : p[1] = n.id}
             IN  sn.nodes[n.id].nextHop = IF mine = {} THEN Nowhere
                                          ELSE (CHOOSE p \in mine : TRUE)[2]
  <2> DEFINE mine == {p \in sn.routes : p[1] = n.id}
             path == PathFrom(s, n.id)
  <2>1. sn.nodes[n.id].nextHop = HopFrom(s, n.id)
    BY OriginsAreNodes, IdOfNode, PlanIsGraph, SnapshotOfNode
  <2>2. \A p \in mine : p = path
    <3> SUFFICES ASSUME NEW p \in mine PROVE p = path
      OBVIOUS
    <3>1. PICK m \in Origins(g) : p = PathFrom(s, m.id) /\ Len(p) > 1
      BY RoutesAre
    <3>2. p # << >> /\ p[1] = n.id
      BY <3>1
    <3>3. p[1] = m.id
      BY <1>1, <3>1, <3>2 DEF IsRoute
    <3> QED
      BY <3>1, <3>2, <3>3
  <2>3. path \in mine <=> Len(path) > 1
    <3>1. path \in sn.routes <=> Len(path) > 1
      BY RoutesAre
    <3>2. ASSUME Len(path) > 1 PROVE path[1] = n.id
      <4>1. path # << >>
        BY <3>2
      <4> QED
        BY <1>1, <4>1 DEF IsRoute
    <3> QED
      BY <3>1, <3>2
  <2>4. HopFrom(s, n.id) = IF Len(path) > 1 THEN path[2] ELSE Nowhere
    <3>1. path = << >> => ~ (Len(path) > 1)
      OBVIOUS
    <3> HIDE DEF path
    <3> QED
      BY <1>1, <3>1 DEF path
  <2> HIDE DEF path, mine
  <2>5. CASE Len(path) > 1
    <3>1. mine = {path}
      BY <2>2, <2>3, <2>5
    <3>2. (CHOOSE p \in mine : TRUE) = path
      BY <3>1
    <3> QED
      BY <2>1, <2>4, <2>5, <3>1, <3>2 DEF mine
  <2>6. CASE ~ (Len(path) > 1)
    <3>1. mine = {}
      BY <2>2, <2>3, <2>6
    <3> QED
      BY <2>1, <2>4, <2>6, <3>1 DEF mine
  <2> QED
    BY <2>5, <2>6
<1> QED
  BY <1>2, <1>3 DEF Safe

----------------------------------------------------------------------------
(* What place_nodes makes of a building is such a graph. *)

\* The recursive function in FlattenSeq.
IsFlattened(f, seqs) ==
    f = [i \in 1 .. Len(seqs) |-> IF i = 1 THEN seqs[i] ELSE f[i - 1] \o seqs[i]]

LEMMA FlattenIs ==
    ASSUME NEW A, NEW seqs \in Seq(Seq(A)), Len(seqs) # 0
    PROVE  \E f : IsFlattened(f, seqs) /\ FlattenSeq(seqs) = f[Len(seqs)]
<1> DEFINE N == Len(seqs)
           Step(f, i) == IF i = 1 THEN seqs[i] ELSE f[i - 1] \o seqs[i]
           Is(f, n) == f = [i \in 1 .. n |-> Step(f, i)]
           T == {n \in 0 .. N : \E f : Is(f, n)}
           flatten == CHOOSE f : Is(f, N)
<1>1. N \in Nat
  OBVIOUS
<1>2. FlattenSeq(seqs) = flatten[N]
  BY DEF FlattenSeq
<1>3. \A f : IsFlattened(f, seqs) <=> Is(f, N)
  BY DEF IsFlattened
<1> HIDE DEF N
<1>4. 0 \in T
  <2> DEFINE f == [i \in 1 .. 0 |-> seqs]
  <2>1. Is(f, 0)
    OBVIOUS
  <2> HIDE DEF f, Is
  <2> QED
    BY <1>1, <2>1
<1>5. ASSUME NEW n \in 0 .. N - 1, n \in T PROVE n + 1 \in T
  <2>1. PICK f : Is(f, n)
    BY <1>5
  <2> DEFINE m    == n + 1
             more == [i \in 1 .. m |-> IF i = m THEN Step(f, m) ELSE f[i]]
  <2>2. ASSUME NEW i \in 1 .. m PROVE more[i] = Step(more, i)
    <3>1. CASE i = m
      <4>1. i # 1 => i - 1 \in 1 .. n /\ i - 1 # m
        BY <3>1
      <4>2. i # 1 => more[i - 1] = f[i - 1]
        BY <4>1
      <4>3. more[i] = Step(f, i)
        BY <3>1
      <4> HIDE DEF more
      <4> QED
        BY <4>2, <4>3
    <3>2. CASE i # m
      <4>1. i \in 1 .. n /\ (i # 1 => i - 1 \in 1 .. m /\ i - 1 # m)
        BY <3>2
      <4>2. more[i] = f[i] /\ (i # 1 => more[i - 1] = f[i - 1])
        BY <3>2, <4>1
      <4> HIDE DEF more
      <4> QED
        BY <2>1, <4>1, <4>2
    <3> QED
      BY <3>1, <3>2
  <2>3. more = [i \in 1 .. m |-> more[i]]
    OBVIOUS
  <2> HIDE DEF more
  <2>4. Is(more, m)
    BY <2>2, <2>3
  <2> HIDE DEF Is
  <2> QED
    BY <1>1, <2>4
<1>6. N \in T
  <2>1. 0 .. N \subseteq T
    <3> HIDE DEF T
    <3> QED
      BY <1>1, <1>4, <1>5, FromZero
  <2>2. N \in 0 .. N
    BY <1>1
  <2> HIDE DEF T
  <2> QED
    BY <2>1, <2>2
<1>7. Is(flatten, N)
  BY <1>6
<1> HIDE DEF flatten, Is
<1>8. IsFlattened(flatten, seqs) /\ FlattenSeq(seqs) = flatten[Len(seqs)]
  BY <1>2, <1>3, <1>7 DEF N
<1> QED
  BY <1>8

LEMMA FlattenIn ==
    ASSUME NEW A, NEW seqs \in Seq(Seq(A))
    PROVE  FlattenSeq(seqs) \in Seq(A)
<1> DEFINE N == Len(seqs)
<1>1. N \in Nat /\ \A i \in 1 .. N : seqs[i] \in Seq(A)
  OBVIOUS
<1>2. CASE N = 0
  <2>1. FlattenSeq(seqs) = seqs
    BY <1>2 DEF FlattenSeq
  <2>2. seqs = << >>
    BY <1>2
  <2> QED
    BY <2>1, <2>2
<1>3. CASE N # 0
  <2>1. PICK f : IsFlattened(f, seqs) /\ FlattenSeq(seqs) = f[N]
    BY <1>3, FlattenIs
  <2> DEFINE U == {i \in 1 .. N : f[i] \in Seq(A)}
  <2>2. 1 \in 1 .. N /\ N \in 1 .. N
    BY <1>1, <1>3
  <2> HIDE DEF N
  <2>3. \A i \in 1 .. N : f[i] = IF i = 1 THEN seqs[i] ELSE f[i - 1] \o seqs[i]
    BY <2>1 DEF IsFlattened, N
  <2>4. 1 \in U
    BY <1>1, <2>2, <2>3
  <2>5. ASSUME NEW i \in 1 .. N - 1, i \in U PROVE i + 1 \in U
    <3>1. i + 1 \in 1 .. N /\ i + 1 # 1 /\ (i + 1) - 1 = i
      BY <1>1
    <3>2. f[i + 1] = f[i] \o seqs[i + 1]
      BY <2>3, <3>1
    <3>3. f[i] \in Seq(A) /\ seqs[i + 1] \in Seq(A)
      BY <1>1, <2>5, <3>1
    <3>4. f[i] \o seqs[i + 1] \in Seq(A)
      BY <3>3
    <3> QED
      BY <3>1, <3>2, <3>4
  <2>6. 1 .. N \subseteq U
    <3> HIDE DEF U
    <3> QED
      BY <1>1, <2>4, <2>5, UpTo
  <2> QED
    BY <2>1, <2>2, <2>6
<1> QED
  BY <1>2, <1>3

LEMMA LaterPlace ==
    ASSUME NEW A, NEW s \in Seq(A), NEW t \in Seq(A), NEW m \in DOMAIN t
    PROVE  Len(s) + m \in DOMAIN (s \o t) /\ (s \o t)[Len(s) + m] = t[m]
<1>1. DOMAIN t = 1 .. Len(t) /\ Len(s) \in Nat /\ Len(t) \in Nat
  OBVIOUS
<1>2. m \in Nat /\ m <= Len(t) /\ m >= 1
  BY <1>1
<1>3. Len(s \o t) = Len(s) + Len(t) /\ DOMAIN (s \o t) = 1 .. Len(s) + Len(t)
  OBVIOUS
<1>4. Len(s) + m \in 1 .. Len(s) + Len(t) /\ Len(s) + m > Len(s) /\ (Len(s) + m) - Len(s) = m
  BY <1>1, <1>2
<1> QED
  BY <1>1, <1>3, <1>4

\* Whatever is in one of the sequences is in the long one.
LEMMA FlattenHas ==
    ASSUME NEW A, NEW seqs \in Seq(Seq(A)), NEW n \in DOMAIN seqs, NEW k \in DOMAIN seqs[n]
    PROVE  \E m \in DOMAIN FlattenSeq(seqs) : FlattenSeq(seqs)[m] = seqs[n][k]
<1> DEFINE N == Len(seqs)
           x == seqs[n][k]
<1>1. N \in Nat /\ N # 0 /\ n \in 1 .. N /\ \A i \in 1 .. N : seqs[i] \in Seq(A)
  OBVIOUS
<1>2. PICK f : IsFlattened(f, seqs) /\ FlattenSeq(seqs) = f[N]
  BY <1>1, FlattenIs
<1> DEFINE Has(i) == \E m \in DOMAIN f[i] : f[i][m] = x
           U == {i \in 1 .. N : f[i] \in Seq(A) /\ (i >= n => Has(i))}
<1> HIDE DEF N
<1>3. \A i \in 1 .. N : f[i] = IF i = 1 THEN seqs[i] ELSE f[i - 1] \o seqs[i]
  BY <1>2 DEF IsFlattened, N
<1> HIDE DEF x
<1>4. ASSUME NEW s \in Seq(A), NEW t \in Seq(A), NEW m \in DOMAIN s
      PROVE  m \in DOMAIN (s \o t) /\ (s \o t)[m] = s[m]
  OBVIOUS
<1>5. 1 \in U
  <2>1. 1 \in 1 .. N /\ f[1] = seqs[1]
    BY <1>1, <1>3
  <2>2. 1 >= n => n = 1
    BY <1>1
  <2> QED
    BY <1>1, <2>1, <2>2 DEF x
<1>6. ASSUME NEW i \in 1 .. N - 1, i \in U PROVE i + 1 \in U
  <2>1. i + 1 \in 1 .. N /\ i + 1 # 1 /\ (i + 1) - 1 = i /\ i \in 1 .. N
    BY <1>1
  <2>2. f[i + 1] = f[i] \o seqs[i + 1]
    BY <1>3, <2>1
  <2>3. f[i] \in Seq(A) /\ seqs[i + 1] \in Seq(A)
    BY <1>1, <1>6, <2>1
  <2>4. f[i] \o seqs[i + 1] \in Seq(A)
    BY <2>3
  <2>5. ASSUME i >= n PROVE Has(i + 1)
    <3>1. PICK m \in DOMAIN f[i] : f[i][m] = x
      BY <1>6, <2>5
    <3>2. m \in DOMAIN (f[i] \o seqs[i + 1]) /\ (f[i] \o seqs[i + 1])[m] = x
      BY <1>4, <2>3, <3>1
    <3> QED
      BY <2>2, <3>2
  <2>6. ASSUME i + 1 = n PROVE Has(i + 1)
    <3>1. k \in DOMAIN seqs[i + 1] /\ seqs[i + 1][k] = x
      BY <2>6 DEF x
    <3>2. /\ Len(f[i]) + k \in DOMAIN (f[i] \o seqs[i + 1])
          /\ (f[i] \o seqs[i + 1])[Len(f[i]) + k] = x
      <4> DEFINE s == f[i]
                 t == seqs[i + 1]
      <4>1. s \in Seq(A) /\ t \in Seq(A) /\ k \in DOMAIN t /\ t[k] = x
        BY <2>3, <3>1
      <4> HIDE DEF s, t
      <4>2. Len(s) + k \in DOMAIN (s \o t) /\ (s \o t)[Len(s) + k] = t[k]
        BY <4>1, LaterPlace
      <4> QED
        BY <4>1, <4>2 DEF s, t
    <3> QED
      BY <2>2, <3>2
  <2>7. i + 1 >= n => i >= n \/ i + 1 = n
    BY <1>1
  <2> HIDE DEF Has
  <2> QED
    BY <2>1, <2>2, <2>4, <2>5, <2>6, <2>7
<1>7. 1 .. N \subseteq U
  <2> HIDE DEF U
  <2> QED
    BY <1>1, <1>5, <1>6, UpTo
<1>8. N \in U /\ N >= n
  BY <1>1, <1>7
<1>9. Has(N)
  BY <1>8
<1> QED
  BY <1>2, <1>9 DEF x

\* A nonempty set of places has a first and a last one.
LEMMA FirstAndLast ==
    ASSUME NEW A, NEW sq \in Seq(A), NEW places \in SUBSET DOMAIN sq, places # {}
    PROVE  Min(places) \in DOMAIN sq /\ Max(places) \in DOMAIN sq
<1>1. places \subseteq Nat /\ places \subseteq Int
  BY PlacesAreFinite
<1>2. IsFiniteSet(places)
  BY PlacesAreFinite, FS_Subset
<1>3. Min(places) \in places
  BY <1>1, MinIn
<1>4. Max(places) \in places
  BY <1>1, <1>2, MaxIn
<1> QED
  BY <1>3, <1>4

LEMMA DefTypes ==
    ASSUME NEW def \in BuildingDef
    PROVE  /\ def.rooms \in Seq(Room) /\ def.corridors \in Seq(CorridorDef)
           /\ def.floors \in Seq(FloorDef)
           /\ ToSet(def.rooms) \subseteq Room /\ ToSet(def.corridors) \subseteq CorridorDef
           /\ ToSet(def.floors) \subseteq FloorDef
BY DEF BuildingDef, ToSet

LEMMA ElevationIn ==
    ASSUME NEW def \in BuildingDef, NEW floor \in Int
    PROVE  Elevation(def, floor) \in Int
<1> DEFINE known == {i \in DOMAIN def.floors : def.floors[i].index = floor}
<1>1. CASE known = {}
  BY <1>1 DEF Elevation
<1>2. CASE known # {}
  <2>1. known \in SUBSET DOMAIN def.floors /\ def.floors \in Seq(FloorDef)
    BY DefTypes
  <2>2. Elevation(def, floor) = def.floors[Max(known)].elevation
    BY <1>2 DEF Elevation
  <2> HIDE DEF known
  <2>3. Max(known) \in DOMAIN def.floors
    BY <1>2, <2>1, FirstAndLast
  <2>4. def.floors[Max(known)] \in FloorDef
    BY <2>1, <2>3
  <2> QED
    BY <2>2, <2>4 DEF FloorDef
<1> QED
  BY <1>1, <1>2

LEMMA NodeIn ==
    ASSUME NEW id \in NodeId, NEW kind \in {"sensor", "hallway", "exit", "stairwell"},
           NEW floor \in Int, NEW x \in Int, NEW y \in Int, NEW z \in Int
    PROVE  [id |-> id, kind |-> kind, floor |-> floor,
            position |-> [x |-> x, y |-> y, z |-> z]] \in BuildingNode
BY DEF BuildingNode, Vec3

LEMMA RoomNodesIn ==
    ASSUME NEW def \in BuildingDef
    PROVE  RoomNodes(def) \in Seq(BuildingNode)
<1>1. DOMAIN def.rooms = 1 .. Len(def.rooms) /\ Len(def.rooms) \in Nat
      /\ \A k \in DOMAIN def.rooms : def.rooms[k] \in Room
  BY DefTypes, PlacesAreFinite
<1>2. ASSUME NEW k \in DOMAIN def.rooms PROVE RoomNodes(def)[k] \in BuildingNode
  <2> DEFINE r == def.rooms[k]
  <2>1. r \in Room
    BY <1>1
  <2>2. RoomNodes(def)[k] =
            [id |-> <<"n", r.id>>, kind |-> Kind(r), floor |-> r.floor,
             position |-> [x |-> 2 * r.x + r.width, y |-> 2 * Elevation(def, r.floor),
                           z |-> 2 * r.z + r.depth]]
    BY DEF RoomNodes
  <2> HIDE DEF r
  <2>3. r.floor \in Int /\ r.x \in Int /\ r.z \in Int /\ r.width \in Nat /\ r.depth \in Nat
        /\ r.id \in STRING
    BY <2>1 DEF Room
  <2>4. <<"n", r.id>> \in NodeId
    BY <2>3 DEF NodeId
  <2>5. Kind(r) \in {"sensor", "hallway", "exit", "stairwell"}
    BY DEF Kind
  <2>6. Elevation(def, r.floor) \in Int
    BY <2>3, ElevationIn
  <2>7. 2 * r.x + r.width \in Int /\ 2 * Elevation(def, r.floor) \in Int /\ 2 * r.z + r.depth \in Int
    BY <2>3, <2>6
  <2> QED
    BY <2>2, <2>3, <2>4, <2>5, <2>7, NodeIn
<1>3. RoomNodes(def) \in [1 .. Len(def.rooms) -> BuildingNode]
  BY <1>1, <1>2 DEF RoomNodes
<1> QED
  BY <1>1, <1>3

LEMMA JunctionNodesIn ==
    ASSUME NEW c \in CorridorDef
    PROVE  JunctionNodes(c) \in Seq(BuildingNode)
<1>1. c.junctionPoints \in Seq(Vec3) /\ c.floor \in Int /\ c.id \in STRING
  BY DEF CorridorDef
<1>2. DOMAIN c.junctionPoints = 1 .. Len(c.junctionPoints) /\ Len(c.junctionPoints) \in Nat
      /\ \A k \in DOMAIN c.junctionPoints : c.junctionPoints[k] \in Vec3
  BY <1>1, PlacesAreFinite
<1>3. ASSUME NEW k \in DOMAIN c.junctionPoints PROVE JunctionNodes(c)[k] \in BuildingNode
  <2> DEFINE p == c.junctionPoints[k]
  <2>1. p \in Vec3
    BY <1>2
  <2>2. JunctionNodes(c)[k] =
            [id |-> Junction(c, k - 1), kind |-> "hallway", floor |-> c.floor,
             position |-> [x |-> 2 * p.x, y |-> 2 * p.y, z |-> 2 * p.z]]
    BY DEF JunctionNodes
  <2> HIDE DEF p
  <2>3. 2 * p.x \in Int /\ 2 * p.y \in Int /\ 2 * p.z \in Int
    BY <2>1 DEF Vec3
  <2>4. Junction(c, k - 1) \in NodeId
    BY <1>1, <1>2 DEF Junction, NodeId
  <2> QED
    BY <1>1, <2>2, <2>3, <2>4, NodeIn
<1>4. JunctionNodes(c) \in [1 .. Len(c.junctionPoints) -> BuildingNode]
  BY <1>2, <1>3 DEF JunctionNodes
<1> QED
  BY <1>2, <1>4

EdgeId == ({"e"} \X STRING) \cup ({"seg"} \X STRING \X Nat) \cup ({"stair"} \X STRING \X STRING)

\* The nodes that a description names: its rooms and the waypoints of its corridors.
Named(def) ==
    {<<"n", r.id>> : r \in ToSet(def.rooms)}
    \cup UNION {{Junction(c, j) : j \in 0 .. Len(c.junctionPoints) - 1} : c \in ToSet(def.corridors)}

EdgesOf(def) == [id : EdgeId, from : Named(def), to : Named(def)]

LEMMA NamesAreIds ==
    ASSUME NEW def \in BuildingDef
    PROVE  Named(def) \subseteq NodeId /\ EdgesOf(def) \subseteq BuildingEdge
<1>1. ASSUME NEW r \in ToSet(def.rooms) PROVE <<"n", r.id>> \in NodeId
  BY DefTypes DEF Room, NodeId
<1>2. ASSUME NEW c \in ToSet(def.corridors), NEW j \in 0 .. Len(c.junctionPoints) - 1
      PROVE  Junction(c, j) \in NodeId
  <2>1. c \in CorridorDef
    BY DefTypes
  <2>2. c.id \in STRING /\ j \in Nat
    BY <2>1 DEF CorridorDef
  <2> QED
    BY <2>2 DEF Junction, NodeId
<1>3. Named(def) \subseteq NodeId
  BY <1>1, <1>2 DEF Named
<1> QED
  BY <1>3 DEF EdgesOf, BuildingEdge, EdgeId

LEMMA EdgeIn ==
    ASSUME NEW def, NEW id \in EdgeId, NEW a \in Named(def), NEW b \in Named(def)
    PROVE  [id |-> id, from |-> a, to |-> b] \in EdgesOf(def)
BY DEF EdgesOf

LEMMA NodeForRoomIn ==
    ASSUME NEW def, NEW room, NodeForRoom(def, room) # None
    PROVE  NodeForRoom(def, room) = <<"n", room>> /\ <<"n", room>> \in Named(def)
<1>1. NodeForRoom(def, room) = <<"n", room>> /\ \E r \in ToSet(def.rooms) : r.id = room
  BY DEF NodeForRoom
<1>2. <<"n", room>> \in {<<"n", r.id>> : r \in ToSet(def.rooms)}
  BY <1>1
<1> QED
  BY <1>1, <1>2 DEF Named

LEMMA JunctionIn ==
    ASSUME NEW def, NEW c \in ToSet(def.corridors), NEW j \in 0 .. Len(c.junctionPoints) - 1
    PROVE  Junction(c, j) \in Named(def)
BY DEF Named

LEMMA SegmentIn ==
    ASSUME NEW c \in CorridorDef, NEW j \in Nat
    PROVE  <<"seg", c.id, j>> \in EdgeId
BY DEF CorridorDef, EdgeId

LEMMA JunctionEdgesIn ==
    ASSUME NEW def \in BuildingDef, NEW c \in ToSet(def.corridors)
    PROVE  JunctionEdges(def, c) \subseteq EdgesOf(def)
<1> DEFINE n == Len(c.junctionPoints)
           Before(j) == IF j = 0 THEN NodeForRoom(def, c.fromRoom) ELSE Junction(c, j - 1)
           After(j)  == IF j = n - 1 THEN NodeForRoom(def, c.toRoom) ELSE Junction(c, j + 1)
           In(j)  == [id |-> <<"seg", c.id, j>>, from |-> Before(j), to |-> Junction(c, j)]
           Out(j) == [id |-> <<"seg", c.id, j + 1>>, from |-> Junction(c, j), to |-> After(j)]
<1>1. c \in CorridorDef /\ n \in Nat
  <2>1. c \in CorridorDef
    BY DefTypes
  <2> QED
    BY <2>1 DEF CorridorDef
<1>2. \A j \in 0 .. n - 1 : Junction(c, j) \in Named(def)
  BY JunctionIn
<1> HIDE DEF n
<1>3. ASSUME NEW j \in 0 .. n - 1
      PROVE  /\ Before(j) # None => Before(j) \in Named(def)
             /\ After(j) # None => After(j) \in Named(def)
             /\ <<"seg", c.id, j>> \in EdgeId /\ <<"seg", c.id, j + 1>> \in EdgeId
  <2>1. j \in Nat /\ j + 1 \in Nat
        /\ (j # 0 => j - 1 \in 0 .. n - 1) /\ (j # n - 1 => j + 1 \in 0 .. n - 1)
    BY <1>1
  <2>2. <<"seg", c.id, j>> \in EdgeId /\ <<"seg", c.id, j + 1>> \in EdgeId
    BY <1>1, <2>1, SegmentIn
  <2>3. Before(j) # None => Before(j) \in Named(def)
    BY <1>2, <2>1, NodeForRoomIn
  <2>4. After(j) # None => After(j) \in Named(def)
    BY <1>2, <2>1, NodeForRoomIn
  <2> QED
    BY <2>2, <2>3, <2>4
<1> HIDE DEF Before, After
<1>4. JunctionEdges(def, c) =
          {e \in UNION {{In(j), Out(j)} : j \in 0 .. n - 1} : None \notin {e.from, e.to}}
  BY DEF JunctionEdges, n, Before, After
<1>5. ASSUME NEW j \in 0 .. n - 1, NEW e, e = In(j), None \notin {e.from, e.to}
      PROVE  e \in EdgesOf(def)
  <2>1. Before(j) # None
    BY <1>5
  <2> QED
    BY <1>2, <1>3, <1>5, <2>1, EdgeIn
<1>6. ASSUME NEW j \in 0 .. n - 1, NEW e, e = Out(j), None \notin {e.from, e.to}
      PROVE  e \in EdgesOf(def)
  <2>1. After(j) # None
    BY <1>6
  <2> QED
    BY <1>2, <1>3, <1>6, <2>1, EdgeIn
<1> HIDE DEF In, Out
<1>7. ASSUME NEW e \in JunctionEdges(def, c) PROVE e \in EdgesOf(def)
  <2>1. None \notin {e.from, e.to} /\ e \in UNION {{In(j), Out(j)} : j \in 0 .. n - 1}
    BY <1>4
  <2>2. PICK j \in 0 .. n - 1 : e = In(j) \/ e = Out(j)
    BY <2>1
  <2> QED
    BY <1>5, <1>6, <2>1, <2>2
<1> QED
  BY <1>7

LEMMA CorridorEdgesIn ==
    ASSUME NEW def \in BuildingDef
    PROVE  CorridorEdges(def) \subseteq EdgesOf(def)
<1> DEFINE a(c) == NodeForRoom(def, c.fromRoom)
           b(c) == NodeForRoom(def, c.toRoom)
<1>1. SUFFICES ASSUME NEW c \in ToSet(def.corridors), None \notin {a(c), b(c)}
               PROVE  [id |-> <<"e", c.id>>, from |-> a(c), to |-> b(c)] \in EdgesOf(def)
  BY DEF CorridorEdges
<1>2. c.id \in STRING
  BY DefTypes DEF CorridorDef
<1>3. <<"e", c.id>> \in EdgeId
  BY <1>2 DEF EdgeId
<1>4. a(c) \in Named(def) /\ b(c) \in Named(def)
  BY <1>1, NodeForRoomIn
<1> QED
  BY <1>3, <1>4, EdgeIn

LEMMA StairEdgesIn ==
    ASSUME NEW def \in BuildingDef
    PROVE  StairEdges(def) \subseteq EdgesOf(def)
<1> DEFINE Stairs(floor) == {k \in DOMAIN def.rooms : /\ def.rooms[k].isStairwell
                                                     /\ def.rooms[k].floor = floor.index}
           Above(s, floor) == {k \in Stairs(floor) : /\ def.rooms[k].x - s.x \in -1 .. 1
                                                    /\ def.rooms[k].z - s.z \in -1 .. 1}
           Edge(s, u)      == [id |-> <<"stair", s.id, u.id>>, from |-> <<"n", s.id>>,
                               to |-> <<"n", u.id>>]
           Edges(low, up)  == {Edge(def.rooms[k], def.rooms[Min(Above(def.rooms[k], up))]) :
                                   k \in {s \in Stairs(low) : Above(def.rooms[s], up) # {}}}
<1>1. StairEdges(def) = UNION {Edges(def.floors[i], def.floors[i + 1]) : i \in 1 .. Len(def.floors) - 1}
  BY DEF StairEdges
<1>2. ASSUME NEW s \in ToSet(def.rooms), NEW u \in ToSet(def.rooms)
      PROVE  Edge(s, u) \in EdgesOf(def)
  <2>1. s.id \in STRING /\ u.id \in STRING
    BY DefTypes DEF Room
  <2>2. <<"stair", s.id, u.id>> \in EdgeId
    BY <2>1 DEF EdgeId
  <2>3. <<"n", s.id>> \in Named(def) /\ <<"n", u.id>> \in Named(def)
    BY DEF Named
  <2> QED
    BY <2>2, <2>3, EdgeIn
<1> HIDE DEF Edge
<1>3. ASSUME NEW low, NEW up PROVE Edges(low, up) \subseteq EdgesOf(def)
  <2> SUFFICES ASSUME NEW k \in Stairs(low), Above(def.rooms[k], up) # {}
               PROVE  Edge(def.rooms[k], def.rooms[Min(Above(def.rooms[k], up))]) \in EdgesOf(def)
    OBVIOUS
  <2> DEFINE places == Above(def.rooms[k], up)
  <2>1. k \in DOMAIN def.rooms /\ places \in SUBSET DOMAIN def.rooms /\ places # {}
        /\ def.rooms \in Seq(Room)
    BY DefTypes
  <2> HIDE DEF places
  <2>2. Min(places) \in DOMAIN def.rooms
    BY <2>1, FirstAndLast
  <2>3. def.rooms[k] \in ToSet(def.rooms) /\ def.rooms[Min(places)] \in ToSet(def.rooms)
    BY <2>1, <2>2 DEF ToSet
  <2>4. Edge(def.rooms[k], def.rooms[Min(places)]) \in EdgesOf(def)
    BY <1>2, <2>3
  <2> QED
    BY <2>4 DEF places
<1> HIDE DEF Edges
<1> QED
  BY <1>1, <1>3

LEMMA ExtentIn ==
    ASSUME NEW def \in BuildingDef, def.floors # << >>
    PROVE  MaxWidth(def) \in Nat /\ MaxDepth(def) \in Nat
<1>1. ToSet(def.floors) \subseteq FloorDef /\ ToSet(def.floors) # {}
      /\ ToSet(def.floors) = {def.floors[k] : k \in DOMAIN def.floors}
      /\ IsFiniteSet(DOMAIN def.floors)
  <2>1. def.floors \in Seq(FloorDef)
    BY DefTypes
  <2>2. 1 \in DOMAIN def.floors
    BY <2>1
  <2>3. ToSet(def.floors) = {def.floors[k] : k \in DOMAIN def.floors}
    BY DEF ToSet
  <2>4. IsFiniteSet(DOMAIN def.floors)
    BY <2>1, PlacesAreFinite
  <2>5. ToSet(def.floors) \subseteq FloorDef
    BY <2>1, <2>3
  <2> QED
    BY <2>2, <2>3, <2>4, <2>5
<1> DEFINE W == {f.width : f \in ToSet(def.floors)}
           D == {f.depth : f \in ToSet(def.floors)}
           w == [k \in DOMAIN def.floors |-> def.floors[k].width]
           d == [k \in DOMAIN def.floors |-> def.floors[k].depth]
<1>2. W = {w[k] : k \in DOMAIN def.floors} /\ D = {d[k] : k \in DOMAIN def.floors}
  <2> DEFINE K == DOMAIN def.floors
             F == def.floors
  <2>1. ToSet(F) = {F[k] : k \in K} /\ \A k \in K : w[k] = F[k].width /\ d[k] = F[k].depth
    BY <1>1
  <2> HIDE DEF K, F, w, d
  <2>2. {f.width : f \in ToSet(F)} = {w[k] : k \in K}
    BY <2>1
  <2>3. {f.depth : f \in ToSet(F)} = {d[k] : k \in K}
    BY <2>1
  <2> QED
    BY <2>2, <2>3 DEF K, F
<1>3. W \subseteq Nat /\ D \subseteq Nat /\ W # {} /\ D # {}
  <2>1. W \subseteq Nat /\ D \subseteq Nat
    BY <1>1 DEF FloorDef
  <2>2. PICK f : f \in ToSet(def.floors)
    BY <1>1
  <2>3. f.width \in W /\ f.depth \in D
    BY <2>2
  <2> QED
    BY <2>1, <2>3
<1> HIDE DEF w, d
<1>4. IsFiniteSet(W) /\ IsFiniteSet(D)
  <2> HIDE DEF W, D
  <2>1. IsFiniteSet({w[k] : k \in DOMAIN def.floors})
    BY <1>1, ImageIsFinite
  <2>2. IsFiniteSet({d[k] : k \in DOMAIN def.floors})
    BY <1>1, ImageIsFinite
  <2> QED
    BY <1>2, <2>1, <2>2
<1>5. MaxWidth(def) = Max(W) /\ MaxDepth(def) = Max(D)
  BY DEF MaxWidth, MaxDepth
<1> HIDE DEF W, D
<1>8. W \subseteq Int /\ D \subseteq Int
  BY <1>3
<1>6. Max(W) \in W
  BY <1>3, <1>4, <1>8, MaxIn
<1>7. Max(D) \in D
  BY <1>3, <1>4, <1>8, MaxIn
<1> QED
  BY <1>3, <1>5, <1>6, <1>7

LEMMA CentredIn ==
    ASSUME NEW def \in BuildingDef, def.floors # << >>, NEW n \in BuildingNode
    PROVE  Centred(def, n) \in BuildingNode /\ Centred(def, n).id = n.id
<1>1. n = [id |-> n.id, kind |-> n.kind, floor |-> n.floor, position |-> n.position]
      /\ n.position = [x |-> n.position.x, y |-> n.position.y, z |-> n.position.z]
  BY DEF BuildingNode, Vec3
<1>2. n.id \in NodeId /\ n.kind \in {"sensor", "hallway", "exit", "stairwell"} /\ n.floor \in Int
      /\ n.position.x \in Int /\ n.position.y \in Int /\ n.position.z \in Int
  BY DEF BuildingNode, Vec3
<1>3. Centred(def, n) = [id |-> n.id, kind |-> n.kind, floor |-> n.floor,
                         position |-> [x |-> n.position.x - MaxWidth(def), y |-> n.position.y,
                                       z |-> n.position.z - MaxDepth(def)]]
  BY <1>1 DEF Centred
<1>4. n.position.x - MaxWidth(def) \in Int /\ n.position.z - MaxDepth(def) \in Int
  BY <1>2, ExtentIn
<1> QED
  BY <1>2, <1>3, <1>4, NodeIn

LEMMA FloorPlanIn ==
    ASSUME NEW def \in BuildingDef, def.floors # << >>, NEW f \in FloorDef
    PROVE  /\ FloorPlan(def, f) \in PlanOfFloor
           /\ FloorPlan(def, f).width = f.width /\ FloorPlan(def, f).depth = f.depth
<1> DEFINE Known(id)  == {k \in DOMAIN def.rooms : def.rooms[k].id = id}
           Late(id)   == def.rooms[Max(Known(id))]
           Centre(id) == IF Known(id) = {} THEN <<0, 0>>
                         ELSE <<2 * Late(id).x + Late(id).width, 2 * Late(id).z + Late(id).depth>>
           Shifted(p) == <<p[1] - MaxWidth(def), p[2] - MaxDepth(def)>>
           origin     == [x |-> -MaxWidth(def), y |-> 2 * f.elevation, z |-> -MaxDepth(def)]
           rooms      == {r \in ToSet(def.rooms) : r.floor = f.index}
           segs       == {<<Shifted(Centre(c.fromRoom)), Shifted(Centre(c.toRoom))>> :
                              c \in {d \in ToSet(def.corridors) : d.floor = f.index}}
<1>1. FloorPlan(def, f) = [index |-> f.index, width |-> f.width, depth |-> f.depth,
                           origin |-> origin, rooms |-> rooms, corridors |-> segs]
  BY DEF FloorPlan
<1>2. f.index \in Int /\ f.width \in Nat /\ f.depth \in Nat /\ f.elevation \in Int
  BY DEF FloorDef
<1>3. origin \in Vec3
  BY <1>2, ExtentIn DEF Vec3
<1>4. rooms \in SUBSET Room
  BY DefTypes
<1>5. ASSUME NEW id PROVE Centre(id) \in Int \X Int
  <2>1. CASE Known(id) = {}
    BY <2>1
  <2>2. CASE Known(id) # {}
    <3> DEFINE places == Known(id)
    <3>1. places \in SUBSET DOMAIN def.rooms /\ places # {} /\ def.rooms \in Seq(Room)
      BY <2>2, DefTypes
    <3> HIDE DEF places
    <3>2. Max(places) \in DOMAIN def.rooms
      BY <3>1, FirstAndLast
    <3>3. def.rooms[Max(places)] \in Room
      BY <3>1, <3>2
    <3>4. Late(id) \in Room
      BY <3>3 DEF places
    <3>5. Centre(id) = <<2 * Late(id).x + Late(id).width, 2 * Late(id).z + Late(id).depth>>
      BY <2>2
    <3> HIDE DEF Late, Centre
    <3>6. Late(id).x \in Int /\ Late(id).z \in Int /\ Late(id).width \in Int /\ Late(id).depth \in Int
      BY <3>4 DEF Room
    <3> QED
      BY <3>5, <3>6
  <2> QED
    BY <2>1, <2>2
<1> HIDE DEF Centre
<1>6. ASSUME NEW p \in Int \X Int PROVE Shifted(p) \in Int \X Int
  BY ExtentIn
<1> HIDE DEF Shifted
<1>7. segs \in SUBSET ((Int \X Int) \X (Int \X Int))
  BY <1>5, <1>6
<1> HIDE DEF segs, rooms, origin
<1>8. FloorPlan(def, f) \in PlanOfFloor
  BY <1>1, <1>2, <1>3, <1>4, <1>7 DEF PlanOfFloor
<1> QED
  BY <1>1, <1>8

\* What the assumption says of a description.
LEMMA DefIsSound ==
    ASSUME NEW def \in Defs
    PROVE  /\ def \in BuildingDef /\ def.floors # << >> /\ WellPlaced(PlaceNodes(def))
           /\ \A k \in DOMAIN def.floors : /\ def.floors[k] \in FloorDef
                                           /\ def.floors[k].width > 0 /\ def.floors[k].depth > 0
<1>1. def \in BuildingDef /\ def.floors # << >> /\ WellPlaced(PlaceNodes(def))
      /\ \A f \in ToSet(def.floors) : f.width > 0 /\ f.depth > 0
  BY TwinAssumption
<1>2. ASSUME NEW k \in DOMAIN def.floors
      PROVE  /\ def.floors[k] \in FloorDef
             /\ def.floors[k].width > 0 /\ def.floors[k].depth > 0
  <2>1. def.floors[k] \in ToSet(def.floors)
    BY DEF ToSet
  <2>2. def.floors[k] \in FloorDef
    BY <1>1, <2>1, DefTypes
  <2> QED
    BY <1>1, <2>1, <2>2
<1> QED
  BY <1>1, <1>2

LEMMA EdgesAre ==
    ASSUME NEW def, NEW e
    PROVE  e \in PlaceNodes(def).edges <=>
               \/ \E c \in ToSet(def.corridors) : e \in JunctionEdges(def, c)
               \/ e \in CorridorEdges(def)
               \/ e \in StairEdges(def)
<1> DEFINE Joints  == FlattenSeq([i \in DOMAIN def.corridors |-> JunctionNodes(def.corridors[i])])
           Waymade == UNION {JunctionEdges(def, c) : c \in ToSet(def.corridors)}
           placed  == RoomNodes(def) \o Joints
           nodes   == [i \in DOMAIN placed |-> Centred(def, placed[i])]
           edges   == Waymade \cup CorridorEdges(def) \cup StairEdges(def)
           floors  == [i \in DOMAIN def.floors |-> FloorPlan(def, def.floors[i])]
<1>1. PlaceNodes(def) = [nodes |-> nodes, edges |-> edges, floors |-> floors]
  BY DEF PlaceNodes
<1>2. e \in Waymade <=> \E c \in ToSet(def.corridors) : e \in JunctionEdges(def, c)
  OBVIOUS
<1> HIDE DEF nodes, floors, Waymade
<1>3. PlaceNodes(def).edges = Waymade \cup CorridorEdges(def) \cup StairEdges(def)
  BY <1>1
<1> QED
  BY <1>2, <1>3

LEMMA EdgesAreNamed ==
    ASSUME NEW def \in BuildingDef
    PROVE  PlaceNodes(def).edges \subseteq EdgesOf(def)
<1> SUFFICES ASSUME NEW e \in PlaceNodes(def).edges PROVE e \in EdgesOf(def)
  OBVIOUS
<1>1. \/ \E c \in ToSet(def.corridors) : e \in JunctionEdges(def, c)
      \/ e \in CorridorEdges(def)
      \/ e \in StairEdges(def)
  BY EdgesAre
<1>2. CorridorEdges(def) \subseteq EdgesOf(def)
  BY CorridorEdgesIn
<1>3. StairEdges(def) \subseteq EdgesOf(def)
  BY StairEdgesIn
<1>4. ASSUME NEW c \in ToSet(def.corridors), e \in JunctionEdges(def, c)
      PROVE  e \in EdgesOf(def)
  BY <1>4, JunctionEdgesIn
<1> QED
  BY <1>1, <1>2, <1>3, <1>4

\* place_nodes makes a plan of every description.
LEMMA PlaceNodesIn ==
    ASSUME NEW def \in Defs
    PROVE  IsPlan(PlaceNodes(def))
<1> DEFINE Joints  == FlattenSeq([i \in DOMAIN def.corridors |-> JunctionNodes(def.corridors[i])])
           Waymade == UNION {JunctionEdges(def, c) : c \in ToSet(def.corridors)}
           placed  == RoomNodes(def) \o Joints
           nodes   == [i \in DOMAIN placed |-> Centred(def, placed[i])]
           edges   == Waymade \cup CorridorEdges(def) \cup StairEdges(def)
           floors  == [i \in DOMAIN def.floors |-> FloorPlan(def, def.floors[i])]
<1>1. PlaceNodes(def) = [nodes |-> nodes, edges |-> edges, floors |-> floors]
  BY DEF PlaceNodes
<1>2. /\ def \in BuildingDef /\ def.floors # << >> /\ WellPlaced(PlaceNodes(def))
      /\ \A k \in DOMAIN def.floors : /\ def.floors[k] \in FloorDef
                                      /\ def.floors[k].width > 0 /\ def.floors[k].depth > 0
  BY DefIsSound
<1>3. /\ def.corridors \in Seq(CorridorDef) /\ def.floors \in Seq(FloorDef)
      /\ ToSet(def.corridors) \subseteq CorridorDef
  BY <1>2, DefTypes
<1>4. nodes \in Seq(BuildingNode)
  <2>1. DOMAIN def.corridors = 1 .. Len(def.corridors) /\ Len(def.corridors) \in Nat
        /\ \A k \in DOMAIN def.corridors : def.corridors[k] \in CorridorDef
    BY <1>3, PlacesAreFinite
  <2>2. \A k \in DOMAIN def.corridors : JunctionNodes(def.corridors[k]) \in Seq(BuildingNode)
    BY <2>1, JunctionNodesIn
  <2>3. [i \in DOMAIN def.corridors |-> JunctionNodes(def.corridors[i])] \in Seq(Seq(BuildingNode))
    BY <2>1, <2>2
  <2>4. Joints \in Seq(BuildingNode)
    BY <2>3, FlattenIn
  <2>5. RoomNodes(def) \in Seq(BuildingNode)
    BY <1>2, RoomNodesIn
  <2> HIDE DEF Joints
  <2>6. placed \in Seq(BuildingNode)
    BY <2>4, <2>5
  <2> HIDE DEF placed
  <2>7. DOMAIN placed = 1 .. Len(placed) /\ Len(placed) \in Nat
        /\ \A k \in DOMAIN placed : placed[k] \in BuildingNode
    BY <2>6, PlacesAreFinite
  <2>8. \A k \in DOMAIN placed : Centred(def, placed[k]) \in BuildingNode
    BY <1>2, <2>7, CentredIn
  <2> QED
    BY <2>7, <2>8
<1>5. edges \subseteq BuildingEdge
  <2>1. edges \subseteq EdgesOf(def)
    BY <1>1, <1>2, EdgesAreNamed
  <2>2. EdgesOf(def) \subseteq BuildingEdge
    BY <1>2, NamesAreIds
  <2> QED
    BY <2>1, <2>2
<1>6. /\ floors \in Seq(PlanOfFloor)
      /\ \A k \in DOMAIN floors : floors[k].width > 0 /\ floors[k].depth > 0
  <2>1. DOMAIN def.floors = 1 .. Len(def.floors) /\ Len(def.floors) \in Nat
    BY <1>3, PlacesAreFinite
  <2>2. ASSUME NEW k \in DOMAIN def.floors
        PROVE  /\ FloorPlan(def, def.floors[k]) \in PlanOfFloor
               /\ FloorPlan(def, def.floors[k]).width > 0
               /\ FloorPlan(def, def.floors[k]).depth > 0
    <3>1. def.floors[k] \in FloorDef /\ def.floors[k].width > 0 /\ def.floors[k].depth > 0
      BY <1>2
    <3> DEFINE f == def.floors[k]
    <3> HIDE DEF f
    <3>2. FloorPlan(def, f) \in PlanOfFloor /\ FloorPlan(def, f).width = f.width
          /\ FloorPlan(def, f).depth = f.depth
      BY <1>2, <3>1, FloorPlanIn DEF f
    <3> QED
      BY <3>1, <3>2 DEF f
  <2>3. floors \in Seq(PlanOfFloor)
    BY <2>1, <2>2
  <2> QED
    BY <2>2, <2>3
<1> HIDE DEF nodes, edges, floors
<1>7. PlaceNodes(def) \in BuildingGraph /\ PlaceNodes(def).floors = floors
  BY <1>1, <1>4, <1>5, <1>6 DEF BuildingGraph
<1> QED
  BY <1>2, <1>6, <1>7 DEF IsPlan, IsGraph

----------------------------------------------------------------------------
(* Placement keeps what the description joins. *)

\* Every room and every waypoint has its node.
LEMMA NamesAreNodes ==
    ASSUME NEW def \in Defs
    PROVE  Named(def) \subseteq NodeIds(PlaceNodes(def))
<1> DEFINE seqs   == [i \in DOMAIN def.corridors |-> JunctionNodes(def.corridors[i])]
           Joints == FlattenSeq(seqs)
           placed == RoomNodes(def) \o Joints
           nodes  == [i \in DOMAIN placed |-> Centred(def, placed[i])]
<1>1. PlaceNodes(def).nodes = nodes
  BY DEF PlaceNodes
<1>2. /\ def \in BuildingDef /\ def.floors # << >>
  BY DefIsSound
<1>3. /\ DOMAIN def.corridors = 1 .. Len(def.corridors) /\ Len(def.corridors) \in Nat
      /\ \A k \in DOMAIN def.corridors : def.corridors[k] \in CorridorDef
  BY <1>2, DefTypes, PlacesAreFinite
<1>4. \A k \in DOMAIN def.corridors : JunctionNodes(def.corridors[k]) \in Seq(BuildingNode)
  BY <1>3, JunctionNodesIn
<1>5. seqs \in Seq(Seq(BuildingNode))
  BY <1>3, <1>4
<1>6. RoomNodes(def) \in Seq(BuildingNode)
  BY <1>2, RoomNodesIn
<1>7. Joints \in Seq(BuildingNode)
  <2> HIDE DEF seqs
  <2> QED
    BY <1>5, FlattenIn
<1>8. ASSUME NEW m \in DOMAIN placed PROVE placed[m].id \in NodeIds(PlaceNodes(def))
  <2> HIDE DEF Joints
  <2>1. placed \in Seq(BuildingNode)
    BY <1>6, <1>7
  <2> HIDE DEF placed
  <2>2. placed[m] \in BuildingNode
    BY <2>1
  <2>3. nodes[m].id = placed[m].id /\ m \in DOMAIN nodes
    BY <1>2, <2>2, CentredIn
  <2>4. nodes[m] \in ToSet(nodes)
    BY <2>3 DEF ToSet
  <2> HIDE DEF nodes
  <2> QED
    BY <1>1, <2>3, <2>4 DEF NodeIds
<1>9. ASSUME NEW r \in ToSet(def.rooms) PROVE <<"n", r.id>> \in NodeIds(PlaceNodes(def))
  <2>1. PICK k \in DOMAIN def.rooms : def.rooms[k] = r
    BY DEF ToSet
  <2>2. RoomNodes(def)[k].id = <<"n", r.id>> /\ k \in DOMAIN RoomNodes(def)
    BY <2>1 DEF RoomNodes
  <2> HIDE DEF Joints
  <2>3. k \in DOMAIN placed /\ placed[k] = RoomNodes(def)[k]
    BY <1>6, <1>7, <2>2
  <2> HIDE DEF placed
  <2> QED
    BY <1>8, <2>2, <2>3
<1>10. ASSUME NEW c \in ToSet(def.corridors), NEW j \in 0 .. Len(c.junctionPoints) - 1
       PROVE  Junction(c, j) \in NodeIds(PlaceNodes(def))
  <2>1. PICK k \in DOMAIN def.corridors : def.corridors[k] = c
    BY DEF ToSet
  <2>2. c \in CorridorDef
    BY <1>3, <2>1
  <2>3. DOMAIN c.junctionPoints = 1 .. Len(c.junctionPoints) /\ Len(c.junctionPoints) \in Nat
    BY <2>2 DEF CorridorDef
  <2>4. j + 1 \in DOMAIN c.junctionPoints /\ (j + 1) - 1 = j
    BY <2>3
  <2>5. j + 1 \in DOMAIN JunctionNodes(c) /\ JunctionNodes(c)[j + 1].id = Junction(c, j)
    BY <2>4 DEF JunctionNodes
  <2>6. k \in DOMAIN seqs /\ seqs[k] = JunctionNodes(c)
    BY <2>1
  <2> HIDE DEF seqs
  <2>7. j + 1 \in DOMAIN seqs[k]
    BY <2>5, <2>6
  <2>8. PICK m \in DOMAIN Joints : Joints[m] = seqs[k][j + 1]
    BY <1>5, <2>6, <2>7, FlattenHas
  <2> HIDE DEF Joints
  <2> DEFINE i == Len(RoomNodes(def)) + m
  <2>9. i \in DOMAIN placed /\ placed[i] = Joints[m]
    BY <1>6, <1>7, LaterPlace
  <2> HIDE DEF placed, i
  <2> QED
    BY <1>8, <2>5, <2>6, <2>8, <2>9
<1> QED
  BY <1>9, <1>10 DEF Named

\* Whoever starts at the first of n + 1 places, all but the last of them different, and
\* has a link from each to the next, reaches the last.
LEMMA WalkIsReached ==
    ASSUME NEW links, IsFiniteSet(links), NEW n \in Nat, NEW w,
           \A i \in 0 .. n - 1 : <<w[i], w[i + 1]>> \in links,
           \A i, j \in 0 .. n - 1 : w[i] = w[j] => i = j
    PROVE  w[n] \in ReachedOver(links, w[0])
<1> DEFINE C    == Cardinality(links)
           near(S) == S \cup {l[2] : l \in {m \in links : m[1] \in S}}
           all  == {w[0]} \cup {l[2] : l \in links}
           G    == [S \in SUBSET all |-> near(S)]
           Grow == CHOOSE f : f = [k \in 0 .. C |-> IF k = 0 THEN {w[0]} ELSE near(f[k - 1])]
<1>1. ReachedOver(links, w[0]) = Grow[C]
  BY DEF ReachedOver
<1>2. C \in Nat
  BY FS_CardinalityType
<1>3. n <= C
  <2> DEFINE step == [i \in 1 .. n |-> <<w[i - 1], w[i]>>]
  <2>1. ASSUME NEW i \in 1 .. n PROVE step[i] \in links
    <3>1. i - 1 \in 0 .. n - 1 /\ (i - 1) + 1 = i
      OBVIOUS
    <3>2. <<w[i - 1], w[(i - 1) + 1]>> \in links
      BY <3>1
    <3> QED
      BY <3>1, <3>2
  <2>2. ASSUME NEW i \in 1 .. n, NEW j \in 1 .. n, step[i] = step[j] PROVE i = j
    <3>1. w[i - 1] = w[j - 1] /\ i - 1 \in 0 .. n - 1 /\ j - 1 \in 0 .. n - 1
      BY <2>2
    <3>2. i - 1 = j - 1
      BY <3>1
    <3> QED
      BY <3>2
  <2>3. step \in Injection(1 .. n, links)
    BY <2>1, <2>2 DEF Injection, IsInjective
  <2>4. Cardinality(1 .. n) <= Cardinality(links)
    BY <2>3, FS_Injection
  <2>5. Cardinality(1 .. n) = n
    BY FS_Interval
  <2> QED
    BY <2>4, <2>5
<1>4. Grow = [k \in 0 .. C |-> IF k = 0 THEN {w[0]} ELSE near(Grow[k - 1])]
  <2> HIDE DEF C
  <2>1. \A S \in SUBSET all : near(S) \in SUBSET all
    OBVIOUS
  <2>2. PICK f : IsIterated(f, C, {w[0]}, G)
    BY <1>2, IterationExists
  <2> HIDE DEF near
  <2>3. f = [k \in 0 .. C |-> IF k = 0 THEN {w[0]} ELSE G[f[k - 1]]]
    BY <2>2 DEF IsIterated
  <2>4. {w[0]} \in SUBSET all
    OBVIOUS
  <2> HIDE DEF all
  <2>5. \A k \in 0 .. C : f[k] \in SUBSET all
    <3>1. f[0] \in SUBSET all
      BY <1>2, <2>3, <2>4
    <3>2. ASSUME NEW k \in 0 .. C - 1, f[k] \in SUBSET all PROVE f[k + 1] \in SUBSET all
      <4>1. k + 1 \in 0 .. C /\ k + 1 # 0 /\ (k + 1) - 1 = k
        BY <1>2
      <4>2. f[k + 1] = G[f[k]]
        BY <2>3, <4>1
      <4> QED
        BY <2>1, <3>2, <4>2
    <3> QED
      BY <1>2, <3>1, <3>2, IterationStays
  <2>6. ASSUME NEW k \in 0 .. C, k # 0 PROVE G[f[k - 1]] = near(f[k - 1])
    <3>1. k - 1 \in 0 .. C
      BY <1>2, <2>6
    <3> QED
      BY <2>5, <3>1
  <2> HIDE DEF G
  <2>7. f = [k \in 0 .. C |-> IF k = 0 THEN {w[0]} ELSE near(f[k - 1])]
    BY <2>3, <2>6
  <2> QED
    BY <2>7
<1> HIDE DEF Grow, C
<1> DEFINE T == {i \in 0 .. n : w[i] \in Grow[i]}
<1>5. 0 \in T
  BY <1>2, <1>4
<1>6. ASSUME NEW i \in 0 .. n - 1, i \in T PROVE i + 1 \in T
  <2>1. i + 1 \in 0 .. n /\ i + 1 \in 0 .. C /\ i + 1 # 0 /\ (i + 1) - 1 = i
    BY <1>2, <1>3
  <2>2. Grow[i + 1] = near(Grow[i])
    <3> HIDE DEF near
    <3>1. Grow[i + 1] = near(Grow[(i + 1) - 1])
      BY <1>4, <2>1, Zenon
    <3> QED
      BY <2>1, <3>1, Zenon
  <2>3. <<w[i], w[i + 1]>> \in links /\ w[i] \in Grow[i]
    BY <1>6
  <2>4. w[i + 1] \in near(Grow[i])
    BY <2>3
  <2> QED
    BY <2>1, <2>2, <2>4
<1>7. n \in T
  <2>1. 0 .. n \subseteq T
    <3> HIDE DEF T
    <3> QED
      BY <1>5, <1>6, FromZero
  <2> QED
    BY <2>1
<1>8. ASSUME NEW k \in 0 .. C - 1, w[n] \in Grow[k] PROVE w[n] \in Grow[k + 1]
  <2>1. k + 1 \in 0 .. C /\ k + 1 # 0 /\ (k + 1) - 1 = k
    BY <1>2
  <2>2. Grow[k + 1] = near(Grow[k])
    BY <1>4, <2>1
  <2> QED
    BY <1>8, <2>2
<1> DEFINE U == {i \in 0 .. C - n : w[n] \in Grow[n + i]}
<1>9. 0 \in U
  BY <1>2, <1>3, <1>7
<1>10. ASSUME NEW i \in 0 .. (C - n) - 1, i \in U PROVE i + 1 \in U
  <2>1. n + i \in 0 .. C - 1 /\ (n + i) + 1 = n + (i + 1) /\ i + 1 \in 0 .. C - n
    BY <1>2, <1>3
  <2>2. w[n] \in Grow[n + i]
    BY <1>10
  <2>3. w[n] \in Grow[(n + i) + 1]
    BY <1>8, <2>1, <2>2
  <2> QED
    BY <2>1, <2>3
<1>11. C - n \in U
  <2>1. C - n \in Nat
    BY <1>2, <1>3
  <2>2. 0 .. C - n \subseteq U
    <3> HIDE DEF U
    <3> QED
      BY <1>9, <1>10, <2>1, FromZero
  <2> QED
    BY <2>1, <2>2
<1>12. w[n] \in Grow[C]
  BY <1>2, <1>3, <1>11
<1> QED
  BY <1>1, <1>12

\* The waypoints of a corridor are a way from one of its rooms to the other.
LEMMA CorridorLeads ==
    ASSUME NEW def \in BuildingDef, NEW c \in ToSet(def.corridors),
           None \notin {NodeForRoom(def, c.fromRoom), NodeForRoom(def, c.toRoom)},
           NEW own,
           own = {<<"n", c.fromRoom>>, <<"n", c.toRoom>>}
                     \cup {Junction(c, j) : j \in 0 .. Len(c.junctionPoints) - 1}
    PROVE  <<"n", c.toRoom>> \in
               ReachedOver({l \in Links(PlaceNodes(def)) : {l[1], l[2]} \subseteq own},
                           <<"n", c.fromRoom>>)
<1> DEFINE n == Len(c.junctionPoints)
           a == <<"n", c.fromRoom>>
           b == <<"n", c.toRoom>>
           w == [i \in 0 .. n + 1 |-> IF i = 0 THEN a ELSE IF i = n + 1 THEN b
                                      ELSE Junction(c, i - 1)]
           graph == PlaceNodes(def)
           links == {l \in Links(graph) : {l[1], l[2]} \subseteq own}
<1>1. c \in CorridorDef /\ n \in Nat
  <2>1. c \in CorridorDef
    BY DefTypes
  <2> QED
    BY <2>1 DEF CorridorDef
<1>2. NodeForRoom(def, c.fromRoom) = a /\ NodeForRoom(def, c.toRoom) = b /\ None \notin {a, b}
  <2>1. NodeForRoom(def, c.fromRoom) # None /\ NodeForRoom(def, c.toRoom) # None
    OBVIOUS
  <2>2. NodeForRoom(def, c.fromRoom) = a
    BY <2>1, NodeForRoomIn
  <2>3. NodeForRoom(def, c.toRoom) = b
    BY <2>1, NodeForRoomIn
  <2> QED
    BY <2>1, <2>2, <2>3
<1>3. \A j : Junction(c, j) # None /\ Junction(c, j) # a
  BY DEF Junction, None
<1>4. \A i, j : Junction(c, i) = Junction(c, j) => i = j
  BY DEF Junction
<1>5. /\ JunctionEdges(def, c) \subseteq graph.edges
      /\ CorridorEdges(def) \subseteq graph.edges
  <2>1. ASSUME NEW e \in JunctionEdges(def, c) PROVE e \in graph.edges
    BY EdgesAre
  <2>2. ASSUME NEW e \in CorridorEdges(def) PROVE e \in graph.edges
    BY EdgesAre
  <2> QED
    BY <2>1, <2>2
<1> HIDE DEF graph
<1>6. ASSUME NEW e \in graph.edges PROVE <<e.from, e.to>> \in Links(graph)
  BY DEF Links
<1> DEFINE Before(j) == IF j = 0 THEN NodeForRoom(def, c.fromRoom) ELSE Junction(c, j - 1)
           After(j)  == IF j = n - 1 THEN NodeForRoom(def, c.toRoom) ELSE Junction(c, j + 1)
           In(j)  == [id |-> <<"seg", c.id, j>>, from |-> Before(j), to |-> Junction(c, j)]
           Out(j) == [id |-> <<"seg", c.id, j + 1>>, from |-> Junction(c, j), to |-> After(j)]
<1>7. ASSUME NEW j \in 0 .. n - 1
      PROVE  In(j) \in JunctionEdges(def, c) /\ Out(j) \in JunctionEdges(def, c)
  <2>1. JunctionEdges(def, c) =
            {e \in UNION {{In(k), Out(k)} : k \in 0 .. n - 1} : None \notin {e.from, e.to}}
    BY DEF JunctionEdges
  <2>2. Before(j) # None /\ After(j) # None /\ Junction(c, j) # None
    BY <1>2, <1>3
  <2>3. None \notin {In(j).from, In(j).to} /\ None \notin {Out(j).from, Out(j).to}
    BY <2>2
  <2> HIDE DEF In, Out
  <2> QED
    BY <2>1, <2>3
<1>8. ASSUME NEW i \in 0 .. n PROVE <<w[i], w[i + 1]>> \in Links(graph)
  <2>1. CASE n = 0
    <3> DEFINE e == [id |-> <<"e", c.id>>, from |-> NodeForRoom(def, c.fromRoom),
                     to |-> NodeForRoom(def, c.toRoom)]
    <3>1. c.junctionPoints = << >>
      BY <1>1, <2>1 DEF CorridorDef
    <3>2. e \in CorridorEdges(def)
      BY <3>1 DEF CorridorEdges
    <3>3. w[i] = e.from /\ w[i + 1] = e.to
      BY <1>2, <2>1
    <3> HIDE DEF e, w
    <3>4. e \in graph.edges
      BY <1>5, <3>2
    <3> QED
      BY <1>6, <3>3, <3>4
  <2>2. CASE n # 0 /\ i # n
    <3> DEFINE e == In(i)
    <3>1. i \in 0 .. n - 1
      BY <1>1, <2>2
    <3>2. w[i] = e.from
      BY <1>1, <1>2, <3>1
    <3>3. w[i + 1] = e.to
      BY <1>1, <3>1
    <3> HIDE DEF w, In
    <3>4. e \in graph.edges
      BY <1>5, <1>7, <3>1
    <3> HIDE DEF e
    <3> QED
      BY <1>6, <3>2, <3>3, <3>4
  <2>3. CASE n # 0 /\ i = n
    <3> DEFINE j == n - 1
               e == Out(j)
    <3>1. j \in 0 .. n - 1
      BY <1>1, <2>3
    <3>2. w[i] = e.from
      BY <1>1, <2>3
    <3>3. w[i + 1] = e.to
      BY <1>1, <1>2, <2>3
    <3> HIDE DEF w, j, Out
    <3>4. e \in graph.edges
      BY <1>5, <1>7, <3>1
    <3> HIDE DEF e
    <3> QED
      BY <1>6, <3>2, <3>3, <3>4
  <2> QED
    BY <2>1, <2>2, <2>3
<1>9. ASSUME NEW i \in 0 .. n + 1 PROVE w[i] \in own
  <2>1. i # 0 /\ i # n + 1 => i - 1 \in 0 .. n - 1
    BY <1>1
  <2> QED
    BY <2>1
<1>10. ASSUME NEW i \in 0 .. n, NEW j \in 0 .. n, w[i] = w[j] PROVE i = j
  <2>1. w[i] = (IF i = 0 THEN a ELSE Junction(c, i - 1))
        /\ w[j] = (IF j = 0 THEN a ELSE Junction(c, j - 1))
    BY <1>1
  <2>2. CASE i = 0 \/ j = 0
    BY <1>3, <1>10, <2>1, <2>2
  <2>3. CASE i # 0 /\ j # 0
    <3>1. i - 1 = j - 1
      BY <1>4, <1>10, <2>1, <2>3
    <3> QED
      BY <3>1
  <2> QED
    BY <2>2, <2>3
<1>11. w[0] = a /\ w[n + 1] = b /\ n + 1 \in Nat /\ n = (n + 1) - 1
  BY <1>1
<1>12. IsFiniteSet(links)
  <2> DEFINE f == [j \in 0 .. n - 1 |-> Junction(c, j)]
  <2>1. IsFiniteSet(0 .. n - 1)
    BY <1>1, FS_Interval
  <2>2. {Junction(c, j) : j \in 0 .. n - 1} = {f[j] : j \in 0 .. n - 1}
    OBVIOUS
  <2> HIDE DEF f
  <2>3. IsFiniteSet({Junction(c, j) : j \in 0 .. n - 1})
    BY <2>1, <2>2, ImageIsFinite
  <2>4. IsFiniteSet({a, b})
    <3>1. IsFiniteSet({a}) /\ IsFiniteSet({b})
      BY FS_Singleton
    <3>2. IsFiniteSet({a} \cup {b}) /\ {a, b} = {a} \cup {b}
      BY <3>1, FS_Union
    <3> QED
      BY <3>2
  <2>5. IsFiniteSet(own)
    BY <2>3, <2>4, FS_Union
  <2>6. IsFiniteSet(own \X own)
    BY <2>5, FS_Product
  <2>7. links \subseteq own \X own
    BY DEF Links
  <2> QED
    BY <2>6, <2>7, FS_Subset
<1> HIDE DEF w, a, b
<1>13. ASSUME NEW i \in 0 .. n PROVE <<w[i], w[i + 1]>> \in links
  <2>1. i \in 0 .. n + 1 /\ i + 1 \in 0 .. n + 1
    BY <1>1
  <2>2. w[i] \in own /\ w[i + 1] \in own
    BY <1>9, <2>1
  <2> QED
    BY <1>8, <2>2
<1> HIDE DEF links, n
<1>14. w[n + 1] \in ReachedOver(links, w[0])
  BY <1>10, <1>11, <1>12, <1>13, WalkIsReached
<1> QED
  BY <1>11, <1>14 DEF links, graph, a, b

----------------------------------------------------------------------------
(* Simulations. *)

Hit(g) == NodeIds(g) \cup {hit[1] : hit \in Injections}

\* What is on fire, by which scenario.
Fires(g) == {f \in UNION {[S -> Scenarios] : S \in SUBSET Hit(g)} : IsFiniteSet(DOMAIN f)}

Sims(g) == [graph : {g}, fires : Fires(g), noSensor : SUBSET Hit(g), noComm : SUBSET Hit(g),
            scenario : Scenarios, hazard : Hazards(g)]

\* Where it is warm, something burns.
Warm(s) ==
    \A f \in Floors(s.graph) :
        s.hazard[f] # Cold =>
            \E n \in ToSet(s.graph.nodes) : n.floor = f /\ n.id \in DOMAIN s.fires

Built(g) == {s \in Sims(g) : Warm(s)}

LEMMA SimIn ==
    ASSUME NEW g, NEW fires \in Fires(g), NEW noSensor \in SUBSET Hit(g),
           NEW noComm \in SUBSET Hit(g), NEW scenario \in Scenarios, NEW hazard \in Hazards(g)
    PROVE  [graph |-> g, fires |-> fires, noSensor |-> noSensor, noComm |-> noComm,
            scenario |-> scenario, hazard |-> hazard] \in Sims(g)
BY DEF Sims

LEMMA SimTypes ==
    ASSUME NEW g, NEW s \in Sims(g)
    PROVE  /\ s = [graph |-> g, fires |-> s.fires, noSensor |-> s.noSensor, noComm |-> s.noComm,
                   scenario |-> s.scenario, hazard |-> s.hazard]
           /\ s.graph = g /\ s.fires \in Fires(g) /\ s.noSensor \subseteq Hit(g)
           /\ s.noComm \subseteq Hit(g) /\ s.scenario \in Scenarios /\ s.hazard \in Hazards(g)
           /\ s # NoSim
<1>1. s # NoSim
  <2>1. "graph" \in DOMAIN s
    BY DEF Sims
  <2>2. "graph" \notin DOMAIN NoSim
    BY DEF NoSim
  <2> QED
    BY <2>1, <2>2
<1> QED
  BY <1>1 DEF Sims

LEMMA ColdIn ==
    ASSUME NEW g
    PROVE  [f \in Floors(g) |-> Cold] \in Hazards(g)
<1>1. Cold \in Grid
  BY DEF Cold, Grid, Percent, Full
<1> QED
  BY <1>1 DEF Hazards

LEMMA NothingBurns ==
    ASSUME NEW g
    PROVE  << >> \in Fires(g) /\ DOMAIN << >> = {}
<1>1. << >> \in [{} -> Scenarios] /\ DOMAIN << >> = {}
  OBVIOUS
<1>2. IsFiniteSet({})
  BY FS_EmptySet
<1> QED
  BY <1>1, <1>2 DEF Fires

\* A new simulation, and one after a reset: nothing burns.
LEMMA NewSimIs ==
    ASSUME NEW g
    PROVE  /\ NewSim(g) = [graph |-> g, fires |-> << >>, noSensor |-> {}, noComm |-> {},
                           scenario |-> "none", hazard |-> [f \in Floors(g) |-> Cold]]
           /\ NewSim(g) \in Built(g)
<1>1. NewSim(g) = [graph |-> g, fires |-> << >>, noSensor |-> {}, noComm |-> {},
                   scenario |-> "none", hazard |-> [f \in Floors(g) |-> Cold]]
  BY DEF NewSim, Cold
<1>2. NewSim(g) \in Sims(g)
  <2>1. << >> \in Fires(g) /\ [f \in Floors(g) |-> Cold] \in Hazards(g)
    BY ColdIn, NothingBurns
  <2>2. {} \in SUBSET Hit(g)
    OBVIOUS
  <2>3. "none" \in Scenarios
    BY DEF Scenarios
  <2> QED
    BY <1>1, <2>1, <2>2, <2>3 DEF Sims
<1>3. Warm(NewSim(g))
  <2>1. NewSim(g).graph = g /\ NewSim(g).hazard = [f \in Floors(g) |-> Cold]
    BY <1>1
  <2> QED
    BY <2>1 DEF Warm
<1> QED
  BY <1>1, <1>2, <1>3 DEF Built

LEMMA ResetIsNew ==
    ASSUME NEW g, NEW s \in Sims(g)
    PROVE  ResetSim(s) = NewSim(g)
<1>1. ResetSim(s) = [s EXCEPT !.fires = << >>, !.noSensor = {}, !.noComm = {}, !.scenario = "none",
                              !.hazard = [f \in DOMAIN s.hazard |-> Cold]]
  BY SimTypes DEF ResetSim, Cold
<1>2. DOMAIN s.hazard = Floors(g)
  BY SimTypes DEF Hazards
<1> DEFINE C == [f \in Floors(g) |-> Cold]
<1>3. ResetSim(s) = [s EXCEPT !.fires = << >>, !.noSensor = {}, !.noComm = {}, !.scenario = "none",
                              !.hazard = C]
  BY <1>1, <1>2
<1>4. NewSim(g) = [graph |-> g, fires |-> << >>, noSensor |-> {}, noComm |-> {},
                   scenario |-> "none", hazard |-> C]
  BY NewSimIs
<1>5. PICK f, n, c, sc, h : s = [graph |-> g, fires |-> f, noSensor |-> n, noComm |-> c,
                                 scenario |-> sc, hazard |-> h]
  BY SimTypes
<1> HIDE DEF C
<1> DEFINE r == ResetSim(s)
<1>6. r = [s EXCEPT !.fires = << >>, !.noSensor = {}, !.noComm = {}, !.scenario = "none",
                    !.hazard = C]
  BY <1>3
<1> HIDE DEF r
<1>7. r = [graph |-> g, fires |-> << >>, noSensor |-> {}, noComm |-> {}, scenario |-> "none",
           hazard |-> C]
  BY <1>5, <1>6
<1> QED
  BY <1>4, <1>7 DEF r

\* inject_hazard changes nothing but what it is meant to.
LEMMA InjectIn ==
    ASSUME NEW g, NEW s \in Built(g), NEW id \in Hit(g), NEW scenario \in Scenarios
    PROVE  InjectHazard(s, id, scenario) \in Built(g)
<1> DEFINE t == InjectHazard(s, id, scenario)
           burning == [f \in DOMAIN s.fires \cup {id} |-> IF f = id THEN scenario ELSE s.fires[f]]
<1>1. s \in Sims(g) /\ Warm(s)
  BY DEF Built
<1>2. burning \in Fires(g) /\ DOMAIN s.fires \subseteq DOMAIN burning
  <2>1. PICK S \in SUBSET Hit(g) : s.fires \in [S -> Scenarios] /\ IsFiniteSet(S)
    BY <1>1, SimTypes DEF Fires
  <2>2. burning \in [S \cup {id} -> Scenarios] /\ S \cup {id} \in SUBSET Hit(g)
    BY <2>1
  <2>3. IsFiniteSet(S \cup {id})
    BY <2>1, FS_AddElement
  <2>4. DOMAIN burning = S \cup {id}
    BY <2>2
  <2> HIDE DEF burning
  <2> QED
    BY <2>1, <2>2, <2>3, <2>4 DEF Fires
<1> HIDE DEF burning
<1> SUFFICES t \in Built(g)
  OBVIOUS
<1> DEFINE T(fires, noSensor, noComm) ==
               [graph |-> g, fires |-> fires, noSensor |-> noSensor, noComm |-> noComm,
                scenario |-> scenario, hazard |-> s.hazard]
<1>3. ASSUME NEW fires \in Fires(g), NEW noSensor \in SUBSET Hit(g), NEW noComm \in SUBSET Hit(g),
             DOMAIN s.fires \subseteq DOMAIN fires, t = T(fires, noSensor, noComm)
      PROVE  t \in Built(g)
  <2>1. t \in Sims(g)
    BY <1>1, <1>3, SimTypes, SimIn
  <2>2. t.graph = g /\ t.hazard = s.hazard /\ t.fires = fires /\ s.graph = g
    BY <1>1, <1>3, SimTypes
  <2> HIDE DEF t
  <2>3. Warm(t)
    BY <1>1, <1>3, <2>2 DEF Warm
  <2> QED
    BY <2>1, <2>3 DEF Built
<1>4. CASE scenario = "sensor_failure"
  <2>1. t = [s EXCEPT !.scenario = scenario, !.noSensor = s.noSensor \cup {id}]
    BY <1>1, <1>4, SimTypes DEF InjectHazard
  <2>2. t = T(s.fires, s.noSensor \cup {id}, s.noComm)
    BY <1>1, <2>1, SimTypes
  <2>3. /\ s.noSensor \cup {id} \in SUBSET Hit(g) /\ s.noComm \cup {id} \in SUBSET Hit(g)
        /\ s.noSensor \in SUBSET Hit(g) /\ s.noComm \in SUBSET Hit(g) /\ s.fires \in Fires(g)
    BY <1>1, SimTypes
  <2> HIDE DEF t, T
  <2> QED
    BY <1>3, <2>2, <2>3
<1>5. CASE scenario = "comm_failure"
  <2>1. t = [s EXCEPT !.scenario = scenario, !.noComm = s.noComm \cup {id}]
    BY <1>1, <1>5, SimTypes DEF InjectHazard
  <2>2. t = T(s.fires, s.noSensor, s.noComm \cup {id})
    BY <1>1, <2>1, SimTypes
  <2>3. /\ s.noSensor \cup {id} \in SUBSET Hit(g) /\ s.noComm \cup {id} \in SUBSET Hit(g)
        /\ s.noSensor \in SUBSET Hit(g) /\ s.noComm \in SUBSET Hit(g) /\ s.fires \in Fires(g)
    BY <1>1, SimTypes
  <2> HIDE DEF t, T
  <2> QED
    BY <1>3, <2>2, <2>3
<1>6. CASE scenario \notin {"sensor_failure", "comm_failure"}
  <2>1. t = [s EXCEPT !.scenario = scenario, !.fires = burning]
    BY <1>1, <1>6, SimTypes DEF InjectHazard, burning
  <2>2. t = T(burning, s.noSensor, s.noComm)
    <3>1. PICK f, n, c, sc, h : s = [graph |-> g, fires |-> f, noSensor |-> n, noComm |-> c,
                                     scenario |-> sc, hazard |-> h]
      BY <1>1, SimTypes
    <3> HIDE DEF t
    <3>2. t = [graph |-> g, fires |-> burning, noSensor |-> n, noComm |-> c,
               scenario |-> scenario, hazard |-> h]
      BY <2>1, <3>1
    <3>3. s.noSensor = n /\ s.noComm = c /\ s.hazard = h
      BY <3>1
    <3> QED
      BY <3>2, <3>3
  <2>3. s.noSensor \in SUBSET Hit(g) /\ s.noComm \in SUBSET Hit(g)
    BY <1>1, SimTypes
  <2> HIDE DEF t, T
  <2> QED
    BY <1>2, <1>3, <2>2, <2>3
<1> QED
  BY <1>4, <1>5, <1>6

\* tick_sim changes the hazard, and warms only what burns.
LEMMA TickIn ==
    ASSUME NEW g, IsPlan(g), NEW s \in Built(g), NEW dt \in Dts
    PROVE  [s EXCEPT !.hazard = DiffuseHazard(s, dt)] \in Built(g)
<1> DEFINE hazard == DiffuseHazard(s, dt)
           t == [s EXCEPT !.hazard = hazard]
<1>1. s \in Sims(g) /\ Warm(s) /\ s.graph = g
  BY SimTypes DEF Built
<1>2. hazard \in Spread(g, s.fires, s.hazard)
  BY <1>1, SimTypes, DiffuseSpreads
<1>3. hazard \in Hazards(g)
  BY <1>2 DEF Spread
<1> HIDE DEF hazard
<1>4. t = [graph |-> g, fires |-> s.fires, noSensor |-> s.noSensor, noComm |-> s.noComm,
           scenario |-> s.scenario, hazard |-> hazard]
  BY <1>1, SimTypes
<1>5. t \in Sims(g)
  BY <1>1, <1>3, <1>4, SimTypes, SimIn
<1>6. t.graph = g /\ t.hazard = hazard /\ t.fires = s.fires
  BY <1>4
<1> HIDE DEF t
<1>7. ASSUME NEW f \in Floors(g), hazard[f] # Cold
      PROVE  \E n \in ToSet(g.nodes) : n.floor = f /\ n.id \in DOMAIN s.fires
  <2>1. CASE s.hazard[f] # Cold
    BY <1>1, <2>1 DEF Warm
  <2>2. CASE \E id \in Origin(g, s.fires) : NodeOf(g, id).floor = f
    <3>1. PICK id \in Origin(g, s.fires) : NodeOf(g, id).floor = f
      BY <2>2
    <3>2. id \in DOMAIN s.fires /\ id \in NodeIds(g)
      BY <3>1 DEF Origin
    <3>3. NodeOf(g, id) \in ToSet(g.nodes) /\ NodeOf(g, id).id = id
      BY <3>2, NodeOfId, PlanIsGraph
    <3> QED
      BY <3>1, <3>2, <3>3
  <2> QED
    BY <1>2, <1>7, <2>1, <2>2 DEF Spread
<1>8. Warm(t)
  BY <1>6, <1>7 DEF Warm
<1> QED
  BY <1>5, <1>8 DEF Built, t, hazard

\* Where nothing burns, a tick changes nothing.
LEMMA TickOfNew ==
    ASSUME NEW g, IsPlan(g), NEW dt \in Dts
    PROVE  [NewSim(g) EXCEPT !.hazard = DiffuseHazard(NewSim(g), dt)] = NewSim(g)
<1> DEFINE s == NewSim(g)
           hazard == DiffuseHazard(s, dt)
<1>1. s = [graph |-> g, fires |-> << >>, noSensor |-> {}, noComm |-> {},
           scenario |-> "none", hazard |-> [f \in Floors(g) |-> Cold]]
  BY NewSimIs
<1>2. s.graph = g /\ s.fires = << >> /\ s.hazard = [f \in Floors(g) |-> Cold]
  BY <1>1
<1>3. hazard \in Spread(g, << >>, [f \in Floors(g) |-> Cold])
  <2> HIDE DEF s
  <2>1. s.hazard \in Hazards(s.graph) /\ IsPlan(s.graph)
    BY <1>2, ColdIn
  <2> QED
    BY <1>2, <2>1, DiffuseSpreads
<1> HIDE DEF s, hazard
<1>4. Origin(g, << >>) = {}
  BY NothingBurns DEF Origin
<1>5. \A f \in Floors(g) : hazard[f] = Cold
  BY <1>3, <1>4 DEF Spread
<1>6. hazard = [f \in Floors(g) |-> Cold]
  <2>1. hazard \in [Floors(g) -> Grid]
    BY <1>3 DEF Spread, Hazards
  <2> QED
    BY <1>5, <2>1
<1>7. [s EXCEPT !.hazard = hazard] = s
  <2> DEFINE C == [f \in Floors(g) |-> Cold]
  <2>1. s = [graph |-> g, fires |-> << >>, noSensor |-> {}, noComm |-> {},
             scenario |-> "none", hazard |-> C] /\ hazard = C
    BY <1>1, <1>6
  <2> DEFINE t == [s EXCEPT !.hazard = hazard]
  <2>2. PICK f, n, c, sc, h : s = [graph |-> g, fires |-> f, noSensor |-> n, noComm |-> c,
                                   scenario |-> sc, hazard |-> h] /\ hazard = h
    BY <2>1
  <2> HIDE DEF C, t
  <2>3. t = [graph |-> g, fires |-> f, noSensor |-> n, noComm |-> c, scenario |-> sc, hazard |-> h]
    BY <2>2 DEF t
  <2>4. t = s
    BY <2>2, <2>3
  <2> QED
    BY <2>4 DEF t
<1> QED
  BY <1>7 DEF s, hazard

\* A snapshot is one of the building.
LEMMA SnapshotIn ==
    ASSUME NEW g, IsPlan(g), NEW s \in Sims(g)
    PROVE  SnapshotOf(s) \in Snapshot(g)
<1> DEFINE costs == Costs(s)
           nodes == BuildNodeStates(s, costs)
<1>1. s.graph = g /\ s.hazard \in Hazards(g) /\ s.scenario \in Scenarios
  BY SimTypes
<1>2. ASSUME NEW id \in NodeIds(g)
      PROVE  nodes[id] \in NodeState
  <2> DEFINE n  == NodeOf(g, id)
             h  == NodeHazard(s, n)
             ok == n.id \notin s.noSensor
             on == n.id \notin s.noComm
             temperature == IF ok THEN 220 + 38 * h ELSE 0
             smoke == IF ok THEN AtMost(Full, (12 * h) \div 10) ELSE 0
             flame == h > 75 /\ ok
             hop == ComputeNextHop(s, costs, n)
             occ == Occupants(s, n)
             tier == IF ~ on THEN "isolated" ELSE IF ~ ok THEN "tertiary"
                     ELSE IF h > 60 THEN "secondary" ELSE "primary"
  <2>1. nodes[id] = [online |-> on, temperature |-> temperature, smoke |-> smoke,
                     flameDetected |-> flame, occupants |-> occ, nextHop |-> hop,
                     sensorOk |-> ok, failoverTier |-> tier]
    BY <1>1 DEF BuildNodeStates, BuildNodeState
  <2>2. n \in BuildingNode /\ n.id = id
    BY NodeOfId, PlanIsGraph
  <2>3. h \in Percent /\ occ \in 0 .. 3
    BY <1>1, <2>2, NodeHazardIn, OccupantsIn
  <2>4. h \in Nat /\ 12 * h \in Nat
    BY <2>3 DEF Percent, Full
  <2>5. (12 * h) \div 10 \in Nat
    <3> HIDE DEF h
    <3>1. 10 \in Nat \ {0}
      OBVIOUS
    <3> QED
      BY <2>4, <3>1, Quotient
  <2>6. temperature \in Nat /\ smoke \in 0 .. Full
    <3>1. AtMost(Full, (12 * h) \div 10) \in Percent
      BY <2>5, AtMostFull
    <3> HIDE DEF h, ok
    <3> QED
      BY <2>4, <3>1 DEF Percent, Full
  <2>7. hop \in NodeId \cup {Nowhere}
    <3>1. hop = IF n.kind = "exit" THEN Nowhere ELSE HopFrom(s, id)
      BY <2>2 DEF ComputeNextHop, HopFrom
    <3>2. HopFrom(s, id) \in NodeId \cup {Nowhere}
      <4>1. CASE PathFrom(s, id) = << >> /\ HopFrom(s, id) = Nowhere
        BY <4>1
      <4>2. CASE \E x \in ExitsOf(g), w \in Nat :
                   /\ IsRoute(PathFrom(s, id), NodeIds(g), Costs(s), w, id, x)
                   /\ HopFrom(s, id) = IF Len(PathFrom(s, id)) > 1 THEN PathFrom(s, id)[2] ELSE Nowhere
        <5> DEFINE p == PathFrom(s, id)
        <5>1. p \in Seq(NodeIds(g)) /\ HopFrom(s, id) = IF Len(p) > 1 THEN p[2] ELSE Nowhere
          BY <4>2 DEF IsRoute
        <5>2. NodeIds(g) \subseteq NodeId
          BY NodeIdFacts, PlanIsGraph
        <5> HIDE DEF p
        <5>3. Len(p) > 1 => p[2] \in NodeIds(g)
          BY <5>1
        <5> QED
          BY <5>1, <5>2, <5>3
      <4> QED
        BY <1>1, <4>1, <4>2, PathFinds
    <3> QED
      BY <3>1, <3>2
  <2>8. on \in BOOLEAN /\ ok \in BOOLEAN /\ flame \in BOOLEAN
    OBVIOUS
  <2>9. tier \in {"isolated", "tertiary", "secondary", "primary"}
    OBVIOUS
  <2> HIDE DEF nodes, n, h, on, temperature, smoke, flame, occ, hop, ok, tier
  <2>10. occ \in 0 .. 3
    BY <2>3
  <2> QED
    BY <2>1, <2>6, <2>7, <2>8, <2>9, <2>10 DEF NodeState
<1>3. nodes \in [NodeIds(g) -> NodeState] /\ DOMAIN nodes = NodeIds(g)
  BY <1>1, <1>2 DEF BuildNodeStates
<1>4. SnapshotOf(s).routes \subseteq EvacRoute
  <2> SUFFICES ASSUME NEW n \in Origins(g), Len(PathFrom(s, n.id)) > 1
               PROVE  PathFrom(s, n.id) \in EvacRoute
    BY <1>1, RoutesAre
  <2>1. n.id \in NodeIds(g) /\ NodeIds(g) \subseteq NodeId
    BY OriginsAreNodes, NodeIdFacts, PlanIsGraph
  <2> DEFINE p == PathFrom(s, n.id)
  <2>2. p = << >> \/ p \in Seq(NodeIds(g))
    BY <1>1, <2>1, PathFinds DEF IsRoute
  <2> HIDE DEF p
  <2>4. << >> \in Seq(NodeId)
    OBVIOUS
  <2>5. p \in Seq(NodeIds(g)) => p \in Seq(NodeId)
    BY <2>1
  <2>3. p \in Seq(NodeId)
    BY <2>2, <2>4, <2>5
  <2> QED
    BY <2>3 DEF EvacRoute, p
<1>5. ComputeStatus(nodes) \in Status
  BY DEF ComputeStatus, Status
<1>6. SnapshotOf(s) = [status |-> ComputeStatus(nodes), scenario |-> s.scenario, nodes |-> nodes,
                       hazard |-> s.hazard, routes |-> SnapshotOf(s).routes,
                       activeFireNodes |-> {id \in DOMAIN nodes : nodes[id].flameDetected}]
  BY DEF SnapshotOf
<1>7. {id \in DOMAIN nodes : nodes[id].flameDetected} \subseteq NodeIds(g)
  BY <1>3
<1>8. s.hazard \in [Floors(g) -> [Cells -> 0 .. Full]]
  BY <1>1 DEF Hazards, Grid, Percent
<1> HIDE DEF nodes
<1> QED
  BY <1>1, <1>3, <1>4, <1>5, <1>6, <1>7, <1>8 DEF Snapshot

----------------------------------------------------------------------------
(* The demo. *)

\* Among some numbers each rank is taken.
LEMMA RankExists ==
    ASSUME NEW S \in SUBSET Nat, IsFiniteSet(S), NEW i \in 0 .. Cardinality(S) - 1
    PROVE  \E k \in S : Cardinality({j \in S : j < k}) = i
<1> DEFINE Below(s, k) == {j \in s : j < k}
           T == {s \in SUBSET S : \A n \in 0 .. Cardinality(s) - 1 :
                                      \E k \in s : Cardinality(Below(s, k)) = n}
<1>1. {} \in T
  <2>1. Cardinality({}) = 0
    BY FS_EmptySet
  <2> QED
    BY <2>1
<1>2. ASSUME NEW s \in SUBSET S, s # {} PROVE \E x \in s : s \ {x} \in T => s \in T
  <2>6. IsFiniteSet(s)
    BY FS_Subset
  <2>1. IsFiniteSet(s) /\ s \subseteq Int
    BY <2>6
  <2> DEFINE m == Max(s)
             r == s \ {m}
  <2>2. m \in s /\ \A k \in s : k <= m
    BY <1>2, <2>1, MaxIn
  <2> HIDE DEF m
  <2>3. IsFiniteSet(r) /\ Cardinality(r) = Cardinality(s) - 1 /\ Cardinality(r) \in Nat
    BY <2>1, <2>2, FS_RemoveElement, FS_CardinalityType
  <2>4. ASSUME r \in T, NEW n \in 0 .. Cardinality(s) - 1
        PROVE  \E k \in s : Cardinality(Below(s, k)) = n
    <3>1. CASE n = Cardinality(r)
      <4>1. Below(s, m) = r
        <5>1. \A j \in s : j < m <=> j # m
          BY <2>1, <2>2
        <5> QED
          BY <5>1
      <4> QED
        BY <2>2, <3>1, <4>1
    <3>2. CASE n # Cardinality(r)
      <4>1. n \in 0 .. Cardinality(r) - 1
        BY <2>3, <3>2, <2>4
      <4>2. PICK k \in r : Cardinality(Below(r, k)) = n
        BY <2>4, <4>1
      <4>3. Below(s, k) = Below(r, k)
        BY <2>1, <2>2
      <4> QED
        BY <4>2, <4>3
    <3> QED
      BY <3>1, <3>2
  <2>5. r \in T => s \in T
    BY <2>4
  <2> QED
    BY <2>2, <2>5
<1> HIDE DEF T
<1>3. SUBSET S \subseteq T
  BY <1>1, <1>2, FiniteInduction
<1>4. \E k \in S : Cardinality(Below(S, k)) = i
  <2>1. S \in T
    BY <1>3
  <2> QED
    BY <2>1 DEF T
<1> QED
  BY <1>4

LEMMA RankedIn ==
    ASSUME NEW S \in SUBSET Nat, IsFiniteSet(S), NEW i \in 0 .. Cardinality(S) - 1
    PROVE  Ranked(S, i) \in S
BY RankExists DEF Ranked

LEMMA AutoInjectIn ==
    ASSUME NEW g, IsPlan(g), NEW s \in Built(g), NEW scenario \in Scenarios
    PROVE  AutoInject(s, scenario) \in Built(g)
<1> DEFINE places == Upstairs(g)
           burning == Cardinality(DOMAIN s.fires)
           i == burning % Cardinality(places)
           k == Ranked(places, i)
<1>1. s \in Sims(g) /\ s.graph = g
  BY SimTypes DEF Built
<1>2. CASE places = {}
  BY <1>1, <1>2 DEF AutoInject
<1>3. CASE places # {}
  <2>1. AutoInject(s, scenario) = InjectHazard(s, g.nodes[k].id, scenario)
    BY <1>1, <1>3 DEF AutoInject
  <2>2. DOMAIN g.nodes = 1 .. Len(g.nodes) /\ IsFiniteSet(DOMAIN g.nodes) /\ Len(g.nodes) \in Nat
    BY PlanTypes, PlacesAreFinite
  <2>3. places \in SUBSET Nat /\ places \subseteq DOMAIN g.nodes /\ IsFiniteSet(places)
    BY <2>2, FS_Subset DEF Upstairs
  <2> HIDE DEF places
  <2>4. Cardinality(places) \in Nat \ {0}
    BY <1>3, <2>3, FS_EmptySet, FS_CardinalityType
  <2>5. burning \in Nat
    BY <1>1, SimTypes, FS_CardinalityType DEF Fires
  <2> HIDE DEF burning
  <2>6. i \in 0 .. Cardinality(places) - 1
    BY <2>4, <2>5, Quotient
  <2> HIDE DEF i
  <2>7. k \in places
    BY <2>3, <2>6, RankedIn
  <2> HIDE DEF k
  <2>8. g.nodes[k].id \in Hit(g)
    BY <2>3, <2>7, PlanTypes, IdOfNode, PlanIsGraph DEF Hit
  <2> QED
    BY <2>1, <2>8, InjectIn DEF k, i, burning
<1> QED
  BY <1>2, <1>3

Staged(s, stage) == FoldSeq(LAMBDA scenario, t : AutoInject(t, scenario), s, stage)

\* A stage injects its scenarios one after the other, and stays where an injection stays.
StagedBy(iter, s, stage, A) ==
    /\ Staged(s, stage) = iter[DOMAIN stage]
    /\ iter[{}] = s
    /\ \A r \in SUBSET DOMAIN stage :
         /\ iter[r] \in A
         /\ r # {} => \E x \in r : iter[r] = AutoInject(iter[r \ {x}], stage[x])

LEMMA StageIsFolded ==
    ASSUME NEW stage \in Seq(Scenarios), NEW A, NEW s \in A,
           \A i \in DOMAIN stage : \A t \in A : AutoInject(t, stage[i]) \in A
    PROVE  \E iter : StagedBy(iter, s, stage, A)
<1> DEFINE S == DOMAIN stage
           G == [p \in S \X A |-> AutoInject(p[2], stage[p[1]])]
           Is(f) == f = [r \in SUBSET S |->
                             IF r = {} THEN s
                             ELSE LET x == CHOOSE x \in r : TRUE
                                  IN  AutoInject(f[r \ {x}], stage[x])]
           iter == CHOOSE f : Is(f)
<1>1. Staged(s, stage) = iter[S]
  BY DEF Staged, FoldSeq, FoldFunction, FoldFunctionOnSet, MapThenFoldSet
<1>2. IsFiniteSet(S)
  BY PlacesAreFinite
<1>4. \A i \in S : \A t \in A : AutoInject(t, stage[i]) \in A
  OBVIOUS
<1> HIDE DEF S
<1>5. G \in [S \X A -> A]
  BY <1>4
<1>6. \E f : Is(f)
  <2>1. PICK f : IsFold(f, S, s, G) /\ \A r \in SUBSET S : f[r] \in A
    <3> HIDE DEF G
    <3> QED
      BY <1>2, <1>5, FoldIn
  <2>2. ASSUME NEW r \in SUBSET S, r # {}
        PROVE  LET x == CHOOSE x \in r : TRUE
               IN  G[<<x, f[r \ {x}]>>] = AutoInject(f[r \ {x}], stage[x])
    <3> DEFINE x == CHOOSE x \in r : TRUE
    <3>1. x \in r
      BY <2>2
    <3> HIDE DEF x
    <3>2. G[<<x, f[r \ {x}]>>] = AutoInject(f[r \ {x}], stage[x])
      BY <2>1, <3>1
    <3> QED
      BY <3>2 DEF x
  <2> HIDE DEF G
  <2>3. Is(f)
    BY <2>1, <2>2 DEF IsFold
  <2> QED
    BY <2>3
<1>7. Is(iter)
  BY <1>6
<1> HIDE DEF iter
<1>8. iter[{}] = s
  BY <1>7
<1>9. ASSUME NEW r \in SUBSET S, r # {}
      PROVE  \E x \in r : iter[r] = AutoInject(iter[r \ {x}], stage[x])
  <2> DEFINE x == CHOOSE x \in r : TRUE
  <2>1. x \in r
    BY <1>9
  <2>2. iter[r] = AutoInject(iter[r \ {x}], stage[x])
    BY <1>7, <1>9
  <2> HIDE DEF x
  <2> QED
    BY <2>1, <2>2
<1>10. \A r \in SUBSET S : iter[r] \in A
  <2>1. ASSUME NEW r \in SUBSET S, r # {}
        PROVE  \E x \in r : iter[r \ {x}] \in A => iter[r] \in A
    BY <1>4, <1>9, <2>1
  <2>2. iter[{}] \in A
    BY <1>8
  <2> QED
    BY <1>2, <2>1, <2>2, FoldStays
<1> QED
  BY <1>1, <1>8, <1>9, <1>10 DEF S, StagedBy

LEMMA StagedIn ==
    ASSUME NEW g, IsPlan(g), NEW s \in Built(g), NEW stage \in Seq(Scenarios)
    PROVE  Staged(s, stage) \in Built(g)
<1> DEFINE A == Built(g)
<1>1. \A i \in DOMAIN stage : \A t \in A : AutoInject(t, stage[i]) \in A
  BY PlacesAreFinite, AutoInjectIn
<1> HIDE DEF A
<1>2. PICK iter : StagedBy(iter, s, stage, A)
  BY <1>1, StageIsFolded DEF A
<1> QED
  BY <1>2 DEF StagedBy, A

----------------------------------------------------------------------------
(* The numbers of nodes. *)

\* The number of a node leads back to it.
LEMMA NumbersLeadBack ==
    ASSUME NEW g, IsPlan(g), NEW id \in NodeIds(g)
    PROVE  StringId(NumericId(id, g), g) = id
<1> DEFINE places == {i \in DOMAIN g.nodes : g.nodes[i].id = id}
           k == Min(places)
<1>1. DOMAIN g.nodes = 1 .. Len(g.nodes) /\ Len(g.nodes) \in Nat
  BY PlanTypes, PlacesAreFinite
<1>2. places # {} /\ places \subseteq Nat
  <2>1. PICK n \in ToSet(g.nodes) : n.id = id
    BY DEF NodeIds
  <2>2. PICK i \in DOMAIN g.nodes : g.nodes[i] = n
    BY <2>1 DEF ToSet
  <2> QED
    BY <1>1, <2>1, <2>2
<1>3. NumericId(id, g) = k - 1
  BY <1>2 DEF NumericId
<1>4. k \in places
  <2> HIDE DEF places
  <2> QED
    BY <1>2, MinIn
<1>5. k \in DOMAIN g.nodes /\ g.nodes[k].id = id
  BY <1>4
<1> HIDE DEF places, k
<1>6. k - 1 \in 0 .. Len(g.nodes) - 1 /\ (k - 1) + 1 = k
  BY <1>1, <1>5
<1> QED
  BY <1>3, <1>5, <1>6 DEF StringId

----------------------------------------------------------------------------
(* The invariant. *)

\* The cache holds a description, once something was asked for; a simulation is of what
\* it holds.
Loaded ==
    /\ file \in Defs /\ cache \in Defs \cup {NoDef}
    /\ sim # NoSim => cache \in Defs /\ sim \in Built(PlaceNodes(cache))

\* What is left of the demo is staged in a simulation.
Staging ==
    /\ demo \in Seq(Seq(Scenarios)) /\ Len(demo) <= Len(Stages)
    /\ demo # << >> => sim # NoSim
    /\ played \in 0 .. Spoilt
    /\ played # Spoilt /\ demo # << >> => played = Len(Stages) - Len(demo)
    /\ sim = NoSim => played = 0

\* A snapshot is of some state of the simulation.
Shown ==
    snap # NoSnap =>
        /\ sim # NoSim
        /\ \E s \in Sims(sim.graph) : snap = SnapshotOf(s)

\* While nothing is injected the simulation stays new, and snapshots show that.
Pristine ==
    /\ calm \in BOOLEAN
    /\ calm /\ sim # NoSim => sim = NewSim(sim.graph)
    /\ calm /\ snap # NoSnap => snap = SnapshotOf(NewSim(sim.graph))

Counted == steps \in 0 .. MaxSteps /\ pace \in Dts \cup {0, Never}

Inv == Loaded /\ Staging /\ Shown /\ Pristine /\ Counted

LEMMA DefOrNot ==
    ASSUME NEW def \in Defs
    PROVE  def # NoDef
<1>1. "rooms" \in DOMAIN def
  BY DefIsSound DEF BuildingDef
<1>2. "rooms" \notin DOMAIN NoDef
  BY DEF NoDef
<1> QED
  BY <1>1, <1>2

LEMMA SnapOrNot ==
    ASSUME NEW s
    PROVE  SnapshotOf(s) # NoSnap
<1>1. "nodes" \in DOMAIN SnapshotOf(s)
  BY DEF SnapshotOf
<1>2. "nodes" \notin DOMAIN NoSnap
  BY DEF NoSnap
<1> QED
  BY <1>1, <1>2

LEMMA StagesAre == Stages \in Seq(Seq(Scenarios)) /\ Len(Stages) = 6 /\ << >> \in Seq(Seq(Scenarios))
<1>1. {"slow_smolder", "flashover", "comm_failure", "sensor_failure"} \subseteq Scenarios
  BY DEF Scenarios
<1>2. << >> \in Seq(Scenarios) /\ <<"slow_smolder">> \in Seq(Scenarios)
  BY <1>1
<1>3. <<"flashover">> \in Seq(Scenarios)
  BY <1>1
<1>4. <<"comm_failure", "comm_failure", "comm_failure">> \in Seq(Scenarios)
  BY <1>1
<1>5. <<"sensor_failure", "sensor_failure">> \in Seq(Scenarios)
  BY <1>1
<1> QED
  BY <1>2, <1>3, <1>4, <1>5 DEF Stages

LEMMA NoDemo ==
    /\ << >> \in Seq(Seq(Scenarios)) /\ Len(<< >>) <= Len(Stages)
    /\ Spoilt = 7 /\ 0 \in 0 .. Spoilt
<1>1. Len(<< >>) = 0 /\ Len(Stages) = 6 /\ << >> \in Seq(Seq(Scenarios))
  BY StagesAre
<1> QED
  BY <1>1 DEF Spoilt

LEMMA InitInv == Init => Inv
<1> SUFFICES ASSUME Init PROVE Inv
  OBVIOUS
<1> USE DEF Init
<1>1. Loaded
  BY DEF Loaded
<1>2. Staging
  BY NoDemo DEF Staging
<1>3. Shown
  BY DEF Shown
<1>4. Pristine
  BY DEF Pristine
<1>5. Counted
  BY Sizes DEF Counted
<1> QED
  BY <1>1, <1>2, <1>3, <1>4, <1>5 DEF Inv

\* Somebody asks for a simulation, and it is there.
LEMMA LoadedSim ==
    ASSUME Inv, sim # NoSim
    PROVE  /\ cache \in Defs /\ cache # NoDef
           /\ sim \in Built(sim.graph) /\ sim \in Sims(sim.graph)
           /\ sim.graph = PlaceNodes(cache) /\ IsPlan(sim.graph)
<1>1. cache \in Defs /\ sim \in Built(PlaceNodes(cache))
  BY DEF Inv, Loaded
<1>2. sim \in Sims(PlaceNodes(cache))
  BY <1>1 DEF Built
<1>3. sim.graph = PlaceNodes(cache)
  BY <1>2, SimTypes
<1>4. IsPlan(sim.graph)
  BY <1>1, <1>3, PlaceNodesIn
<1>5. cache # NoDef
  BY <1>1, DefOrNot
<1> QED
  BY <1>1, <1>2, <1>3, <1>4, <1>5

LEMMA EditInv == Inv /\ Edit => Inv'
<1> SUFFICES ASSUME Inv, Edit PROVE Inv'
  OBVIOUS
<1>1. UNCHANGED <<cache, sim, demo, snap, steps, calm, played, pace>> /\ file' \in Defs
  BY DEF Edit
<1>2. Loaded'
  BY <1>1 DEF Inv, Loaded
<1> QED
  BY <1>1, <1>2 DEF Inv, Staging, Shown, Pristine, Counted

\* The description that is used is in the cache after it was used.
LEMMA CachedDef ==
    ASSUME Inv
    PROVE  LoadBuildingDef \in Defs /\ (cache # NoDef => LoadBuildingDef = cache)
BY DEF Inv, Loaded, LoadBuildingDef

LEMMA LoadInv == Inv /\ Load => Inv'
<1> SUFFICES ASSUME Inv, Load PROVE Inv'
  OBVIOUS
<1> DEFINE def == LoadBuildingDef
           g == PlaceNodes(def)
<1>1. /\ sim = NoSim /\ cache' = def /\ sim' = NewSim(g)
      /\ UNCHANGED <<file, demo, snap, steps, calm, played, pace>>
  BY DEF Load, LoadGraph
<1>2. def \in Defs
  BY CachedDef
<1> HIDE DEF def
<1>3. sim' \in Built(g) /\ sim' \in Sims(g)
  BY <1>1, NewSimIs DEF Built
<1>4. sim' # NoSim /\ sim'.graph = g
  BY <1>3, SimTypes
<1> HIDE DEF g
<1>5. Loaded'
  BY <1>1, <1>2, <1>3 DEF Inv, Loaded, g
<1>6. demo = << >> /\ snap = NoSnap
  BY <1>1 DEF Inv, Staging, Shown
<1>7. Staging' /\ Shown' /\ Counted'
  BY <1>1, <1>4, <1>6 DEF Inv, Staging, Shown, Counted
<1>8. Pristine'
  BY <1>1, <1>4, <1>6 DEF Inv, Pristine
<1> QED
  BY <1>5, <1>7, <1>8 DEF Inv

LEMMA GetGraphInv == Inv /\ GetGraph => Inv'
<1> SUFFICES ASSUME Inv, GetGraph PROVE Inv'
  OBVIOUS
<1>1. cache' = LoadBuildingDef /\ UNCHANGED <<file, sim, demo, snap, steps, calm, played, pace>>
  BY DEF GetGraph
<1>2. sim # NoSim => cache' = cache
  BY <1>1, CachedDef, LoadedSim
<1>3. cache' \in Defs
  BY <1>1, CachedDef
<1>4. Loaded'
  BY <1>1, <1>2, <1>3 DEF Inv, Loaded
<1> QED
  BY <1>1, <1>4 DEF Inv, Staging, Shown, Pristine, Counted

LEMMA TickSimInv == Inv /\ TickSim => Inv'
<1> SUFFICES ASSUME Inv, TickSim PROVE Inv'
  OBVIOUS
<1> DEFINE g == sim.graph
<1>1. PICK dt \in Dts :
         /\ sim # NoSim /\ sim' = [sim EXCEPT !.hazard = DiffuseHazard(sim, dt)]
         /\ snap' = SnapshotOf(sim') /\ steps < MaxSteps /\ steps' = steps + 1
         /\ pace' \in {dt, Never} /\ UNCHANGED <<file, cache, demo, calm, played>>
  BY DEF TickSim
<1>2. sim \in Built(g) /\ IsPlan(g) /\ cache \in Defs /\ g = PlaceNodes(cache)
  BY <1>1, LoadedSim
<1> HIDE DEF g
<1>3. sim' \in Built(g) /\ sim' \in Sims(g)
  BY <1>1, <1>2, TickIn DEF Built
<1>4. sim' # NoSim /\ sim'.graph = g
  BY <1>3, SimTypes
<1>5. Loaded'
  BY <1>1, <1>2, <1>3 DEF Inv, Loaded
<1>6. Staging'
  BY <1>1, <1>4 DEF Inv, Staging
<1>7. Shown'
  BY <1>1, <1>3, <1>4 DEF Shown
<1>8. Pristine'
  <2>1. calm => sim' = NewSim(g)
    <3> SUFFICES ASSUME calm PROVE sim' = NewSim(g)
      OBVIOUS
    <3>1. sim = NewSim(g)
      BY <1>1 DEF Inv, Pristine, g
    <3> QED
      BY <1>1, <1>2, <3>1, TickOfNew
  <2> QED
    BY <1>1, <1>4, <2>1 DEF Inv, Pristine
<1>9. Counted'
  BY <1>1, Sizes DEF Inv, Counted
<1> QED
  BY <1>5, <1>6, <1>7, <1>8, <1>9 DEF Inv

\* Any step in which the building stays, and what is shown too, or nothing is shown.
LEMMA SimChanges ==
    ASSUME Inv, sim # NoSim, sim' \in Built(sim.graph), UNCHANGED <<file, cache>>,
           snap' \in {snap, NoSnap}
    PROVE  Loaded' /\ Shown' /\ sim' # NoSim /\ sim'.graph = sim.graph
<1> DEFINE g == sim.graph
<1>1. cache \in Defs /\ g = PlaceNodes(cache)
  BY LoadedSim
<1>2. sim' \in Sims(g)
  BY DEF Built
<1>3. sim' # NoSim /\ sim'.graph = g
  BY <1>2, SimTypes
<1>4. Loaded'
  BY <1>1 DEF Inv, Loaded
<1>5. Shown'
  BY <1>3 DEF Inv, Shown
<1> QED
  BY <1>3, <1>4, <1>5

LEMMA InjectInv == Inv /\ Inject => Inv'
<1> SUFFICES ASSUME Inv, Inject PROVE Inv'
  OBVIOUS
<1>1. /\ sim # NoSim /\ steps < MaxSteps /\ steps' = steps + 1 /\ demo' \in {demo, << >>}
      /\ calm' = FALSE /\ played' = Spoilt /\ pace' \in {pace, Never}
      /\ UNCHANGED <<file, cache, snap>>
      /\ \E hit \in Injections : sim' = InjectHazard(sim, hit[1], hit[2])
  BY DEF Inject
<1>2. PICK hit \in Injections : sim' = InjectHazard(sim, hit[1], hit[2])
  BY <1>1
<1>3. hit[1] \in Hit(sim.graph) /\ hit[2] \in Scenarios
  BY DEF Hit, Scenarios
<1>4. sim' \in Built(sim.graph)
  BY <1>1, <1>2, <1>3, LoadedSim, InjectIn
<1>5. Loaded' /\ Shown' /\ sim' # NoSim
  BY <1>1, <1>4, SimChanges
<1>6. Staging'
  <2>1. demo' \in Seq(Seq(Scenarios)) /\ Len(demo') <= Len(Stages)
    BY <1>1, NoDemo DEF Inv, Staging
  <2>2. played' \in 0 .. Spoilt
    BY <1>1, NoDemo
  <2> QED
    BY <1>1, <1>5, <2>1, <2>2 DEF Staging
<1>7. Pristine'
  BY <1>1 DEF Pristine
<1>8. Counted'
  BY <1>1, Sizes DEF Inv, Counted
<1> QED
  BY <1>5, <1>6, <1>7, <1>8 DEF Inv

\* Reset and RunDemo.
LEMMA ResetInv ==
    ASSUME Inv, sim # NoSim, sim' = ResetSim(sim), demo' \in {<< >>, Stages}, snap' = NoSnap,
           calm' = TRUE, played' = 0, pace' = 0, UNCHANGED <<file, cache, steps>>
    PROVE  Inv'
<1>1. sim' = NewSim(sim.graph)
  BY LoadedSim, ResetIsNew
<1>2. sim' \in Built(sim.graph)
  BY <1>1, NewSimIs
<1>3. Loaded' /\ Shown' /\ sim' # NoSim /\ sim'.graph = sim.graph
  BY <1>2, SimChanges
<1>4. Staging'
  <2>1. CASE demo' = << >>
    <3>1. demo' \in Seq(Seq(Scenarios)) /\ Len(demo') <= Len(Stages)
      BY <2>1, NoDemo
    <3> QED
      BY <1>3, <2>1, <3>1, NoDemo DEF Staging
  <2>2. CASE demo' = Stages
    <3>1. Stages \in Seq(Seq(Scenarios)) /\ Len(Stages) <= Len(Stages)
          /\ 0 = Len(Stages) - Len(Stages)
      BY StagesAre
    <3> QED
      BY <1>3, <2>2, <3>1, NoDemo DEF Staging
  <2> QED
    BY <2>1, <2>2
<1>5. Pristine'
  BY <1>1, <1>3 DEF Pristine
<1>6. Counted'
  BY DEF Inv, Counted
<1> QED
  BY <1>3, <1>4, <1>5, <1>6 DEF Inv

LEMMA DemoStageInv == Inv /\ DemoStage => Inv'
<1> SUFFICES ASSUME Inv, DemoStage PROVE Inv'
  OBVIOUS
<1>1. /\ demo # << >> /\ sim' = Staged(sim, Head(demo)) /\ demo' = Tail(demo)
      /\ calm' = (calm /\ sim' = sim) /\ UNCHANGED <<file, cache, snap, steps>>
      /\ played' = IF played = Spoilt THEN Spoilt ELSE played + 1
      /\ pace' \in {pace, Never}
  BY DEF DemoStage, Staged
<1>2. sim # NoSim /\ demo \in Seq(Seq(Scenarios)) /\ Len(demo) <= Len(Stages)
  BY <1>1 DEF Inv, Staging
<1>3. Head(demo) \in Seq(Scenarios) /\ Tail(demo) \in Seq(Seq(Scenarios)) /\ Len(Tail(demo)) <= Len(demo)
  BY <1>1, <1>2
<1>4. sim' \in Built(sim.graph)
  BY <1>1, <1>2, <1>3, LoadedSim, StagedIn
<1>5. Loaded' /\ Shown' /\ sim' # NoSim /\ sim'.graph = sim.graph
  BY <1>1, <1>2, <1>4, SimChanges
<1>6. Staging'
  <2>1. Len(demo) \in Nat /\ Len(Tail(demo)) \in Nat /\ Len(Stages) \in Nat
    BY <1>2, <1>3, StagesAre
  <2>2. Len(Tail(demo)) <= Len(Stages)
    BY <1>2, <1>3, <2>1
  <2>3. demo' \in Seq(Seq(Scenarios)) /\ Len(demo') <= Len(Stages)
    BY <1>1, <1>3, <2>2
  <2>4. played' \in 0 .. Spoilt /\ (played' # Spoilt => played' = Len(Stages) - Len(demo'))
    <3>1. /\ played \in 0 .. 7 /\ Spoilt = 7 /\ Len(Stages) = 6
          /\ played # 7 => played = 6 - Len(demo)
      BY <1>1, NoDemo, StagesAre DEF Inv, Staging
    <3>2. Len(demo') = Len(demo) - 1 /\ Len(demo) \in Nat
      BY <1>1, <1>2
    <3>3. CASE played = 7
      BY <1>1, <3>1, <3>3
    <3>4. CASE played # 7
      <4>1. played' = 6 - Len(demo') /\ played \in 0 .. 6
        BY <1>1, <3>1, <3>2, <3>4
      <4> QED
        BY <1>1, <3>1, <3>4, <4>1
    <3> QED
      BY <3>3, <3>4
  <2> QED
    BY <1>5, <2>3, <2>4 DEF Staging
<1>7. Pristine'
  BY <1>1, <1>2 DEF Inv, Pristine
<1>8. Counted'
  BY <1>1 DEF Inv, Counted
<1> QED
  BY <1>5, <1>6, <1>7, <1>8 DEF Inv

LEMMA NextInv == Inv /\ [Next]_vars => Inv'
<1> SUFFICES ASSUME Inv, [Next]_vars PROVE Inv'
  OBVIOUS
<1>1. CASE Edit
  BY <1>1, EditInv
<1>2. CASE Load
  BY <1>2, LoadInv
<1>3. CASE GetGraph
  BY <1>3, GetGraphInv
<1>4. CASE TickSim
  BY <1>4, TickSimInv
<1>5. CASE Inject
  BY <1>5, InjectInv
<1>6. CASE Reset
  BY <1>6, ResetInv DEF Reset
<1>7. CASE RunDemo
  BY <1>7, ResetInv DEF RunDemo
<1>8. CASE DemoStage
  BY <1>8, DemoStageInv
<1>9. CASE UNCHANGED vars
  BY <1>9 DEF vars, Inv, Loaded, Staging, Shown, Pristine, Counted
<1> QED
  BY <1>1, <1>2, <1>3, <1>4, <1>5, <1>6, <1>7, <1>8, <1>9 DEF Next

LEMMA Invariance == Spec => []Inv
<1>1. Init => Inv
  BY InitInv
<1>2. Inv /\ [Next]_vars => Inv'
  BY NextInv
<1> QED
  BY <1>1, <1>2, PTL DEF Spec

----------------------------------------------------------------------------
(* What it shows. *)

\* Every state is one of the types of the code: the cache holds what building.json held
\* once, each floor of the simulation has its grid, and a snapshot is complete, with
\* nothing but nodes of the building in its routes.
THEOREM TypeCorrect == Spec => []TypeOK
<1>1. Inv => TypeOK
  <2> SUFFICES ASSUME Inv PROVE TypeOK
    OBVIOUS
  <2>1. ASSUME sim # NoSim
        PROVE  /\ sim.graph \in BuildingGraph
               /\ sim.hazard \in [Floors(sim.graph) -> [Cells -> 0 .. Full]]
               /\ sim.noSensor \cup sim.noComm \cup DOMAIN sim.fires \subseteq
                      NodeIds(sim.graph) \cup {hit[1] : hit \in Injections}
    <3>1. sim \in Sims(sim.graph) /\ IsPlan(sim.graph)
      BY <2>1, LoadedSim
    <3>2. DOMAIN sim.fires \subseteq Hit(sim.graph)
      BY <3>1, SimTypes DEF Fires
    <3>3. sim.hazard \in Hazards(sim.graph)
      BY <3>1, SimTypes
    <3>4. sim.noSensor \subseteq Hit(sim.graph) /\ sim.noComm \subseteq Hit(sim.graph)
      BY <3>1, SimTypes
    <3> QED
      BY <3>1, <3>2, <3>3, <3>4 DEF Hit, Hazards, Grid, Percent, IsPlan, IsGraph
  <2>2. ASSUME snap # NoSnap
        PROVE  snap \in Snapshot(sim.graph)
    <3>1. sim # NoSim /\ \E s \in Sims(sim.graph) : snap = SnapshotOf(s)
      BY <2>2 DEF Inv, Shown
    <3>2. IsPlan(sim.graph)
      BY <3>1, LoadedSim
    <3> QED
      BY <3>1, <3>2, SnapshotIn
  <2> QED
    BY <2>1, <2>2 DEF Inv, Loaded, Staging, Counted, TypeOK
<1> QED
  BY <1>1, Invariance, PTL

\* Whatever the description, each end of an edge that place_nodes makes is a node, and the
\* waypoints of a corridor lead from one of its rooms to the other.
THEOREM PlansAreConnected == Spec => []PlanIsConnected
<1>1. Inv => file \in Defs
  BY DEF Inv, Loaded
<1>2. file \in Defs => PlanIsConnected
  <2> DEFINE graph  == PlaceNodes(file)
             Own(c) == {<<"n", c.fromRoom>>, <<"n", c.toRoom>>}
                           \cup {Junction(c, j) : j \in 0 .. Len(c.junctionPoints) - 1}
  <2> SUFFICES ASSUME file \in Defs PROVE PlanIsConnected
    OBVIOUS
  <2>1. file \in BuildingDef
    BY DefIsSound
  <2>2. ASSUME NEW l \in Links(graph) PROVE l[1] \in NodeIds(graph)
    <3>1. PICK e \in graph.edges : l = <<e.from, e.to>> \/ l = <<e.to, e.from>>
      BY DEF Links
    <3>2. e \in EdgesOf(file)
      BY <2>1, EdgesAreNamed
    <3>3. e.from \in Named(file) /\ e.to \in Named(file)
      BY <3>2 DEF EdgesOf
    <3> QED
      BY <3>1, <3>3, NamesAreNodes
  <2>3. ASSUME NEW c \in ToSet(file.corridors),
               None \notin {NodeForRoom(file, c.fromRoom), NodeForRoom(file, c.toRoom)}
        PROVE  <<"n", c.toRoom>> \in
                   ReachedOver({l \in Links(graph) : {l[1], l[2]} \subseteq Own(c)},
                               <<"n", c.fromRoom>>)
    BY <2>1, <2>3, CorridorLeads
  <2> QED
    BY <2>2, <2>3 DEF PlanIsConnected
<1> QED
  BY <1>1, <1>2, Invariance, PTL

\* The graph a client is given is the one that is simulated, though building.json may have
\* changed since, and the number of a node leads back to it.
THEOREM OneGraph == Spec => []GraphsAgree
<1>1. Inv => GraphsAgree
  <2> SUFFICES ASSUME Inv, sim # NoSim PROVE GraphsAgree
    BY DEF GraphsAgree
  <2>1. cache # NoDef /\ sim.graph = PlaceNodes(cache) /\ IsPlan(sim.graph)
    BY LoadedSim
  <2>2. LoadGraph = sim.graph
    BY <2>1 DEF LoadGraph, LoadBuildingDef
  <2>3. \A id \in NodeIds(sim.graph) : StringId(NumericId(id, sim.graph), sim.graph) = id
    BY <2>1, NumbersLeadBack
  <2> QED
    BY <2>2, <2>3 DEF GraphsAgree
<1> QED
  BY <1>1, Invariance, PTL

\* Every route of a snapshot leads over edges of the building to an exit, past no flame
\* the snapshot shows, and begins with the next hop of its first node.
THEOREM SafeRoutes == Spec => []RoutesAreSafe
<1>1. Inv => RoutesAreSafe
  <2> SUFFICES ASSUME Inv, snap # NoSnap PROVE RoutesAreSafe
    BY DEF RoutesAreSafe
  <2>1. sim # NoSim
    BY DEF Inv, Shown
  <2>2. PICK s \in Sims(sim.graph) : snap = SnapshotOf(s)
    BY DEF Inv, Shown
  <2>3. s.graph = sim.graph /\ s.hazard \in Hazards(sim.graph) /\ IsPlan(sim.graph)
    BY <2>1, <2>2, LoadedSim, SimTypes
  <2>4. Safe(sim.graph, snap)
    BY <2>2, <2>3, SnapshotIsSafe
  <2> QED
    BY <2>4 DEF Safe, RoutesAreSafe
<1> QED
  BY <1>1, Invariance, PTL

\* A floor on which nothing was set on fire since the reset is cold.
THEOREM LocalHeat == Spec => []HeatIsLocal
<1>1. Inv => HeatIsLocal
  <2> SUFFICES ASSUME Inv, sim # NoSim, NEW f \in DOMAIN sim.hazard,
                      NEW i \in Cells, sim.hazard[f][i] > 0
               PROVE  \E n \in ToSet(sim.graph.nodes) : n.floor = f /\ n.id \in DOMAIN sim.fires
    BY DEF HeatIsLocal
  <2>1. sim \in Built(sim.graph) /\ sim \in Sims(sim.graph)
    BY LoadedSim
  <2>2. Warm(sim) /\ DOMAIN sim.hazard = Floors(sim.graph)
    BY <2>1, SimTypes DEF Built, Hazards
  <2>3. sim.hazard[f] # Cold
    <3>1. Cold[i] = 0
      BY DEF Cold
    <3> QED
      BY <3>1
  <2> QED
    BY <2>2, <2>3 DEF Warm
<1> QED
  BY <1>1, Invariance, PTL

\* Until something is injected every snapshot is that of a building nothing ever
\* happened to, whatever was reset before.
THEOREM CleanResets == Spec => []ResetRestores
<1>1. Inv => ResetRestores
  BY DEF Inv, Pristine, ResetRestores
<1> QED
  BY <1>1, Invariance, PTL

----------------------------------------------------------------------------
(* The fires of the demo. *)

\* The id of the sensor upstairs with i others before it.
IdAt(g, i) == g.nodes[Ranked(Upstairs(g), i)].id

Burns(s, c) ==
    /\ DOMAIN s.fires = {IdAt(s.graph, i) : i \in 0 .. c - 1}
    /\ Cardinality(DOMAIN s.fires) = c

LEMMA UpstairsFacts ==
    ASSUME NEW g, IsPlan(g)
    PROVE  /\ Upstairs(g) \in SUBSET Nat /\ Upstairs(g) \subseteq DOMAIN g.nodes
           /\ IsFiniteSet(Upstairs(g)) /\ Cardinality(Upstairs(g)) \in Nat
           /\ Cardinality(Upstairs(g)) = 0 <=> Upstairs(g) = {}
<1>1. DOMAIN g.nodes = 1 .. Len(g.nodes) /\ IsFiniteSet(DOMAIN g.nodes) /\ Len(g.nodes) \in Nat
  BY PlanTypes, PlacesAreFinite
<1>2. Upstairs(g) \in SUBSET Nat /\ Upstairs(g) \subseteq DOMAIN g.nodes
  BY <1>1 DEF Upstairs
<1>3. IsFiniteSet(Upstairs(g))
  BY <1>1, <1>2, FS_Subset
<1> QED
  BY <1>2, <1>3, FS_CardinalityType, FS_EmptySet

\* As a set of nodes they are as many: each is in one place of the list.
LEMMA AsManyNodes ==
    ASSUME NEW g, IsPlan(g)
    PROVE  Cardinality({g.nodes[k] : k \in Upstairs(g)}) = Cardinality(Upstairs(g))
<1> DEFINE U == Upstairs(g)
           V == {g.nodes[k] : k \in U}
           f == [k \in U |-> g.nodes[k]]
<1>1. \A i, j \in U : g.nodes[i] = g.nodes[j] => i = j
  BY UpstairsFacts DEF IsPlan, IsGraph, WellPlaced
<1>2. IsFiniteSet(U)
  BY UpstairsFacts
<1> HIDE DEF U
<1>3. f \in [U -> V] /\ \A v \in V : \E k \in U : f[k] = v
  OBVIOUS
<1>4. IsInjective(f)
  BY <1>1 DEF IsInjective
<1> HIDE DEF f, V
<1>5. f \in Bijection(U, V)
  BY <1>3, <1>4 DEF Bijection, Injection, Surjection
<1>6. ExistsBijection(U, V)
  BY <1>5 DEF ExistsBijection
<1>7. Cardinality(V) = Cardinality(U)
  BY <1>2, <1>6, FS_Bijection
<1> QED
  BY <1>7 DEF U, V

LEMMA RankIs ==
    ASSUME NEW S \in SUBSET Nat, IsFiniteSet(S), NEW i \in 0 .. Cardinality(S) - 1
    PROVE  Cardinality({j \in S : j < Ranked(S, i)}) = i
BY RankExists DEF Ranked

\* Each rank is that of an id of its own.
LEMMA IdsDiffer ==
    ASSUME NEW g, IsPlan(g), NEW i \in 0 .. Cardinality(Upstairs(g)) - 1,
           NEW j \in 0 .. Cardinality(Upstairs(g)) - 1, IdAt(g, i) = IdAt(g, j)
    PROVE  i = j
<1> DEFINE U == Upstairs(g)
           m == Ranked(U, i)
           n == Ranked(U, j)
<1>1. U \in SUBSET Nat /\ IsFiniteSet(U) /\ U \subseteq DOMAIN g.nodes
  BY UpstairsFacts
<1>2. m \in U /\ n \in U
  BY <1>1, RankedIn
<1>3. m = n
  BY <1>1, <1>2 DEF IdAt, IsPlan, IsGraph, WellPlaced
<1>4. Cardinality({k \in U : k < m}) = i
  BY <1>1, RankIs
<1>5. Cardinality({k \in U : k < n}) = j
  BY <1>1, RankIs
<1> QED
  BY <1>3, <1>4, <1>5

\* What inject_hazard does to fires and failures.
Failures == {"comm_failure", "sensor_failure"}

LEMMA InjectHits ==
    ASSUME NEW g, NEW s \in Sims(g), NEW id, NEW scenario
    PROVE  LET t == InjectHazard(s, id, scenario)
           IN  /\ scenario \in {"slow_smolder", "flashover"} =>
                    DOMAIN t.fires = DOMAIN s.fires \cup {id}
               /\ scenario \in Failures => t.fires = s.fires
<1> DEFINE t == InjectHazard(s, id, scenario)
<1>1. PICK f, n, c, sc, h : s = [graph |-> g, fires |-> f, noSensor |-> n, noComm |-> c,
                                 scenario |-> sc, hazard |-> h]
  BY SimTypes
<1>2. s.fires = f
  BY <1>1
<1>3. CASE scenario \in {"slow_smolder", "flashover"}
  <2> DEFINE b == [x \in DOMAIN s.fires \cup {id} |-> IF x = id THEN scenario ELSE s.fires[x]]
  <2>1. t = [s EXCEPT !.scenario = scenario, !.fires = b]
    BY <1>1, <1>3 DEF InjectHazard
  <2>2. DOMAIN b = DOMAIN s.fires \cup {id}
    OBVIOUS
  <2> HIDE DEF t, b
  <2>3. t.fires = b
    BY <1>1, <2>1
  <2> QED
    BY <1>3, <2>2, <2>3 DEF t, Failures
<1>4. CASE scenario = "comm_failure"
  <2> DEFINE b == s.noComm \cup {id}
  <2>1. t = [s EXCEPT !.scenario = scenario, !.noComm = b]
    BY <1>1, <1>4 DEF InjectHazard
  <2> HIDE DEF t, b
  <2>2. t.fires = f
    BY <1>1, <2>1
  <2> QED
    BY <1>2, <1>4, <2>2 DEF t
<1>5. CASE scenario = "sensor_failure"
  <2> DEFINE b == s.noSensor \cup {id}
  <2>1. t = [s EXCEPT !.scenario = scenario, !.noSensor = b]
    BY <1>1, <1>5 DEF InjectHazard
  <2> HIDE DEF t, b
  <2>2. t.fires = f
    BY <1>1, <2>1
  <2> QED
    BY <1>2, <1>5, <2>2 DEF t
<1> QED
  BY <1>3, <1>4, <1>5 DEF Failures

\* The next fire is lit at the next sensor, as long as there is one.
LEMMA FireSpreads ==
    ASSUME NEW g, IsPlan(g), NEW s \in Built(g), NEW scenario \in {"slow_smolder", "flashover"},
           NEW c \in 0 .. Cardinality(Upstairs(g)), Burns(s, c)
    PROVE  LET t == AutoInject(s, scenario)
           IN  Burns(t, AtMost(c + 1, Cardinality(Upstairs(g))))
<1> DEFINE n == Cardinality(Upstairs(g))
           t == AutoInject(s, scenario)
           i == c % n
<1>1. s \in Sims(g) /\ s.graph = g /\ n \in Nat /\ c \in Nat
  BY SimTypes, UpstairsFacts DEF Built
<1>2. DOMAIN s.fires = {IdAt(g, k) : k \in 0 .. c - 1} /\ Cardinality(DOMAIN s.fires) = c
  BY <1>1 DEF Burns
<1>3. CASE Upstairs(g) = {}
  <2>1. t = s /\ n = 0
    BY <1>1, <1>3, UpstairsFacts DEF AutoInject
  <2>2. AtMost(c + 1, n) = c
    BY <1>1, <2>1 DEF AtMost
  <2> QED
    BY <2>1, <2>2
<1>4. CASE Upstairs(g) # {}
  <2>1. n \in Nat \ {0}
    BY <1>1, <1>4, UpstairsFacts
  <2>2. t = InjectHazard(s, IdAt(g, i), scenario)
    BY <1>1, <1>2, <1>4 DEF AutoInject, IdAt
  <2>3. scenario \in Scenarios
    BY DEF Scenarios
  <2> HIDE DEF n
  <2>4. i \in 0 .. n - 1
    BY <1>1, <2>1, Quotient
  <2>5. IdAt(g, i) \in Hit(g)
    <3>1. Ranked(Upstairs(g), i) \in Upstairs(g)
      BY <2>4, UpstairsFacts, RankedIn DEF n
    <3> QED
      BY <3>1, UpstairsFacts, PlanTypes, IdOfNode, PlanIsGraph DEF IdAt, Hit
  <2>6. t.graph = g
    BY <2>2, <2>3, <2>5, InjectIn, SimTypes DEF Built
  <2>7. DOMAIN t.fires = DOMAIN s.fires \cup {IdAt(g, i)}
    BY <1>1, <2>2, InjectHits
  <2> HIDE DEF t
  <2>8. CASE c < n
    <3>1. i = c
      BY <1>1, <2>1, <2>8
    <3>2. AtMost(c + 1, n) = c + 1 /\ (c + 1) - 1 = c
      BY <1>1, <2>1, <2>8 DEF AtMost
    <3>3. \A k \in 0 .. c - 1 : IdAt(g, k) # IdAt(g, c)
      <4> SUFFICES ASSUME NEW k \in 0 .. c - 1, IdAt(g, k) = IdAt(g, c) PROVE FALSE
        OBVIOUS
      <4>1. k \in 0 .. n - 1 /\ c \in 0 .. n - 1 /\ k # c
        BY <1>1, <2>1, <2>8
      <4> QED
        BY <4>1, IdsDiffer DEF n
    <3>4. IdAt(g, c) \notin DOMAIN s.fires
      BY <1>2, <3>3
    <3>5. IsFiniteSet(DOMAIN s.fires)
      BY <1>1, SimTypes DEF Fires
    <3>6. Cardinality(DOMAIN t.fires) = c + 1
      <4> DEFINE old == DOMAIN s.fires
                 id  == IdAt(g, c)
      <4>1. DOMAIN t.fires = old \cup {id} /\ id \notin old /\ Cardinality(old) = c
        BY <1>2, <2>7, <3>1, <3>4 DEF Burns
      <4> HIDE DEF old, id
      <4>2. Cardinality(old \cup {id}) = Cardinality(old) + 1
        BY <3>5, <4>1, FS_AddElement DEF old
      <4> QED
        BY <4>1, <4>2
    <3>7. DOMAIN t.fires = {IdAt(g, k) : k \in 0 .. c}
      <4>1. 0 .. c = (0 .. c - 1) \cup {c}
        BY <1>1
      <4> QED
        BY <1>2, <2>7, <3>1, <4>1
    <3> QED
      BY <2>6, <2>7, <3>2, <3>6, <3>7 DEF Burns, t, n
  <2>9. CASE c = n
    <3>1. i = 0
      BY <1>1, <2>1, <2>9
    <3>2. AtMost(c + 1, n) = c
      BY <1>1, <2>1, <2>9 DEF AtMost
    <3>3. 0 \in 0 .. c - 1
      BY <1>1, <2>1, <2>9
    <3>4. DOMAIN t.fires = DOMAIN s.fires
      BY <1>2, <2>7, <3>1, <3>3
    <3> QED
      BY <1>2, <2>6, <2>7, <3>2, <3>4 DEF Burns, t, n
  <2> QED
    BY <1>1, <2>1, <2>8, <2>9 DEF n
<1> QED
  BY <1>3, <1>4

\* A stage of one scenario injects it once, one of none nothing.
LEMMA StagedOnce ==
    ASSUME NEW g, IsPlan(g), NEW s \in Built(g), NEW scenario \in Scenarios
    PROVE  Staged(s, <<scenario>>) = AutoInject(s, scenario) /\ Staged(s, << >>) = s
<1> DEFINE A == Built(g)
           stage == <<scenario>>
<1>1. stage \in Seq(Scenarios) /\ << >> \in Seq(Scenarios)
  OBVIOUS
<1>2. DOMAIN stage = {1} /\ stage[1] = scenario /\ DOMAIN << >> = {}
  OBVIOUS
<1>3. \A t \in A : AutoInject(t, scenario) \in A
  BY AutoInjectIn
<1> HIDE DEF A, stage
<1>4. s \in A
  BY DEF A
<1>5. PICK iter : StagedBy(iter, s, stage, A)
  BY <1>1, <1>2, <1>3, <1>4, StageIsFolded
<1>6. PICK rest : StagedBy(rest, s, << >>, A)
  BY <1>1, <1>2, <1>4, StageIsFolded
<1>7. Staged(s, stage) = AutoInject(s, scenario)
  <2>1. Staged(s, stage) = iter[{1}] /\ iter[{}] = s
    BY <1>2, <1>5 DEF StagedBy
  <2>2. \E x \in {1} : iter[{1}] = AutoInject(iter[{1} \ {x}], stage[x])
    BY <1>2, <1>5 DEF StagedBy
  <2>3. iter[{1}] = AutoInject(iter[{1} \ {1}], stage[1])
    BY <2>2
  <2>4. {1} \ {1} = {}
    OBVIOUS
  <2> QED
    BY <1>2, <2>1, <2>3, <2>4
<1>8. Staged(s, << >>) = s
  BY <1>2, <1>6 DEF StagedBy
<1> QED
  BY <1>7, <1>8 DEF stage

\* A stage of failures sets nothing on fire.
LEMMA FailuresLightNothing ==
    ASSUME NEW g, IsPlan(g), NEW s \in Built(g),
           NEW stage \in Seq(Scenarios), \A i \in DOMAIN stage : stage[i] \in Failures
    PROVE  Staged(s, stage).fires = s.fires
<1> DEFINE A == {t \in Built(g) : t.fires = s.fires}
<1>1. s \in A
  OBVIOUS
<1>2. ASSUME NEW t \in A, NEW scenario \in Failures PROVE AutoInject(t, scenario) \in A
  <2>1. scenario \in Scenarios
    BY DEF Scenarios, Failures
  <2>2. AutoInject(t, scenario) \in Built(g)
    BY <2>1, AutoInjectIn
  <2>3. t \in Sims(g) /\ t.graph = g /\ t.fires = s.fires
    BY SimTypes DEF Built
  <2>4. CASE Upstairs(g) = {}
    BY <2>3, <2>4 DEF AutoInject
  <2>5. CASE Upstairs(g) # {}
    <3> DEFINE x == IdAt(g, Cardinality(DOMAIN s.fires) % Cardinality(Upstairs(g)))
    <3>1. AutoInject(t, scenario) = InjectHazard(t, x, scenario)
      BY <2>3, <2>5 DEF AutoInject, IdAt
    <3> HIDE DEF x
    <3>2. AutoInject(t, scenario).fires = s.fires
      BY <2>3, <3>1, InjectHits
    <3> QED
      BY <2>2, <3>2
  <2> QED
    BY <2>4, <2>5
<1> HIDE DEF A
<1>3. \A i \in DOMAIN stage : \A t \in A : AutoInject(t, stage[i]) \in A
  BY <1>2
<1>4. PICK iter : StagedBy(iter, s, stage, A)
  BY <1>1, <1>3, StageIsFolded
<1>5. Staged(s, stage) \in A
  BY <1>4 DEF StagedBy
<1> QED
  BY <1>5 DEF A

\* How many sensors burn when k stages are over.
Lit(g, k) == AtMost(Clamped(k - 1, 0, 3), Cardinality(Upstairs(g)))

After(s, k) == Burns(s, Lit(s.graph, k))

LEMMA LitIs ==
    ASSUME NEW g, IsPlan(g)
    PROVE  /\ \A k \in 0 .. 6 : Lit(g, k) \in 0 .. Cardinality(Upstairs(g))
           /\ \A k \in 1 .. 3 : Lit(g, k + 1) = AtMost(Lit(g, k) + 1, Cardinality(Upstairs(g)))
           /\ Lit(g, 0) = 0 /\ Lit(g, 1) = 0 /\ Lit(g, 5) = Lit(g, 4) /\ Lit(g, 6) = Lit(g, 4)
<1>1. Cardinality(Upstairs(g)) \in Nat
  BY UpstairsFacts
<1> QED
  BY <1>1 DEF Lit, AtMost, Clamped

LEMMA StagesOne ==
    /\ Stages[1] = << >> /\ Stages[2] = <<"slow_smolder">> /\ Stages[3] = <<"slow_smolder">>
    /\ Stages[4] = <<"flashover">>
    /\ Stages[5] = <<"comm_failure", "comm_failure", "comm_failure">>
    /\ Stages[6] = <<"sensor_failure", "sensor_failure">>
BY DEF Stages

LEMMA StageSpreads ==
    ASSUME NEW g, IsPlan(g), NEW s \in Built(g), NEW k \in 0 .. 5, After(s, k)
    PROVE  After(Staged(s, Stages[k + 1]), k + 1)
<1> DEFINE t == Staged(s, Stages[k + 1])
<1>1. s.graph = g /\ Burns(s, Lit(g, k))
  BY SimTypes DEF Built, After
<1>2. Stages[k + 1] \in Seq(Scenarios)
  <2>1. k + 1 \in 1 .. 6
    OBVIOUS
  <2>2. DOMAIN Stages = 1 .. Len(Stages) /\ \A i \in DOMAIN Stages : Stages[i] \in Seq(Scenarios)
    BY StagesAre, PlacesAreFinite
  <2>3. Len(Stages) = 6
    BY StagesAre
  <2> QED
    BY <2>1, <2>2, <2>3
<1>3. t \in Built(g)
  BY <1>2, StagedIn
<1>4. t.graph = g
  BY <1>3, SimTypes DEF Built
<1> HIDE DEF t
<1>5. CASE k = 0
  <2>1. k + 1 = 1 /\ "none" \in Scenarios
    BY <1>5 DEF Scenarios
  <2>2. t = s
    BY <2>1, StagesOne, StagedOnce DEF t
  <2> QED
    BY <1>1, <1>5, <2>1, <2>2, LitIs DEF After, t
<1>6. CASE k \in 1 .. 3
  <2>1. PICK scenario \in {"slow_smolder", "flashover"} : Stages[k + 1] = <<scenario>>
    <3>1. k = 1 \/ k = 2 \/ k = 3
      BY <1>6
    <3> QED
      BY <3>1, StagesOne
  <2>2. scenario \in Scenarios
    BY DEF Scenarios
  <2>3. t = AutoInject(s, scenario)
    BY <2>1, <2>2, StagedOnce DEF t
  <2>4. Lit(g, k) \in 0 .. Cardinality(Upstairs(g))
        /\ Lit(g, k + 1) = AtMost(Lit(g, k) + 1, Cardinality(Upstairs(g)))
    BY <1>6, LitIs
  <2>5. Burns(t, AtMost(Lit(g, k) + 1, Cardinality(Upstairs(g))))
    BY <1>1, <2>3, <2>4, FireSpreads
  <2> QED
    BY <1>1, <1>4, <2>4, <2>5 DEF After, t
<1>7. CASE k \in {4, 5}
  <2> DEFINE stage == Stages[k + 1]
  <2>1. \A i \in DOMAIN stage : stage[i] \in Failures
    <3>1. CASE k = 4
      <4>1. stage = <<"comm_failure", "comm_failure", "comm_failure">>
        BY <3>1, StagesOne
      <4> HIDE DEF stage
      <4>2. DOMAIN stage = 1 .. 3
        BY <4>1
      <4> QED
        BY <4>1, <4>2 DEF Failures
    <3>2. CASE k = 5
      <4>1. stage = <<"sensor_failure", "sensor_failure">>
        BY <3>2, StagesOne
      <4> HIDE DEF stage
      <4>2. DOMAIN stage = 1 .. 2
        BY <4>1
      <4> QED
        BY <4>1, <4>2 DEF Failures
    <3> QED
      BY <1>7, <3>1, <3>2
  <2> HIDE DEF stage
  <2>2. t.fires = s.fires
    <3>1. stage \in Seq(Scenarios)
      BY <1>2 DEF stage
    <3>2. Staged(s, stage).fires = s.fires
      BY <1>1, <2>1, <3>1, FailuresLightNothing
    <3> QED
      BY <3>2 DEF t, stage
  <2>3. Lit(g, k + 1) = Lit(g, k)
    <3>1. k = 4 \/ k = 5
      BY <1>7
    <3> QED
      BY <3>1, LitIs
  <2>4. Burns(t, Lit(g, k + 1))
    BY <1>1, <1>4, <2>2, <2>3 DEF Burns
  <2> QED
    BY <1>4, <2>4 DEF After, t
<1> QED
  BY <1>5, <1>6, <1>7

\* What is left of the demo are its last stages, and the simulation is that after the others.
Spreading ==
    sim # NoSim /\ played # Spoilt =>
        /\ After(sim, played)
        /\ \A i \in DOMAIN demo : demo[i] = Stages[played + i]

LEMMA SpreadingInit == Init => Spreading
BY DEF Init, Spreading

\* A building that was just loaded or reset.
LEMMA NewIsUnlit ==
    ASSUME NEW g, IsPlan(g)
    PROVE  After(NewSim(g), 0)
<1> DEFINE s == NewSim(g)
<1>1. s.graph = g /\ s.fires = << >>
  BY NewSimIs
<1> HIDE DEF s
<1>2. DOMAIN << >> = {} /\ Cardinality({}) = 0
  BY NothingBurns, FS_EmptySet
<1>3. {IdAt(g, i) : i \in 0 .. 0 - 1} = {}
  OBVIOUS
<1>4. Burns(s, Lit(g, 0))
  BY <1>1, <1>2, <1>3, LitIs DEF Burns
<1> QED
  BY <1>1, <1>4 DEF After, s

LEMMA SpreadingNext == Inv /\ Spreading /\ [Next]_vars => Spreading'
<1> SUFFICES ASSUME Inv, Spreading, [Next]_vars, sim' # NoSim, played' # Spoilt
             PROVE  /\ After(sim', played')
                    /\ \A i \in DOMAIN demo' : demo'[i] = Stages[played' + i]
  BY DEF Spreading, Spoilt
<1>1. CASE UNCHANGED <<sim, demo, played>>
  BY <1>1 DEF Spreading
<1>2. CASE Load
  <2>1. sim = NoSim /\ sim' = NewSim(PlaceNodes(LoadBuildingDef)) /\ UNCHANGED <<demo, played>>
    BY <1>2 DEF Load, LoadGraph
  <2>2. played' = 0 /\ demo' = << >>
    BY <2>1 DEF Inv, Staging
  <2>3. After(sim', 0)
    BY <2>1, CachedDef, PlaceNodesIn, NewIsUnlit
  <2> QED
    BY <2>2, <2>3
<1>3. CASE TickSim
  <2>1. PICK dt \in Dts : /\ sim # NoSim /\ UNCHANGED <<demo, played>>
                          /\ sim' = [sim EXCEPT !.hazard = DiffuseHazard(sim, dt)]
    BY <1>3 DEF TickSim
  <2>2. PICK g : sim \in Sims(g)
    BY <2>1, LoadedSim
  <2>3. sim'.graph = sim.graph /\ sim'.fires = sim.fires
    <3>1. PICK f, n, c, sc, h : sim = [graph |-> g, fires |-> f, noSensor |-> n, noComm |-> c,
                                       scenario |-> sc, hazard |-> h]
      BY <2>2, SimTypes
    <3> QED
      BY <2>1, <3>1
  <2>4. After(sim, played) => After(sim', played')
    BY <2>1, <2>3 DEF After, Burns
  <2> QED
    BY <2>1, <2>4 DEF Spreading
<1>4. CASE Inject
  BY <1>4 DEF Inject
<1>5. CASE Reset \/ RunDemo
  <2>1. sim # NoSim /\ sim' = ResetSim(sim) /\ demo' \in {<< >>, Stages} /\ played' = 0
    BY <1>5 DEF Reset, RunDemo
  <2>2. After(sim', 0)
    BY <2>1, LoadedSim, ResetIsNew, NewIsUnlit
  <2>3. DOMAIN << >> = {} /\ \A i \in DOMAIN Stages : i \in Nat /\ 0 + i = i
    BY StagesAre
  <2> QED
    BY <2>1, <2>2, <2>3
<1>6. CASE DemoStage
  <2> DEFINE k == played
  <2>1. /\ demo # << >> /\ sim' = Staged(sim, Head(demo)) /\ demo' = Tail(demo)
        /\ played' = IF played = Spoilt THEN Spoilt ELSE played + 1
    BY <1>6 DEF DemoStage, Staged
  <2>2. k # Spoilt /\ played' = k + 1
    BY <2>1
  <2>3. sim # NoSim /\ demo \in Seq(Seq(Scenarios)) /\ Len(demo) = 6 - k /\ k \in 0 .. 5
    <3>1. /\ sim # NoSim /\ demo \in Seq(Seq(Scenarios)) /\ k \in 0 .. 7
          /\ k = 6 - Len(demo)
      BY <2>1, <2>2, NoDemo, StagesAre DEF Inv, Staging
    <3>2. Len(demo) \in Nat /\ Len(demo) # 0
      BY <2>1, <3>1
    <3> QED
      BY <3>1, <3>2
  <2>4. After(sim, k) /\ \A i \in 1 .. 6 - k : demo[i] = Stages[k + i]
    BY <2>2, <2>3 DEF Spreading
  <2>5. \A i \in DOMAIN demo' : demo'[i] = Stages[(k + 1) + i]
    <3> SUFFICES ASSUME NEW i \in DOMAIN demo' PROVE demo'[i] = Stages[(k + 1) + i]
      OBVIOUS
    <3>1. i \in 1 .. 6 - (k + 1) /\ demo'[i] = demo[i + 1]
      BY <2>1, <2>3
    <3>2. i + 1 \in 1 .. 6 - k /\ (k + 1) + i = k + (i + 1)
      BY <2>3, <3>1
    <3> QED
      BY <2>4, <3>1, <3>2
  <2>6. Head(demo) = Stages[k + 1]
    <3>1. 1 \in 1 .. 6 - k
      BY <2>3
    <3> QED
      BY <2>1, <2>3, <2>4, <3>1
  <2>7. After(sim', k + 1)
    BY <2>1, <2>3, <2>4, <2>6, LoadedSim, StageSpreads
  <2> QED
    BY <2>2, <2>5, <2>7
<1> QED
  BY <1>1, <1>2, <1>3, <1>4, <1>5, <1>6 DEF Next, Edit, GetGraph, vars

\* As long as no client injects, the demo sets a different sensor upstairs on fire in each
\* of its fire stages, until all burn, and no other stage and no tick lights or puts out one.
THEOREM DemoIsSpread == Spec => []DemoSpreads
<1>1. Inv /\ Spreading => DemoSpreads
  <2> SUFFICES ASSUME Inv, Spreading, sim # NoSim, played # Spoilt
               PROVE  DemoSpreads
    BY DEF DemoSpreads
  <2> DEFINE g == sim.graph
  <2>1. IsPlan(g)
    BY LoadedSim
  <2>2. Burns(sim, Lit(g, played))
    BY DEF Spreading, After
  <2>3. Cardinality(DOMAIN sim.fires) = Lit(g, played)
    BY <2>2 DEF Burns
  <2> QED
    BY <2>1, <2>3, AsManyNodes DEF DemoSpreads, Lit
<1>2. Init => Inv /\ Spreading
  BY InitInv, SpreadingInit
<1>3. Inv /\ Spreading /\ [Next]_vars => Inv' /\ Spreading'
  BY NextInv, SpreadingNext
<1> QED
  BY <1>1, <1>2, <1>3, PTL DEF Spec
=============================================================================
