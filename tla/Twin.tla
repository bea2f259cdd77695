------------------------------- MODULE Twin -------------------------------
(***************************************************************************)
(* The digital twin of one building: the loader and its cache              *)
(* (backend/building_loader.py), the simulation (backend/engine.py) and    *)
(* what main.py does to it: requests, injections, resets, the stages of    *)
(* the demo, ticks.  Each is one step, since none of them awaits; how they *)
(* interleave with broadcasts is the matter of TickLoop.                   *)
(*                                                                         *)
(* Hazards are per cent, rounded down.  A tick is as long as one of Dts,   *)
(* in tenths of the engine's unit: 8 after the loop's sleep of 0.2 s, 20   *)
(* where tick_sim caps the time that passed.  Counters of packets are      *)
(* random numbers and left out.                                            *)
(***************************************************************************)
EXTENDS Placement, Paths, Costing

CONSTANTS Defs,        \* what building.json may hold
          Cols, Rows,  \* hazardGrid
          Dts,         \* the lengths of a tick: ten times dt in diffuse_hazard
          Injections,  \* the <<node, scenario>> that clients ask for
          MaxOrigins,  \* 8: the routes of a snapshot
          MaxSteps     \* bound: ticks and injections

\* What the code asks of building.json and of its callers without looking.
ASSUME TwinAssumption ==
    /\ Defs \subseteq BuildingDef
    /\ \A def \in Defs : /\ def.floors # << >>
                         /\ \A f \in ToSet(def.floors) : f.width > 0 /\ f.depth > 0
                         /\ WellPlaced(PlaceNodes(def))
    /\ Dts \subseteq Nat \ {0} /\ IsFiniteSet(Dts) /\ Dts # {}
    /\ {Cols, Rows, MaxOrigins, MaxSteps} \subseteq Nat \ {0}

VARIABLES
    file,   \* building.json
    cache,  \* _cache of the loader
    sim,    \* SimState of the building, once it was asked for
    demo,   \* _auto_demo: the stages that are left
    snap,   \* the latest Snapshot
    steps,  \* how many ticks and injections there were
    calm,   \* ghost: nothing was injected since the building was loaded or reset
    played, \* ghost: the stages of the demo since then, Spoilt if a client injected
    pace    \* ghost: the length of the last tick, Never once a tick was shorter than
            \*   the one before or a fire gave way to a slower one

vars == <<file, cache, sim, demo, snap, steps, calm, played, pace>>

NoDef  == [cache |-> "empty"]
NoSim  == [scenario |-> "no sim"]
NoSnap == [status |-> "no snapshot"]

----------------------------------------------------------------------------
(* building_loader.py *)

\* Mutant: the cache is never looked at.
LoadBuildingDefAgain == file

\* load_building_def: what was read once is never read again.
LoadBuildingDef == IF cache # NoDef THEN cache ELSE file

\* graph_service.load_graph
LoadGraph == PlaceNodes(LoadBuildingDef)

----------------------------------------------------------------------------
(* The grid of a floor. *)

Full   == 100
Cells  == 0 .. Cols * Rows - 1

\* _node_grid_cell, with the size of the node's own floor.
GridCell(graph, node) ==
    LET known == {k \in DOMAIN graph.floors : graph.floors[k].index = node.floor}
    IN  IF known = {} THEN 0
        ELSE LET f == graph.floors[Min(known)]
             IN  Clamped(((node.position.x + f.width) * Cols) \div (2 * f.width), 0, Cols - 1)
                 + Cols * Clamped(((node.position.z + f.depth) * Rows) \div (2 * f.depth),
                                  0, Rows - 1)

Floors(graph) == {f.index : f \in ToSet(graph.floors)}

\* node_hazard
NodeHazard(s, node) ==
    IF node.floor \in Floors(s.graph)
    THEN s.hazard[node.floor][GridCell(s.graph, node)] ELSE 0

\* The mean of a cell, four times, and its neighbours; two per cent more per unit of dt.
Blurred(h, dt) ==
    [i \in Cells |->
        LET c    == i % Cols
            r    == i \div Cols
            near == {j \in Cells : \/ j \in {i - 1, i + 1} /\ j \div Cols = r
                                   \/ j \in {i - Cols, i + Cols}}
        IN  AtMost(Full, ((4 * h[i] + MapThenSumSet(LAMBDA k : h[k], near)) * (500 + dt))
                              \div (500 * (4 + Cardinality(near))))]

\* Ten times the distance of two cells, rounded down.
Gap(i, j) ==
    LET dr == (i \div Cols) - (j \div Cols)
        dc == (i % Cols) - (j % Cols)
    IN  CHOOSE d \in 0 .. 10 * (Cols + Rows) :
            d * d <= 100 * (dr * dr + dc * dc) /\ 100 * (dr * dr + dc * dc) < (d + 1) * (d + 1)

\* How fast a fire grows, in per cent per unit of dt.
Growth(scenario) ==
    CASE scenario = "flashover"    -> 35
      [] scenario = "slow_smolder" -> 5
      [] OTHER                     -> 15

\* Mutant: the sum is not capped.
HeatedUncapped(h, o, scenario, dt) ==
    [i \in Cells |-> IF Gap(i, o) > 20 THEN h[i]
                     ELSE h[i] + (15 * dt * (30 - Gap(i, o))) \div 300]

\* What a fire at cell o adds to its surroundings.
Heated(h, o, scenario, dt) ==
    LET radius == IF scenario = "flashover" THEN 3 ELSE 2
    IN  [i \in Cells |->
            IF Gap(i, o) > 10 * radius THEN h[i]
            ELSE AtMost(Full, h[i] + (Growth(scenario) * dt * (10 * (radius + 1) - Gap(i, o)))
                                         \div (100 * (radius + 1)))]

\* Mutant: every fire heats the ground floor.
DiffuseHazardBelow(s, dt) ==
    LET blurred == [f \in DOMAIN s.hazard |-> Blurred(s.hazard[f], dt)]
        Heat(hazard, id) ==
            LET n == NodeOf(s.graph, id)
            IN  [hazard EXCEPT ![0] = Heated(@, GridCell(s.graph, n), s.fires[id], dt)]
    IN  FoldSet(LAMBDA id, hazard : Heat(hazard, id), blurred,
                {id \in DOMAIN s.fires \cap NodeIds(s.graph) :
                    NodeOf(s.graph, id).floor \in Floors(s.graph)})

\* Mutant: the loop over the fires ends after the first that heats.
DiffuseHazardOnce(s, dt) ==
    LET blurred == [f \in DOMAIN s.hazard |-> Blurred(s.hazard[f], dt)]
        lit     == {id \in DOMAIN s.fires \cap NodeIds(s.graph) :
                        NodeOf(s.graph, id).floor \in Floors(s.graph)}
    IN  IF lit = {} THEN blurred
        ELSE LET id == CHOOSE id \in lit : TRUE
                 n  == NodeOf(s.graph, id)
             IN  [blurred EXCEPT ![n.floor] = Heated(@, GridCell(s.graph, n), s.fires[id], dt)]

\* diffuse_hazard; fires at unknown nodes heat nothing.
DiffuseHazard(s, dt) ==
    LET blurred == [f \in DOMAIN s.hazard |-> Blurred(s.hazard[f], dt)]
        Heat(hazard, id) ==
            LET n == NodeOf(s.graph, id)
            IN  [hazard EXCEPT ![n.floor] = Heated(@, GridCell(s.graph, n), s.fires[id], dt)]
    IN  FoldSet(LAMBDA id, hazard : Heat(hazard, id), blurred,
                {id \in DOMAIN s.fires \cap NodeIds(s.graph) :
                    NodeOf(s.graph, id).floor \in Floors(s.graph)})

----------------------------------------------------------------------------
(* Costs, in thousandths of half a metre. *)

\* compute_occupants, with 100 in the building.
Occupants(s, node) ==
    LET base == IF node.kind = "hallway" THEN 2 ELSE 3
    IN  IF node.kind = "exit" THEN 0
        ELSE base - Rounded(NodeHazard(s, node) * base, Full)

\* compute_edge_cost, at 22 + 3.8 degrees and 1.2 per cent of smoke per per cent of
\* hazard: the worse hazard of both ends; it burns if that is a flame and
\* a sensor at either end works.
EdgeCost(s, a, b) ==
    LET h    == Max({NodeHazard(s, a), NodeHazard(s, b)})
        occ  == Max({Occupants(s, a), Occupants(s, b)})
        cost == Distance(a, b) * (Exp[HazardExponent(220 + 38 * h, 12 * h)] + 50 * occ)
    IN  IF cost > 0 /\ h > 75 /\ ~ {a.id, b.id} \subseteq s.noSensor THEN BlockedCost ELSE cost

Costs(s) ==
    [l \in Links(s.graph) |-> EdgeCost(s, NodeOf(s.graph, l[1]), NodeOf(s.graph, l[2]))]

----------------------------------------------------------------------------
(* The snapshot of a simulation. *)

\* models.py; smoke and co follow the temperature.
NodeState == [online : BOOLEAN, temperature : Nat, smoke : 0 .. Full, flameDetected : BOOLEAN,
              occupants : 0 .. 3, nextHop : NodeId \cup {Nowhere}, sensorOk : BOOLEAN,
              failoverTier : {"isolated", "tertiary", "secondary", "primary"}]
EvacRoute == Seq(NodeId)
Scenarios == {"none", "slow_smolder", "flashover", "comm_failure", "sensor_failure"}
                 \cup {hit[2] : hit \in Injections}
Status    == {"NORMAL", "FIRE_DETECTED", "EVACUATION_ACTIVE", "SHELTER_IN_PLACE", "NO_SAFE_EXIT"}
Snapshot(graph) ==
    [status : Status, scenario : Scenarios, nodes : [NodeIds(graph) -> NodeState],
     hazard : [Floors(graph) -> [Cells -> 0 .. Full]], routes : SUBSET EvacRoute,
     activeFireNodes : SUBSET NodeIds(graph)]

\* Where Dijkstra's algorithm from a node leads: prev, and the exit.
Search(s, costs, id) ==
    LET run == Dijkstra(NodeIds(s.graph), costs, id)
    IN  [prev |-> run.prev, exit |-> NearestExit(run.dist, ExitsOf(s.graph), ShelterThreshold)]

\* compute_next_hop
ComputeNextHop(s, costs, node) ==
    LET found == Search(s, costs, node.id)
    IN  IF node.kind = "exit" THEN Nowhere ELSE NextHop(found.prev, node.id, found.exit)

BuildNodeState(s, costs, n) ==
    LET h  == NodeHazard(s, n)
        ok == n.id \notin s.noSensor
        on == n.id \notin s.noComm
    IN  [online        |-> on,
         temperature   |-> IF ok THEN 220 + 38 * h ELSE 0,
         smoke         |-> IF ok THEN AtMost(Full, (12 * h) \div 10) ELSE 0,
         flameDetected |-> h > 75 /\ ok,
         occupants     |-> Occupants(s, n),
         nextHop       |-> ComputeNextHop(s, costs, n),
         sensorOk      |-> ok,
         failoverTier  |-> IF ~ on THEN "isolated" ELSE IF ~ ok THEN "tertiary"
                           ELSE IF h > 60 THEN "secondary" ELSE "primary"]

\* build_node_states
BuildNodeStates(s, costs) ==
    [id \in NodeIds(s.graph) |-> BuildNodeState(s, costs, NodeOf(s.graph, id))]

\* The first MaxOrigins nodes above the ground floor that are no exits.
Origins(graph) ==
    LET all == {i \in DOMAIN graph.nodes : graph.nodes[i].floor > 0 /\ graph.nodes[i].kind # "exit"}
    IN  {graph.nodes[i] : i \in {j \in all : Cardinality({k \in all : k <= j}) <= MaxOrigins}}

\* Mutant: costs as they were when the building was loaded.
BuildRoutesStale(s, costs) ==
    LET calmCosts == Costs([s EXCEPT !.hazard = [f \in DOMAIN @ |-> [i \in Cells |-> 0]]])
        Path(n)   == LET found == Search(s, calmCosts, n.id)
                     IN  ExtractPath(found.prev, found.exit)
    IN  {path \in {Path(n) : n \in Origins(s.graph)} : Len(path) > 1}

\* build_routes; their order, which is that of the origins, is left out.
BuildRoutes(s, costs) ==
    LET Path(n) == LET found == Search(s, costs, n.id) IN ExtractPath(found.prev, found.exit)
    IN  {path \in {Path(n) : n \in Origins(s.graph)} : Len(path) > 1}

\* compute_status
ComputeStatus(nodes) ==
    LET flames   == Cardinality({id \in DOMAIN nodes : nodes[id].flameDetected})
        isolated == Cardinality({id \in DOMAIN nodes : ~ nodes[id].online})
    IN  CASE flames > 6                                     -> "NO_SAFE_EXIT"
          [] flames \in 1 .. 6 /\ isolated > 4              -> "SHELTER_IN_PLACE"
          [] flames \in 1 .. 6 /\ isolated <= 4             -> "EVACUATION_ACTIVE"
          [] flames = 0 /\ \E id \in DOMAIN nodes : nodes[id].smoke > 40 -> "FIRE_DETECTED"
          [] OTHER                                          -> "NORMAL"

\* What tick_sim returns.
SnapshotOf(s) ==
    LET costs == Costs(s)
        nodes == BuildNodeStates(s, costs)
    IN  [status |-> ComputeStatus(nodes), scenario |-> s.scenario, nodes |-> nodes,
         hazard |-> s.hazard, routes |-> BuildRoutes(s, costs),
         activeFireNodes |-> {id \in DOMAIN nodes : nodes[id].flameDetected}]

----------------------------------------------------------------------------
(* What is done to a simulation. *)

\* SimState.__init__
NewSim(graph) ==
    [graph |-> graph, fires |-> << >>, noSensor |-> {}, noComm |-> {}, scenario |-> "none",
     hazard |-> [f \in Floors(graph) |-> [i \in Cells |-> 0]]]

\* inject_hazard: neither the node nor the scenario is checked.
InjectHazard(s, id, scenario) ==
    CASE scenario = "sensor_failure" ->
            [s EXCEPT !.scenario = scenario, !.noSensor = @ \cup {id}]
      [] scenario = "comm_failure" ->
            [s EXCEPT !.scenario = scenario, !.noComm = @ \cup {id}]
      [] OTHER ->
            [s EXCEPT !.scenario = scenario,
                      !.fires = [f \in DOMAIN @ \cup {id} |-> IF f = id THEN scenario ELSE @[f]]]

\* Mutant: the failures of nodes outlive the reset.
ResetSimKeepsFailures(s) ==
    [s EXCEPT !.fires = << >>, !.scenario = "none",
              !.hazard = [f \in DOMAIN @ |-> [i \in Cells |-> 0]]]

\* reset_sim
ResetSim(s) ==
    [s EXCEPT !.fires = << >>, !.noSensor = {}, !.noComm = {}, !.scenario = "none",
              !.hazard = [f \in DOMAIN @ |-> [i \in Cells |-> 0]]]

\* The places in the list of the sensors above the ground floor.
Upstairs(graph) ==
    {k \in DOMAIN graph.nodes : graph.nodes[k].kind = "sensor" /\ graph.nodes[k].floor > 0}

\* The one with i others before it.
Ranked(places, i) == CHOOSE k \in places : Cardinality({j \in places : j < k}) = i

\* Mutant: the node is chosen by the failures.
AutoInjectByFailures(s, scenario) ==
    LET places == Upstairs(s.graph)
        i      == Cardinality(s.noComm) % Cardinality(places)
    IN  IF places = {} THEN s
        ELSE InjectHazard(s, s.graph.nodes[Ranked(places, i)].id, scenario)

\* _auto_inject: the node is chosen by the number of fires.
AutoInject(s, scenario) ==
    LET places == Upstairs(s.graph)
        i      == Cardinality(DOMAIN s.fires) % Cardinality(places)
    IN  IF places = {} THEN s
        ELSE InjectHazard(s, s.graph.nodes[Ranked(places, i)].id, scenario)

\* The stages of _auto_demo: what each injects.
Stages ==
    << << >>, <<"slow_smolder">>, <<"slow_smolder">>, <<"flashover">>,
       <<"comm_failure", "comm_failure", "comm_failure">>,
       <<"sensor_failure", "sensor_failure">> >>

Spoilt == Len(Stages) + 1
Never  == Max(Dts) + 1

\* A fire of s is out in t, or grows less.
Slower(s, t) ==
    \E id \in DOMAIN s.fires :
        id \in DOMAIN t.fires => Growth(t.fires[id]) < Growth(s.fires[id])

----------------------------------------------------------------------------
Init ==
    /\ file \in Defs
    /\ cache = NoDef
    /\ sim = NoSim
    /\ demo = << >>
    /\ snap = NoSnap
    /\ steps = 0
    /\ calm = TRUE
    /\ played = 0
    /\ pace = 0

\* building.json is replaced, by a deployment beside the running server.
Edit ==
    /\ steps < MaxSteps
    /\ \E def \in Defs \ {file} : file' = def
    /\ UNCHANGED <<cache, sim, demo, snap, steps, calm, played, pace>>

\* _get_state of a building that nobody asked for before.
Load ==
    /\ sim = NoSim
    /\ cache' = LoadBuildingDef
    /\ sim' = NewSim(LoadGraph)
    /\ UNCHANGED <<file, demo, snap, steps, calm, played, pace>>

\* GET /api/graph: a graph of its own, which nothing keeps.
GetGraph ==
    /\ cache' = LoadBuildingDef
    /\ UNCHANGED <<file, sim, demo, snap, steps, calm, played, pace>>

\* tick_sim, after any of the times that may pass between two.
TickSim ==
    /\ sim # NoSim
    /\ steps < MaxSteps
    /\ \E dt \in Dts :
         /\ sim' = [sim EXCEPT !.hazard = DiffuseHazard(sim, dt)]
         /\ pace' = IF pace <= dt THEN dt ELSE Never
    /\ snap' = SnapshotOf(sim')
    /\ steps' = steps + 1
    /\ UNCHANGED <<file, cache, demo, calm, played>>

\* A client injects; by POST it also ends the demo, over its WebSocket it does not.
Inject ==
    /\ sim # NoSim
    /\ steps < MaxSteps
    /\ steps' = steps + 1
    /\ \E hit \in Injections : sim' = InjectHazard(sim, hit[1], hit[2])
    /\ demo' \in {demo, << >>}
    /\ calm' = FALSE
    /\ played' = Spoilt
    /\ pace' = IF Slower(sim, sim') THEN Never ELSE pace
    /\ UNCHANGED <<file, cache, snap>>

\* POST /api/reset, which also clears the store and ends the demo.
Reset ==
    /\ sim # NoSim
    /\ sim' = ResetSim(sim)
    /\ demo' = << >>
    /\ snap' = NoSnap
    /\ calm' = TRUE
    /\ played' = 0
    /\ pace' = 0
    /\ UNCHANGED <<file, cache, steps>>

\* POST /api/demo
RunDemo ==
    /\ sim # NoSim
    /\ sim' = ResetSim(sim)
    /\ demo' = Stages
    /\ snap' = NoSnap
    /\ calm' = TRUE
    /\ played' = 0
    /\ pace' = 0
    /\ UNCHANGED <<file, cache, steps>>

\* _auto_demo reaches its next stage.
DemoStage ==
    /\ demo # << >>
    /\ sim' = FoldSeq(LAMBDA scenario, s : AutoInject(s, scenario), sim, Head(demo))
    /\ demo' = Tail(demo)
    /\ calm' = (calm /\ sim' = sim)
    /\ played' = IF played = Spoilt THEN Spoilt ELSE played + 1
    /\ pace' = IF Slower(sim, sim') THEN Never ELSE pace
    /\ UNCHANGED <<file, cache, snap, steps>>

Next == Edit \/ Load \/ GetGraph \/ TickSim \/ Inject \/ Reset \/ RunDemo \/ DemoStage

Spec == Init /\ [][Next]_vars

----------------------------------------------------------------------------
(* Properties. *)

TypeOK ==
    /\ file \in Defs
    /\ cache \in Defs \cup {NoDef}
    /\ sim # NoSim =>
         /\ sim.graph \in BuildingGraph
         /\ sim.hazard \in [Floors(sim.graph) -> [Cells -> 0 .. Full]]
         /\ sim.noSensor \cup sim.noComm \cup DOMAIN sim.fires \subseteq
                NodeIds(sim.graph) \cup {hit[1] : hit \in Injections}
    /\ Len(demo) <= Len(Stages)
    /\ played \in 0 .. Spoilt
    /\ pace \in Dts \cup {0, Never}
    /\ snap # NoSnap => snap \in Snapshot(sim.graph)
    /\ steps \in 0 .. MaxSteps

\* Placement keeps the plan: the rooms at the ends of a corridor are joined through
\* nothing but that corridor's waypoints, and every edge joins two nodes
\* (node_placer.py: edges are made per waypoint, from both sides).
PlanIsConnected ==
    LET graph == PlaceNodes(file)
        Own(c) == {<<"n", c.fromRoom>>, <<"n", c.toRoom>>}
                      \cup {Junction(c, j) : j \in 0 .. Len(c.junctionPoints) - 1}
    IN  /\ \A l \in Links(graph) : l[1] \in NodeIds(graph)
        /\ \A c \in ToSet(file.corridors) :
             None \notin {NodeForRoom(file, c.fromRoom), NodeForRoom(file, c.toRoom)} =>
                 <<"n", c.toRoom>> \in
                     ReachedOver({l \in Links(graph) : {l[1], l[2]} \subseteq Own(c)},
                                 <<"n", c.fromRoom>>)

\* The graph a client is given is the one that is simulated, even when the file
\* changed since the building was loaded, and the numbers of its nodes lead back to
\* them (building_loader.py:_cache; graph_service.py).
GraphsAgree ==
    sim # NoSim =>
        /\ LoadGraph = sim.graph
        /\ \A id \in NodeIds(sim.graph) : StringId(NumericId(id, sim.graph), sim.graph) = id

\* The parts of a snapshot, which are computed one after the other by searches of
\* their own, fit together: each route leads from an upper floor to an exit over edges
\* of the building, past no node whose flame the snapshot shows, and begins with the
\* next hop of its first node; an origin without a route has no next hop.
RoutesAreSafe ==
    snap # NoSnap =>
        LET routes == snap.routes
        IN  /\ \A p \in routes :
                 /\ p[Len(p)] \in ExitsOf(sim.graph)
                 /\ \A i \in 1 .. Len(p) - 1 : <<p[i], p[i + 1]>> \in Links(sim.graph)
                 /\ \A i \in 1 .. Len(p) : ~ snap.nodes[p[i]].flameDetected
            /\ \A n \in Origins(sim.graph) :
                 LET mine == {p \in routes : p[1] = n.id}
                 IN  snap.nodes[n.id].nextHop = IF mine = {} THEN Nowhere
                                                ELSE (CHOOSE p \in mine : TRUE)[2]

\* A floor on which nothing was set on fire since the reset is cold: heat does not
\* cross floors, no fire burns without its origin, and a reset leaves no embers.
HeatIsLocal ==
    sim # NoSim =>
        \A f \in DOMAIN sim.hazard :
            (\E i \in Cells : sim.hazard[f][i] > 0) =>
                \E n \in ToSet(sim.graph.nodes) : n.floor = f /\ n.id \in DOMAIN sim.fires

\* A reset brings the building back as it was when it was loaded: until something is
\* injected every snapshot is that of a building nothing ever happened to.
ResetRestores ==
    calm /\ snap # NoSnap => snap = SnapshotOf(NewSim(sim.graph))

\* The demo sets as many different sensors on fire as it had fire stages, as far as
\* there are sensors upstairs, and goes on having done so: neither its failures nor the
\* ticks add or take away a fire, as long as no client injects (main.py:_auto_inject
\* counts the fires to choose the next node).
DemoSpreads ==
    sim # NoSim /\ played # Spoilt =>
        LET upstairs == {sim.graph.nodes[k] : k \in Upstairs(sim.graph)}
        IN  Cardinality(DOMAIN sim.fires) =
                AtMost(Clamped(played - 1, 0, 3), Cardinality(upstairs))

\* The last stages of the demo disable the radio of three sensors and the sensor of two,
\* or of as many as there are upstairs (docs/api.md, the table of POST /api/demo).
FailuresSpread ==
    sim # NoSim /\ played \in {Len(Stages) - 1, Len(Stages)} =>
        LET sensors == Cardinality(Upstairs(sim.graph))
        IN  /\ Cardinality(sim.noComm) = AtMost(3, sensors)
            /\ played = Len(Stages) => Cardinality(sim.noSensor) = AtMost(2, sensors)

\* While no tick is shorter than the one before it and no fire gives way to a slower one,
\* the building does not cool anywhere, and a flame that was shown is shown until its
\* sensor fails: diffusion takes no more from a cell than it did when the cell was cooler
\* (engine.py:diffuse_hazard).
FlameStays ==
    [][sim # NoSim /\ pace <= pace' /\ pace' # Never =>
         /\ \A f \in DOMAIN sim.hazard : \A i \in Cells : sim.hazard[f][i] <= sim'.hazard[f][i]
         /\ snap # NoSnap /\ snap' # NoSnap =>
                snap.activeFireNodes \subseteq snap'.activeFireNodes \cup sim.noSensor]_vars
=============================================================================
