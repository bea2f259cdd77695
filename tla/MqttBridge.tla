---------------------------- MODULE MqttBridge ----------------------------
(***************************************************************************)
(* The bridge from the nodes' MQTT messages to the backend                 *)
(* (backend/mqtt_bridge.py) with the heatmap it keeps                      *)
(* (backend/heatmap_service.py).  Its operations run in the receiver's     *)
(* thread, the ticker's and the callers', each under the lock from the     *)
(* first access to the last: one step each.  Temperatures are whole        *)
(* degrees, smoke and hazards thousandths.  When a message was seen, the   *)
(* scenario, the count of checksum failures and what else only a snapshot  *)
(* would show is left out: no snapshot is ever built (see Tick).  So are   *)
(* the listeners, who are never called, and _running and _node_health,     *)
(* which nobody reads.                                                     *)
(***************************************************************************)
EXTENDS Placement, Costing

CONSTANTS Graph,            \* load_graph()
          Messages,         \* what nodes publish, or others on their topics
          Injections,       \* the <<node, scenario>> that callers inject
          FloorCount,       \* 3
          FloorW, FloorD,   \* 40, 28: the size every floor is taken to have
          Cols, Rows,       \* 32, 22
          MaxPackets        \* bound: messages

ASSUME MqttBridgeAssumption ==
    /\ Graph \in BuildingGraph /\ WellPlaced(Graph)
    /\ \A m \in Messages : m.kind = "hazard" =>
           m.node \in Int /\ m.temp \in Int /\ m.smoke \in Nat /\ m.flame \in BOOLEAN
    /\ {FloorCount, FloorW, FloorD, Cols, Rows} \subseteq Nat \ {0}
    /\ MaxPackets \in Nat

VARIABLES
    nodeStates,    \* _node_states
    totalPackets,
    fires,         \* _active_fire_nodes
    status,
    grids,         \* _hazard_grids
    dirty,         \* _heatmap_dirty
    link,          \* external: "up" while the client hears the nodes, "deaf" when it
                   \* does not any more, "off" without a client
    touched        \* ghost: an injection changed a state the grids were made of

data == <<nodeStates, totalPackets, fires, status,
          grids, dirty, touched>>
vars == <<data, link>>

----------------------------------------------------------------------------
(* heatmap_service.py: coordinates in parts of a cell, of a size of its own in
   both directions; weights in millionths. *)

Cells  == 0 .. Cols * Rows - 1
Floors == 0 .. FloorCount - 1
Cold   == [i \in Cells |-> 0]

\* hazards: what the states say of each node, in the order of the list.
Hazards(states) ==
    [k \in DOMAIN Graph.nodes |->
        LET id == Graph.nodes[k].id
        IN  IF id \in DOMAIN states
            THEN Clamped((15 * states[id].temperature + 4 * states[id].smoke) \div 10, 0, 1000)
            ELSE 0]

\* The square of the distance of a cell's centre from a node.
SquareGap(i, n) ==
    LET dx == (((2 * (i % Cols)) + 1) * FloorW - Cols * (FloorW + n.position.x)) * Rows
        dz == (((2 * (i \div Cols)) + 1) * FloorD - Rows * (FloorD + n.position.z)) * Cols
    IN  dx * dx + dz * dz

\* What a node counts in a cell: the inverse square of its distance; in the very
\* centre of the cell, where the code asks no other node, it stands for no number.
Weights ==
    [i \in Cells |-> [k \in DOMAIN Graph.nodes |->
        LET square == SquareGap(i, Graph.nodes[k])
        IN  IF square = 0 THEN -1 ELSE 1000000 \div square]]

\* interpolate_heatmap: the weighted mean of the nodes of the floor; the first one in
\* the very centre of the cell stands alone.
InterpolateHeatmap(hazards, floor) ==
    LET here      == {k \in DOMAIN hazards : Graph.nodes[k].floor = floor}
        Centre(i) == {k \in here : Weights[i][k] = -1}
        Mean(i)   == LET total == MapThenSumSet(LAMBDA k : Weights[i][k], here)
                         heat  == [k \in here |-> hazards[k] * Weights[i][k]]
                     IN  IF total = 0 THEN 0
                         ELSE MapThenSumSet(LAMBDA k : heat[k], here) \div total
    IN  [i \in Cells |-> IF here = {} THEN 0
                         ELSE IF Centre(i) # {} THEN hazards[Min(Centre(i))] ELSE Mean(i)]

\* diffuse_grid, with dt = 0.5
DiffuseGrid(grid) ==
    LET near(i) == {j \in Cells : \/ j \in {i - 1, i + 1} /\ j \div Cols = i \div Cols
                                  \/ j \in {i - Cols, i + Cols}}
        sum(i)  == 4 * grid[i] + MapThenSumSet(LAMBDA j : grid[j], near(i))
    IN  [i \in DOMAIN grid |->
            AtMost(1000, (sum(i) * 101) \div (100 * (4 + Cardinality(near(i)))))]

\* _recompute_heatmaps
Heatmaps(states) ==
    LET hazards == Hazards(states)
    IN  [f \in Floors |-> DiffuseGrid(InterpolateHeatmap(hazards, f))]

----------------------------------------------------------------------------
(* What is done with a message. *)

\* NodeState; co is the smoke, occupants are always 2 and nextHop None.
NodeState == [online : BOOLEAN, temperature : Int, smoke : 0 .. 1000, flameDetected : BOOLEAN,
              failoverTier : {"isolated", "tertiary", "secondary", "primary"},
              sensorOk : BOOLEAN]

\* The name of a number: an unknown one gets a name that no building promised.
SidOf(number) ==
    LET known == StringId(number, Graph)
    IN  IF known = None THEN <<"n", 0, 0, number % 24>> ELSE known

\* Mutant: smoke above 1000 ppm is not cut off.
ReportedUncut(m) ==
    [online |-> TRUE, temperature |-> m.temp, smoke |-> m.smoke,
     flameDetected |-> m.flame, failoverTier |-> IF m.flame THEN "secondary" ELSE "primary",
     sensorOk |-> TRUE]

Reported(m) ==
    [online |-> TRUE, temperature |-> m.temp, smoke |-> AtMost(1000, m.smoke),
     flameDetected |-> m.flame, failoverTier |-> IF m.flame THEN "secondary" ELSE "primary",
     sensorOk |-> TRUE]

\* Mutant: a fire is listed with every report of it.
AddFireAgain(list, sid) == Append(list, sid)

AddFire(list, sid) == IF sid \in ToSet(list) THEN list ELSE Append(list, sid)

\* The status after a report s, with the states and fires that include it.
StatusAfter(s, states, list) ==
    IF ~ (s.temperature > 60 \/ s.smoke > 600) THEN status
    ELSE IF Len(list) > 3 THEN "SHELTER_IN_PLACE"
    ELSE IF \E n \in DOMAIN states : states[n].flameDetected THEN "EVACUATION_ACTIVE"
    ELSE "FIRE_DETECTED"

\* _handle_hazard
HandleHazard(m) ==
    LET sid == SidOf(m.node)
    IN  /\ nodeStates' = [n \in DOMAIN nodeStates \cup {sid} |->
                             IF n = sid THEN Reported(m) ELSE nodeStates[n]]
        /\ fires' = IF m.flame THEN AddFire(fires, sid) ELSE fires
        /\ status' = StatusAfter(Reported(m), nodeStates', fires')
        /\ dirty' = TRUE

\* _handle_status: a FAULT marks the state, if there is one; nothing unmarks it.
HandleStatus(m) ==
    LET sid == StringId(m.node, Graph)
    IN  /\ nodeStates' = IF m.fault /\ sid \in DOMAIN nodeStates
                         THEN [nodeStates EXCEPT ![sid].sensorOk = FALSE,
                                                 ![sid].failoverTier = "tertiary"]
                         ELSE nodeStates
        /\ UNCHANGED <<fires, status, dirty>>

----------------------------------------------------------------------------
Init ==
    /\ nodeStates = << >>
    /\ totalPackets = 0
    /\ fires = << >>
    /\ status = "NORMAL"
    /\ grids = [f \in Floors |-> Cold]
    /\ dirty = FALSE
    /\ link = "off"
    /\ touched = FALSE

\* start: without a broker the bridge goes on without a client.
Start ==
    /\ link # "up"
    /\ link' \in {"up", link}
    /\ UNCHANGED data

Stop ==
    /\ link' = "off"
    /\ UNCHANGED data

\* The broker is lost.  The client connects again by itself, but nobody subscribes
\* again: it is deaf.
LoseBroker ==
    /\ link = "up"
    /\ link' = "deaf"
    /\ UNCHANGED data

\* _on_mqtt_message.  What is not UTF-8 is dropped unseen, what is no JSON counted.
\* JSON of another shape (no node_id, a list, a temperature that is no number) raises
\* out of the receiver's thread, which ends; the lock is released.
OnMqttMessage(m) ==
    /\ link = "up"
    /\ totalPackets < MaxPackets
    /\ totalPackets' = totalPackets + 1
    /\ CASE m.kind = "hazard" -> HandleHazard(m)
         [] m.kind = "status" -> HandleStatus(m)
         [] OTHER              -> UNCHANGED <<nodeStates, fires, status, dirty>>
    /\ link' = IF m.kind = "misshapen" THEN "deaf" ELSE link
    /\ UNCHANGED <<grids, touched>>

\* tick: the map is drawn again if a report came since and the interval has passed.
\* Then _build_snapshot raises: it gives Snapshot.hazard the floors' numbers as keys,
\* the model wants strings.  Nothing is stored, no listener is called.
Tick ==
    /\ dirty
    /\ grids' = Heatmaps(nodeStates)
    /\ dirty' = FALSE
    /\ touched' = FALSE
    /\ UNCHANGED <<nodeStates, totalPackets, fires, status, link>>

\* Mutant: a lost node is told from its tier alone.
InjectedOnline(s, kind) ==
    CASE kind = "sensor_failure" -> [s EXCEPT !.sensorOk = FALSE, !.failoverTier = "tertiary"]
      [] kind = "comm_failure"   -> [s EXCEPT !.failoverTier = "isolated"]
      [] kind = "flashover"      -> [s EXCEPT !.flameDetected = TRUE, !.temperature = 250,
                                              !.smoke = 900]
      [] OTHER                   -> [s EXCEPT !.flameDetected = TRUE, !.temperature = 80,
                                              !.smoke = 500]

\* What an injection makes of a state.
Injected(s, kind) ==
    CASE kind = "sensor_failure" -> [s EXCEPT !.sensorOk = FALSE, !.failoverTier = "tertiary"]
      [] kind = "comm_failure"   -> [s EXCEPT !.online = FALSE, !.failoverTier = "isolated"]
      [] kind = "flashover"      -> [s EXCEPT !.flameDetected = TRUE, !.temperature = 250,
                                              !.smoke = 900]
      [] OTHER                   -> [s EXCEPT !.flameDetected = TRUE, !.temperature = 80,
                                              !.smoke = 500]

\* inject: a fire is listed whether the node ever reported or not.
Inject(node, kind) ==
    /\ nodeStates' = IF node \in DOMAIN nodeStates
                     THEN [nodeStates EXCEPT ![node] = Injected(@, kind)] ELSE nodeStates
    /\ fires' = IF kind \in {"sensor_failure", "comm_failure"} THEN fires
                ELSE AddFire(fires, node)
    /\ touched' = (touched \/ nodeStates' # nodeStates)
    /\ UNCHANGED <<totalPackets, status, grids, dirty, link>>

\* Mutant: the map is left as it was.
ResetKeepsMap ==
    /\ nodeStates' = << >>
    /\ fires' = << >>
    /\ status' = "NORMAL"
    /\ totalPackets' = 0
    /\ touched' = FALSE
    /\ UNCHANGED <<grids, dirty, link>>

\* reset: a redraw that was due is still due.
Reset ==
    /\ nodeStates' = << >>
    /\ fires' = << >>
    /\ status' = "NORMAL"
    /\ totalPackets' = 0
    /\ grids' = [f \in Floors |-> Cold]
    /\ touched' = FALSE
    /\ UNCHANGED <<dirty, link>>

Next ==
    \/ Start
    \/ Stop
    \/ LoseBroker
    \/ \E m \in Messages : OnMqttMessage(m)
    \/ Tick
    \/ \E i \in Injections : Inject(i[1], i[2])
    \/ Reset

Spec == Init /\ [][Next]_vars

----------------------------------------------------------------------------
(* Properties. *)

Names == NodeIds(Graph) \cup {<<"n", 0, 0, k>> : k \in 0 .. 23} \cup {i[1] : i \in Injections}

TypeOK ==
    /\ DOMAIN nodeStates \subseteq Names
    /\ \A n \in DOMAIN nodeStates : nodeStates[n] \in NodeState
    /\ totalPackets \in 0 .. MaxPackets
    /\ fires \in Seq(Names)
    /\ status \in {"NORMAL", "FIRE_DETECTED", "EVACUATION_ACTIVE", "SHELTER_IN_PLACE"}
    /\ \A f \in Floors : grids[f] \in [Cells -> 0 .. 1000]
    /\ {dirty, touched} \subseteq BOOLEAN
    /\ link \in {"off", "up", "deaf"}

\* Status, fires and states tell one story, whatever packets, injections and resets
\* came in whatever order: who is seen burning is in the list of fires, once; people
\* are sent out only for a fire in the list and told to stay only for four.  The list
\* never shrinks while the status stands: a later report without a flame, which drops
\* the status, does not clear it (mqtt_bridge.py:117-126).
StatusHasFires ==
    /\ \A n \in DOMAIN nodeStates : nodeStates[n].flameDetected => n \in ToSet(fires)
    /\ \A i, j \in DOMAIN fires : fires[i] = fires[j] => i = j
    /\ status = "EVACUATION_ACTIVE" => fires # << >>
    /\ status = "SHELTER_IN_PLACE" => Len(fires) > 3

\* The map is that of the states the bridge has, unless a redraw is due or an
\* injection, which asks for none, came since: statuses and resets keep it true.
MapIsCurrent == ~ dirty /\ ~ touched => grids = Heatmaps(nodeStates)

\* The tier of a node tells its last failure, through reports, faults and injections
\* (three places write it): a node in a tier of its sensors is online with them
\* working, one whose tier names a failure has it, and no failure goes unnamed.
TierTellsFailure ==
    \A n \in DOMAIN nodeStates :
        LET s == nodeStates[n]
        IN  /\ s.failoverTier \in {"primary", "secondary"} <=> s.online /\ s.sensorOk
            /\ s.failoverTier = "tertiary" => ~ s.sensorOk
            /\ s.failoverTier = "isolated" => ~ s.online
=============================================================================
