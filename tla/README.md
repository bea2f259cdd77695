# SafeRouteAI: a verification development

SafeRouteAI guides people out of a burning building. ESP32 nodes in the
corridors sense temperature, smoke and flames, tell each other over ESP-NOW,
and each computes by itself which way its LED strip should point. A FastAPI
backend runs a digital twin of a building and streams it to a web client.

This directory holds TLA+ models of the parts of that program whose mistakes a
test would hardly find, TLC configurations that check them, and proofs that
TLAPS checks. `PROJECT.json` lists the components, the runs, the source lines of
every definition, the hazards and the theorems.

To check a model: `tlc -config tick_loop.cfg MCTickLoop.tla`; to check the
proofs: `tlapm NodeTables_proofs.tla`.

## 1. Inventory

| component | state | operations | what is hard about it |
|---|---|---|---|
| Mesh reception (`comms.cpp`, `HazardPacket.cpp`) | `last_seq[]`, the counter of `seq_num_next` | accept or refuse a packet | loss, duplication, reordering, wrap-around, reboots of either side |
| Link-state table (`link_state.cpp`) | entries by node id | find, upsert, age | unsigned time, repeated ageing |
| Node main loop and callback (`main.cpp`) | two tables, `active_table`, `current_next_hop`, the LED command | `loop()` on one core, `on_packet_received` on the other | two threads without a lock |
| Routing (`routing.cpp`) | locals of a run; the hold-down timer | `routing_compute`, `hold_down_should_switch`, `choose_led_state` | blocked, unreachable and burning graphs; loops that must end |
| Sensor health and tiers (`fusion.cpp`, `failsafe.cpp`) | a ring of samples, an 8-bit index and a verdict per sensor, the tier; the dual-path filters | one update per loop | wrapping index and clock, quiet and stuck sensors alike |
| LED task (`leds.cpp`) | `current_cmd` | a FreeRTOS task beside `loop()` | a struct read while it is written |
| Gateway (`gateway.cpp`), sensor drivers | MQTT connection; nothing | publish; read | nothing calls the gateway from the loop |
| Backend server (`main.py`) | dicts of buildings, stores and sockets, the tick task, the demo task | tick, inject, reset, demo, connect, message, disconnect | coroutines that await while they iterate over shared containers |
| Engine (`engine.py`) | `SimState` of a building: fires, failed nodes, a grid per floor | `tick_sim`, `inject_hazard`, `reset_sim` | changed by several coroutines; parts of one snapshot are computed by searches of their own |
| Snapshot store (`snapshot_store.py`) | a bounded buffer | push, get, clear | its limit |
| MQTT bridge (`mqtt_bridge.py`) | node states, fires, status, hazard grids | messages on a paho thread; tick, inject, reset elsewhere | states, fires, status and map are each written in several places; a thread or a subscription that is lost; nothing instantiates it yet |
| Buildings and graphs (`building_loader.py`, `graph_service.py`, `node_placer.py`) | a cache that nothing clears | load, place, look up | first and last waypoints, missing rooms, stairs that do not meet; a file that changes |
| Heatmaps (`heatmap_service.py`), models (`models.py`) | | interpolate, diffuse; types | geometry |
| Simulator (`simulator/`) | zone, profile, corrupt mode, sequence number | options, commands, packets with a CRC | the fire goes on while a packet is printed; a reading divides by what a file says |
| Dashboard, scripts | | flows, slides | presentation |

How they interact. A node's `loop()` writes its own entry, broadcasts a packet,
ages the active table, routes on it and sets the LED command; between any two of
these the receive callback may write the other table and swap the two. The
callback's packets come from the same `loop()` on other nodes. The LED task only
reads the command. In the backend everything runs on one event loop: the tick
task calls the engine, pushes the snapshot and sends it to each client; handlers
change the same dicts and lists whenever the tick task awaits; the demo task
injects through the engine. The engine and the graph requests place a building's
nodes each for itself, from one cached plan. The gateway would feed the MQTT
bridge, but neither end is connected in this version; the injector calls
`publish_mqtt` and `connect_mqtt`, which it does not have.

What makes each part correct:

* mesh: a node never takes an older packet of another for a newer one, and never
  learns of a flame that no sensor saw;
* tables: the threads do not meet on one table (they do), an accepted packet is not
  lost, no table goes back to an older state of a node, what a swap publishes gets
  routed on;
* routing: the route is the cheapest, avoids flames, people are told to stay
  exactly when every way burns, and hops do not lead in circles;
* sensors: a live sensor is not condemned on stale evidence, a stuck one is
  noticed;
* server: the tick task advances every building and serves every client whatever
  the handlers do, no open socket is lost, a reset is final;
* twin: placement joins what the plan joins, every reader sees one graph, heat
  comes only from fires and stays while they burn, the routes of a snapshot fit
  its nodes and its hops, a reset leaves nothing;
* bridge: status, fires, tiers, map and routes agree with the states of the
  nodes, in whatever order reports, faults, injections and resets come;
* injector: the nodes are told no less than the operator saw, and damage to a
  packet is noticed.

## 2. The modules

| module | models | |
|---|---|---|
| `SeqNum` | `seq_num_next`, `seq_num_accept` | numbers modulo `2 * Half` |
| `LinkState` | `link_state.cpp` | a table is a function from the ids that have a slot |
| `Dissemination` | | what the mesh promises, abstractly: several views of the mesh, none of which ever goes back; publish, learn, route, restart |
| `NodeTables` | one node's two threads, the other nodes and the radio | implements `Dissemination` |
| `Routing` | `routing_compute` and the engine's `_dijkstra` and `compute_next_hop`, one step per iteration of a loop | one search, two rules |
| `RouteAnswer` | | what `Guidance` relies on of the answer of `Routing` |
| `Guidance` | the rest of `loop()`: the hop, the hold-down, the colour, with the callback at any point | takes the answers of `Routing` as an input |
| `SensorSizes` | the sensors and the constants of `fusion.cpp` | |
| `Sensors` | `sensor_health_*`, `sensor_state_*`, one step per `loop()` | on `SensorSizes` |
| `Board` | | `Guidance` and `Sensors` side by side |
| `TickLoop` | the coroutines of `main.py` and the store | |
| `Placement` | `node_placer.py`, `graph_service.py` and the types of `models.py` | functions of a plan; edges, and the rooms of a floor's plan, are sets |
| `Paths` | Dijkstra's algorithm and the walks along `prev`, which the backend has twice | recursive functions |
| `Costing` | the arithmetic of an edge's cost, which three programs share | integers |
| `Twin` | one building: `building_loader.py`, all of `engine.py`, what `main.py` asks of it | on `Placement`, `Paths`, `Costing` |
| `MqttBridge` | `mqtt_bridge.py` and `heatmap_service.py` | on `Placement`, `Costing` |
| `BridgeRoutes` | the bridge's `_compute_routes` | on `MqttBridge`, `Paths` |
| `Checksum` | the CRC of the packets, which injector and firmware share | bit by bit |
| `Injector` | the simulator | on `Costing`, `Checksum` |
| `Mqtt` | | bridge and injector side by side |
| `MC*` | instances | |
| `Lemmas` | what several proofs need: induction, folds, and the facts on `Placement`, `Costing`, `Paths` and `Checksum` | |
| `*_proofs` | theorems | |

**NodeTables.** `cb` and `loop` are the positions of the two threads. A packet
that is accepted goes through `PacketAccepted` (the inactive table is picked),
`CallbackUpsert` (the write) and `CallbackSwap`; an iteration of `loop()` is
`LoopBegin`, `OwnUpsert`, `LoopAge`, `Route`. The node boots up to `comms_init`, and
writes its first own entry (main.cpp:118) when packets may already come. Each loop
step ends by taking the active pointer for the next operation, because the code passes
the pointer as an argument and works on that table even if it is demoted meanwhile.
So both threads may be in one table. Where two overlapping operations leave what
one after the other would leave, they are those steps; the two cases in which they
leave something else are actions of their own. `UpsertsCollide`: both upserts find
their id missing and take one slot, and each field is either's. `AgeingCollides`: the
ageing reads the time or the cost of an entry the callback is writing, and writes the
cost last. `torn` is a ghost: an `UpsertsCollide` happened since the boot.

The radio is a set of packets: delivering one leaves it there (duplication), nothing
obliges anybody to deliver it (loss), any one may come next (reordering), and it may
be handed over with its flame bit flipped and a CRC that fails (damage). Of an
entry the model keeps what routing tells apart plus ghosts: `at` numbers the
publications of a source, `sensed` is what its sensor said. `table_updated` is
left out: `triggered` is always true (main.cpp:154), so the flag decides nothing.

**Dissemination.** The node's two tables are two views. What it learns of a source
goes into one view and is newer than what any view has of that source; no view goes
back. A route rests on one view as a whole, but on either: the tables take turns, and
the one that is swapped in may be behind. If packets 2 and 4 of a node came into
different tables, a route on 4 can be followed by one on 2, after a packet of somebody
else. The node's *routes* do go back; its tables do not.

**Routing.** Costs are integers. `dist` is a function whose domain is the set of
nodes reached. Where the code takes the first minimum in array order the model
takes any, so what holds does not depend on the order of the arrays. `rule` says
whose code runs. Both search the same way; they differ in `Blocked` (the
firmware looks at the node that is entered, the engine at both ends, if the
sensors of either work), in `Weight`, and at an exit, from which the engine does
not search. So the twin is not the node: where a node itself burns, the engine
finds no way out while the firmware sends people away from it, although
`engine.py:267` says that it "Matches firmware". The properties speak of blocked
edges and hold for both.

**Guidance.** `Compute` takes one of `Routed[v]`, the answers `routing_compute` may
give when the active table shows the nodes of `v` burning; what the model assumes of
them (`RoutedAssumption`, by `IsAnswer` of `RouteAnswer`) is what `Routing_proofs`
establishes of a run (`AnswersAreKept`). `Find` is a `link_state_find` of the hop,
`Decide` and `Show` read the entry at the index it gave. All three read `active_table`
anew, so a packet between `Find` and the read makes the index point at another node's
entry: the flame is then either value. So it is when two packets come between and the
hop is new in the table that was looked at: then there may have been no index. Ghosts:
`quiet`, no packet came since the table was routed on, and `since`, the true time
since the last switch, next to the timer's wrapping one.

**Sensors.** `recent` is a ghost: the last possible samples in the order they
came, which the ring with its wrapping index does not keep.

**Board.** `Guidance` and `Sensors` share nothing, since the tier enters only the
cost that a node publishes. One run has both: each goes through all its states while
the other is in its first.

**TickLoop.** `tick` is the position of the tick task: the iterator over the
dict with the size it remembers, the index into the list, the socket it awaits.
Other coroutines run only while it awaits (`Yielded`); a client may close its
socket at any time. A building's simulation is reduced to "was anything injected
since the reset", which is what a reset, a demo and a stale snapshot dispute.
`quiet` is a ghost: the building was reset and nobody asked for anything since.
`ConnectUnknown` is a socket for a building that does not exist: it is listed
before `_get_state` raises and stays on the list for good, closed (`Health`
counts it). `Misfit` is a message that raises, without its keys (`KeyError`) or with
a `nodeId` that cannot be hashed (`TypeError`). `odd` has the buildings whose
scenario is not a string: a message over a socket may name one (main.py:231), `Snapshot`
refuses it, and the tick task ends in `TickSimRaises`, as it ends in `TickRaises` when
the dict grew. `Restart` is `lifespan`: nothing is persisted.

**Placement.** Lengths of a plan are whole metres and positions half metres, so
that the centre of a room is exact; the 0.4 m every node hangs above its floor
cancel in every use. An edge between two waypoints is made by both of them,
twice and with one id, as in the code.

**Twin.** Each handler is one step, since between two awaits nothing else runs
(how they interleave with broadcasts is `TickLoop`'s matter). Hazards are per
cent, rounded down; exponentials are a table in thousandths. `TickSim` is the
whole of `tick_sim`: the old heat is blurred, the fires heat, and the node
states, the routes and the status are computed from the result, each with the
searches the code makes. `Edit` replaces `building.json` beside the running
server. Three ghosts: `calm`, nothing was injected since the last reset; `played`, how
many stages of the demo were since then, if no client injected; `pace`, the length
of the last tick, if none was shorter than the one before it. Scenarios are strings
here (the others are `TickLoop`'s matter).

**MqttBridge.** Every method holds the lock from the first access to the last, so each
is a step. `link` is what the bridge hears: `deaf` after the broker was lost (paho
connects again, but only `start` subscribes) and after a JSON message of another
shape, which raises out of the receiver's thread and ends it. `Tick` redraws the map
and stops there: `_build_snapshot` hands `Snapshot` a dict with integer keys where the
model wants strings, which pydantic 2 refuses, so every `tick()` raises, nothing is
pushed and no listener is called (`docs/backend.md:244-257` describes both). What only
a snapshot would show is therefore left out. `touched` is a ghost: an injection
changed states since the map was drawn.

**Injector.** A packet is carried as bits: a byte of the id, one of the sequence
number, the flame, and the 16 bits of the CRC, computed as the code does. `mode`
is where the process is; `crashed` stands for every uncaught exception: a graph
file without a key that has no default, an empty range of a node (division by
zero), `pub` and `--mqtt` (no such method). `Wait` lets the fire grow between any
two steps, `PrintPacket` takes the readings twice, as the code does.

## 3. What is checked

Every property of a passing run has a mutant in `PROJECT.json`: a plausible bug
in one definition, kept as an operator beside it, under which TLC finds the
property violated.

| run | shows |
|---|---|
| `node_tables` | `FlameIsSensed`. `LatestInATable`: the newest accepted packet of every node is in one of the tables. `Disseminates`: the refinement, neither table ever goes back to an older state of a node, whatever the radio and the reboots do and however the threads meet. `PublishedIsRouted`: once the swaps stop, the routes come to rest on what was swapped in last. The first, the second and the last are said of a node on which no two upserts have met in one slot |
| `routing` | `Certificate` at every iteration; `CostIsCheapest`, `NextHopIsCheapest` against an enumeration of all paths; `RouteNotBurning`; `ShelterIffBlocked`; `Terminates` |
| `board` | `HeldDown`: the hold-down holds, also while `millis()` wraps. `QuietIsSafe`: an iteration no packet arrives in ends on a hop that does not burn. `Settles`: the node comes to follow an answer that stays. Of the sensors: `VerdictIsRecent`, `StuckIsNoticed` |
| `tick_loop` | `ResetIsFinal`; `OpenIsListed`, with messages that raise, scenarios that are no string and sockets of unknown buildings; `BuildingsAdvance`, `ClientsAreServed` while the tick task lives |
| `twin` | `PlanIsConnected`: the rooms a corridor names are joined over its waypoints. `GraphsAgree`: drawn and simulated graph are one, also after the file changed. `RoutesAreSafe`: the routes of a snapshot lead over edges to an exit, past no flame the snapshot shows, and begin with the next hop of their first node. `HeatIsLocal`, `FlameStays`: no heat on a floor without a fire, and a flame that was shown stays until its sensor fails or a reset, while no tick is shorter than the one before and no fire gives way to a slower one. `ResetRestores`: after a reset the snapshots are those of a new building. `DemoSpreads`: each fire stage of the demo lights another sensor upstairs, until all burn, and the stages after them light and put out nothing |
| `mqtt` | `StatusHasFires`, `TierTellsFailure`, `MapIsCurrent`, `RoutesAvoidFire` of the bridge; `ShownIsSent`, `DamageIsNoticed` of the injector: one or two flipped bits always fail the CRC, which `NodeTables` takes for granted |

Six runs show that the code does not do what its documents say; each is a
finding in `PROJECT.json`.

| run | what happens |
|---|---|
| `node_shared` | two packets within one operation of `loop()` put both threads in one table (main.cpp:66) |
| `node_persist` | each packet swaps in a table the previous packet was not written to (main.cpp:78) |
| `node_ageing` | an entry stamped after `loop()` took `now` is aged at once, the unsigned difference wraps (link_state.cpp:39) |
| `sensors_tier` | a flame sensor that sees no flame is "stuck", and the node falls to the tier for isolated nodes (failsafe.cpp:28) |
| `tick_dies` | a building asked for during a send changes the dict under the iterator, and the tick task ends (main.py:54) |
| `twin_demo` | the radio failures of the demo's fourth stage all hit one node (main.py:191) |

Other things the code does that its documents or tests do not say, seen while
modelling and recorded here, without a run: a scenario that is no string ends the tick
task, too (main.py:231), as `TickSurvives` fails of the model with `Loose` not empty;
two upserts that meet in one slot may give a node another's flame (link_state.cpp:22),
as `FlameIsSensed` fails of the model without `torn`; an exit node is given a hop away
from itself by the fallback (routing.cpp:167; `test/firmware/test_dijkstra.cpp:57`
expects none); `tick()` of the bridge always raises; a bridge that lost its broker
never hears a node again; an edge next to a node that has not reported is never
blocked by a fire; the injector's MQTT methods do not exist, its packet is 25 bytes
and not the firmware's 26, and in single-shot mode the fire is zero seconds old, so
that no packet ever shows a flame unless the output is held up.

### Bounds, and why they are enough

* `node_tables`: the node and two others. One other uses six sequence numbers out
  of `2 * Half = 6`, starting at 1, so that its counter wraps; the other two, so
  that its packet falls between any two of the first. Two tables and two sources
  are what the double buffer can confuse; a third source adds no new alternation.
  A flame is seen by the second only (`Lit`), so that a table may mix an entry with
  one and an entry without. A neighbour reboots only while it has numbers left.
  `Lifetime = Half`, the longest delay that RFC 1982 comparison tolerates.
  `MaxTime = 1` and `Stale = 0` make ageing happen. `MaxAged = 1`: aged or not.
* `routing`: the graph of `init_default_graph`, seven owners (one not in the
  graph) and for each of six nodes three entries: none, at the critical
  temperature and smoke, burning while otherwise calm. All 729 tables. For the
  engine each node burns or not and sees or not, exits 4 and 6 alike and exit 1
  seeing: 512 tables. `Block` is a tenth of the code's value (costs are integers
  of 32 bits), still above the threshold for every edge.
* `board`: node 2 of the default graph with its distances multiplied by 150.
  In the graph as it is a path without a flame costs less than 1000, far
  below 10,000 and 70,000: there hold-down, yellow and the red of a detour never
  act, and an answer is followed at once. (`README.md:204`, "A node must sustain
  a better path for ≥1800ms before switching", is not what the code does:
  `firmware.md:495` has the condition on the cost.) Three neighbours that may
  burn, a hold-down of two iterations, a clock that wraps after four. Of the
  sensors: a ring of three and an index modulo eight, which like 10 and 256 do not
  divide each other; a window of four and a clock modulo twelve.
* `tick_loop`: two buildings, one of which the demo cannot inject into, two clients, a
  buffer of one snapshot, a demo of two stages, one unknown building with one socket;
  scenarios that are no string for one building (`Loose`), which may stand before or
  behind the other in the dict. Two clients suffice for one to leave the list in front
  of the other during a broadcast.
* `twin`: two plans. One has a wing behind two waypoints, a second room behind a plain
  corridor and stairs that meet; the other an upper floor that is narrower, stairs
  that do not meet, a corridor with one waypoint and one that names no room. Four
  ticks, injections and edits together (`MaxSteps`), of a fire upstairs, one at the
  stairs, a failure and a fire at an unknown node; requests, resets and demo stages
  are not counted. A grid of 5 by 3 cells, with distances between rooms of up to four
  cells, so that a fire's neighbourhood is cut off by the edges. A tick
  brings a `dt` of 8 tenths or of 20 (`Dts`), in any order: one on time, after the
  loop's 0.2 seconds, and one as late as the code allows (half a second; both times
  four). Four are enough for a fire to show its flame and for one thing after it.
  `FlameStays` needs its two conditions: a flashover that a slow smolder
  replaces after three ticks on time stands at 0.76, and falls to 0.72 before it rises
  again, so that the flame (above 0.75) goes out in between; and a fire that heated
  over a long tick cools over a short one. Nothing promises otherwise.
* `twin_demo`: the first plan with two more rooms upstairs, so four sensors for three
  failures; nobody but the demo injects in the run it finds.
* `mqtt`: four nodes on two floors, reports calm, hot, burning and hot, burning and
  cool, of known and unknown nodes, faults, garbage and misshapen messages, three
  messages between resets, any number of injections of four kinds; so the four fires
  that `SHELTER_IN_PLACE` needs happen. A grid of 4 by 2 cells. The injector: two
  zones, one not in the graph, three ages of the fire (new, after the flashover, old),
  two packets, the default graph and a file with an empty range. Bits are flipped in
  the only packet of a process.

Deadlock is checked except in the routing run, where a run returns, and in
`mqtt`, where the injector ends.

### Fairness

* `node_tables`: weak fairness of each thread. FreeRTOS runs `loop()` on its
  core for ever, and a receive callback that started returns. Nothing is assumed
  of the radio or of other nodes.
* `board`: `loop()` goes on. Nothing is assumed of the packets or the readings:
  `Settles` is about answers, `StuckIsNoticed` about readings that do stay the same.
* `routing`: the computation goes on.
* `tick_loop`: weak fairness of the tick task and of each handler's end. The
  event loop resumes a task whose await is over, and the server's keep-alive ends
  a send to a client that does not answer. Clients, requests and the demo owe
  nothing.
* `twin` and `mqtt` check safety only and assume no fairness.

## 4. What is proved

With TLAPS, for every value of the constants that satisfies the named assumptions
(`SeqNum!HalfAssumption`, `LinkStateAssumption`, `NodeTablesAssumption`,
`RoutingAssumption`, `BlockAssumption`, `CalmAssumption`, `RoutedAssumption`,
`GuidanceAssumption`, `TickLoopAssumption`, `SensorsAssumption`, `TwinAssumption`,
`MqttBridgeAssumption`, `InjectorAssumption`), which TLC evaluates in every run.
`Lemmas` has what the proofs share. Since the prover cannot instantiate the library's
induction theorems, induction is done from the well-foundedness of `<`: of the places
where a claim fails there is a first one (`LeastNumber`). From that come induction
over finite sets, folds of sets and sequences and iterated functions (`FoldStays`,
`IterationStays`, `SumStays`), and what the recursive functions of `Paths` compute on
any graph (`DijkstraBacked`, `BackFollows`, `WalksLead`, `PathsAreRoutes`).

* `NodeTables_proofs`
  * `TypeCorrect`.
  * `FlamesAreSensed`. The strengthening says that the packet the callback holds is
    undamaged. An ageing that meets the upsert of an entry leaves its flame alone
    (`AgeingCollided`).
  * `NodeDisseminates`: `NodeTables` implements `Dissemination`, the views being the
    tables. Two invariants carry it. `NetInv` ties ghosts to numbers: the number of a
    packet in flight, like the number remembered of a source, is the number that
    publication had, counted from the source's last boot, modulo `2 * Half`; a packet
    in flight is younger than `Lifetime <= Half`. From that a packet whose number is
    *newer* really is a later publication (`AcceptedIsNewer`): the only place where
    modular arithmetic and the bound on delays meet. `KnownInv` says that both tables
    are behind the packet the callback is about to write, so that whichever table it
    goes into does not go back, and the other has nothing newer. Every action is then
    a step of `Dissemination` or a stutter, the colliding ones included: of two
    entries in one slot one is lost, which is a loss of the own entry or of a packet
    that no view had.
  * `LatestIsKept`, for a node whose own id is below `MAX_NODES` (`MY_NODE_ID` is 2,
    `main.cpp:14`). Two things are needed beside `LatestInATable`: the packet the
    callback holds is the newest of its source, since no other is accepted before
    it is swapped in; and every id in a table is below `MAX_NODES`, so that a node
    without a slot always finds one (`RoomForId`). An id that was too large would
    make `link_state_upsert` drop an entry silently.
* `Routing_proofs`, on any graph, table and owner, for both rules:
  * `RoutingTypeCorrect`;
  * `DistancesAreCertified`: `Certificate` is itself inductive with the type
    invariant, given that weights are positive (`WeightOK`);
  * `RoutesDoNotBurn`: a distance below the threshold means no blocked edge on the way
    (`FlamesAreFar`, from the certificate and `BlockAssumption`), and the walk
    back only visits nodes whose distance is below it.
  * `CostsAreCheapest`: the algorithm is right. No walk is shorter than a
    certified distance (`NoWalkIsShorter`: of the points of a walk where the
    distance is too large there would be a first), and following `prev` back gives a
    walk that costs exactly the distance. `Walking` and `Outcome` carry this from
    the end of the search to the end of the run.
  * `SheltersIffBlocked`: under `CalmAssumption` a way without a blocked edge stays
    below the threshold (`CalmIsCheap`), under `BlockAssumption` any other reaches it.
  * `NextHopsAreCheapest`: the first hop begins a cheapest way (`IsTrail`: the nodes
    the walk back visits), so the cost falls along the hops (`HopsLeadDown`) and they
    never close a circle;
  * `FallbackIsForExits`: the walk back comes to its start without a first hop only
    where the start is the exit;
  * `RunsDescend`: a step of the search makes one more node final, a step of the walk
    goes to a nearer one. This is what `Terminates` rests on for any graph; what the
    prover cannot say is that a step can be taken and, by fairness, is;
  * `AnswersAreKept`: the answer is as `Guidance` assumes (`IsAnswer`), for a node of
    the graph that is no exit. So the theorems of `Guidance_proofs` hold of the
    answers of `routing_compute`, on any graph.
* `Guidance_proofs`, for any building whose answers `Routing_proofs` describes:
  * `GuidanceTypeCorrect`;
  * `QuietIterationsAreSafe`: until a packet comes, the answer is one for the
    table that is read, and from `Decide` on the hop does not burn in it; the
    hold-down's exception for a burning hop is what carries the step;
  * `HoldDownIsKept`: while fewer than `HoldDown` iterations have passed since a
    switch, the timer's wrapping difference is that number (`ElapsedMoves`).
* `TickLoop_proofs`
  * `ResetsAreFinal`. The strengthening says that a demo that is under way belongs
    to a building that is not quiet.
  * `OpenAreListed` and `TypeCorrect`, by one invariant (`Whole`): every socket is at
    most once on the list of its building and on no other (`Roster`), and the tick
    task's index and iterator lie on the list and the dict they walk (`Ticking`).
    The step that carries it takes dead sockets off a list (`IsLeft`: what is
    left is what was there, each once).
* `Twin_proofs`, for any plans, replacements of the file and injections:
  * `PlansAreConnected`: every edge is between nodes that were placed (`EdgesOf`,
    `Named`), and the waypoints of a corridor lead from one of its rooms to the
    other over edges of that corridor alone (`CorridorLeads`, `WalkIsReached`);
  * `TypeCorrect`, `LocalHeat`, `CleanResets`, `OneGraph`, `SafeRoutes`, from one
    invariant: the building that is simulated is that of the cached plan, whatever the
    file says by now (`Loaded`); fires, failures and grids belong to that graph, with
    no heat on a floor without a fire (`Built`, `Warm`); what is shown was
    built from such a state (`Shown`); and while `calm`, the simulation is that
    of a new building (`Pristine`). Heat stays in bounds and on its floor since a
    mean of cells that are 0 is 0 (`DiffuseSpreads`). `SafeRoutes` is about one
    snapshot at a time (`SnapshotIsSafe`): the searches for the hops and those for the
    routes are others, but on the same costs (`PathFinds`);
  * `DemoIsSpread`: while no client injects, the fires after stage `k` are those at
    the first `Lit(g, k)` sensors upstairs (`Spreading`), since the demo picks a node
    by how many burn, and its failures do not raise that number
    (`FailuresLightNothing`). By the same token they do not spread, which is what
    `twin_demo` shows.
* `Sensors_proofs`, for `Board`, whose other half leaves the sensors alone:
  * `TypesHold`;
  * `VerdictsAreRecent`. The invariant (`Records`) counts back from the slot that
    is written next: as many of the remembered samples as `idx` says, at most
    `Ring`, are in the ring in that order. One sample keeps it
    (`RingFollows`) because less than a round back is another slot
    (`OtherSlot`), and when `idx` wraps to 0 it claims nothing. So neither
    the widths nor their ratio matter.
* `MqttBridge_proofs`, for any graph, messages and injections:
  * `StatusHasItsFires`, by the three facts on states, list and status together:
    a report that lights the status is in the list it is counted in;
  * `TiersTellFailures`;
  * `MapsAreCurrent`: fault reports and resets change states and leave the map.
    That is right because a fault changes no reading (`FaultsAreCold`) and the map
    of no states is cold (`NothingIsHot`). The latter, like the bounds of the map, comes
    from one fact on interpolation and diffusion: they lead neither out of the
    numbers nor out of zero alone (`HeatStays`, `InterpolatedIn`, `DiffusedIn`);
  * `RoutesAvoidFires`, from the types of the states alone: the least cost of the
    edges between two nodes is that of one of them (`EdgesCost`, `LinksCost`),
    and a route whose length is below the threshold has no edge that reaches it
    (`SearchFinds`, `PathsAreRoutes`);
  * `TypeCorrect`.
* `Lemmas`: `CrcNoticesDamage`, for packets of up to 211 bits, so for the 25 bytes of
  the injector and the 26 of the firmware, whose CRC is the same
  (`HazardPacket.cpp:3`). Of two packets the difference of the registers depends only
  on where the packets differ (`TurnedLinear`), and two valid packets leave no
  difference (`ValidEndsInZero`). One flipped bit starts a difference that never dies
  out (`TurnedMoves`). A second flip would have to meet it where only the bit that
  drops out is left. But the polynomial is x + 1 times x^15 + x + 1, so that a
  difference and the next one together (`Pair`) obey the second factor alone
  (`PairAfterFifteen`): every fifteen steps they reach just one place further down and
  keep the highest one (`PairSpreads`), and up to 210 steps they cannot look as they
  would if only that bit were left (`DriftGoesOn`).
* `MqttBridge_proofs`, of the injector beside the bridge (`SideBySide`), for any files,
  zones, ages of the fire and number of packets:
  * `TypesAreOK`. The invariant (`InjectorInv`) says that graph and packets are of their
    types and that nothing was printed while commands are read;
  * `DamagesAreNoticed`: the packet on its way is the one that was built, or that
    with one or two bits flipped (`Carried`);
  * `NoLessIsSent`, given `RangesAscend`: a fire grows (`LogisticRises`,
    `ReadingsGrow`), and what is hotter costs no less (`CostsGrow`, for which the table
    of the exponential must stay below the cost of a flame, `ExpIsModest`).

`RangesAscend` says of a graph file that no critical value is below its baseline.
Nothing enforces it; in a range that descends, hotter is cheaper, and the packet may
carry a lower cost than the operator was shown. Two of the assumptions say what the
code does not enforce. `WellPlaced`, in `TwinAssumption` and `MqttBridgeAssumption`:
the places of a graph have different ids, and two linked nodes are not in one place,
nor 250 m apart. The edge between two nodes in one place costs 0, burning or not
(engine.py:145, mqtt_bridge.py:166), so that a route may lead past a flame there; and
a number that two rooms share names only one of them. A floor has a positive size, or
the grid divides by zero. `CalmAssumption`: a calm path of any length in the building
stays below the threshold.

Only model-checked:

* everything temporal (`PublishedIsRouted`, `Terminates`, `StuckIsNoticed`,
  `Settles`, `BuildingsAdvance`, `ClientsAreServed`): liveness under fairness is
  beyond the prover;
* `FlameStays`: that a longer tick heats a cell that was blurred no less depends on the
  rounding of each step.

### Assumptions about the environment

* Between two operations on one table that overlap, what they leave is taken from the
  C statements in program order, each field written at once. An `UpsertsCollide` may in
  the code raise `count` by two and skip a slot; the skipped slot has no data and is
  left out. A route that is computed while the callback writes an entry may in the code
  use some of its fields as they were and some as they will be; the model says only
  from which publications a route was computed, before the write or after it.
* A packet in flight is younger than `Lifetime` numbers of its source, and a node
  that reboots is silent for longer than that (setup waits a second).
* No more than two bits of a packet are flipped on its way; that the CRC notices
  these is proved. A client that reconnects has a new socket.
* The flame penalty on the shortest edge reaches the shelter threshold
  (`BlockAssumption`), which the constants of `routing.h` give for edges of at
  least 0.1.

## 5. Not modelled, and what could come next

Left out for good:

* pin and DHT22 reads, LED animations, the gateway's connection: input and
  output. The dual-path filter of `fusion.cpp`: `main.cpp:154` overwrites its
  result before anything reads it.
* The index of buildings, labels, names, network statistics, random packet
  counters and times of day in snapshots: nothing is decided by them.
* `regression.py` prints constants; `to_dict` and `save` of the simulator's graph
  are never called.
* The dashboard's configuration, the start scripts and the generators of slides
  (`scripts/*.py`): no behaviour of the system.

Abstracted: floating point is integers throughout (per cent, thousandths), so
what depends on the last digit is not covered; the time between two ticks of the twin
is any of a set of positive numbers, while the code takes the wall clock, which may
step back and make `dt` negative.

Left open: the cost of a silent node as a number (`link_state.cpp:44`).
