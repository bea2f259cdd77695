----------------------------- MODULE Placement -----------------------------
(***************************************************************************)
(* A building as its building.json describes it, and as a graph: what      *)
(* place_nodes (backend/node_placer.py) makes of rooms, corridors and      *)
(* stairs, in the records of backend/models.py, and the lookups of         *)
(* backend/graph_service.py.  Lengths in the plan are whole metres,        *)
(* positions in the graph half metres (the centre of a room); the 0.4 m    *)
(* that every node hangs above its floor are left out.  The nodes keep     *)
(* their order, which numbers them; the edges, and the rooms and segments  *)
(* of a floor's plan, are sets, since nobody asks for the order of those.  *)
(***************************************************************************)
EXTENDS Integers, Sequences, SequencesExt, FiniteSetsExt

None == <<"none">>

\* models.py, the fields that something is decided by.
Vec3         == [x : Int, y : Int, z : Int]
NodeId       == ({"n"} \X STRING) \cup ({"j"} \X STRING \X Nat)
BuildingNode == [id : NodeId, floor : Int, position : Vec3,
                 kind : {"sensor", "hallway", "exit", "stairwell"}]
Room         == [id : STRING, floor : Int, x : Int, z : Int, width : Nat, depth : Nat,
                 isExit : BOOLEAN, isStairwell : BOOLEAN]
CorridorDef  == [id : STRING, fromRoom : STRING, toRoom : STRING, floor : Int,
                 junctionPoints : Seq(Vec3)]
FloorDef     == [index : Int, elevation : Int, width : Nat, depth : Nat]
BuildingDef  == [rooms : Seq(Room), corridors : Seq(CorridorDef), floors : Seq(FloorDef)]
BuildingEdge == [id : ({"e"} \X STRING) \cup ({"seg"} \X STRING \X Nat)
                          \cup ({"stair"} \X STRING \X STRING),
                 from : NodeId, to : NodeId]
PlanOfFloor  == [index : Int, width : Nat, depth : Nat, origin : Vec3, rooms : SUBSET Room,
                 corridors : SUBSET ((Int \X Int) \X (Int \X Int))]
BuildingGraph == [nodes : Seq(BuildingNode), edges : SUBSET BuildingEdge,
                  floors : Seq(PlanOfFloor)]

----------------------------------------------------------------------------
\* The node of a room, if there is such a room.
NodeForRoom(def, room) ==
    IF \E r \in ToSet(def.rooms) : r.id = room THEN <<"n", room>> ELSE None

Elevation(def, floor) ==
    LET known == {i \in DOMAIN def.floors : def.floors[i].index = floor}
    IN  IF known = {} THEN 5 * floor ELSE def.floors[Max(known)].elevation

Kind(room) ==
    IF room.isExit THEN "exit" ELSE IF room.isStairwell THEN "stairwell" ELSE "sensor"

\* 1. A node in the centre of each room.
RoomNodes(def) ==
    [i \in DOMAIN def.rooms |->
        LET r == def.rooms[i]
        IN  [id |-> <<"n", r.id>>, kind |-> Kind(r), floor |-> r.floor,
             position |-> [x |-> 2 * r.x + r.width, y |-> 2 * Elevation(def, r.floor),
                           z |-> 2 * r.z + r.depth]]]

\* 2. A node at each waypoint of a corridor (the j-th from 0) ...
Junction(c, j) == <<"j", c.id, j>>

JunctionNodes(c) ==
    [i \in DOMAIN c.junctionPoints |->
        LET p == c.junctionPoints[i]
        IN  [id |-> Junction(c, i - 1), kind |-> "hallway", floor |-> c.floor,
             position |-> [x |-> 2 * p.x, y |-> 2 * p.y, z |-> 2 * p.z]]]

\* Mutant: the room at the end hangs on the waypoint before the last.
JunctionEdgesShort(def, c) ==
    LET n == Len(c.junctionPoints)
        Before(j) == IF j = 0 THEN NodeForRoom(def, c.fromRoom) ELSE Junction(c, j - 1)
        After(j)  == IF j = n - 2 THEN NodeForRoom(def, c.toRoom) ELSE Junction(c, j + 1)
        Pair(j)   == {[id |-> <<"seg", c.id, j>>, from |-> Before(j), to |-> Junction(c, j)],
                      [id |-> <<"seg", c.id, j + 1>>, from |-> Junction(c, j), to |-> After(j)]}
    IN  {e \in UNION {Pair(j) : j \in 0 .. n - 1} : None \notin {e.from, e.to}}

\* ... and edges to its neighbours on the corridor: the edge between two
\* waypoints is made by both of them, twice the same.
JunctionEdges(def, c) ==
    LET n == Len(c.junctionPoints)
        Before(j) == IF j = 0 THEN NodeForRoom(def, c.fromRoom) ELSE Junction(c, j - 1)
        After(j)  == IF j = n - 1 THEN NodeForRoom(def, c.toRoom) ELSE Junction(c, j + 1)
        Pair(j)   == {[id |-> <<"seg", c.id, j>>, from |-> Before(j), to |-> Junction(c, j)],
                      [id |-> <<"seg", c.id, j + 1>>, from |-> Junction(c, j), to |-> After(j)]}
    IN  {e \in UNION {Pair(j) : j \in 0 .. n - 1} : None \notin {e.from, e.to}}

\* 3. A corridor without waypoints joins its two rooms.
CorridorEdges(def) ==
    LET Plain(c) == /\ c.junctionPoints = << >>
                    /\ None \notin {NodeForRoom(def, c.fromRoom), NodeForRoom(def, c.toRoom)}
        Edge(c)  == [id |-> <<"e", c.id>>, from |-> NodeForRoom(def, c.fromRoom),
                     to |-> NodeForRoom(def, c.toRoom)]
    IN  {Edge(c) : c \in {d \in ToSet(def.corridors) : Plain(d)}}

\* 4. A stairwell joins the first one of the next floor in the list that is less
\* than two metres aside.
StairEdges(def) ==
    LET Stairs(floor) == {k \in DOMAIN def.rooms : /\ def.rooms[k].isStairwell
                                                   /\ def.rooms[k].floor = floor.index}
        Above(s, floor) == {k \in Stairs(floor) : /\ def.rooms[k].x - s.x \in -1 .. 1
                                                  /\ def.rooms[k].z - s.z \in -1 .. 1}
        Edge(s, u)      == [id |-> <<"stair", s.id, u.id>>, from |-> <<"n", s.id>>,
                            to |-> <<"n", u.id>>]
        Edges(low, up)  == {Edge(def.rooms[k], def.rooms[Min(Above(def.rooms[k], up))]) :
                                k \in {s \in Stairs(low) : Above(def.rooms[s], up) # {}}}
    IN  UNION {Edges(def.floors[i], def.floors[i + 1]) : i \in 1 .. Len(def.floors) - 1}

\* 5. The centre of the widest and deepest floor is the origin.
MaxWidth(def) == Max({f.width : f \in ToSet(def.floors)})
MaxDepth(def) == Max({f.depth : f \in ToSet(def.floors)})
Centred(def, node) ==
    [node EXCEPT !.position = [x |-> @.x - MaxWidth(def), y |-> @.y,
                               z |-> @.z - MaxDepth(def)]]

\* 6. Each floor with its own size, its rooms and the ends of its corridors (the
\* origin, when a room is missing).
FloorPlan(def, f) ==
    LET Centre(id) == LET known == {k \in DOMAIN def.rooms : def.rooms[k].id = id}
                          last  == def.rooms[Max(known)]
                      IN  IF known = {} THEN <<0, 0>>
                          ELSE <<2 * last.x + last.width, 2 * last.z + last.depth>>
        Shifted(p) == <<p[1] - MaxWidth(def), p[2] - MaxDepth(def)>>
    IN  [index |-> f.index, width |-> f.width, depth |-> f.depth,
         origin |-> [x |-> -MaxWidth(def), y |-> 2 * f.elevation, z |-> -MaxDepth(def)],
         rooms |-> {r \in ToSet(def.rooms) : r.floor = f.index},
         corridors |-> {<<Shifted(Centre(c.fromRoom)), Shifted(Centre(c.toRoom))>> :
                            c \in {d \in ToSet(def.corridors) : d.floor = f.index}}]

\* BuildingGraph: what place_nodes returns.
PlaceNodes(def) ==
    LET Joints  == FlattenSeq([i \in DOMAIN def.corridors |-> JunctionNodes(def.corridors[i])])
        Waymade == UNION {JunctionEdges(def, c) : c \in ToSet(def.corridors)}
        placed  == RoomNodes(def) \o Joints
    IN  [nodes  |-> [i \in DOMAIN placed |-> Centred(def, placed[i])],
         edges  |-> Waymade \cup CorridorEdges(def) \cup StairEdges(def),
         floors |-> [i \in DOMAIN def.floors |-> FloorPlan(def, def.floors[i])]]

----------------------------------------------------------------------------
(* graph_service.py: the number of an ESP32 node is its place in the list. *)

StringId(number, graph) ==
    IF number \in 0 .. Len(graph.nodes) - 1 THEN graph.nodes[number + 1].id ELSE None

NumericId(id, graph) ==
    LET places == {i \in DOMAIN graph.nodes : graph.nodes[i].id = id}
    IN  IF places = {} THEN -1 ELSE Min(places) - 1

----------------------------------------------------------------------------
NodeIds(graph) == {n.id : n \in ToSet(graph.nodes)}
NodeOf(graph, id) == CHOOSE n \in ToSet(graph.nodes) : n.id = id
ExitsOf(graph) == {n.id : n \in {m \in ToSet(graph.nodes) : m.kind = "exit"}}

\* The distance of two nodes in half metres, a floor counting one and a half times its
\* height.
Distance(a, b) ==
    LET dx == a.position.x - b.position.x
        dy == a.position.y - b.position.y
        dz == a.position.z - b.position.z
        square == 4 * (dx * dx + dz * dz) + 9 * dy * dy
    IN  CHOOSE d \in 0 .. 500 : 4 * d * d <= square /\ square < 4 * (d + 1) * (d + 1)

\* The pairs of nodes an edge joins, in both directions.
Links(graph) ==
    {<<e.from, e.to>> : e \in graph.edges} \cup {<<e.to, e.from>> : e \in graph.edges}

\* No two nodes have one id; two that are linked are apart, by less than 250 m.
WellPlaced(graph) ==
    /\ \A i, j \in DOMAIN graph.nodes : graph.nodes[i].id = graph.nodes[j].id => i = j
    /\ \A l \in Links(graph) :
         {l[1], l[2]} \subseteq NodeIds(graph) =>
             Distance(NodeOf(graph, l[1]), NodeOf(graph, l[2])) \in 1 .. 500

\* What can be reached from a node over some links.
ReachedOver(links, start) ==
    LET Grow[k \in 0 .. Cardinality(links)] ==
            IF k = 0 THEN {start}
            ELSE LET near == Grow[k - 1]
                 IN  near \cup {l[2] : l \in {m \in links : m[1] \in near}}
    IN  Grow[Cardinality(links)]
=============================================================================
