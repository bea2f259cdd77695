----------------------------- MODULE Injector -----------------------------
(***************************************************************************)
(* The operator's fire injector (simulator/injector.py) with its graph     *)
(* (simulator/graph_model.py) and its two fires (simulator/fire_profiles). *)
(* It prints packets that somebody else has to carry to the nodes: its     *)
(* MQTT methods are called, but do not exist.  Temperatures are tenths of  *)
(* a degree, smoke ppm, times seconds, costs thousandths.                  *)
(***************************************************************************)
EXTENDS Integers, Sequences, SequencesExt, FiniteSetsExt, Costing, Checksum

CONSTANTS Files,     \* what --graph may name: dicts, whose optional keys may be missing
          Zones,     \* node ids an operator asks for
          Ages,      \* the ages of a fire that are looked at, 0 among them
          MaxSeq     \* bound: packets of one process

VARIABLES
    mode,      \* where the process is: "args", "shot", "cli", "done", "crashed"
    graph, profile, zone, corrupt, seq,     \* the Injector's fields
    age,       \* time since t0 of the active profile
    todo,      \* single-shot mode: the nodes still to be printed
    shown,     \* what print_packet printed last
    sent,      \* the packet it printed: its fields
    air        \* external: that packet, bit by bit, as it is carried to a node

vars == <<mode, graph, profile, zone, corrupt, seq, age, todo, shown, sent, air>>

None    == -1
Nothing == [node |-> None]

----------------------------------------------------------------------------
(* graph_model.py *)

Get(dict, key, default) == IF key \in DOMAIN dict THEN dict[key] ELSE default

\* NodeConfig and EdgeConfig, the fields that a reading depends on; a node's id is packed
\* into 16 bits (HAZARD_PACKET_FMT).
PacketId == 0 .. 65535

NodeConfigs ==
    [node_id : PacketId, T_baseline : Int, T_critical : Int,
     S_baseline : Int, S_critical : Int, occupant_capacity : Nat]

NodeConfig(dict) ==
    [node_id           |-> dict["id"],
     T_baseline        |-> Get(dict, "T_baseline", 250),
     T_critical        |-> Get(dict, "T_critical", 800),
     S_baseline        |-> Get(dict, "S_baseline", 0),
     S_critical        |-> Get(dict, "S_critical", 1000),
     occupant_capacity |-> Get(dict, "occupant_capacity", 10)]

EdgeConfig(dict) ==
    [from_id |-> dict["from"], to_id |-> dict["to"], base_distance |-> dict["base_distance"]]

\* A dict without the keys that have no default raises KeyError.
Loads(data) ==
    /\ \A d \in ToSet(Get(data, "nodes", << >>)) : "id" \in DOMAIN d
    /\ \A d \in ToSet(Get(data, "edges", << >>)) : {"from", "to", "base_distance"} \subseteq DOMAIN d

FromDict(data) ==
    LET nodes == Get(data, "nodes", << >>)
        edges == Get(data, "edges", << >>)
    IN  [nodes |-> [i \in DOMAIN nodes |-> NodeConfig(nodes[i])],
         edges |-> [i \in DOMAIN edges |-> EdgeConfig(edges[i])]]

BuildDefault ==
    LET E(a, b, d) == [from_id |-> a, to_id |-> b, base_distance |-> d]
    IN  [nodes |-> [i \in 1 .. 6 |-> NodeConfig([id |-> i])],
         edges |-> << E(1, 2, 10), E(2, 3, 12), E(3, 6, 10), E(2, 4, 14),
                      E(4, 5, 10), E(5, 1, 10), E(5, 2, 8), E(3, 4, 6) >>]

\* find_node: the first with the id, of those that have it.
Found(id)    == {i \in DOMAIN graph.nodes : graph.nodes[i].node_id = id}
FindNode(id) == graph.nodes[Min(Found(id))]

----------------------------------------------------------------------------
(* The fire profiles: logistic curves of the time, in thousandths of a tenth. *)

Logistic(x) ==
    LET e == Exp[Clamped(IF x < 0 THEN -x ELSE x, 0, 70)]
    IN  IF x < 0 THEN 1000000 \div (1000 + e) ELSE (1000 * e) \div (1000 + e)

SlowSmolder(t) ==
    [temp_c |-> 250 + (650 * Logistic((8 * (t - 60)) \div 10)) \div 1000,
     smoke_ppm |-> (800 * Logistic((8 * (t - 55)) \div 10)) \div 1000,
     flame_detected |-> t > 50]

\* Mutant: the flame is a phase of the fire.
FlashoverShort(t) ==
    [temp_c |-> 250 + (2500 * Logistic(12 * (t - 5))) \div 1000,
     smoke_ppm |-> 50 + (3000 * Logistic(12 * (t - 3))) \div 1000,
     flame_detected |-> t > 2 /\ t < 8]

Flashover(t) ==
    [temp_c |-> 250 + (2500 * Logistic(12 * (t - 5))) \div 1000,
     smoke_ppm |-> 50 + (3000 * Logistic(12 * (t - 3))) \div 1000,
     flame_detected |-> t > 2]

\* get_readings at an age of the active fire: the target zone's, if there is one.
GetReadings(id, t) ==
    IF zone = None \/ id # zone \/ profile = "none"
    THEN [temp_c |-> 250, smoke_ppm |-> 0, flame_detected |-> FALSE]
    ELSE IF profile = "slow" THEN SlowSmolder(t) ELSE Flashover(t)

\* It divides by the ranges of the node, whatever the file says they are.
Divides(n) ==
    /\ n.T_critical # n.T_baseline /\ n.S_critical # n.S_baseline /\ n.occupant_capacity # 0

EdgeCost(n, r) ==
    LET T == Clamped((22 * (r.temp_c - n.T_baseline)) \div (n.T_critical - n.T_baseline), 0, 22)
        S == Clamped((16 * (r.smoke_ppm - n.S_baseline)) \div (n.S_critical - n.S_baseline), 0, 16)
        O == Clamped(2000 \div n.occupant_capacity, 0, 1000)
    IN  IF r.flame_detected THEN BlockedCost ELSE 10 * Exp[T + S] + 5 * O

CostOf(id, r) == IF Found(id) = {} THEN 0 ELSE EdgeCost(FindNode(id), r)

----------------------------------------------------------------------------
(* Packets, as bits, the lowest first: of the fields only a byte of the id, one of
   the sequence number and the flame. *)

Data(p) == Bits(p.node, 8) \o Bits(p.seq, 8) \o Bits(IF p.flame THEN 1 ELSE 0, 8)

\* build_hazard_packet: in corrupt mode with zero for a checksum.
BuildHazardPacket(p) ==
    Data(p) \o (IF p.corrupt THEN [i \in 1 .. 16 |-> 0] ELSE Crc16(Data(p)))

----------------------------------------------------------------------------
Init ==
    /\ mode = "args"
    /\ graph = BuildDefault
    /\ profile = "none" /\ age = 0
    /\ zone = None
    /\ corrupt = FALSE
    /\ seq = 0
    /\ todo = << >>
    /\ shown = Nothing /\ sent = Nothing /\ air = << >>

\* main(): --graph is read first; then --mqtt calls connect_mqtt, which is not there;
\* --packet prints one packet without a fire.
LaunchFails ==
    /\ mode = "args"
    /\ mode' = "crashed"
    /\ UNCHANGED <<graph, profile, zone, corrupt, seq, age, todo, shown, sent, air>>

ReadsGraph ==
    \/ graph' = graph
    \/ \E data \in Files : Loads(data) /\ graph' = FromDict(data)

LaunchPacket ==
    /\ mode = "args"
    /\ ReadsGraph
    /\ mode' = "shot"
    /\ \E id \in Zones : todo' = <<id>>
    /\ UNCHANGED <<profile, zone, corrupt, seq, age, shown, sent, air>>

\* Otherwise the options are set and the commands are read, or each node is printed.
Launch ==
    /\ mode = "args"
    /\ ReadsGraph
    /\ zone' \in Zones \cup {None}
    /\ profile' \in {"slow", "flashover"}
    /\ corrupt' \in BOOLEAN
    /\ mode' \in {"cli", "shot"}
    /\ todo' = IF mode' = "cli" THEN << >>
               ELSE [i \in DOMAIN graph'.nodes |-> graph'.nodes[i].node_id]
    /\ UNCHANGED <<seq, age, shown, sent, air>>

\* packet_for_node, at an age of the fire: its fields.
PacketForNode(id, t) ==
    LET r == GetReadings(id, t)
    IN  [node |-> id, seq |-> seq + 1, temp |-> r.temp_c, smoke |-> r.smoke_ppm,
         flame |-> r.flame_detected, cost |-> CostOf(id, r), corrupt |-> corrupt]

\* print_packet: the readings are taken for the print, and again for the packet, while
\* the time goes on.
PrintPacket ==
    /\ mode = "shot" /\ todo # << >>
    /\ seq < MaxSeq
    /\ LET id    == Head(todo)
           first == GetReadings(id, age)
       IN  IF Found(id) # {} /\ ~ Divides(FindNode(id))
           THEN /\ mode' = "crashed"
                /\ UNCHANGED <<seq, age, todo, shown, sent, air>>
           ELSE /\ \E later \in {t \in Ages : t >= age} :
                     /\ age' = later
                     /\ sent' = PacketForNode(id, later)
                     /\ air' = BuildHazardPacket(sent')
                     /\ shown' = [node |-> id, temp |-> first.temp_c,
                                  smoke |-> first.smoke_ppm, flame |-> first.flame_detected,
                                  cost |-> CostOf(id, first), valid |-> CrcValid(air')]
                /\ seq' = seq + 1
                /\ todo' = Tail(todo)
                /\ mode' = IF todo' = << >> THEN "done" ELSE "shot"
    /\ UNCHANGED <<graph, profile, zone, corrupt>>

\* The commands.  set_profile starts the fire anew ...
SetProfile(name) ==
    /\ profile' = name
    /\ age' = 0
    /\ UNCHANGED <<mode, graph, zone, corrupt, seq, todo, shown, sent, air>>

\* ... and flashover, which needs a zone, sets the zone to what it is.
TriggerFlashover == zone # None /\ SetProfile("flashover")

\* A new zone takes the fire over as old as it is.
SetZone ==
    /\ zone' \in Zones
    /\ UNCHANGED <<mode, graph, profile, corrupt, seq, age, todo, shown, sent, air>>

SetCorruptMode(enabled) ==
    /\ corrupt' = enabled
    /\ UNCHANGED <<mode, graph, profile, zone, seq, age, todo, shown, sent, air>>

\* pub calls publish_mqtt, which is not there; without a zone and nodes it does nothing.
Pub ==
    /\ mode' = IF zone # None \/ graph.nodes # << >> THEN "crashed" ELSE "cli"
    /\ UNCHANGED <<graph, profile, zone, corrupt, seq, age, todo, shown, sent, air>>

Quit ==
    /\ mode' = "done"
    /\ UNCHANGED <<graph, profile, zone, corrupt, seq, age, todo, shown, sent, air>>

\* run_cli: one command.
RunCli ==
    /\ mode = "cli"
    /\ \/ SetProfile("slow")
       \/ TriggerFlashover
       \/ SetZone
       \/ \E enabled \in BOOLEAN : SetCorruptMode(enabled)
       \/ Pub
       \/ Quit

\* Single-shot mode without a node to print.
NothingToPrint == mode = "shot" /\ todo = << >> /\ Quit

\* The fire gets older while the operator thinks, or the output is held up.
Wait ==
    /\ mode \in {"cli", "shot"} /\ profile # "none"
    /\ \E later \in Ages : later > age /\ age' = later
    /\ UNCHANGED <<mode, graph, profile, zone, corrupt, seq, todo, shown, sent, air>>

\* External: one or two bits of a packet are flipped on its way (bound: of a process
\* that ended after one).
Damage ==
    /\ seq = 1 /\ mode \in {"done", "crashed"}
    /\ air = BuildHazardPacket(sent)
    /\ \E i \in DOMAIN air : \E j \in i .. Len(air) :
         air' = [k \in DOMAIN air |-> IF k \in {i, j} THEN 1 - air[k] ELSE air[k]]
    /\ UNCHANGED <<mode, graph, profile, zone, corrupt, seq, age, todo, shown, sent>>

Next ==
    \/ LaunchFails \/ LaunchPacket \/ Launch \/ PrintPacket
    \/ RunCli \/ NothingToPrint \/ Wait \/ Damage

Spec == Init /\ [][Next]_vars

----------------------------------------------------------------------------
(* Properties. *)

TypeOK ==
    /\ mode \in {"args", "shot", "cli", "done", "crashed"}
    /\ profile \in {"none", "slow", "flashover"}
    /\ zone \in Zones \cup {None}
    /\ corrupt \in BOOLEAN
    /\ seq \in 0 .. MaxSeq
    /\ age \in Ages
    /\ \A i \in DOMAIN air : air[i] \in {0, 1}

\* What is printed is not what is sent, since the readings are taken twice; but it is
\* never worse: a flame, a temperature or a cost the operator was shown is in the
\* packet or exceeded by it, nobody but the target burns, and a checksum called
\* invalid is that of the corrupt mode (injector.py:179-193).
ShownIsSent ==
    sent # Nothing =>
        /\ shown.node = sent.node
        /\ shown.flame => sent.flame
        /\ shown.temp <= sent.temp /\ shown.smoke <= sent.smoke /\ shown.cost <= sent.cost
        /\ sent.flame => sent.node = zone
        /\ ~ shown.valid => sent.corrupt

\* A packet that was built with its checksum and has one or two bits flipped fails the
\* check of its receiver: what NodeTables takes for granted (injector.py:31-40).
DamageIsNoticed ==
    sent # Nothing /\ ~ sent.corrupt =>
        (CrcValid(air) <=> air = BuildHazardPacket(sent))
=============================================================================
