------------------------------ MODULE Guidance ------------------------------
(***************************************************************************)
(* What a node does with the answer of routing_compute: the end of loop()  *)
(* in firmware/src/main.cpp (which hop it follows, hold_down_should_switch,*)
(* and the colour of the strip, choose_led_state), with the receive        *)
(* callback running at any point of it.                                    *)
(*                                                                         *)
(* A link-state table is the set of nodes it shows burning.  The callback  *)
(* writes the table that is not active and makes it the active one, and    *)
(* the loop reads active_table anew each time it looks at the hop:         *)
(* link_state_find gives an index into one table, entries[index] may be    *)
(* read from the other.  Then the flame is another entry's: either value.  *)
(* Costs are the code's times two, time is in iterations of loop().        *)
(***************************************************************************)
EXTENDS RouteAnswer

CONSTANTS
    Me,         \* MY_NODE_ID
    Remote,     \* nodes whose packets arrive
    Routed,     \* for each set of burning nodes, what routing_compute may answer
    HoldDown,   \* HOLD_DOWN_MS
    HighCost,   \* 0.7 * SHELTER_THRESHOLD: hold-down acts above it
    Detour,     \* 10000: rerouted_from_original above it
    Threshold,  \* SHELTER_THRESHOLD
    TimeMod     \* 2^32: the range of millis()

Buffer == {"a", "b"}
None   == "none"
Views  == SUBSET Remote
Answers == UNION {Routed[v] : v \in Views}
Hops == {r.next_hop : r \in Answers}

\* The answers are what AnswersAreKept of Routing_proofs establishes for a node that is in
\* the graph and not an exit; ids are numbers.
ASSUME RoutedAssumption ==
    /\ DOMAIN Routed = Views
    /\ \A v \in Views : \A r \in Routed[v] : IsAnswer(r, v, Threshold) /\ r.next_hop \in Nat

ASSUME GuidanceAssumption ==
    /\ Me \in Nat
    /\ 0 \notin Remote
    /\ HoldDown \in Nat \ {0}
    /\ TimeMod \in Nat
    /\ HoldDown < TimeMod
    /\ HighCost \in Nat /\ Detour \in Nat /\ Threshold \in Nat

VARIABLES
    tables, active,     \* the two link-state tables and active_table
    now,                \* millis(), read at the top of loop()
    last_switch_ms, initial_path_set,   \* hold-down, static in routing.cpp
    hop,                \* current_next_hop of main.cpp; 0 before the first
    res,                \* last_result
    pc,                 \* "rest", "switch" or "show"
    found,              \* the table link_state_find has looked at, or None
    lit,                \* whether the hop burnt in it then
    led,                \* current_led_cmd: colour and direction
    quiet,              \* ghost: no packet since routing_compute read the table
    since               \* ghost: iterations since the last switch, at most HoldDown

vars == <<tables, active, now, last_switch_ms, initial_path_set, hop, res, pc,
          found, lit, led, quiet, since>>

Unrouted == [next_hop |-> 0, cost |-> 0, shelter |-> FALSE]
Commands == [color : {"green", "yellow", "red", "white"}, direction : {-1, 1}]

Init ==
    /\ tables = [b \in Buffer |-> {}]
    /\ active = "a"
    /\ now = 0
    /\ last_switch_ms = 0
    /\ initial_path_set = FALSE
    /\ hop = 0
    /\ res = Unrouted
    /\ pc = "rest"
    /\ found = None
    /\ lit = FALSE
    /\ led = [color |-> "green", direction |-> 1]
    /\ quiet = TRUE
    /\ since = HoldDown

----------------------------------------------------------------------------
(* The callback, on a packet it accepts.                                   *)

Receive(n, flame) ==
    /\ \E b \in Buffer \ {active} :
         /\ tables' = [tables EXCEPT ![b] = IF flame THEN @ \cup {n} ELSE @ \ {n}]
         /\ active' = b
    /\ quiet' = FALSE
    /\ UNCHANGED <<now, last_switch_ms, initial_path_set, hop, res, pc, found, lit,
                   led, since>>

----------------------------------------------------------------------------
(* One iteration of loop().                                                *)

\* Mutant: the clock does not wrap.
TickWide == now + 1

\* An iteration later.
Tick == (now + 1) % TimeMod

\* routing_compute is called; the hop is looked at unless the node shelters or
\* the answer is the hop it follows.
Compute ==
    /\ pc = "rest"
    /\ now' = Tick
    /\ since' = IF since < HoldDown THEN since + 1 ELSE since
    /\ \E r \in Routed[tables[active]] :
         /\ res' = r
         /\ pc' = IF r.shelter \/ r.next_hop = hop THEN "show" ELSE "switch"
    /\ quiet' = TRUE
    /\ UNCHANGED <<tables, active, last_switch_ms, initial_path_set, hop, found, lit,
                   led>>

\* link_state_find looks for the hop in the active table.
Find ==
    /\ pc \in {"switch", "show"}
    /\ hop # 0
    /\ found = None
    /\ found' = active
    /\ lit' = (hop \in tables[active])
    /\ UNCHANGED <<tables, active, now, last_switch_ms, initial_path_set, hop, res, pc,
                   led, quiet, since>>

\* The hop has been looked for, or there is none.
Looked == hop = 0 \/ found # None

\* What active_table->entries[index].flame_detected may read.  The table that was looked
\* at may be active again after two packets; the hop may be new in it, and not looked up.
Reads(flame) ==
    /\ hop = 0 => ~ flame
    /\ found = active /\ (lit \/ hop \notin tables[active]) =>
           (flame <=> hop \in tables[active])

Elapsed == (now - last_switch_ms) % TimeMod

\* Mutant: a burning hop is held like another.
ShouldSwitchNoFlame(flame) ==
    /\ res.next_hop # 0
    /\ \/ hop = 0
       \/ ~ initial_path_set
       \/ ~ (Elapsed < HoldDown /\ res.cost > HighCost)

\* hold_down_should_switch
ShouldSwitch(flame) ==
    /\ res.next_hop # 0
    /\ \/ hop = 0
       \/ flame
       \/ ~ initial_path_set
       \/ ~ (Elapsed < HoldDown /\ res.cost > HighCost)

\* Mutant: leaving a burning hop does not restart the timer.
SwitchUntimed(flame) ==
    /\ ShouldSwitch(flame)
    /\ hop' = res.next_hop
    /\ since' = 0
    /\ last_switch_ms' = IF flame THEN last_switch_ms ELSE now
    /\ initial_path_set' = (initial_path_set \/ hop = 0 \/ ~ flame)

\* The switch is made and the timer restarts.  The flame's branch alone leaves
\* initial_path_set.
Switch(flame) ==
    /\ ShouldSwitch(flame)
    /\ hop' = res.next_hop
    /\ since' = 0
    /\ last_switch_ms' = now
    /\ initial_path_set' = (initial_path_set \/ hop = 0 \/ ~ flame)

\* Mutant: a refusal restarts the timer.
KeepTimed(flame) ==
    /\ ~ ShouldSwitch(flame)
    /\ last_switch_ms' = now
    /\ UNCHANGED <<hop, since, initial_path_set>>

Keep(flame) ==
    /\ ~ ShouldSwitch(flame)
    /\ UNCHANGED <<hop, since, last_switch_ms, initial_path_set>>

Decide ==
    /\ pc = "switch"
    /\ Looked
    /\ \E flame \in BOOLEAN : Reads(flame) /\ (Switch(flame) \/ Keep(flame))
    /\ pc' = "show"
    /\ found' = None
    /\ lit' = FALSE
    /\ UNCHANGED <<tables, active, now, res, led, quiet>>

\* choose_led_state; smoky when the node's own S_norm is above its T_norm.
Color(flame, smoky) ==
    IF res.shelter THEN "white"
    ELSE IF flame THEN "red"
    ELSE IF res.cost >= Threshold THEN "white"
    ELSE IF hop # 0 /\ res.cost > Detour THEN IF smoky THEN "yellow" ELSE "red"
    ELSE "green"

Show ==
    /\ pc = "show"
    /\ Looked
    /\ \E flame, smoky \in BOOLEAN :
         /\ Reads(flame)
         /\ led' = [color |-> Color(flame, smoky), direction |-> IF hop < Me THEN -1 ELSE 1]
    /\ pc' = "rest"
    /\ found' = None
    /\ lit' = FALSE
    /\ UNCHANGED <<tables, active, now, last_switch_ms, initial_path_set, hop, res,
                   quiet, since>>

Loop == Compute \/ Find \/ Decide \/ Show

Next ==
    \/ \E n \in Remote, flame \in BOOLEAN : Receive(n, flame)
    \/ Compute
    \/ Find
    \/ Decide
    \/ Show

\* loop() is called again and again.
Spec == Init /\ [][Next]_vars /\ WF_vars(Loop)

----------------------------------------------------------------------------
(* Properties.                                                             *)

TypeOK ==
    /\ tables \in [Buffer -> Views]
    /\ active \in Buffer
    /\ now \in 0 .. TimeMod - 1
    /\ last_switch_ms \in 0 .. TimeMod - 1
    /\ initial_path_set \in BOOLEAN
    /\ hop \in Hops \cup {0}
    /\ hop # 0 => initial_path_set
    /\ res \in Answers \cup {Unrouted}
    /\ pc \in {"rest", "switch", "show"}
    /\ pc # "rest" => res \in Answers
    /\ found \in Buffer \cup {None}
    /\ lit \in BOOLEAN
    /\ led \in Commands
    /\ quiet \in BOOLEAN
    /\ since \in 0 .. HoldDown

\* A hop is given up within HOLD_DOWN_MS of the switch to it only for a route
\* that is not expensive, or for a flame on it: one the table shows, or one
\* misread while a packet arrives.  Whatever millis() is: the timer wraps.
HeldDown ==
    [][hop' # hop /\ hop # 0 =>
         \/ since >= HoldDown
         \/ res.cost <= HighCost
         \/ hop \in tables[active]
         \/ found # active]_vars

\* An iteration no packet arrives in ends on a hop that does not burn, however
\* recent and however expensive, and shows white exactly when it shelters.
QuietIsSafe ==
    pc = "rest" /\ quiet /\ hop # 0 =>
        /\ ~ res.shelter => hop \notin tables[active]
        /\ res.shelter <=> led.color = "white"

\* When routing keeps its answer, the node comes to follow it, hold-down or not.
Settles ==
    <>[][res' = res]_vars => <>[](pc = "rest" => res.shelter \/ hop = res.next_hop)
=============================================================================
