-------------------------- MODULE Guidance_proofs --------------------------
(***************************************************************************)
(* The hop a node follows, for any building, hold-down time and clock      *)
(* width: it is given up too early only for a flame or a cheap route, and  *)
(* it does not burn when no packet arrives.                                *)
(***************************************************************************)
EXTENDS Guidance, TLAPS

\* Remainders of numbers less than a modulus away from 0.
LEMMA ModOfSmall ==
    ASSUME NEW m \in Nat, m > 0, NEW x \in Int, 0 <= x, x < m
    PROVE  x % m = x
OBVIOUS

LEMMA ModOfNegative ==
    ASSUME NEW m \in Nat, m > 0, NEW x \in Int, -m < x, x < 0
    PROVE  x % m = x + m
OBVIOUS

\* A wrapped clock that moves by one moves what has elapsed by one.
LEMMA ElapsedMoves ==
    ASSUME NEW m \in Nat, m > 0, NEW t \in 0 .. m - 1, NEW last \in 0 .. m - 1,
           ((t - last) % m) + 1 < m
    PROVE  (((t + 1) % m) - last) % m = ((t - last) % m) + 1
<1> DEFINE d == t - last
<1>1. d \in Int /\ -m < d /\ d < m
  OBVIOUS
<1>2. d % m = IF d < 0 THEN d + m ELSE d
  BY <1>1, ModOfSmall, ModOfNegative
<1>3. CASE t + 1 < m
  <2>1. (t + 1) % m = t + 1
    BY <1>3, ModOfSmall
  <2>2. CASE d + 1 < 0
    BY <1>1, <1>2, <2>1, <2>2, ModOfNegative
  <2>3. CASE d + 1 >= 0
    <3>1. d >= 0
      BY <1>1, <1>2, <2>3
    <3>2. d + 1 < m
      BY <1>1, <1>2, <3>1
    <3>3. (d + 1) % m = d + 1
      BY <1>1, <2>3, <3>2, ModOfSmall
    <3> QED
      BY <1>2, <2>1, <3>1, <3>3
  <2> QED
    BY <1>1, <2>2, <2>3
<1>4. CASE t + 1 = m
  <2>1. (t + 1) % m = 0
    BY <1>4
  <2>2. last # 0
    BY <1>1, <1>2, <1>4
  <2>3. (0 - last) % m = m - last
    BY <2>2, ModOfNegative
  <2> QED
    BY <1>1, <1>2, <1>4, <2>1, <2>3
<1> QED
  BY <1>3, <1>4

----------------------------------------------------------------------------
(* Type correctness.                                                       *)

LEMMA AnswerOK ==
    ASSUME TypeOK, NEW r \in Routed[tables[active]]
    PROVE  /\ r \in Answers
           /\ r.next_hop \in Nat /\ r.cost \in Nat /\ r.shelter \in BOOLEAN
           /\ r.next_hop \in Hops
           /\ r.shelter <=> r.cost >= Threshold
           /\ r.shelter <=> r.next_hop = 0
           /\ r.next_hop \notin tables[active]
<1>1. tables[active] \in Views
  BY DEF TypeOK
<1>2. r \in Answers
  BY <1>1 DEF Answers
<1>3. r.next_hop \in Hops
  BY <1>2 DEF Hops
<1> QED
  BY <1>1, <1>2, <1>3, RoutedAssumption DEF IsAnswer

LEMMA InitTypeOK == Init => TypeOK
<1> SUFFICES ASSUME Init PROVE TypeOK
  OBVIOUS
<1>1. tables \in [Buffer -> Views] /\ active \in Buffer
  BY DEF Init, Views, Buffer
<1>2. led \in Commands
  BY DEF Init, Commands
<1>3. now \in 0 .. TimeMod - 1 /\ last_switch_ms \in 0 .. TimeMod - 1 /\ since \in 0 .. HoldDown
  BY GuidanceAssumption DEF Init
<1> QED
  BY <1>1, <1>2, <1>3 DEF Init, TypeOK

LEMMA StepTypeOK == TypeOK /\ [Next]_vars => TypeOK'
<1> SUFFICES ASSUME TypeOK, [Next]_vars PROVE TypeOK'
  OBVIOUS
<1>1. ASSUME NEW n \in Remote, NEW flame \in BOOLEAN, Receive(n, flame) PROVE TypeOK'
  <2>1. PICK b \in Buffer \ {active} :
          /\ tables' = [tables EXCEPT ![b] = IF flame THEN @ \cup {n} ELSE @ \ {n}]
          /\ active' = b
    BY <1>1 DEF Receive
  <2>2. tables[b] \cup {n} \in Views /\ tables[b] \ {n} \in Views
    BY DEF TypeOK, Views
  <2>3. tables' \in [Buffer -> Views]
    BY <2>1, <2>2 DEF TypeOK
  <2> QED
    BY <1>1, <2>1, <2>3 DEF Receive, TypeOK
<1>2. CASE Compute
  <2>1. PICK r \in Routed[tables[active]] :
          /\ res' = r
          /\ pc' = IF r.shelter \/ r.next_hop = hop THEN "show" ELSE "switch"
    BY <1>2 DEF Compute
  <2>2. res' \in Answers /\ pc' \in {"switch", "show"}
    BY <2>1, AnswerOK
  <2>3. now' \in 0 .. TimeMod - 1
    BY <1>2, GuidanceAssumption DEF Compute, Tick, TypeOK
  <2>4. since' \in 0 .. HoldDown
    BY <1>2, GuidanceAssumption DEF Compute, TypeOK
  <2> QED
    BY <1>2, <2>2, <2>3, <2>4 DEF Compute, TypeOK
<1>3. CASE Find
  BY <1>3 DEF Find, TypeOK
<1>4. CASE Decide
  <2>1. PICK flame \in BOOLEAN : Switch(flame) \/ Keep(flame)
    BY <1>4 DEF Decide
  <2>2. res \in Answers
    BY <1>4 DEF Decide, TypeOK
  <2>3. CASE Switch(flame)
    <3>1. hop' \in Hops
      BY <2>2, <2>3 DEF Switch, Hops
    <3>2. last_switch_ms' \in 0 .. TimeMod - 1 /\ since' \in 0 .. HoldDown
      BY <2>3, GuidanceAssumption DEF Switch, TypeOK
    <3>3. initial_path_set' = TRUE
      BY <2>3, Zenon DEF Switch, TypeOK
    <3> QED
      BY <1>4, <3>1, <3>2, <3>3 DEF Decide, TypeOK
  <2>4. CASE Keep(flame)
    BY <1>4, <2>4 DEF Decide, Keep, TypeOK
  <2> QED
    BY <2>1, <2>3, <2>4
<1>5. CASE Show
  <2>1. led' \in Commands
    BY <1>5 DEF Show, Color, Commands
  <2> QED
    BY <1>5, <2>1 DEF Show, TypeOK
<1>6. CASE UNCHANGED vars
  BY <1>6 DEF vars, TypeOK
<1> QED
  BY <1>1, <1>2, <1>3, <1>4, <1>5, <1>6 DEF Next

\* The state is well typed, for every building and clock.
THEOREM GuidanceTypeCorrect == Spec => []TypeOK
<1> QED
  BY InitTypeOK, StepTypeOK, PTL DEF Spec

----------------------------------------------------------------------------
(* The hold-down and the flames.                                           *)

\* The timer runs with the clock while it matters.
Timer == hop # 0 /\ since < HoldDown => Elapsed = since

\* Without a packet the loop reads one table throughout, and has left a burning
\* hop by the time it chooses the colour.
OneTable ==
    /\ pc = "rest" => found = None
    /\ quiet =>
        /\ found # None => found = active /\ (lit <=> hop \in tables[active])
        /\ pc # "rest" => res \in Routed[tables[active]]
        /\ pc = "switch" => ~ res.shelter
        /\ pc = "show" /\ ~ res.shelter => hop \notin tables[active]

Inv == TypeOK /\ Timer /\ OneTable /\ QuietIsSafe

LEMMA InitInv == Init => Inv
<1> SUFFICES ASSUME Init PROVE Inv
  OBVIOUS
<1>1. TypeOK
  BY InitTypeOK
<1> QED
  BY <1>1 DEF Init, Inv, Timer, OneTable, QuietIsSafe

\* What a packet leaves alone.
LEMMA ReceiveInv ==
    ASSUME Inv, TypeOK', NEW n \in Remote, NEW flame \in BOOLEAN, Receive(n, flame)
    PROVE  Inv'
BY DEF Inv, Receive, Timer, Elapsed, OneTable, QuietIsSafe

LEMMA ComputeInv == ASSUME Inv, TypeOK', Compute PROVE Inv'
<1>1. PICK r \in Routed[tables[active]] :
        /\ res' = r
        /\ pc' = IF r.shelter \/ r.next_hop = hop THEN "show" ELSE "switch"
  BY DEF Compute
<1>2. TypeOK
  BY DEF Inv
<1>3. r.next_hop \notin tables[active] /\ r.shelter \in BOOLEAN
  BY <1>2, AnswerOK
<1>4. OneTable'
  BY <1>1, <1>3 DEF Compute, Inv, OneTable
<1>5. Timer'
  <2> SUFFICES ASSUME hop # 0, since' < HoldDown PROVE Elapsed' = since'
    BY DEF Compute, Timer
  <2>1. since < HoldDown /\ since' = since + 1
    BY <1>2, GuidanceAssumption DEF Compute, TypeOK
  <2>2. Elapsed = since
    BY <2>1 DEF Inv, Timer
  <2>3. Elapsed + 1 < TimeMod
    BY <1>2, <2>1, <2>2, GuidanceAssumption DEF TypeOK
  <2>4. (((now + 1) % TimeMod) - last_switch_ms) % TimeMod = Elapsed + 1
    BY <1>2, <2>3, ElapsedMoves, GuidanceAssumption DEF TypeOK, Elapsed
  <2> QED
    BY <2>1, <2>2, <2>4 DEF Compute, Tick, Elapsed
<1>6. QuietIsSafe'
  BY <1>1 DEF QuietIsSafe
<1> QED
  BY <1>4, <1>5, <1>6 DEF Inv

LEMMA FindInv == ASSUME Inv, TypeOK', Find PROVE Inv'
BY DEF Inv, Find, Timer, Elapsed, OneTable, QuietIsSafe

LEMMA DecideInv == ASSUME Inv, TypeOK', Decide PROVE Inv'
<1>1. PICK flame \in BOOLEAN : Reads(flame) /\ (Switch(flame) \/ Keep(flame))
  BY DEF Decide
<1>2. TypeOK
  BY DEF Inv
<1>3. Timer'
  <2>1. CASE Switch(flame)
    <3>1. last_switch_ms' = now /\ now' = now /\ since' = 0
      BY <2>1 DEF Switch, Decide
    <3>2. (now - now) % TimeMod = 0
      BY <1>2, GuidanceAssumption, ModOfSmall DEF TypeOK
    <3> QED
      BY <3>1, <3>2 DEF Timer, Elapsed
  <2>2. CASE Keep(flame)
    BY <2>2 DEF Keep, Decide, Inv, Timer, Elapsed
  <2> QED
    BY <1>1, <2>1, <2>2
<1>4. ASSUME quiet PROVE hop' \notin tables[active]
  <2>1. res \in Routed[tables[active]] /\ ~ res.shelter
    BY <1>4 DEF Decide, Inv, OneTable
  <2>2. res.next_hop \notin tables[active] /\ res.next_hop # 0
    BY <1>2, <2>1, AnswerOK
  <2>3. CASE Switch(flame)
    BY <2>2, <2>3 DEF Switch
  <2>4. CASE Keep(flame)
    <3>1. hop' = hop /\ hop # 0 /\ ~ flame
      BY <2>2, <2>4 DEF Keep, ShouldSwitch
    <3>2. found = active /\ (lit <=> hop \in tables[active])
      BY <1>4, <3>1 DEF Decide, Looked, Inv, OneTable
    <3> QED
      BY <1>1, <3>1, <3>2 DEF Reads
  <2> QED
    BY <1>1, <2>3, <2>4
<1>5. OneTable'
  BY <1>4 DEF Decide, Inv, OneTable
<1>6. QuietIsSafe'
  BY DEF Decide, QuietIsSafe
<1> QED
  BY <1>3, <1>5, <1>6 DEF Inv

LEMMA ShowInv == ASSUME Inv, TypeOK', Show PROVE Inv'
<1>1. PICK flame \in BOOLEAN, smoky \in BOOLEAN :
        led' = [color |-> Color(flame, smoky), direction |-> IF hop < Me THEN -1 ELSE 1]
  BY DEF Show
<1>2. TypeOK
  BY DEF Inv
<1>3. Timer' /\ OneTable'
  BY DEF Show, Inv, Timer, Elapsed, OneTable
<1>4. ASSUME quiet PROVE res.shelter <=> led'.color = "white"
  <2>1. res \in Routed[tables[active]]
    BY <1>4 DEF Show, Inv, OneTable
  <2>2. res.shelter <=> res.cost >= Threshold
    BY <1>2, <2>1, AnswerOK
  <2> QED
    BY <1>1, <2>2 DEF Color
<1>5. QuietIsSafe'
  BY <1>4 DEF Show, Inv, OneTable, QuietIsSafe
<1> QED
  BY <1>3, <1>5 DEF Inv

LEMMA StepInv == Inv /\ [Next]_vars => Inv'
<1> SUFFICES ASSUME Inv, [Next]_vars PROVE Inv'
  OBVIOUS
<1>1. TypeOK'
  BY StepTypeOK DEF Inv
<1>2. CASE UNCHANGED vars
  BY <1>2 DEF vars, Inv, TypeOK, Timer, Elapsed, OneTable, QuietIsSafe
<1> QED
  BY <1>1, <1>2, ReceiveInv, ComputeInv, FindInv, DecideInv, ShowInv DEF Next

\* An iteration of loop() without a packet ends on a hop that does not burn,
\* and shows white exactly when it shelters, in every building.
THEOREM QuietIterationsAreSafe == Spec => []QuietIsSafe
<1>1. Inv => QuietIsSafe
  BY DEF Inv
<1> QED
  BY InitInv, StepInv, <1>1, PTL DEF Spec

\* hold_down_should_switch holds for HOLD_DOWN_MS whatever the clock reads, also
\* while millis() wraps.
THEOREM HoldDownIsKept == Spec => HeldDown
<1> DEFINE Kept == hop' # hop /\ hop # 0 =>
                     \/ since >= HoldDown
                     \/ res.cost <= HighCost
                     \/ hop \in tables[active]
                     \/ found # active
<1>1. ASSUME Inv, Next, hop' # hop, hop # 0 PROVE Kept
  <2>1. Decide
    BY <1>1 DEF Next, Receive, Compute, Find, Show
  <2>2. PICK flame \in BOOLEAN : Reads(flame) /\ Switch(flame)
    BY <1>1, <2>1 DEF Decide, Keep
  <2>3. CASE flame
    BY <2>2, <2>3 DEF Reads
  <2>4. CASE ~ flame
    <3>1. ~ (Elapsed < HoldDown /\ res.cost > HighCost)
      BY <1>1, <2>2, <2>4 DEF Switch, ShouldSwitch, Inv, TypeOK
    <3>2. res \in Answers
      BY <1>1, <2>1 DEF Decide, Inv, TypeOK
    <3>3. res.cost \in Nat
      BY <3>2, RoutedAssumption DEF Answers, IsAnswer
    <3> QED
      BY <1>1, <3>1, <3>3, GuidanceAssumption DEF Inv, Timer, TypeOK
  <2> QED
    BY <2>3, <2>4
<1>2. Inv /\ [Next]_vars => [Kept]_vars
  BY <1>1 DEF vars
<1> QED
  BY InitInv, StepInv, <1>2, PTL DEF Spec, HeldDown
=============================================================================
