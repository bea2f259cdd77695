------------------------- MODULE MqttBridge_proofs -------------------------
(***************************************************************************)
(* What the bridge says of the nodes is consistent, its map is that of     *)
(* their states and its routes avoid the fires they report, for every      *)
(* building, whatever the nodes publish and the callers inject.  What the  *)
(* injector sends is no less than it shows, and damage of it is noticed.   *)
(***************************************************************************)
EXTENDS Mqtt, Lemmas

\* The types of what the messages write.
Typed ==
    /\ DOMAIN nodeStates \subseteq Names
    /\ nodeStates \in [DOMAIN nodeStates -> NodeState]
    /\ fires \in Seq(Names)
    /\ status \in {"NORMAL", "FIRE_DETECTED", "EVACUATION_ACTIVE", "SHELTER_IN_PLACE"}

Inv == Typed /\ StatusHasFires /\ TierTellsFailure

LEMMA InitInv == Init => Inv
BY DEF Init, Inv, Typed, StatusHasFires, TierTellsFailure

\* Every number has a name.
LEMMA SidIsNamed ==
    ASSUME NEW num \in Int
    PROVE  SidOf(num) \in Names
<1>1. CASE num \in 0 .. Len(Graph.nodes) - 1
  <2>1. /\ Graph.nodes \in Seq(BuildingNode)
        /\ num + 1 \in DOMAIN Graph.nodes
    BY <1>1, MqttBridgeAssumption DEF BuildingGraph
  <2>2. Graph.nodes[num + 1].id \in NodeIds(Graph)
    BY <2>1 DEF NodeIds, ToSet
  <2>3. num % 24 \in 0 .. 23
    OBVIOUS
  <2> QED
    BY <1>1, <2>2, <2>3 DEF SidOf, StringId, Names
<1>2. CASE num \notin 0 .. Len(Graph.nodes) - 1
  <2>1. SidOf(num) = <<"n", 0, 0, num % 24>>
    BY <1>2 DEF SidOf, StringId
  <2>2. num % 24 \in 0 .. 23
    OBVIOUS
  <2> QED
    BY <2>1, <2>2 DEF Names
<1> QED
  BY <1>1, <1>2

\* The list of fires grows by the node, once.
LEMMA FireIsAdded ==
    ASSUME Inv, NEW sid \in Names
    PROVE  LET list == AddFire(fires, sid)
           IN  /\ list \in Seq(Names)
               /\ ToSet(list) = ToSet(fires) \cup {sid}
               /\ \A i, j \in DOMAIN list : list[i] = list[j] => i = j
               /\ Len(list) >= Len(fires)
<1> DEFINE longer == Append(fires, sid)
<1>1. fires \in Seq(Names)
  BY DEF Inv, Typed
<1>2. \A i, j \in DOMAIN fires : fires[i] = fires[j] => i = j
  BY DEF Inv, StatusHasFires
<1>3. CASE sid \in ToSet(fires)
  BY <1>1, <1>2, <1>3 DEF AddFire
<1>4. CASE sid \notin ToSet(fires)
  <2>1. /\ longer \in Seq(Names)
        /\ Len(longer) = Len(fires) + 1
        /\ \A i \in 1 .. Len(fires) : longer[i] = fires[i]
        /\ longer[Len(fires) + 1] = sid
    BY <1>1
  <2>2. ToSet(longer) = ToSet(fires) \cup {sid}
    BY <1>1, <2>1 DEF ToSet
  <2>3. \A i \in 1 .. Len(fires) : fires[i] # sid
    BY <1>1, <1>4 DEF ToSet
  <2>4. \A i, j \in DOMAIN longer : longer[i] = longer[j] => i = j
    BY <1>1, <1>2, <2>1, <2>3
  <2> QED
    BY <1>4, <2>1, <2>2, <2>4 DEF AddFire
<1> QED
  BY <1>3, <1>4

\* A report makes a state, in the tier of its flame.
LEMMA ReportIsState ==
    ASSUME NEW m \in Messages, m.kind = "hazard"
    PROVE  /\ Reported(m) \in NodeState
           /\ Reported(m).flameDetected = m.flame
           /\ Reported(m).online /\ Reported(m).sensorOk
           /\ Reported(m).failoverTier \in {"primary", "secondary"}
BY MqttBridgeAssumption DEF Reported, NodeState, AtMost
\* A hazard message: the reported node is listed if it burns, and the status follows
\* from the list and the states that include it.
LEMMA HazardInv ==
    ASSUME Inv, NEW m \in Messages, m.kind = "hazard", HandleHazard(m)
    PROVE  Inv'
<1> DEFINE sid   == SidOf(m.node)
           state == Reported(m)
<1>1. sid \in Names
  BY MqttBridgeAssumption, SidIsNamed
<1>2. /\ state \in NodeState
      /\ state.flameDetected = m.flame
      /\ state.online /\ state.sensorOk
      /\ state.failoverTier \in {"primary", "secondary"}
  BY ReportIsState
<1>3. /\ nodeStates' = [n \in DOMAIN nodeStates \cup {sid} |->
                           IF n = sid THEN state ELSE nodeStates[n]]
      /\ fires' = IF m.flame THEN AddFire(fires, sid) ELSE fires
      /\ status' = StatusAfter(state, nodeStates', fires')
  BY DEF HandleHazard
<1> HIDE DEF sid, state
<1>4. /\ DOMAIN nodeStates' = DOMAIN nodeStates \cup {sid}
      /\ \A n \in DOMAIN nodeStates' :
            nodeStates'[n] = IF n = sid THEN state ELSE nodeStates[n]
      /\ nodeStates' = [n \in DOMAIN nodeStates' |-> nodeStates'[n]]
  BY <1>3
<1>5. /\ fires' \in Seq(Names)
      /\ ToSet(fires) \subseteq ToSet(fires')
      /\ m.flame => sid \in ToSet(fires')
      /\ \A i, j \in DOMAIN fires' : fires'[i] = fires'[j] => i = j
      /\ Len(fires') >= Len(fires)
  <2>1. CASE m.flame
    BY <1>1, <1>3, <2>1, FireIsAdded
  <2>2. CASE ~ m.flame
    BY <1>3, <2>2 DEF Inv, Typed, StatusHasFires
  <2> QED
    BY <2>1, <2>2
<1>6. nodeStates' \in [DOMAIN nodeStates' -> NodeState]
  <2>1. \A n \in DOMAIN nodeStates' : nodeStates'[n] \in NodeState
    BY <1>2, <1>4 DEF Inv, Typed
  <2> QED
    BY <1>4, <2>1
<1>7. \A n \in DOMAIN nodeStates' : nodeStates'[n].flameDetected => n \in ToSet(fires')
  <2> SUFFICES ASSUME NEW n \in DOMAIN nodeStates', nodeStates'[n].flameDetected
               PROVE  n \in ToSet(fires')
    OBVIOUS
  <2>1. CASE n = sid
    BY <1>2, <1>4, <1>5, <2>1
  <2>2. CASE n # sid
    BY <1>4, <1>5, <2>2 DEF Inv, StatusHasFires
  <2> QED
    BY <2>1, <2>2
<1>8. status' = "EVACUATION_ACTIVE" => fires' # << >>
  <2> SUFFICES ASSUME status' = "EVACUATION_ACTIVE" PROVE fires' # << >>
    OBVIOUS
  <2>1. status' # status => \E n \in DOMAIN nodeStates' : nodeStates'[n].flameDetected
    BY <1>3 DEF StatusAfter
  <2>2. CASE status' # status
    <3>1. ToSet(fires') # {}
      BY <1>7, <2>1, <2>2
    <3> QED
      BY <3>1 DEF ToSet
  <2>3. CASE status' = status
    <3>1. Len(fires) > 0
      BY <2>3 DEF Inv, Typed, StatusHasFires
    <3> QED
      BY <1>5, <3>1 DEF Inv, Typed
  <2> QED
    BY <2>2, <2>3
<1>9. status' = "SHELTER_IN_PLACE" => Len(fires') > 3
  BY <1>3, <1>5 DEF StatusAfter, Inv, Typed, StatusHasFires
<1>10. Typed'
  <2>1. status' \in {"NORMAL", "FIRE_DETECTED", "EVACUATION_ACTIVE", "SHELTER_IN_PLACE"}
    BY <1>3 DEF StatusAfter, Inv, Typed
  <2> QED
    BY <1>1, <1>4, <1>5, <1>6, <2>1 DEF Inv, Typed
<1>11. TierTellsFailure'
  <2> SUFFICES ASSUME NEW n \in DOMAIN nodeStates'
               PROVE  LET s == nodeStates'[n]
                      IN  /\ s.failoverTier \in {"primary", "secondary"} <=> s.online /\ s.sensorOk
                          /\ s.failoverTier = "tertiary" => ~ s.sensorOk
                          /\ s.failoverTier = "isolated" => ~ s.online
    BY DEF TierTellsFailure
  <2>1. CASE n = sid
    BY <1>2, <1>4, <2>1
  <2>2. CASE n # sid
    BY <1>4, <2>2 DEF Inv, TierTellsFailure
  <2> QED
    BY <2>1, <2>2
<1> QED
  BY <1>5, <1>7, <1>8, <1>9, <1>10, <1>11 DEF Inv, StatusHasFires

\* A status message or an injection changes one state at most, to another one that
\* burns only if the node is listed and whose tier tells its failure; the list only
\* grows, the status stays.
LEMMA StateInv ==
    ASSUME Inv, NEW sid, NEW state,
           nodeStates' = IF sid \in DOMAIN nodeStates
                         THEN [nodeStates EXCEPT ![sid] = state] ELSE nodeStates,
           sid \in DOMAIN nodeStates =>
               /\ state \in NodeState
               /\ state.flameDetected => sid \in ToSet(fires')
               /\ state.failoverTier \in {"primary", "secondary"} <=> state.online /\ state.sensorOk
               /\ state.failoverTier = "tertiary" => ~ state.sensorOk
               /\ state.failoverTier = "isolated" => ~ state.online,
           fires' \in Seq(Names),
           ToSet(fires) \subseteq ToSet(fires'),
           \A i, j \in DOMAIN fires' : fires'[i] = fires'[j] => i = j,
           Len(fires') >= Len(fires),
           status' = status
    PROVE  Inv'
<1>1. DOMAIN nodeStates' = DOMAIN nodeStates
  OBVIOUS
<1>2. \A n \in DOMAIN nodeStates : nodeStates'[n] \in {nodeStates[n], state}
                                     /\ (n # sid => nodeStates'[n] = nodeStates[n])
  OBVIOUS
<1>3. Typed'
  <2>1. nodeStates' \in [DOMAIN nodeStates -> NodeState]
    BY DEF Inv, Typed
  <2> QED
    BY <1>1, <2>1 DEF Inv, Typed
<1>4. StatusHasFires'
  <2>1. \A n \in DOMAIN nodeStates' : nodeStates'[n].flameDetected => n \in ToSet(fires')
    BY <1>1, <1>2 DEF Inv, StatusHasFires
  <2>2. status = "EVACUATION_ACTIVE" => Len(fires) > 0
    BY DEF Inv, Typed, StatusHasFires
  <2>3. status = "SHELTER_IN_PLACE" => Len(fires) > 3
    BY DEF Inv, StatusHasFires
  <2>4. Len(fires) \in Nat /\ Len(fires') \in Nat
    BY DEF Inv, Typed
  <2> QED
    BY <2>1, <2>2, <2>3, <2>4 DEF StatusHasFires
<1>5. TierTellsFailure'
  BY <1>1, <1>2 DEF Inv, TierTellsFailure
<1> QED
  BY <1>3, <1>4, <1>5 DEF Inv

LEMMA FaultInv ==
    ASSUME Inv, NEW m, HandleStatus(m)
    PROVE  Inv'
<1> DEFINE sid   == StringId(m.node, Graph)
           state == [nodeStates[sid] EXCEPT !.sensorOk = FALSE, !.failoverTier = "tertiary"]
<1>1. UNCHANGED <<fires, status>>
  BY DEF HandleStatus
<1>2. CASE m.fault /\ sid \in DOMAIN nodeStates
  <2>1. nodeStates' = [nodeStates EXCEPT ![sid] = state]
    BY <1>2 DEF HandleStatus
  <2>2. nodeStates[sid] \in NodeState
    BY <1>2 DEF Inv, Typed
  <2>3. /\ state \in NodeState
        /\ state.flameDetected = nodeStates[sid].flameDetected
        /\ ~ state.sensorOk /\ state.failoverTier = "tertiary"
    <3> DEFINE old == nodeStates[sid]
    <3>1. /\ {old.online, old.flameDetected, old.sensorOk} \subseteq BOOLEAN
          /\ old.temperature \in Int /\ old.smoke \in 0 .. 1000
      BY <2>2 DEF NodeState
    <3>2. DOMAIN old = {"online", "temperature", "smoke", "flameDetected", "failoverTier", "sensorOk"}
      BY <2>2 DEF NodeState
    <3>3. state = [old EXCEPT !.sensorOk = FALSE, !.failoverTier = "tertiary"]
      OBVIOUS
    <3> HIDE DEF old, state
    <3>4. state = [online |-> old.online, temperature |-> old.temperature,
                   smoke |-> old.smoke, flameDetected |-> old.flameDetected,
                   failoverTier |-> "tertiary", sensorOk |-> FALSE]
      BY <3>2, <3>3
    <3>5. state \in NodeState
      BY <3>1, <3>4 DEF NodeState
    <3>6. state.flameDetected = old.flameDetected /\ ~ state.sensorOk /\ state.failoverTier = "tertiary"
      BY <3>4
    <3> QED
      BY <3>5, <3>6 DEF old
  <2>4. nodeStates[sid].flameDetected => sid \in ToSet(fires)
    BY <1>2 DEF Inv, StatusHasFires
  <2>5. /\ fires \in Seq(Names)
        /\ Len(fires) \in Nat
        /\ \A i, j \in DOMAIN fires : fires[i] = fires[j] => i = j
    BY DEF Inv, Typed, StatusHasFires
  <2> HIDE DEF sid, state
  <2>6. nodeStates' = IF sid \in DOMAIN nodeStates
                      THEN [nodeStates EXCEPT ![sid] = state] ELSE nodeStates
    BY <1>2, <2>1
  <2>7. /\ fires' \in Seq(Names)
        /\ ToSet(fires) \subseteq ToSet(fires')
        /\ \A i, j \in DOMAIN fires' : fires'[i] = fires'[j] => i = j
        /\ Len(fires') >= Len(fires)
    BY <1>1, <2>5
  <2>8. /\ state.flameDetected => sid \in ToSet(fires')
        /\ state.failoverTier \in {"primary", "secondary"} <=> state.online /\ state.sensorOk
        /\ state.failoverTier = "tertiary" => ~ state.sensorOk
        /\ state.failoverTier = "isolated" => ~ state.online
    BY <1>1, <2>3, <2>4
  <2> QED
    BY <1>1, <2>3, <2>6, <2>7, <2>8, StateInv
<1>3. CASE ~ (m.fault /\ sid \in DOMAIN nodeStates)
  <2>1. UNCHANGED nodeStates
    BY <1>3 DEF HandleStatus
  <2> QED
    BY <1>1, <2>1 DEF Inv, Typed, StatusHasFires, TierTellsFailure
<1> QED
  BY <1>2, <1>3

\* A field of a state takes a value of its set and leaves the others alone; so does
\* the fire of an injection, which sets three.
Failures(s, t) ==
    s.online = t.online /\ s.sensorOk = t.sensorOk /\ s.failoverTier = t.failoverTier

OnFire(s, k, l) == [s EXCEPT !.flameDetected = TRUE, !.temperature = k, !.smoke = l]

LEMMA SetFlame ==
    ASSUME NEW s \in NodeState
    PROVE  LET t == [s EXCEPT !.flameDetected = TRUE] IN t \in NodeState /\ Failures(s, t)
BY DEF NodeState, Failures

LEMMA SetTemperature ==
    ASSUME NEW s \in NodeState, NEW k \in Int
    PROVE  LET t == [s EXCEPT !.temperature = k] IN t \in NodeState /\ Failures(s, t)
BY DEF NodeState, Failures

LEMMA SetSmoke ==
    ASSUME NEW s \in NodeState, NEW k \in 0 .. 1000
    PROVE  LET t == [s EXCEPT !.smoke = k] IN t \in NodeState /\ Failures(s, t)
BY DEF NodeState, Failures

LEMMA SetFire ==
    ASSUME NEW s \in NodeState, NEW k \in Int, NEW l \in 0 .. 1000
    PROVE  OnFire(s, k, l) \in NodeState /\ Failures(s, OnFire(s, k, l))
<1> DEFINE a == [s EXCEPT !.flameDetected = TRUE]
           b == [a EXCEPT !.temperature = k]
           c == [b EXCEPT !.smoke = l]
<1>1. a \in NodeState /\ Failures(s, a)
  BY SetFlame
<1> HIDE DEF a
<1>2. b \in NodeState /\ Failures(a, b)
  BY <1>1, SetTemperature
<1> HIDE DEF b
<1>3. c \in NodeState /\ Failures(b, c)
  BY <1>2, SetSmoke
<1>4. Failures(s, c)
  BY <1>1, <1>2, <1>3 DEF Failures
<1>5. c = OnFire(s, k, l)
  BY DEF a, b, OnFire
<1> QED
  BY <1>3, <1>4, <1>5

LEMMA InjectInv ==
    ASSUME Inv, NEW node \in Names, NEW kind, Inject(node, kind)
    PROVE  Inv'
<1> DEFINE old    == nodeStates[node]
           state  == Injected(old, kind)
           broken == {"sensor_failure", "comm_failure"}
<1>1. /\ nodeStates' = IF node \in DOMAIN nodeStates
                       THEN [nodeStates EXCEPT ![node] = state] ELSE nodeStates
      /\ fires' = IF kind \in broken THEN fires ELSE AddFire(fires, node)
      /\ status' = status
  BY DEF Inject
<1>2. /\ fires' \in Seq(Names)
      /\ ToSet(fires) \subseteq ToSet(fires')
      /\ \A i, j \in DOMAIN fires' : fires'[i] = fires'[j] => i = j
      /\ Len(fires') >= Len(fires)
      /\ kind \notin broken => node \in ToSet(fires')
  <2>1. CASE kind \in broken
    BY <1>1, <2>1 DEF Inv, Typed, StatusHasFires
  <2>2. CASE kind \notin broken
    BY <1>1, <2>2, FireIsAdded
  <2> QED
    BY <2>1, <2>2
<1>3. ASSUME node \in DOMAIN nodeStates
      PROVE  /\ state \in NodeState
             /\ state.flameDetected => node \in ToSet(fires')
             /\ state.failoverTier \in {"primary", "secondary"} <=> state.online /\ state.sensorOk
             /\ state.failoverTier = "tertiary" => ~ state.sensorOk
             /\ state.failoverTier = "isolated" => ~ state.online
  <2>1. old \in NodeState
    BY <1>3 DEF Inv, Typed
  <2>2. /\ {old.online, old.flameDetected, old.sensorOk} \subseteq BOOLEAN
        /\ old.temperature \in Int /\ old.smoke \in 0 .. 1000
        /\ old.failoverTier \in {"isolated", "tertiary", "secondary", "primary"}
    BY <2>1 DEF NodeState
  <2>3. DOMAIN old = {"online", "temperature", "smoke", "flameDetected", "failoverTier", "sensorOk"}
    BY <2>1 DEF NodeState
  <2>4. /\ old.flameDetected => node \in ToSet(fires)
        /\ old.failoverTier \in {"primary", "secondary"} <=> old.online /\ old.sensorOk
        /\ old.failoverTier = "tertiary" => ~ old.sensorOk
        /\ old.failoverTier = "isolated" => ~ old.online
    BY <1>3 DEF Inv, StatusHasFires, TierTellsFailure
  <2> HIDE DEF old
  <2>5. CASE kind = "sensor_failure"
    <3>1. state = [old EXCEPT !.sensorOk = FALSE, !.failoverTier = "tertiary"]
      BY <2>5 DEF Injected
    <3> HIDE DEF state
    <3>2. state = [online |-> old.online, temperature |-> old.temperature,
                   smoke |-> old.smoke, flameDetected |-> old.flameDetected,
                   failoverTier |-> "tertiary", sensorOk |-> FALSE]
      BY <2>3, <3>1
    <3>3. state \in NodeState
      BY <2>2, <3>2 DEF NodeState
    <3>4. /\ state.flameDetected = old.flameDetected
          /\ ~ state.sensorOk /\ state.failoverTier = "tertiary"
      BY <3>2
    <3> QED
      BY <1>2, <2>4, <3>3, <3>4
  <2>6. CASE kind = "comm_failure"
    <3>1. state = [old EXCEPT !.online = FALSE, !.failoverTier = "isolated"]
      BY <2>6 DEF Injected
    <3> HIDE DEF state
    <3>2. state = [online |-> FALSE, temperature |-> old.temperature, smoke |-> old.smoke,
                     flameDetected |-> old.flameDetected, failoverTier |-> "isolated",
                     sensorOk |-> old.sensorOk]
      BY <2>3, <3>1
    <3>3. state \in NodeState
      BY <2>2, <3>2 DEF NodeState
    <3>4. /\ state.flameDetected = old.flameDetected
          /\ ~ state.online /\ state.failoverTier = "isolated"
      BY <3>2
    <3> QED
      BY <1>2, <2>4, <3>3, <3>4
  <2>7. CASE kind = "flashover"
    <3>1. state = OnFire(old, 250, 900)
      BY <2>7 DEF Injected, OnFire
    <3> HIDE DEF state
    <3>2. 250 \in Int /\ 900 \in 0 .. 1000
      OBVIOUS
    <3>3. state \in NodeState /\ Failures(old, state)
      <4>1. OnFire(old, 250, 900) \in NodeState
        BY <2>1, <3>2, SetFire
      <4>2. Failures(old, OnFire(old, 250, 900))
        BY <2>1, <3>2, SetFire
      <4> QED
        BY <3>1, <4>1, <4>2
    <3>4. node \in ToSet(fires')
      BY <1>2, <2>7
    <3> QED
      BY <2>4, <3>3, <3>4 DEF Failures
  <2>8. CASE kind \notin broken \cup {"flashover"}
    <3>1. state = OnFire(old, 80, 500)
      BY <2>8 DEF Injected, OnFire
    <3> HIDE DEF state
    <3>2. 80 \in Int /\ 500 \in 0 .. 1000
      OBVIOUS
    <3>3. state \in NodeState /\ Failures(old, state)
      <4>1. OnFire(old, 80, 500) \in NodeState
        BY <2>1, <3>2, SetFire
      <4>2. Failures(old, OnFire(old, 80, 500))
        BY <2>1, <3>2, SetFire
      <4> QED
        BY <3>1, <4>1, <4>2
    <3>4. node \in ToSet(fires')
      BY <1>2, <2>8
    <3> QED
      BY <2>4, <3>3, <3>4 DEF Failures
  <2> QED
    BY <2>5, <2>6, <2>7, <2>8
<1> HIDE DEF state, broken
<1> QED
  BY <1>1, <1>2, <1>3, StateInv

LEMMA NextInv == ASSUME Inv, [Next]_vars PROVE Inv'
<1>1. ASSUME UNCHANGED <<nodeStates, fires, status>> PROVE Inv'
  BY <1>1 DEF Inv, Typed, StatusHasFires, TierTellsFailure
<1>2. CASE Start \/ Stop \/ LoseBroker
  BY <1>1, <1>2 DEF Start, Stop, LoseBroker, data
<1>3. ASSUME NEW m \in Messages, OnMqttMessage(m) PROVE Inv'
  <2>1. CASE m.kind = "hazard"
    BY <1>3, <2>1, HazardInv DEF OnMqttMessage
  <2>2. CASE m.kind = "status"
    BY <1>3, <2>2, FaultInv DEF OnMqttMessage
  <2>3. CASE m.kind \notin {"hazard", "status"}
    BY <1>1, <1>3, <2>3 DEF OnMqttMessage
  <2> QED
    BY <2>1, <2>2, <2>3
<1>4. CASE Tick
  BY <1>1, <1>4 DEF Tick
<1>5. ASSUME NEW i \in Injections, Inject(i[1], i[2]) PROVE Inv'
  <2>1. i[1] \in Names
    BY DEF Names
  <2> QED
    BY <1>5, <2>1, InjectInv
<1>6. CASE Reset
  BY <1>6 DEF Reset, Inv, Typed, StatusHasFires, TierTellsFailure
<1>7. CASE UNCHANGED vars
  BY <1>1, <1>7 DEF vars, data
<1> QED
  BY <1>2, <1>3, <1>4, <1>5, <1>6, <1>7 DEF Next

LEMMA SpecInv == Spec => []Inv
<1>1. Inv /\ [Next]_vars => Inv'
  BY NextInv
<1> QED
  BY InitInv, <1>1, PTL DEF Spec

\* Who is seen burning is listed, once; the status never names a fire without one.
THEOREM StatusHasItsFires == Spec => []StatusHasFires
<1>1. Inv => StatusHasFires
  BY DEF Inv
<1> QED
  BY SpecInv, <1>1, PTL

\* The three places that write a tier keep it the name of the last failure.
THEOREM TiersTellFailures == Spec => []TierTellsFailure
<1>1. Inv => TierTellsFailure
  BY DEF Inv
<1> QED
  BY SpecInv, <1>1, PTL

----------------------------------------------------------------------------
(* The map. *)

LEMMA GraphIsGraph == IsGraph(Graph)
BY MqttBridgeAssumption DEF IsGraph

LEMMA NodesAreFinite ==
    /\ IsFiniteSet(DOMAIN Graph.nodes) /\ DOMAIN Graph.nodes \subseteq Nat
    /\ \A k \in DOMAIN Graph.nodes : Graph.nodes[k] \in BuildingNode
<1>1. Graph.nodes \in Seq(BuildingNode)
  BY GraphIsGraph, GraphTypes
<1>2. IsFiniteSet(DOMAIN Graph.nodes) /\ \A k \in DOMAIN Graph.nodes : Graph.nodes[k] \in BuildingNode
  BY <1>1, PlacesAreFinite
<1> QED
  BY <1>1, <1>2

LEMMA Sizes == {FloorCount, FloorW, FloorD, Cols, Rows} \subseteq Nat \ {0}
BY MqttBridgeAssumption

\* Sums and quotients lead out of neither of two sets: the numbers, and zero alone.
Heat == {Nat, {0}}

LEMMA HeatStays ==
    ASSUME NEW A \in Heat
    PROVE  /\ 0 \in A /\ A \subseteq Nat
           /\ \A x, y \in A : x + y \in A
           /\ \A x \in A : \A n \in Nat : x * n \in A
           /\ \A x \in A : \A n \in Nat \ {0} : x \div n \in A
<1>1. CASE A = Nat
  BY <1>1
<1>2. CASE A = {0}
  BY <1>2
<1> QED
  BY <1>1, <1>2 DEF Heat

\* Cells and nodes have weights, except a node in the very centre of the cell.
LEMMA WeightIn ==
    ASSUME NEW i \in Cells, NEW k \in DOMAIN Graph.nodes
    PROVE  Weights[i][k] \in Nat \cup {-1}
<1> DEFINE square == SquareGap(i, Graph.nodes[k])
<1>1. Weights[i][k] = IF square = 0 THEN -1 ELSE 1000000 \div square
  BY DEF Weights
<1>2. square \in Nat
  <2> DEFINE n  == Graph.nodes[k]
             dx == (((2 * (i % Cols)) + 1) * FloorW - Cols * (FloorW + n.position.x)) * Rows
             dz == (((2 * (i \div Cols)) + 1) * FloorD - Rows * (FloorD + n.position.z)) * Cols
  <2>1. n.position.x \in Int /\ n.position.z \in Int
    BY NodesAreFinite DEF BuildingNode, Vec3
  <2>2. i \in Int /\ i % Cols \in Int /\ i \div Cols \in Int
    BY Sizes DEF Cells
  <2>3. square = dx * dx + dz * dz
    BY DEF SquareGap
  <2> HIDE DEF n
  <2>4. dx \in Int /\ dz \in Int
    BY <2>1, <2>2, Sizes
  <2> HIDE DEF dx, dz, square
  <2>5. dx * dx \in Nat /\ dz * dz \in Nat
    BY <2>4
  <2> QED
    BY <2>3, <2>5
<1> HIDE DEF square
<1>3. square # 0 => 1000000 \div square \in Nat
  BY <1>2, Quotient
<1> QED
  BY <1>1, <1>3

LEMMA InterpolatedIn ==
    ASSUME NEW A \in Heat, NEW hazards \in [DOMAIN Graph.nodes -> A], NEW floor
    PROVE  InterpolateHeatmap(hazards, floor) \in [Cells -> A]
<1> DEFINE here      == {k \in DOMAIN hazards : Graph.nodes[k].floor = floor}
           Centre(i) == {k \in here : Weights[i][k] = -1}
           total(i)  == SumOver(Weights[i], here)
           heat(i)   == [k \in here |-> hazards[k] * Weights[i][k]]
           sum(i)    == SumOver(heat(i), here)
           Mean(i)   == IF total(i) = 0 THEN 0 ELSE sum(i) \div total(i)
           Value(i)  == IF here = {} THEN 0
                        ELSE IF Centre(i) # {} THEN hazards[Min(Centre(i))] ELSE Mean(i)
<1>1. InterpolateHeatmap(hazards, floor) = [i \in Cells |-> Value(i)]
  BY DEF InterpolateHeatmap, SumOver
<1>2. here \subseteq DOMAIN Graph.nodes /\ IsFiniteSet(here) /\ here \subseteq Nat
  BY NodesAreFinite, FS_Subset
<1>3. \A k \in here : hazards[k] \in A
  BY <1>2
<1> HIDE DEF here
<1>4. ASSUME NEW i \in Cells PROVE Value(i) \in A
  <2>1. CASE here = {}
    BY <2>1, HeatStays
  <2>2. CASE here # {} /\ Centre(i) # {}
    <3>1. Centre(i) \subseteq here /\ Centre(i) \subseteq Nat
      BY <1>2
    <3> HIDE DEF Centre
    <3>2. Min(Centre(i)) \in here
      BY <2>2, <3>1, MinIn
    <3> QED
      BY <1>3, <2>2, <3>2
  <2>3. CASE here # {} /\ Centre(i) = {}
    <3>1. \A k \in here : Weights[i][k] \in Nat
      BY <1>2, <2>3, WeightIn
    <3>2. total(i) \in Nat
      <4>1. \A k \in here : \A y \in Nat : Weights[i][k] + y \in Nat
        BY <3>1
      <4> QED
        BY <1>2, <4>1, SumStays
    <3>3. sum(i) \in A
      <4>1. \A k \in here : heat(i)[k] \in A
        BY <1>3, <3>1, HeatStays
      <4> HIDE DEF heat
      <4>2. \A k \in here : \A y \in A : heat(i)[k] + y \in A
        BY <4>1, HeatStays
      <4> QED
        BY <1>2, <4>2, HeatStays, SumStays
    <3> HIDE DEF total, sum
    <3>4. Mean(i) \in A
      BY <3>2, <3>3, HeatStays
    <3> HIDE DEF Mean
    <3> QED
      BY <2>3, <3>4
  <2> QED
    BY <2>1, <2>2, <2>3
<1> HIDE DEF Value
<1> QED
  BY <1>1, <1>4

\* The neighbours of a cell, and what they add up to with it.
Near(i) == {j \in Cells : \/ j \in {i - 1, i + 1} /\ j \div Cols = i \div Cols
                          \/ j \in {i - Cols, i + Cols}}
Mixed(grid, i) == 4 * grid[i] + SumOver(grid, Near(i))

LEMMA DiffusedIn ==
    ASSUME NEW A \in Heat, NEW grid \in [Cells -> A]
    PROVE  DiffuseGrid(grid) \in [Cells -> A \cap 0 .. 1000]
<1> DEFINE value(i) == AtMost(1000, (Mixed(grid, i) * 101) \div (100 * (4 + Cardinality(Near(i)))))
<1>1. DiffuseGrid(grid) = [i \in Cells |-> value(i)]
  BY DEF DiffuseGrid, Near, Mixed, SumOver
<1>2. ASSUME NEW i \in Cells PROVE value(i) \in A \cap 0 .. 1000
  <2>1. IsFiniteSet(Cells)
    BY Sizes, FS_Interval DEF Cells
  <2>2. Near(i) \subseteq Cells
    BY DEF Near
  <2>3. IsFiniteSet(Near(i)) /\ Cardinality(Near(i)) \in Nat
    BY <2>1, <2>2, FS_Subset, FS_CardinalityType
  <2>4. \A j \in Near(i) : \A y \in A : grid[j] + y \in A
    BY <2>2, HeatStays
  <2>5. SumOver(grid, Near(i)) \in A
    BY <2>3, <2>4, HeatStays, SumStays
  <2>6. Mixed(grid, i) \in A
    <3>1. grid[i] \in A /\ grid[i] \in Nat /\ 4 \in Nat
      BY HeatStays
    <3>2. grid[i] * 4 \in A
      BY <3>1, HeatStays
    <3>3. grid[i] * 4 = 4 * grid[i]
      BY <3>1
    <3> QED
      BY <2>5, <3>2, <3>3, HeatStays DEF Mixed
  <2> DEFINE a == Mixed(grid, i) * 101
             b == 100 * (4 + Cardinality(Near(i)))
  <2>7. a \in A
    BY <2>6, HeatStays
  <2>8. b \in Nat \ {0}
    BY <2>3
  <2> HIDE DEF a, b
  <2>9. a \div b \in A /\ A \subseteq Nat
    BY <2>7, <2>8, HeatStays
  <2>10. AtMost(1000, a \div b) \in A \cap 0 .. 1000
    <3> DEFINE q == a \div b
    <3>1. q \in A /\ q \in Nat
      BY <2>9
    <3> HIDE DEF q
    <3>2. AtMost(1000, q) \in 0 .. 1000
      BY <3>1 DEF AtMost
    <3>3. AtMost(1000, q) \in A
      BY <2>9, <3>1 DEF AtMost, Heat
    <3> QED
      BY <3>2, <3>3 DEF q
  <2> QED
    BY <2>10 DEF a, b
<1> HIDE DEF value
<1> QED
  BY <1>1, <1>2

\* What the map is drawn from, and what is drawn: percentages, in thousandths.
LEMMA HazardsIn ==
    ASSUME NEW states, \A n \in DOMAIN states : states[n] \in NodeState
    PROVE  Hazards(states) \in [DOMAIN Graph.nodes -> Nat]
<1> SUFFICES ASSUME NEW k \in DOMAIN Graph.nodes, Graph.nodes[k].id \in DOMAIN states
             PROVE  LET s == states[Graph.nodes[k].id]
                    IN  Clamped((15 * s.temperature + 4 * s.smoke) \div 10, 0, 1000) \in Nat
  BY DEF Hazards
<1> DEFINE s == states[Graph.nodes[k].id]
           a == (15 * s.temperature + 4 * s.smoke) \div 10
<1>1. s.temperature \in Int /\ s.smoke \in Int
  BY DEF NodeState
<1> HIDE DEF s
<1>2. a \in Int
  BY <1>1
<1> HIDE DEF a
<1>3. Clamped(a, 0, 1000) \in Nat
  BY <1>2 DEF Clamped, AtMost
<1> QED
  BY <1>3 DEF s, a

LEMMA HeatmapsIn ==
    ASSUME NEW states, \A n \in DOMAIN states : states[n] \in NodeState
    PROVE  Heatmaps(states) \in [Floors -> [Cells -> 0 .. 1000]]
<1> DEFINE hazards == Hazards(states)
<1>1. Nat \in Heat /\ hazards \in [DOMAIN Graph.nodes -> Nat]
  BY HazardsIn DEF Heat
<1> HIDE DEF hazards
<1>2. \A f \in Floors : DiffuseGrid(InterpolateHeatmap(hazards, f)) \in [Cells -> 0 .. 1000]
  <2> SUFFICES ASSUME NEW f \in Floors
               PROVE  DiffuseGrid(InterpolateHeatmap(hazards, f)) \in [Cells -> 0 .. 1000]
    OBVIOUS
  <2>1. InterpolateHeatmap(hazards, f) \in [Cells -> Nat]
    BY <1>1, InterpolatedIn
  <2>2. DiffuseGrid(InterpolateHeatmap(hazards, f)) \in [Cells -> Nat \cap 0 .. 1000]
    BY <1>1, <2>1, DiffusedIn
  <2>3. Nat \cap 0 .. 1000 = 0 .. 1000
    OBVIOUS
  <2> QED
    BY <2>2, <2>3
<1>3. Heatmaps(states) = [f \in Floors |-> DiffuseGrid(InterpolateHeatmap(hazards, f))]
  BY DEF Heatmaps, hazards
<1> QED
  BY <1>2, <1>3

\* Without a report everything is cold.
LEMMA NothingIsHot == Heatmaps(<< >>) = [f \in Floors |-> Cold]
<1> DEFINE hazards == Hazards(<< >>)
<1>1. {0} \in Heat /\ hazards \in [DOMAIN Graph.nodes -> {0}]
  BY DEF Heat, Hazards
<1> HIDE DEF hazards
<1>2. ASSUME NEW f \in Floors
      PROVE  DiffuseGrid(InterpolateHeatmap(hazards, f)) = Cold
  <2>1. InterpolateHeatmap(hazards, f) \in [Cells -> {0}]
    BY <1>1, InterpolatedIn
  <2>2. DiffuseGrid(InterpolateHeatmap(hazards, f)) \in [Cells -> {0} \cap 0 .. 1000]
    BY <1>1, <2>1, DiffusedIn
  <2> QED
    BY <2>2 DEF Cold
<1>3. Heatmaps(<< >>) = [f \in Floors |-> DiffuseGrid(InterpolateHeatmap(hazards, f))]
  BY DEF Heatmaps, hazards
<1> QED
  BY <1>2, <1>3

\* The map does not show faults.
LEMMA FaultsAreCold ==
    ASSUME Inv, NEW m, HandleStatus(m)
    PROVE  Heatmaps(nodeStates') = Heatmaps(nodeStates)
<1> DEFINE sid == StringId(m.node, Graph)
<1>1. nodeStates' = IF m.fault /\ sid \in DOMAIN nodeStates
                    THEN [nodeStates EXCEPT ![sid].sensorOk = FALSE, ![sid].failoverTier = "tertiary"]
                    ELSE nodeStates
  BY DEF HandleStatus
<1> HIDE DEF sid
<1>2. DOMAIN nodeStates' = DOMAIN nodeStates
  BY <1>1
<1>3. ASSUME NEW n \in DOMAIN nodeStates
      PROVE  /\ nodeStates'[n].temperature = nodeStates[n].temperature
             /\ nodeStates'[n].smoke = nodeStates[n].smoke
  <2>1. nodeStates[n] \in NodeState
    BY DEF Inv, Typed
  <2>2. nodeStates'[n] = nodeStates[n] \/
        nodeStates'[n] = [nodeStates[n] EXCEPT !.sensorOk = FALSE, !.failoverTier = "tertiary"]
    BY <1>1
  <2> QED
    BY <2>1, <2>2 DEF NodeState
<1>4. Hazards(nodeStates') = Hazards(nodeStates)
  BY <1>2, <1>3 DEF Hazards
<1> QED
  BY <1>4 DEF Heatmaps

LEMMA MapInit == Init => MapIsCurrent
BY NothingIsHot DEF Init, MapIsCurrent

LEMMA MapNext == Inv /\ MapIsCurrent /\ [Next]_vars => MapIsCurrent'
<1> SUFFICES ASSUME Inv, MapIsCurrent, [Next]_vars, ~ dirty', ~ touched'
             PROVE  grids' = Heatmaps(nodeStates')
  BY DEF MapIsCurrent
<1>1. CASE UNCHANGED <<nodeStates, grids, dirty, touched>>
  BY <1>1 DEF MapIsCurrent
<1>2. CASE Start \/ Stop \/ LoseBroker
  BY <1>1, <1>2 DEF Start, Stop, LoseBroker, data
<1>3. ASSUME NEW m \in Messages, OnMqttMessage(m) PROVE grids' = Heatmaps(nodeStates')
  <2>1. UNCHANGED <<grids, touched>>
    BY <1>3 DEF OnMqttMessage
  <2>2. CASE m.kind = "hazard"
    BY <1>3, <2>2 DEF OnMqttMessage, HandleHazard
  <2>3. CASE m.kind = "status"
    <3>1. HandleStatus(m)
      BY <1>3, <2>3 DEF OnMqttMessage
    <3>2. UNCHANGED dirty
      BY <3>1 DEF HandleStatus
    <3> QED
      BY <2>1, <3>1, <3>2, FaultsAreCold DEF MapIsCurrent
  <2>4. CASE m.kind \notin {"hazard", "status"}
    BY <1>1, <1>3, <2>1, <2>4 DEF OnMqttMessage
  <2> QED
    BY <2>2, <2>3, <2>4
<1>4. CASE Tick
  BY <1>4 DEF Tick
<1>5. ASSUME NEW i \in Injections, Inject(i[1], i[2]) PROVE grids' = Heatmaps(nodeStates')
  <2>1. UNCHANGED <<grids, dirty>> /\ touched' = (touched \/ nodeStates' # nodeStates)
    BY <1>5 DEF Inject
  <2>2. ~ (touched \/ nodeStates' # nodeStates)
    BY <2>1, Zenon
  <2>3. ~ touched /\ nodeStates' = nodeStates
    BY <2>2
  <2> QED
    BY <2>1, <2>3 DEF MapIsCurrent
<1>6. CASE Reset
  BY <1>6, NothingIsHot DEF Reset
<1> QED
  BY <1>1, <1>2, <1>3, <1>4, <1>5, <1>6 DEF Next, vars, data

\* When no redraw is due and no injection came since the last, the map is that of the
\* states: what a redraw leaves out (_handle_status, reset) would not have changed it.
THEOREM MapsAreCurrent == Spec => []MapIsCurrent
<1>1. Init => Inv /\ MapIsCurrent
  BY InitInv, MapInit
<1>2. Inv /\ MapIsCurrent /\ [Next]_vars => Inv' /\ MapIsCurrent'
  BY NextInv, MapNext
<1> QED
  BY <1>1, <1>2, PTL DEF Spec
----------------------------------------------------------------------------
(* The routes. *)

Burning(n) == nodeStates[n].flameDetected

\* An edge has a cost, the blocked one if a flame is reported at either of two reported ends.
LEMMA EdgesCost ==
    ASSUME Typed, NEW a \in NodeIds(Graph), NEW b \in NodeIds(Graph), <<a, b>> \in Links(Graph)
    PROVE  /\ ComputeEdgeCost(a, b) \in Nat \ {0}
           /\ {a, b} \subseteq DOMAIN nodeStates /\ (Burning(a) \/ Burning(b)) =>
                  ComputeEdgeCost(a, b) = BlockedCost
<1> DEFINE dist == Lengths[<<a, b>>]
           s    == nodeStates[a]
           x    == HazardExponent(10 * s.temperature, s.smoke)
<1>1. dist \in Nat \ {0}
  <2>1. dist = Distance(NodeOf(Graph, a), NodeOf(Graph, b))
    BY DEF Lengths
  <2>2. Distance(NodeOf(Graph, a), NodeOf(Graph, b)) \in 1 .. 500
    BY GraphIsGraph DEF IsGraph, WellPlaced
  <2> HIDE DEF dist
  <2> QED
    BY <2>1, <2>2
<1>2. ComputeEdgeCost(a, b) =
          IF ~ {a, b} \subseteq DOMAIN nodeStates THEN 1000 * dist
          ELSE IF dist > 0 /\ (Burning(a) \/ Burning(b)) THEN BlockedCost
          ELSE dist * (Exp[x] + 100)
  BY DEF ComputeEdgeCost, Burning
<1>3. ASSUME {a, b} \subseteq DOMAIN nodeStates PROVE dist * (Exp[x] + 100) \in Nat \ {0}
  <2>1. s \in NodeState
    BY <1>3 DEF Typed
  <2>2. s.temperature \in Int /\ s.smoke \in Int
    BY <2>1 DEF NodeState
  <2> HIDE DEF s
  <2>3. x \in 0 .. 70
    BY <2>2, ExponentIn
  <2> HIDE DEF x
  <2>4. Exp[x] \in Nat /\ Exp[x] + 100 \in Nat \ {0}
    BY <2>3, ExpIsPositive
  <2> DEFINE e == Exp[x] + 100
  <2> HIDE DEF dist, e
  <2>5. dist * e \in Nat \ {0}
    BY <1>1, <2>4 DEF e
  <2> QED
    BY <2>5 DEF e
<1>4. 1000 * dist \in Nat \ {0}
  BY <1>1
<1>5. dist > 0
  BY <1>1
<1> DEFINE c == dist * (Exp[x] + 100)
           d == 1000 * dist
<1> HIDE DEF dist, x, c, d, s
<1>6. ComputeEdgeCost(a, b) \in Nat \ {0}
  BY <1>2, <1>3, <1>4, BlockIsHigh
<1>7. {a, b} \subseteq DOMAIN nodeStates /\ (Burning(a) \/ Burning(b)) =>
          ComputeEdgeCost(a, b) = BlockedCost
  BY <1>2, <1>5
<1> QED
  BY <1>6, <1>7

\* So has a link, over the cheapest of its edges.
LEMMA LinksCost ==
    ASSUME Typed, NEW u \in NodeIds(Graph), NEW v \in NodeIds(Graph), <<u, v>> \in Links(Graph)
    PROVE  /\ Adjacent[<<u, v>>] \in Nat \ {0}
           /\ {u, v} \subseteq DOMAIN nodeStates /\ (Burning(u) \/ Burning(v)) =>
                  Adjacent[<<u, v>>] = BlockedCost
<1> DEFINE here  == {e \in Graph.edges : {e.from, e.to} = {u, v}}
           costs == {ComputeEdgeCost(e.from, e.to) : e \in here}
<1>1. Adjacent[<<u, v>>] = Min(costs)
  <2>1. <<u, v>>[1] = u /\ <<u, v>>[2] = v
    OBVIOUS
  <2>2. Between[<<u, v>>] = here
    BY <2>1 DEF Between
  <2>3. DOMAIN Between = Links(Graph)
    BY DEF Between
  <2>4. Adjacent[<<u, v>>] = Min({ComputeEdgeCost(e.from, e.to) : e \in Between[<<u, v>>]})
    BY <2>3 DEF Adjacent
  <2> QED
    BY <2>2, <2>4
<1>2. costs # {}
  <2>1. PICK e \in Graph.edges : <<u, v>> = <<e.from, e.to>> \/ <<u, v>> = <<e.to, e.from>>
    BY DEF Links
  <2>2. e \in here
    BY <2>1
  <2> HIDE DEF here
  <2> QED
    BY <2>2
<1>3. ASSUME NEW c \in costs
      PROVE  /\ c \in Nat \ {0}
             /\ {u, v} \subseteq DOMAIN nodeStates /\ (Burning(u) \/ Burning(v)) => c = BlockedCost
  <2>1. PICK e \in here : c = ComputeEdgeCost(e.from, e.to)
    OBVIOUS
  <2>2. {e.from, e.to} = {u, v} /\ e \in Graph.edges
    BY <2>1
  <2>3. e.from \in NodeIds(Graph) /\ e.to \in NodeIds(Graph)
    BY <2>2
  <2>4. <<e.from, e.to>> \in Links(Graph)
    BY <2>2 DEF Links
  <2>5. Burning(u) \/ Burning(v) => Burning(e.from) \/ Burning(e.to)
    BY <2>2
  <2> QED
    BY <2>1, <2>2, <2>3, <2>4, <2>5, EdgesCost
<1> HIDE DEF costs
<1>4. Min(costs) \in costs
  BY <1>2, <1>3, MinIn
<1> QED
  BY <1>1, <1>3, <1>4

LEMMA RoutesAreSafe == Typed => RoutesAvoidFire
<1> SUFFICES ASSUME Typed, NEW p \in ComputeRoutes
             PROVE  /\ p[1] \in DOMAIN nodeStates /\ p[Len(p)] \in ExitsOf(Graph)
                    /\ \A i \in 1 .. Len(p) - 1 :
                         /\ <<p[i], p[i + 1]>> \in Links(Graph)
                         /\ {p[i], p[i + 1]} \subseteq DOMAIN nodeStates =>
                                ~ Burning(p[i]) /\ ~ Burning(p[i + 1])
  BY DEF RoutesAvoidFire, Burning
<1> DEFINE nodes == NodeIds(Graph)
           exits == ExitsOf(Graph)
<1>1. PICK id \in Origins :
          LET d == Dijkstra(nodes, Adjacent, id)
          IN  p = ExtractPath(d.prev, NearestExit(d.dist, exits, ShelterThreshold)) /\ Len(p) > 1
  BY DEF ComputeRoutes
<1>2. id \in nodes /\ id \in DOMAIN nodeStates
  <2>1. PICK k \in DOMAIN Graph.nodes : Graph.nodes[k].id = id /\ id \in DOMAIN nodeStates
    BY DEF Origins
  <2> QED
    BY <2>1, GraphIsGraph, GraphTypes DEF NodeIds
<1>3. DOMAIN Adjacent = Links(Graph)
  BY DEF Adjacent, Between
<1>4. Priced(Adjacent, nodes, Nat \ {0})
  BY <1>3, LinksCost DEF Priced
<1>5. IsFiniteSet(nodes) /\ Nowhere \notin nodes /\ exits \in SUBSET nodes
  BY GraphIsGraph, NodeIdFacts
<1>6. PICK x \in exits, w \in Nat : w < ShelterThreshold /\ IsRoute(p, nodes, Adjacent, w, id, x)
  <2> HIDE DEF nodes, exits
  <2> DEFINE d    == Dijkstra(nodes, Adjacent, id)
             path == ExtractPath(d.prev, NearestExit(d.dist, exits, ShelterThreshold))
             hop  == NextHop(d.prev, id, NearestExit(d.dist, exits, ShelterThreshold))
  <2>1. \/ path = << >> /\ hop = Nowhere
        \/ \E x \in exits, w \in Nat :
             /\ w < ShelterThreshold /\ IsRoute(path, nodes, Adjacent, w, id, x)
             /\ hop = IF Len(path) > 1 THEN path[2] ELSE Nowhere
    BY <1>2, <1>4, <1>5, SearchFinds
  <2>2. p = path /\ Len(p) > 1
    BY <1>1
  <2>3. p # << >>
    BY <2>2
  <2> HIDE DEF path, hop
  <2> QED
    BY <2>1, <2>2, <2>3
<1>7. /\ p \in Seq(nodes) /\ p[1] = id /\ p[Len(p)] = x
      /\ \A i \in 1 .. Len(p) - 1 : /\ <<p[i], p[i + 1]>> \in DOMAIN Adjacent
                                    /\ Adjacent[<<p[i], p[i + 1]>>] <= w
  BY <1>6 DEF IsRoute
<1> HIDE DEF nodes
<1>8. ASSUME NEW i \in 1 .. Len(p) - 1
      PROVE  /\ <<p[i], p[i + 1]>> \in Links(Graph)
             /\ {p[i], p[i + 1]} \subseteq DOMAIN nodeStates =>
                    ~ Burning(p[i]) /\ ~ Burning(p[i + 1])
  <2> DEFINE c == Adjacent[<<p[i], p[i + 1]>>]
  <2>1. p[i] \in nodes /\ p[i + 1] \in nodes
    BY <1>7
  <2>2. <<p[i], p[i + 1]>> \in Links(Graph) /\ c <= w
    BY <1>3, <1>7
  <2>3. /\ c \in Nat
        /\ {p[i], p[i + 1]} \subseteq DOMAIN nodeStates /\ (Burning(p[i]) \/ Burning(p[i + 1])) =>
               c = BlockedCost
    BY <2>1, <2>2, LinksCost DEF nodes
  <2> HIDE DEF c
  <2>4. c # BlockedCost
    BY <1>6, <2>2, <2>3, BlockIsHigh
  <2> QED
    BY <2>2, <2>3, <2>4
<1> QED
  BY <1>2, <1>6, <1>7, <1>8

\* A route of the bridge leads from a node that reported to an exit, over edges; none
\* leaves or enters a node that reported a flame towards one that reported too.
THEOREM RoutesAvoidFires == Spec => []RoutesAvoidFire
<1>1. Inv => RoutesAvoidFire
  BY RoutesAreSafe DEF Inv
<1> QED
  BY SpecInv, <1>1, PTL
----------------------------------------------------------------------------
(* The types of the rest. *)

\* Every floor has a grid of hazards up to one.
Drawn(maps) == \A f \in Floors : maps[f] \in [Cells -> 0 .. 1000]

Counted ==
    /\ totalPackets \in 0 .. MaxPackets
    /\ Drawn(grids)
    /\ dirty \in BOOLEAN /\ touched \in BOOLEAN
    /\ link \in {"off", "up", "deaf"}

LEMMA ColdIsDrawn == Drawn([f \in Floors |-> Cold])
<1>1. Cold \in [Cells -> 0 .. 1000]
  BY DEF Cold
<1> QED
  BY <1>1 DEF Drawn

LEMMA NoneIsCounted == 0 \in 0 .. MaxPackets
BY MqttBridgeAssumption

LEMMA CountedInit == Init => Counted
<1> SUFFICES ASSUME Init PROVE Counted
  OBVIOUS
<1>1. Drawn(grids)
  BY ColdIsDrawn DEF Init
<1>2. totalPackets \in 0 .. MaxPackets
  BY NoneIsCounted DEF Init
<1>3. dirty \in BOOLEAN /\ touched \in BOOLEAN /\ link \in {"off", "up", "deaf"}
  BY DEF Init
<1> QED
  BY <1>1, <1>2, <1>3 DEF Counted

LEMMA CountedNext == Inv /\ Counted /\ [Next]_vars => Counted'
<1> SUFFICES ASSUME Inv, Counted, [Next]_vars PROVE Counted'
  OBVIOUS
<1>1. CASE Start \/ Stop \/ LoseBroker \/ UNCHANGED vars
  <2>1. UNCHANGED <<totalPackets, grids, dirty, touched>>
    BY <1>1 DEF Start, Stop, LoseBroker, vars, data
  <2>2. link' \in {"off", "up", "deaf"}
    BY <1>1 DEF Start, Stop, LoseBroker, vars, data, Counted
  <2>3. Drawn(grids)'
    BY <2>1 DEF Counted, Drawn
  <2> QED
    BY <2>1, <2>2, <2>3 DEF Counted
<1>2. ASSUME NEW m \in Messages, OnMqttMessage(m) PROVE Counted'
  <2>1. /\ totalPackets' = totalPackets + 1 /\ totalPackets < MaxPackets
        /\ link' \in {"deaf", link} /\ UNCHANGED <<grids, touched>>
    BY <1>2 DEF OnMqttMessage
  <2>2. dirty' = TRUE \/ dirty' = dirty
    BY <1>2 DEF OnMqttMessage, HandleHazard, HandleStatus
  <2>3. totalPackets' \in 0 .. MaxPackets
    BY <2>1, MqttBridgeAssumption DEF Counted
  <2>4. dirty' \in BOOLEAN /\ touched' \in BOOLEAN
    BY <2>1, <2>2 DEF Counted
  <2>5. link' \in {"off", "up", "deaf"}
    BY <2>1 DEF Counted
  <2>6. Drawn(grids)'
    BY <2>1 DEF Counted, Drawn
  <2> QED
    BY <2>3, <2>4, <2>5, <2>6 DEF Counted
<1>3. CASE Tick
  <2>1. grids' = Heatmaps(nodeStates) /\ dirty' = FALSE /\ touched' = FALSE
        /\ UNCHANGED <<totalPackets, link>>
    BY <1>3 DEF Tick
  <2>2. nodeStates \in [DOMAIN nodeStates -> NodeState]
    BY DEF Inv, Typed
  <2>3. Heatmaps(nodeStates) \in [Floors -> [Cells -> 0 .. 1000]]
    BY <2>2, HeatmapsIn
  <2>4. Drawn(Heatmaps(nodeStates))
    BY <2>3, Zenon DEF Drawn
  <2>5. Drawn(grids)'
    BY <2>1, <2>4 DEF Drawn
  <2> QED
    BY <2>1, <2>5 DEF Counted
<1>4. ASSUME NEW i \in Injections, Inject(i[1], i[2]) PROVE Counted'
  <2>1. touched' = (touched \/ nodeStates' # nodeStates)
        /\ UNCHANGED <<totalPackets, grids, dirty, link>>
    BY <1>4 DEF Inject
  <2>2. touched' \in BOOLEAN
    BY <2>1, Zenon
  <2>3. Drawn(grids)'
    BY <2>1 DEF Counted, Drawn
  <2> QED
    BY <2>1, <2>2, <2>3 DEF Counted
<1>5. CASE Reset
  <2>1. /\ totalPackets' = 0 /\ grids' = [f \in Floors |-> Cold] /\ touched' = FALSE
        /\ UNCHANGED <<dirty, link>>
    BY <1>5 DEF Reset
  <2>2. Drawn(grids)'
    BY <2>1, ColdIsDrawn
  <2>3. totalPackets' \in 0 .. MaxPackets
    BY <2>1, NoneIsCounted
  <2> QED
    BY <2>1, <2>2, <2>3 DEF Counted
<1> QED
  BY <1>1, <1>2, <1>3, <1>4, <1>5 DEF Next

\* The bridge's state is of its types; a map has no hazard above one.
THEOREM TypeCorrect == Spec => []TypeOK
<1>1. Inv /\ Counted => TypeOK
  <2> SUFFICES ASSUME Typed, Counted PROVE TypeOK
    BY DEF Inv
  <2>1. \A n \in DOMAIN nodeStates : nodeStates[n] \in NodeState
    BY DEF Typed
  <2>2. \A f \in Floors : grids[f] \in [Cells -> 0 .. 1000]
    BY DEF Counted, Drawn
  <2>3. {dirty, touched} \subseteq BOOLEAN
    BY DEF Counted
  <2> QED
    BY <2>1, <2>2, <2>3 DEF Typed, Counted, TypeOK
<1>2. Init => Inv /\ Counted
  BY InitInv, CountedInit
<1>3. Inv /\ Counted /\ [Next]_vars => Inv' /\ Counted'
  BY NextInv, CountedNext
<1> QED
  BY <1>1, <1>2, <1>3, PTL DEF Spec

----------------------------------------------------------------------------
(* The injector.  What it takes from Costing and Checksum is what they say. *)

LEMMA SameExp == I!Exp = Exp
BY DEF I!Exp, Exp

LEMMA SameChecksum ==
    /\ \A bits : I!Crc16(bits) = Crc16(bits)
    /\ \A packet : I!CrcValid(packet) = CrcValid(packet)
    /\ \A n, width : I!Bits(n, width) = Bits(n, width)
<1>1. ASSUME NEW bits PROVE I!Crc16(bits) = Crc16(bits)
  BY DEF I!Crc16, Crc16, I!Shift, Shift, I!BitXor, BitXor
<1>2. ASSUME NEW packet PROVE I!CrcValid(packet) = CrcValid(packet)
  BY <1>1 DEF I!CrcValid, CrcValid
<1>3. ASSUME NEW n, NEW width PROVE I!Bits(n, width) = Bits(n, width)
  BY DEF I!Bits, Bits
<1> QED
  BY <1>1, <1>2, <1>3

----------------------------------------------------------------------------
(* A fire grows. *)

\* The logistic curve rises ...
LEMMA LogisticRises ==
    ASSUME NEW x \in Int, NEW y \in Int, x <= y
    PROVE  I!Logistic(x) \in Nat /\ I!Logistic(y) \in Nat /\ I!Logistic(x) <= I!Logistic(y)
<1> DEFINE Abs(z) == IF z < 0 THEN -z ELSE z
           E(z)   == Exp[Clamped(Abs(z), 0, 70)]
           Low(e)  == 1000000 \div (1000 + e)
           High(e) == (1000 * e) \div (1000 + e)
<1>1. \A z \in Int : I!Logistic(z) = IF z < 0 THEN Low(E(z)) ELSE High(E(z))
  <2> SUFFICES ASSUME NEW z \in Int
               PROVE  I!Logistic(z) = IF z < 0 THEN Low(E(z)) ELSE High(E(z))
    OBVIOUS
  <2>1. I!Clamped(Abs(z), 0, 70) = Clamped(Abs(z), 0, 70)
    BY DEF I!Clamped, I!AtMost, Clamped, AtMost
  <2> QED
    BY <2>1, SameExp DEF I!Logistic
<1>2. \A z \in Int : E(z) \in Nat /\ E(z) >= 1000
  <2> SUFFICES ASSUME NEW z \in Int PROVE E(z) \in Nat /\ E(z) >= 1000
    OBVIOUS
  <2>1. Abs(z) \in Int
    OBVIOUS
  <2> HIDE DEF Abs
  <2>2. Clamped(Abs(z), 0, 70) \in 0 .. 70
    BY <2>1 DEF Clamped, AtMost
  <2> QED
    BY <2>2, ExpIsPositive
<1>3. \A z, w \in Int : Abs(z) <= Abs(w) => E(z) <= E(w)
  <2> SUFFICES ASSUME NEW z \in Int, NEW w \in Int, Abs(z) <= Abs(w) PROVE E(z) <= E(w)
    OBVIOUS
  <2>1. Abs(z) \in Int /\ Abs(w) \in Int
    OBVIOUS
  <2> HIDE DEF Abs
  <2> DEFINE c == Clamped(Abs(z), 0, 70)
             d == Clamped(Abs(w), 0, 70)
  <2>2. c \in 0 .. 70 /\ d \in 0 .. 70 /\ c <= d
    BY <2>1 DEF Clamped, AtMost
  <2> HIDE DEF c, d
  <2>3. d \in c .. 70
    BY <2>2
  <2>4. Exp[c] <= Exp[d]
    BY <2>2, <2>3, ExpAscends
  <2> QED
    BY <2>4 DEF c, d
<1> HIDE DEF E
<1>4. ASSUME NEW e \in Nat, NEW f \in Nat, e <= f
      PROVE  /\ Low(f) \in Nat /\ Low(e) \in Nat /\ Low(f) <= Low(e)
             /\ High(e) \in Nat /\ High(f) \in Nat /\ High(e) <= High(f)
  <2>1. Low(e) \in Nat /\ Low(f) \in Nat /\ High(e) \in Nat /\ High(f) \in Nat
    BY Quotient
  <2> DEFINE q == Low(f)
             r == High(e)
  <2>2. Low(f) <= Low(e)
    <3>1. 1000000 \in Nat /\ 1000 + f \in Nat \ {0} /\ 1000 + e \in Nat \ {0}
      OBVIOUS
    <3>2. q \in Nat
      BY <2>1
    <3>3. q * (1000 + f) <= 1000000
      <4>1. q <= q
        BY <3>2
      <4> QED
        BY <3>1, <3>2, <4>1, QuotientBound
    <3> HIDE DEF q
    <3>4. q * (1000 + e) <= q * (1000 + f)
      <4>1. 1000 + e \in Nat /\ 1000 + f \in Nat /\ 1000 + e <= 1000 + f
        BY <1>4
      <4> QED
        BY <3>2, <4>1, ProductsAscend
    <3>5. q * (1000 + e) <= 1000000
      BY <3>1, <3>2, <3>3, <3>4, SMT
    <3>6. q <= Low(e)
      BY <3>1, <3>2, <3>5, QuotientBound
    <3> QED
      BY <3>6 DEF q
  <2>3. High(e) <= High(f)
    <3>1. 1000 * e \in Nat /\ 1000 * f \in Nat /\ 1000 + f \in Nat \ {0} /\ 1000 + e \in Nat \ {0}
      OBVIOUS
    <3>2. r \in Nat
      BY <2>1
    <3>3. r * (1000 + e) <= 1000 * e
      <4>1. r <= r
        BY <3>2
      <4> QED
        BY <3>1, <3>2, <4>1, QuotientBound
    <3> HIDE DEF r
    <3>4. r <= 1000
      <4> SUFFICES ASSUME r >= 1001 PROVE FALSE
        BY <3>2
      <4>1. 1001 * (1000 + e) <= r * (1000 + e)
        BY <3>2, SMT
      <4> QED
        BY <3>2, <3>3, <4>1, SMT
    <3>5. r * (1000 + f) <= 1000 * f
      <4>1. (1000 - r) * e <= (1000 - r) * f
        <5> DEFINE k == 1000 - r
        <5>1. k \in Nat
          BY <3>2, <3>4
        <5> HIDE DEF k
        <5>2. k * e <= k * f
          BY <1>4, <5>1, ProductsAscend
        <5> QED
          BY <5>2 DEF k
      <4>2. r * (1000 + e) = 1000 * r + r * e /\ (1000 - r) * e = 1000 * e - r * e
        BY <3>2, SMT
      <4>3. r * (1000 + f) = 1000 * r + r * f /\ (1000 - r) * f = 1000 * f - r * f
        BY <3>2, SMT
      <4>4. r * e \in Nat /\ r * f \in Nat
        BY <3>2, SMT
      <4> DEFINE re == r * e
                 rf == r * f
      <4>5. 1000 * r + re <= 1000 * e /\ 1000 * e - re <= 1000 * f - rf
        BY <3>3, <4>1, <4>2, <4>3
      <4>6. re \in Nat /\ rf \in Nat
        BY <4>4
      <4> HIDE DEF re, rf
      <4>7. 1000 * r + rf <= 1000 * f
        BY <3>2, <4>5, <4>6, SMT
      <4> QED
        BY <4>3, <4>7 DEF rf
    <3>6. r <= High(f)
      BY <3>1, <3>2, <3>5, QuotientBound
    <3> QED
      BY <3>6 DEF r
  <2> QED
    BY <2>1, <2>2, <2>3
<1>5. Low(1000) = 500 /\ High(1000) = 500
  BY SMT
<1>6. I!Logistic(x) = (IF x < 0 THEN Low(E(x)) ELSE High(E(x)))
      /\ I!Logistic(y) = (IF y < 0 THEN Low(E(y)) ELSE High(E(y)))
  BY <1>1
<1>7. E(x) \in Nat /\ E(x) >= 1000 /\ E(y) \in Nat /\ E(y) >= 1000 /\ 1000 \in Nat
  BY <1>2
<1> HIDE DEF Low, High
<1>8. CASE x >= 0
  <2>1. Abs(x) <= Abs(y) /\ ~ (x < 0) /\ ~ (y < 0)
    BY <1>8
  <2>2. E(x) <= E(y)
    BY <1>3, <2>1
  <2> QED
    BY <1>4, <1>6, <1>7, <2>1, <2>2
<1>9. CASE x < 0 /\ y < 0
  <2>1. Abs(y) <= Abs(x)
    BY <1>9
  <2>2. E(y) <= E(x)
    BY <1>3, <2>1
  <2> QED
    BY <1>4, <1>6, <1>7, <1>9, <2>2
<1>10. CASE x < 0 /\ y >= 0
  <2>1. Low(E(x)) \in Nat /\ Low(E(x)) <= Low(1000)
    BY <1>4, <1>7
  <2>2. High(E(y)) \in Nat /\ High(1000) <= High(E(y))
    BY <1>4, <1>7
  <2>3. I!Logistic(x) = Low(E(x)) /\ I!Logistic(y) = High(E(y))
    BY <1>6, <1>10
  <2> QED
    BY <1>5, <2>1, <2>2, <2>3
<1> QED
  BY <1>8, <1>9, <1>10

Reading == [temp_c : Int, smoke_ppm : Int, flame_detected : BOOLEAN]

\* One reading is no worse than another.
NoWorse(r, s) ==
    /\ r.temp_c <= s.temp_c /\ r.smoke_ppm <= s.smoke_ppm
    /\ r.flame_detected => s.flame_detected

\* ... and so do both fires, and what is read of them.
LEMMA SlowGrows ==
    ASSUME NEW t \in Int, NEW u \in Int, t <= u
    PROVE  /\ I!SlowSmolder(t) \in Reading /\ I!SlowSmolder(u) \in Reading
           /\ NoWorse(I!SlowSmolder(t), I!SlowSmolder(u))
<1> DEFINE a(z) == (8 * (z - 60)) \div 10
           b(z) == (8 * (z - 55)) \div 10
           L(z) == I!Logistic(z)
<1>1. a(t) \in Int /\ a(u) \in Int /\ a(t) <= a(u)
  BY SMT
<1>2. b(t) \in Int /\ b(u) \in Int /\ b(t) <= b(u)
  BY SMT
<1> HIDE DEF a, b
<1>3. L(a(t)) \in Nat /\ L(a(u)) \in Nat /\ L(a(t)) <= L(a(u))
  BY <1>1, LogisticRises
<1>4. L(b(t)) \in Nat /\ L(b(u)) \in Nat /\ L(b(t)) <= L(b(u))
  BY <1>2, LogisticRises
<1>5. \A z : I!SlowSmolder(z) = [temp_c |-> 250 + (650 * L(a(z))) \div 1000,
                                 smoke_ppm |-> (800 * L(b(z))) \div 1000,
                                 flame_detected |-> z > 50]
  BY DEF I!SlowSmolder, a, b
<1> HIDE DEF L
<1>6. \A p, q \in Nat : p <= q =>
          /\ 250 + (650 * p) \div 1000 \in Int /\ (800 * p) \div 1000 \in Int
          /\ 250 + (650 * p) \div 1000 <= 250 + (650 * q) \div 1000
          /\ (800 * p) \div 1000 <= (800 * q) \div 1000
  BY SMT
<1> DEFINE r == I!SlowSmolder(t)
           s == I!SlowSmolder(u)
<1>7. r.temp_c <= s.temp_c
  BY <1>3, <1>5, <1>6
<1>8. r.smoke_ppm <= s.smoke_ppm
  BY <1>4, <1>5, <1>6
<1>9. r.flame_detected => s.flame_detected
  <2>1. r.flame_detected = (t > 50) /\ s.flame_detected = (u > 50)
    BY <1>5, Zenon
  <2>2. t > 50 => u > 50
    OBVIOUS
  <2> QED
    BY <2>1, <2>2
<1>10. \A z \in {t, u} : I!SlowSmolder(z) \in Reading
  <2> SUFFICES ASSUME NEW z \in {t, u} PROVE I!SlowSmolder(z) \in Reading
    OBVIOUS
  <2>1. L(a(z)) \in Nat /\ L(b(z)) \in Nat /\ z \in Int
    BY <1>3, <1>4
  <2>2. 250 + (650 * L(a(z))) \div 1000 \in Int /\ (800 * L(b(z))) \div 1000 \in Int
    BY <1>6, <2>1
  <2>3. (z > 50) \in BOOLEAN
    OBVIOUS
  <2>4. \A x, y \in Int : \A f \in BOOLEAN :
            [temp_c |-> x, smoke_ppm |-> y, flame_detected |-> f] \in Reading
    BY DEF Reading
  <2> DEFINE x == 250 + (650 * L(a(z))) \div 1000
             y == (800 * L(b(z))) \div 1000
             f == z > 50
  <2>5. I!SlowSmolder(z) = [temp_c |-> x, smoke_ppm |-> y, flame_detected |-> f]
    BY <1>5
  <2>6. x \in Int /\ y \in Int /\ f \in BOOLEAN
    BY <2>2, <2>3
  <2> HIDE DEF x, y, f
  <2> QED
    BY <2>4, <2>5, <2>6
<1> QED
  BY <1>7, <1>8, <1>9, <1>10 DEF NoWorse

LEMMA FlashoverGrows ==
    ASSUME NEW t \in Int, NEW u \in Int, t <= u
    PROVE  /\ I!Flashover(t) \in Reading /\ I!Flashover(u) \in Reading
           /\ NoWorse(I!Flashover(t), I!Flashover(u))
<1> DEFINE a(z) == 12 * (z - 5)
           b(z) == 12 * (z - 3)
           L(z) == I!Logistic(z)
<1>1. a(t) \in Int /\ a(u) \in Int /\ a(t) <= a(u)
  BY SMT
<1>2. b(t) \in Int /\ b(u) \in Int /\ b(t) <= b(u)
  BY SMT
<1> HIDE DEF a, b
<1>3. L(a(t)) \in Nat /\ L(a(u)) \in Nat /\ L(a(t)) <= L(a(u))
  BY <1>1, LogisticRises
<1>4. L(b(t)) \in Nat /\ L(b(u)) \in Nat /\ L(b(t)) <= L(b(u))
  BY <1>2, LogisticRises
<1>5. \A z : I!Flashover(z) = [temp_c |-> 250 + (2500 * L(a(z))) \div 1000,
                               smoke_ppm |-> 50 + (3000 * L(b(z))) \div 1000,
                               flame_detected |-> z > 2]
  BY DEF I!Flashover, a, b
<1> HIDE DEF L
<1>6. \A p, q \in Nat : p <= q =>
          /\ 250 + (2500 * p) \div 1000 \in Int /\ 50 + (3000 * p) \div 1000 \in Int
          /\ 250 + (2500 * p) \div 1000 <= 250 + (2500 * q) \div 1000
          /\ 50 + (3000 * p) \div 1000 <= 50 + (3000 * q) \div 1000
  BY SMT
<1> DEFINE r == I!Flashover(t)
           s == I!Flashover(u)
<1>7. r.temp_c <= s.temp_c
  BY <1>3, <1>5, <1>6
<1>8. r.smoke_ppm <= s.smoke_ppm
  BY <1>4, <1>5, <1>6
<1>9. r.flame_detected => s.flame_detected
  <2>1. r.flame_detected = (t > 2) /\ s.flame_detected = (u > 2)
    BY <1>5, Zenon
  <2>2. t > 2 => u > 2
    OBVIOUS
  <2> QED
    BY <2>1, <2>2
<1>10. \A z \in {t, u} : I!Flashover(z) \in Reading
  <2> SUFFICES ASSUME NEW z \in {t, u} PROVE I!Flashover(z) \in Reading
    OBVIOUS
  <2>1. L(a(z)) \in Nat /\ L(b(z)) \in Nat /\ z \in Int
    BY <1>3, <1>4
  <2>2. 250 + (2500 * L(a(z))) \div 1000 \in Int /\ 50 + (3000 * L(b(z))) \div 1000 \in Int
    BY <1>6, <2>1
  <2>3. (z > 2) \in BOOLEAN
    OBVIOUS
  <2>4. \A x, y \in Int : \A f \in BOOLEAN :
            [temp_c |-> x, smoke_ppm |-> y, flame_detected |-> f] \in Reading
    BY DEF Reading
  <2> DEFINE x == 250 + (2500 * L(a(z))) \div 1000
             y == 50 + (3000 * L(b(z))) \div 1000
             f == z > 2
  <2>5. I!Flashover(z) = [temp_c |-> x, smoke_ppm |-> y, flame_detected |-> f]
    BY <1>5
  <2>6. x \in Int /\ y \in Int /\ f \in BOOLEAN
    BY <2>2, <2>3
  <2> HIDE DEF x, y, f
  <2> QED
    BY <2>4, <2>5, <2>6
<1> QED
  BY <1>7, <1>8, <1>9, <1>10 DEF NoWorse

LEMMA ReadingsGrow ==
    ASSUME NEW id, NEW t \in Nat, NEW u \in Nat, t <= u
    PROVE  /\ I!GetReadings(id, t) \in Reading /\ I!GetReadings(id, u) \in Reading
           /\ NoWorse(I!GetReadings(id, t), I!GetReadings(id, u))
           /\ I!GetReadings(id, u).flame_detected => id = zone
<1>1. CASE zone = I!None \/ id # zone \/ profile = "none"
  <2>1. \A z : I!GetReadings(id, z) = [temp_c |-> 250, smoke_ppm |-> 0, flame_detected |-> FALSE]
    BY <1>1 DEF I!GetReadings
  <2> QED
    <3> DEFINE calm == [temp_c |-> 250, smoke_ppm |-> 0, flame_detected |-> FALSE]
    <3>1. calm \in Reading /\ calm.flame_detected = FALSE /\ NoWorse(calm, calm)
      BY DEF Reading, NoWorse
    <3> HIDE DEF calm
    <3>2. I!GetReadings(id, t) = calm /\ I!GetReadings(id, u) = calm
      BY <2>1 DEF calm
    <3> QED
      BY <3>1, <3>2
<1>2. CASE ~ (zone = I!None \/ id # zone \/ profile = "none")
  <2>1. \A z : I!GetReadings(id, z) = IF profile = "slow" THEN I!SlowSmolder(z) ELSE I!Flashover(z)
    BY <1>2 DEF I!GetReadings
  <2>2. t \in Int /\ u \in Int
    OBVIOUS
  <2>3. CASE profile = "slow"
    BY <1>2, <2>1, <2>2, <2>3, SlowGrows
  <2>4. CASE profile # "slow"
    BY <1>2, <2>1, <2>2, <2>4, FlashoverGrows
  <2> QED
    BY <2>3, <2>4
<1> QED
  BY <1>1, <1>2

Ascends(n) == n.T_baseline <= n.T_critical /\ n.S_baseline <= n.S_critical

\* Where readings are no worse, the cost is not higher.
LEMMA CostsGrow ==
    ASSUME NEW n \in I!NodeConfigs, Ascends(n), I!Divides(n),
           NEW r \in Reading, NEW s \in Reading, NoWorse(r, s)
    PROVE  I!EdgeCost(n, r) <= I!EdgeCost(n, s)
<1> DEFINE dT == n.T_critical - n.T_baseline
           dS == n.S_critical - n.S_baseline
           T(q) == Clamped((22 * (q.temp_c - n.T_baseline)) \div dT, 0, 22)
           S(q) == Clamped((16 * (q.smoke_ppm - n.S_baseline)) \div dS, 0, 16)
           O == Clamped(2000 \div n.occupant_capacity, 0, 1000)
<1>1. \A q : I!EdgeCost(n, q) = IF q.flame_detected THEN BlockedCost ELSE 10 * Exp[T(q) + S(q)] + 5 * O
  <2>1. \A a, b, c : I!Clamped(a, b, c) = Clamped(a, b, c)
    BY DEF I!Clamped, I!AtMost, Clamped, AtMost
  <2>2. I!BlockedCost = BlockedCost
    BY DEF I!BlockedCost, BlockedCost, I!ShelterThreshold, ShelterThreshold
  <2> QED
    BY <2>1, <2>2, SameExp DEF I!EdgeCost
<1>2. /\ n.T_baseline \in Int /\ n.T_critical \in Int /\ n.S_baseline \in Int /\ n.S_critical \in Int
      /\ n.occupant_capacity \in Nat
  BY DEF I!NodeConfigs
<1>3. dT \in Nat \ {0} /\ dS \in Nat \ {0} /\ n.occupant_capacity \in Nat \ {0}
  BY <1>2 DEF Ascends, I!Divides
<1>4. O \in 0 .. 1000
  <2>1. 2000 \div n.occupant_capacity \in Int
    <3> DEFINE c == n.occupant_capacity
    <3> HIDE DEF c
    <3>1. c \in Nat \ {0} => 2000 \div c \in Int
      BY SMT
    <3> QED
      BY <1>3, <3>1 DEF c
  <2> DEFINE a == 2000 \div n.occupant_capacity
  <2> HIDE DEF a
  <2>2. a \in Int => Clamped(a, 0, 1000) \in 0 .. 1000
    BY DEF Clamped, AtMost
  <2> QED
    BY <2>1, <2>2 DEF a
<1>5. \A q \in Reading : q.temp_c \in Int /\ q.smoke_ppm \in Int /\ q.flame_detected \in BOOLEAN
  BY DEF Reading
<1>6. r.temp_c <= s.temp_c /\ r.smoke_ppm <= s.smoke_ppm /\ (r.flame_detected => s.flame_detected)
  BY DEF NoWorse
<1>7. T(r) \in 0 .. 22 /\ T(s) \in 0 .. 22 /\ T(r) <= T(s)
  <2> DEFINE a == 22 * (r.temp_c - n.T_baseline)
             b == 22 * (s.temp_c - n.T_baseline)
  <2>1. a \in Int /\ b \in Int /\ a <= b
    BY <1>2, <1>5, <1>6
  <2> HIDE DEF a, b, dT
  <2>2. a \div dT \in Int /\ b \div dT \in Int /\ a \div dT <= b \div dT
    BY <1>3, <2>1, QuotientsAscend
  <2>3. /\ Clamped(a \div dT, 0, 22) \in 0 .. 22 /\ Clamped(b \div dT, 0, 22) \in 0 .. 22
        /\ Clamped(a \div dT, 0, 22) <= Clamped(b \div dT, 0, 22)
    <3> DEFINE c == a \div dT
               d == b \div dT
    <3> HIDE DEF c, d
    <3>1. c \in Int /\ d \in Int /\ c <= d =>
             /\ Clamped(c, 0, 22) \in 0 .. 22 /\ Clamped(d, 0, 22) \in 0 .. 22
             /\ Clamped(c, 0, 22) <= Clamped(d, 0, 22)
      BY DEF Clamped, AtMost
    <3> QED
      BY <2>2, <3>1 DEF c, d
  <2> QED
    BY <2>3 DEF a, b
<1>8. S(r) \in 0 .. 16 /\ S(s) \in 0 .. 16 /\ S(r) <= S(s)
  <2> DEFINE a == 16 * (r.smoke_ppm - n.S_baseline)
             b == 16 * (s.smoke_ppm - n.S_baseline)
  <2>1. a \in Int /\ b \in Int /\ a <= b
    BY <1>2, <1>5, <1>6
  <2> HIDE DEF a, b, dS
  <2>2. a \div dS \in Int /\ b \div dS \in Int /\ a \div dS <= b \div dS
    BY <1>3, <2>1, QuotientsAscend
  <2>3. /\ Clamped(a \div dS, 0, 16) \in 0 .. 16 /\ Clamped(b \div dS, 0, 16) \in 0 .. 16
        /\ Clamped(a \div dS, 0, 16) <= Clamped(b \div dS, 0, 16)
    <3> DEFINE c == a \div dS
               d == b \div dS
    <3> HIDE DEF c, d
    <3>1. c \in Int /\ d \in Int /\ c <= d =>
             /\ Clamped(c, 0, 16) \in 0 .. 16 /\ Clamped(d, 0, 16) \in 0 .. 16
             /\ Clamped(c, 0, 16) <= Clamped(d, 0, 16)
      BY DEF Clamped, AtMost
    <3> QED
      BY <2>2, <3>1 DEF c, d
  <2> QED
    BY <2>3 DEF a, b
<1> HIDE DEF T, S, O
<1>9. Exp[T(r) + S(r)] \in Nat /\ Exp[T(r) + S(r)] <= 250000
  <2>1. T(r) + S(r) \in 0 .. 38
    BY <1>7, <1>8
  <2> QED
    BY <2>1, ExpIsModest
<1>10. Exp[T(r) + S(r)] <= Exp[T(s) + S(s)]
  <2>1. T(r) + S(r) \in 0 .. 70 /\ T(s) + S(s) \in (T(r) + S(r)) .. 70
    BY <1>7, <1>8
  <2> QED
    BY <2>1, ExpAscends
<1>11. Exp[T(s) + S(s)] \in Nat
  <2>1. T(s) + S(s) \in 0 .. 38
    BY <1>7, <1>8
  <2> QED
    BY <2>1, ExpIsModest
<1>12. BlockedCost \in Nat /\ BlockedCost >= 2505000
  BY SMT DEF BlockedCost, ShelterThreshold
<1>13. CASE s.flame_detected
  <2>1. I!EdgeCost(n, s) = BlockedCost
    BY <1>1, <1>13
  <2>2. I!EdgeCost(n, r) <= BlockedCost
    <3>1. 10 * Exp[T(r) + S(r)] + 5 * O <= BlockedCost
      BY <1>4, <1>9, <1>12
    <3> QED
      BY <1>1, <1>12, <3>1
  <2> QED
    BY <2>1, <2>2
<1>14. CASE ~ s.flame_detected
  <2>1. /\ I!EdgeCost(n, r) = 10 * Exp[T(r) + S(r)] + 5 * O
        /\ I!EdgeCost(n, s) = 10 * Exp[T(s) + S(s)] + 5 * O
    BY <1>1, <1>6, <1>14
  <2> QED
    BY <1>4, <1>9, <1>10, <1>11, <2>1
<1> QED
  BY <1>13, <1>14

----------------------------------------------------------------------------
(* Packets. *)

\* The ids of the packets are numbers.
LEMMA IdsAreNatural == \A id \in I!PacketId : id \in Nat
<1> QED
  BY SMTT(30) DEF I!PacketId

Fits(p) ==
    p.node \in I!PacketId /\ p.seq \in Nat /\ p.flame \in BOOLEAN /\ p.corrupt \in BOOLEAN

LEMMA PacketBits ==
    ASSUME NEW p, Fits(p)
    PROVE  /\ I!BuildHazardPacket(p) \in Seq(Bit) /\ Len(I!BuildHazardPacket(p)) = 40
           /\ ~ p.corrupt => CrcValid(I!BuildHazardPacket(p))
<1> DEFINE a == Bits(p.node, 8)
           b == Bits(p.seq, 8)
           f == IF p.flame THEN 1 ELSE 0
           c == Bits(f, 8)
           zero == [i \in 1 .. 16 |-> 0]
           start == (a \o b) \o c
           sum == IF p.corrupt THEN zero ELSE Crc16(start)
<1>1. p.node \in Nat /\ p.seq \in Nat /\ f \in Nat /\ 8 \in Nat \ {0}
  <2>1. p.node \in Nat /\ p.seq \in Nat
    <3>1. p.node \in I!PacketId /\ p.seq \in Nat
      BY DEF Fits
    <3>2. I!PacketId \subseteq Nat
      BY DEF I!PacketId
    <3> QED
      BY <3>1, <3>2
  <2> QED
    BY <2>1
<1>2. a \in Seq(Bit) /\ Len(a) = 8
  BY <1>1, BitsAre
<1>3. b \in Seq(Bit) /\ Len(b) = 8
  BY <1>1, BitsAre
<1>4. c \in Seq(Bit) /\ Len(c) = 8
  <2> HIDE DEF f
  <2> QED
    BY <1>1, BitsAre
<1>5. I!BuildHazardPacket(p) = start \o sum
  <2>1. /\ I!Crc16(start) = Crc16(start)
        /\ \A n, width : I!Bits(n, width) = Bits(n, width)
    BY SameChecksum
  <2>2. I!Data(p) = start
    BY <2>1 DEF I!Data
  <2> HIDE DEF start
  <2> QED
    BY <2>1, <2>2 DEF I!BuildHazardPacket
<1> HIDE DEF a, b, c
<1>6. start \in Seq(Bit) /\ Len(start) = 24
  <2>1. a \o b \in Seq(Bit) /\ Len(a \o b) = 16
    <3>1. a \o b \in Seq(Bit) /\ Len(a \o b) = Len(a) + Len(b)
      BY <1>2, <1>3, ConcatProperties, Zenon
    <3> QED
      BY <1>2, <1>3, <3>1
  <2> DEFINE ab == a \o b
  <2> HIDE DEF ab
  <2>2. ab \o c \in Seq(Bit) /\ Len(ab \o c) = 24
    <3>1. ab \o c \in Seq(Bit) /\ Len(ab \o c) = Len(ab) + Len(c)
      BY <1>4, <2>1, ConcatProperties, Zenon DEF ab
    <3> QED
      BY <1>4, <2>1, <3>1 DEF ab
  <2> QED
    BY <2>2 DEF ab
<1> HIDE DEF start
<1>7. zero \in Register
  BY DEF Register, Bit
<1>8. Crc16(start) \in Register
  <2>1. PICK R : Feeds(R, start) /\ Crc16(start) = R[Len(start)]
    BY <1>6, CrcFeeds
  <2>2. Len(start) \in 0 .. Len(start)
    BY <1>6
  <2> QED
    BY <2>1, <2>2 DEF Feeds
<1>9. sum \in Register
  BY <1>7, <1>8
<1>10. ~ p.corrupt => sum = Crc16(start)
  OBVIOUS
<1> HIDE DEF sum
<1>11. sum \in Seq(Bit) /\ Len(sum) = 16
  BY <1>9, RegistersAreSequences
<1>12. /\ start \o sum \in Seq(Bit) /\ Len(start \o sum) = Len(start) + 16
       /\ sum = Crc16(start) => CrcValid(start \o sum)
  BY <1>6, <1>11, ChecksumIsValid
<1> QED
  BY <1>5, <1>6, <1>10, <1>12

\* The packet on its way is the one that was printed, or that with one or two bits
\* flipped.
Carried(p, a) ==
    /\ Fits(p)
    /\ \/ a = I!BuildHazardPacket(p)
       \/ \E i \in 1 .. 40 : \E j \in i .. 40 : a = Flipped(I!BuildHazardPacket(p), i, j)

LoadedGraph == loaded.nodes \in Seq(I!NodeConfigs)

\* Nothing is printed while commands are read, and what is printed can be carried.
Printed ==
    /\ mode \in {"args", "cli"} => sent = I!Nothing
    /\ number # 0 => sent # I!Nothing
    /\ sent = I!Nothing => air = << >>
    /\ sent # I!Nothing => Carried(sent, air)

Fields ==
    /\ mode \in {"args", "shot", "cli", "done", "crashed"}
    /\ profile \in {"none", "slow", "flashover"}
    /\ zone \in Zones \cup {I!None}
    /\ corrupt \in BOOLEAN
    /\ number \in 0 .. MaxSeq
    /\ age \in Ages
    /\ todo \in Seq(I!PacketId)

InjectorInv == Fields /\ LoadedGraph /\ Printed

LEMMA CarriedBits ==
    ASSUME NEW p, NEW a, Carried(p, a)
    PROVE  a \in Seq(Bit) /\ Len(a) = 40
<1> DEFINE b == I!BuildHazardPacket(p)
<1>1. b \in Seq(Bit) /\ Len(b) = 40
  BY PacketBits DEF Carried
<1>2. CASE a = b
  BY <1>1, <1>2
<1>3. ASSUME NEW i \in 1 .. 40, NEW j \in i .. 40, a = Flipped(b, i, j)
      PROVE  a \in Seq(Bit) /\ Len(a) = 40
  <2> HIDE DEF b
  <2>1. i \in 1 .. Len(b) /\ j \in i .. Len(b)
    BY <1>1
  <2>2. /\ Flipped(b, i, j) \in Seq(Bit) /\ Len(Flipped(b, i, j)) = Len(b)
        /\ \A k \in 1 .. Len(b) : b[k] # Flipped(b, i, j)[k] <=> k \in {i, j}
    BY <1>1, <2>1, FlippedBits
  <2> QED
    BY <1>1, <1>3, <2>2
<1> QED
  BY <1>2, <1>3 DEF Carried

LEMMA NodesAreConfigs ==
    ASSUME NEW id \in I!PacketId
    PROVE  I!NodeConfig([id |-> id]) \in I!NodeConfigs
<1> DEFINE d == [id |-> id]
<1>1. DOMAIN d = {"id"} /\ d["id"] = id
  OBVIOUS
<1> HIDE DEF d
<1>2. \A key, default : key # "id" => I!Get(d, key, default) = default
  BY <1>1 DEF I!Get
<1>3. I!NodeConfig(d) = [node_id |-> id, T_baseline |-> 250, T_critical |-> 800, S_baseline |-> 0,
                         S_critical |-> 1000, occupant_capacity |-> 10]
  BY <1>1, <1>2 DEF I!NodeConfig
<1> QED
  BY <1>3 DEF d, I!NodeConfigs

LEMMA DefaultIsLoaded == I!BuildDefault.nodes \in Seq(I!NodeConfigs)
<1> DEFINE f(i) == I!NodeConfig([id |-> i])
<1>1. I!BuildDefault.nodes = [i \in 1 .. 6 |-> f(i)]
  BY DEF I!BuildDefault
<1>2. \A i \in 1 .. 6 : i \in I!PacketId
  BY SMTT(30) DEF I!PacketId
<1>3. \A i \in 1 .. 6 : f(i) \in I!NodeConfigs
  BY <1>2, NodesAreConfigs
<1> HIDE DEF f
<1>4. [i \in 1 .. 6 |-> f(i)] \in Seq(I!NodeConfigs)
  BY <1>3
<1> QED
  BY <1>1, <1>4

LEMMA InjectorInit == I!Init => InjectorInv
<1> SUFFICES ASSUME I!Init PROVE InjectorInv
  OBVIOUS
<1>1. Fields
  <2>1. << >> \in Seq(I!PacketId)
    BY EmptySeq
  <2>2. 0 \in 0 .. MaxSeq /\ 0 \in Ages
    BY InjectorAssumption
  <2> QED
    BY <2>1, <2>2 DEF I!Init, Fields
<1>2. LoadedGraph
  BY DefaultIsLoaded DEF I!Init, LoadedGraph
<1>3. Printed
  BY DEF I!Init, Printed
<1> QED
  BY <1>1, <1>2, <1>3 DEF InjectorInv

LEMMA GraphsAreTyped ==
    ASSUME LoadedGraph, I!ReadsGraph
    PROVE  LoadedGraph'
<1>1. CASE loaded' = loaded
  BY <1>1 DEF LoadedGraph
<1>2. ASSUME NEW file \in Files, I!Loads(file), loaded' = I!FromDict(file) PROVE LoadedGraph'
  BY <1>2, InjectorAssumption DEF LoadedGraph
<1> QED
  BY <1>1, <1>2 DEF I!ReadsGraph

LEMMA TodoIsTyped ==
    ASSUME NEW nodes \in Seq(I!NodeConfigs)
    PROVE  [i \in DOMAIN nodes |-> nodes[i].node_id] \in Seq(I!PacketId)
<1>1. DOMAIN nodes = 1 .. Len(nodes) /\ Len(nodes) \in Nat
      /\ \A i \in DOMAIN nodes : nodes[i] \in I!NodeConfigs
  BY PlacesAreFinite
<1> DEFINE f(i) == nodes[i].node_id
<1>2. \A i \in DOMAIN nodes : f(i) \in I!PacketId
  BY <1>1 DEF I!NodeConfigs
<1> HIDE DEF f
<1>3. [i \in 1 .. Len(nodes) |-> f(i)] \in Seq(I!PacketId)
  BY <1>1, <1>2
<1> QED
  BY <1>1, <1>3 DEF f

\* What PrintPacket prints and sends.
LEMMA PrintsFit ==
    ASSUME InjectorInv, NEW id \in I!PacketId, NEW t \in Nat
    PROVE  Fits(I!PacketForNode(id, t)) /\ I!PacketForNode(id, t) # I!Nothing
<1> DEFINE r == I!GetReadings(id, t)
           p == I!PacketForNode(id, t)
<1>1. r \in Reading
  <2>1. t <= t
    OBVIOUS
  <2> QED
    BY <2>1, ReadingsGrow
<1>2. r.flame_detected \in BOOLEAN
  BY <1>1 DEF Reading
<1>3. p.node = id /\ p.seq = number + 1 /\ p.flame = r.flame_detected /\ p.corrupt = corrupt
  BY DEF I!PacketForNode
<1>4. number + 1 \in Nat /\ corrupt \in BOOLEAN
  <2>1. number \in 0 .. MaxSeq /\ corrupt \in BOOLEAN
    BY DEF InjectorInv, Fields
  <2> QED
    BY <2>1, InjectorAssumption
<1> HIDE DEF p, r
<1>5. Fits(p)
  BY <1>2, <1>3, <1>4 DEF Fits
<1>6. id # -1
  <2>1. id \in I!PacketId
    OBVIOUS
  <2>2. id \in Nat
    BY <2>1, IdsAreNatural
  <2> QED
    BY <2>2
<1>7. I!Nothing.node = -1
  BY DEF I!Nothing, I!None
<1>8. p # I!Nothing
  BY <1>3, <1>6, <1>7
<1> QED
  BY <1>5, <1>8 DEF p

LEMMA PrintStep ==
    ASSUME InjectorInv, I!PrintPacket
    PROVE  InjectorInv'
<1> DEFINE id == Head(todo)
<1>1. /\ mode = "shot" /\ todo # << >> /\ number < MaxSeq
      /\ UNCHANGED <<loaded, profile, zone, corrupt>>
  BY DEF I!PrintPacket
<1>2. Fields /\ LoadedGraph /\ Printed
  BY DEF InjectorInv
<1>3. LoadedGraph'
  BY <1>1, <1>2 DEF LoadedGraph
<1>4. \/ mode' = "crashed" /\ UNCHANGED <<number, age, todo, shown, sent, air>>
      \/ /\ \E later \in {t \in Ages : t >= age} :
              /\ age' = later
              /\ sent' = I!PacketForNode(id, later)
              /\ air' = I!BuildHazardPacket(sent')
         /\ number' = number + 1
         /\ todo' = Tail(todo)
         /\ mode' = IF todo' = << >> THEN "done" ELSE "shot"
  BY DEF I!PrintPacket
<1>5. CASE mode' = "crashed" /\ UNCHANGED <<number, age, todo, shown, sent, air>>
  <2>1. Fields'
    BY <1>1, <1>2, <1>5 DEF Fields
  <2>2. Printed'
    BY <1>2, <1>5 DEF Printed
  <2> QED
    BY <1>3, <2>1, <2>2 DEF InjectorInv
<1>6. ASSUME NEW later \in {t \in Ages : t >= age},
             age' = later, sent' = I!PacketForNode(id, later), air' = I!BuildHazardPacket(sent'),
             number' = number + 1, todo' = Tail(todo), mode' = IF todo' = << >> THEN "done" ELSE "shot"
      PROVE  InjectorInv'
  <2>1. todo \in Seq(I!PacketId) /\ number \in 0 .. MaxSeq /\ MaxSeq \in Nat
    BY <1>2, InjectorAssumption DEF Fields
  <2>2. id \in I!PacketId /\ Tail(todo) \in Seq(I!PacketId)
    BY <1>1, <2>1, HeadTailProperties
  <2>3. later \in Nat
    BY InjectorAssumption
  <2>4. Fits(sent') /\ sent' # I!Nothing
    BY <1>6, <2>2, <2>3, PrintsFit
  <2>5. Fields'
    <3>1. number + 1 \in 0 .. MaxSeq
      BY <1>1, <2>1
    <3>2. mode' \in {"done", "shot"}
      BY <1>6
    <3> QED
      BY <1>1, <1>2, <1>6, <2>2, <3>1, <3>2 DEF Fields
  <2>6. Printed'
    <3>1. mode' \notin {"args", "cli"}
      BY <1>6
    <3>2. Carried(sent', air')
      BY <1>6, <2>4 DEF Carried
    <3> QED
      BY <2>4, <3>1, <3>2 DEF Printed
  <2> QED
    BY <1>3, <2>5, <2>6 DEF InjectorInv
<1> QED
  BY <1>4, <1>5, <1>6

LEMMA DamageStep ==
    ASSUME InjectorInv, I!Damage
    PROVE  InjectorInv'
<1>1. /\ number = 1 /\ air = I!BuildHazardPacket(sent)
      /\ \E i \in DOMAIN air : \E j \in i .. Len(air) : air' = Flipped(air, i, j)
      /\ UNCHANGED <<mode, loaded, profile, zone, corrupt, number, age, todo, shown, sent>>
  BY DEF I!Damage, Flipped
<1>2. Fields /\ LoadedGraph /\ Printed
  BY DEF InjectorInv
<1>3. Fields' /\ LoadedGraph'
  BY <1>1, <1>2 DEF Fields, LoadedGraph
<1>4. sent # I!Nothing /\ Carried(sent, air)
  BY <1>1, <1>2 DEF Printed
<1>5. air \in Seq(Bit) /\ Len(air) = 40 /\ DOMAIN air = 1 .. 40
  <2>1. air \in Seq(Bit) /\ Len(air) = 40
    BY <1>4, CarriedBits
  <2> QED
    BY <2>1
<1>6. Carried(sent, air')
  BY <1>1, <1>4, <1>5 DEF Carried
<1>7. Printed'
  BY <1>1, <1>2, <1>4, <1>6 DEF Printed
<1> QED
  BY <1>3, <1>7 DEF InjectorInv

LEMMA InjectorStep ==
    ASSUME InjectorInv, I!Next
    PROVE  InjectorInv'
<1>1. Fields /\ LoadedGraph /\ Printed
  BY DEF InjectorInv
<1>2. << >> \in Seq(I!PacketId) /\ \A id \in I!PacketId : <<id>> \in Seq(I!PacketId)
  <2>1. << >> \in Seq(I!PacketId)
    BY EmptySeq
  <2>2. \A id \in I!PacketId : <<id>> \in Seq(I!PacketId)
    OBVIOUS
  <2> QED
    BY <2>1, <2>2
<1>3. CASE I!LaunchFails
  <2>1. Fields' /\ LoadedGraph'
    BY <1>1, <1>3 DEF I!LaunchFails, Fields, LoadedGraph
  <2>2. Printed'
    BY <1>1, <1>3 DEF I!LaunchFails, Printed
  <2> QED
    BY <2>1, <2>2 DEF InjectorInv
<1>4. CASE I!LaunchPacket
  <2>1. I!ReadsGraph /\ mode = "args" /\ mode' = "shot" /\ (\E id \in Zones : todo' = <<id>>)
        /\ UNCHANGED <<profile, zone, corrupt, number, age, shown, sent, air>>
    BY <1>4 DEF I!LaunchPacket
  <2>2. LoadedGraph'
    BY <1>1, <2>1, GraphsAreTyped
  <2>3. todo' \in Seq(I!PacketId)
    BY <1>2, <2>1, InjectorAssumption
  <2>4. Fields'
    BY <1>1, <2>1, <2>3 DEF Fields
  <2>5. Printed'
    BY <1>1, <2>1 DEF Printed
  <2> QED
    BY <2>2, <2>4, <2>5 DEF InjectorInv
<1>5. CASE I!Launch
  <2>1. /\ I!ReadsGraph /\ mode = "args" /\ mode' \in {"cli", "shot"}
        /\ zone' \in Zones \cup {I!None} /\ profile' \in {"slow", "flashover"} /\ corrupt' \in BOOLEAN
        /\ todo' = IF mode' = "cli" THEN << >>
                   ELSE [i \in DOMAIN loaded'.nodes |-> loaded'.nodes[i].node_id]
        /\ UNCHANGED <<number, age, shown, sent, air>>
    BY <1>5 DEF I!Launch
  <2>2. LoadedGraph'
    BY <1>1, <2>1, GraphsAreTyped
  <2>3. todo' \in Seq(I!PacketId)
    <3>1. [i \in DOMAIN loaded'.nodes |-> loaded'.nodes[i].node_id] \in Seq(I!PacketId)
      BY <2>2, TodoIsTyped DEF LoadedGraph
    <3> QED
      BY <1>2, <2>1, <3>1
  <2>4. Fields'
    BY <1>1, <2>1, <2>3 DEF Fields
  <2>5. Printed'
    BY <1>1, <2>1 DEF Printed
  <2> QED
    BY <2>2, <2>4, <2>5 DEF InjectorInv
<1>6. CASE I!PrintPacket
  BY <1>6, PrintStep
<1>7. CASE I!RunCli
  <2>1. mode = "cli" /\ UNCHANGED <<loaded, number, todo, shown, sent, air>>
    BY <1>7 DEF I!RunCli, I!SetProfile, I!TriggerFlashover, I!SetZone, I!SetCorruptMode, I!Pub, I!Quit
  <2>2. /\ mode' \in {"cli", "crashed", "done"}
        /\ profile' \in {profile, "slow", "flashover"}
        /\ zone' \in Zones \cup {zone}
        /\ corrupt' \in BOOLEAN \cup {corrupt}
        /\ age' \in {age, 0}
    BY <1>7, <2>1 DEF I!RunCli, I!SetProfile, I!TriggerFlashover, I!SetZone, I!SetCorruptMode, I!Pub, I!Quit
  <2>3. LoadedGraph'
    BY <1>1, <2>1 DEF LoadedGraph
  <2>4. Fields'
    BY <1>1, <2>1, <2>2, InjectorAssumption DEF Fields
  <2>5. Printed'
    BY <1>1, <2>1 DEF Printed
  <2> QED
    BY <2>3, <2>4, <2>5 DEF InjectorInv
<1>8. CASE I!NothingToPrint
  <2>1. mode' = "done" /\ UNCHANGED <<loaded, profile, zone, corrupt, number, age, todo, shown, sent, air>>
    BY <1>8 DEF I!NothingToPrint, I!Quit
  <2>2. Fields' /\ LoadedGraph'
    BY <1>1, <2>1 DEF Fields, LoadedGraph
  <2>3. Printed'
    BY <1>1, <2>1 DEF Printed
  <2> QED
    BY <2>2, <2>3 DEF InjectorInv
<1>9. CASE I!Wait
  <2>1. age' \in Ages /\ UNCHANGED <<mode, loaded, profile, zone, corrupt, number, todo, shown, sent, air>>
    BY <1>9 DEF I!Wait
  <2>2. Fields' /\ LoadedGraph'
    BY <1>1, <2>1 DEF Fields, LoadedGraph
  <2>3. Printed'
    BY <1>1, <2>1 DEF Printed
  <2> QED
    BY <2>2, <2>3 DEF InjectorInv
<1>10. CASE I!Damage
  BY <1>10, DamageStep
<1> QED
  BY <1>3, <1>4, <1>5, <1>6, <1>7, <1>8, <1>9, <1>10 DEF I!Next

\* Both programs run side by side: each alone is what it is by itself.
LEMMA SideBySide == AllSpec => Spec /\ I!Spec
<1>1. AllInit => Init /\ I!Init
  BY DEF AllInit
<1>2. [AllNext]_allVars => [Next]_vars /\ [I!Next]_(I!vars)
  BY DEF AllNext, allVars, injector, I!vars
<1> QED
  BY <1>1, <1>2, PTL DEF AllSpec, Spec, I!Spec

LEMMA InjectorKeeps == I!Spec => []InjectorInv
<1>1. I!Init => InjectorInv
  BY InjectorInit
<1>2. InjectorInv /\ [I!Next]_(I!vars) => InjectorInv'
  <2> SUFFICES ASSUME InjectorInv, [I!Next]_(I!vars) PROVE InjectorInv'
    OBVIOUS
  <2>1. CASE I!Next
    BY <2>1, InjectorStep
  <2>2. CASE UNCHANGED I!vars
    BY <2>2 DEF I!vars, InjectorInv, Fields, LoadedGraph, Printed
  <2> QED
    BY <2>1, <2>2
<1> QED
  BY <1>1, <1>2, PTL DEF I!Spec

\* The values of the bridge and of the injector stay within their types, whatever the
\* nodes publish, the operator types and the file of the graph says.
THEOREM TypesAreOK == AllSpec => []TypesOK
<1>1. InjectorInv => I!TypeOK
  <2> SUFFICES ASSUME InjectorInv PROVE I!TypeOK
    OBVIOUS
  <2>1. Fields /\ Printed
    BY DEF InjectorInv
  <2>2. \A i \in DOMAIN air : air[i] \in {0, 1}
    <3>1. CASE sent = I!Nothing
      BY <2>1, <3>1 DEF Printed
    <3>2. CASE sent # I!Nothing
      <4>1. air \in Seq(Bit)
        BY <2>1, <3>2, CarriedBits DEF Printed
      <4> QED
        BY <4>1 DEF Bit
    <3> QED
      BY <3>1, <3>2
  <2> QED
    BY <2>1, <2>2 DEF Fields, I!TypeOK
<1>2. TypeOK /\ I!TypeOK => TypesOK
  BY DEF TypesOK
<1> QED
  BY <1>1, <1>2, SideBySide, InjectorKeeps, TypeCorrect, PTL

\* A packet that left with its checksum passes the check of its receiver if and only if
\* no bit was flipped on its way, for one or two flips anywhere.
THEOREM DamagesAreNoticed == AllSpec => []DamageIsNoticed
<1>1. InjectorInv => DamageIsNoticed
  <2> SUFFICES ASSUME InjectorInv, sent # I!Nothing, ~ sent.corrupt
               PROVE  I!CrcValid(air) <=> air = I!BuildHazardPacket(sent)
    BY DEF DamageIsNoticed, I!DamageIsNoticed
  <2> DEFINE p == I!BuildHazardPacket(sent)
  <2>1. Carried(sent, air)
    BY DEF InjectorInv, Printed
  <2>2. p \in Seq(Bit) /\ Len(p) = 40 /\ CrcValid(p)
    BY <2>1, PacketBits DEF Carried
  <2> HIDE DEF p
  <2>3. air = p \/ \E i \in 1 .. 40 : \E j \in i .. 40 : air = Flipped(p, i, j)
    BY <2>1 DEF Carried, p
  <2>4. CASE air = p
    BY <2>2, <2>4, SameChecksum DEF p
  <2>5. ASSUME NEW i \in 1 .. 40, NEW j \in i .. 40, air = Flipped(p, i, j)
        PROVE  I!CrcValid(air) <=> air = p
    <3>1. i \in 1 .. Len(p) /\ j \in i .. Len(p) /\ Len(p) \in 16 .. 211
      BY <2>2
    <3>2. /\ air \in Seq(Bit) /\ Len(air) = Len(p)
          /\ \A k \in 1 .. Len(p) : p[k] # air[k] <=> k \in {i, j}
      <4>1. /\ Flipped(p, i, j) \in Seq(Bit) /\ Len(Flipped(p, i, j)) = Len(p)
            /\ \A k \in 1 .. Len(p) : p[k] # Flipped(p, i, j)[k] <=> k \in {i, j}
        BY <2>2, <3>1, FlippedBits
      <4> QED
        BY <2>5, <4>1
    <3>3. ~ CrcValid(air)
      BY <2>2, <3>1, <3>2, CrcNoticesDamage
    <3>4. air # p
      BY <3>1, <3>2
    <3> QED
      BY <3>3, <3>4, SameChecksum
  <2> QED
    BY <2>3, <2>4, <2>5 DEF p
<1> QED
  BY <1>1, SideBySide, InjectorKeeps, PTL

----------------------------------------------------------------------------
(* What is printed and what is sent. *)

\* Each range of a node in a file begins below where it ends, or at it.
RangesAscend ==
    \A file \in Files : I!Loads(file) =>
        \A i \in DOMAIN I!FromDict(file).nodes : Ascends(I!FromDict(file).nodes[i])

LoadedAscends == \A i \in DOMAIN loaded.nodes : Ascends(loaded.nodes[i])

ShownInv == LoadedAscends /\ ShownIsSent

LEMMA DefaultAscends == \A i \in DOMAIN I!BuildDefault.nodes : Ascends(I!BuildDefault.nodes[i])
<1> SUFFICES ASSUME NEW i \in DOMAIN I!BuildDefault.nodes PROVE Ascends(I!BuildDefault.nodes[i])
  OBVIOUS
<1> DEFINE d == [id |-> i]
<1>1. DOMAIN d = {"id"} /\ d["id"] = i
  OBVIOUS
<1>2. I!BuildDefault.nodes[i] = I!NodeConfig(d)
  BY DEF I!BuildDefault
<1> HIDE DEF d
<1>3. \A key, default : key # "id" => I!Get(d, key, default) = default
  BY <1>1 DEF I!Get
<1>4. I!NodeConfig(d) = [node_id |-> i, T_baseline |-> 250, T_critical |-> 800, S_baseline |-> 0,
                         S_critical |-> 1000, occupant_capacity |-> 10]
  BY <1>1, <1>3 DEF I!NodeConfig
<1> QED
  BY <1>2, <1>4 DEF Ascends

\* What is packed is no less than what was shown before it.
LEMMA PrintGrows ==
    ASSUME InjectorInv, LoadedAscends, NEW id,
           I!Found(id) = {} \/ I!Divides(I!FindNode(id)),
           NEW t \in Nat, NEW u \in Nat, t <= u
    PROVE  I!CostOf(id, I!GetReadings(id, t)) <= I!CostOf(id, I!GetReadings(id, u))
<1> DEFINE r == I!GetReadings(id, t)
           s == I!GetReadings(id, u)
           n == I!FindNode(id)
<1>1. r \in Reading /\ s \in Reading /\ NoWorse(r, s)
  BY ReadingsGrow
<1> HIDE DEF r, s
<1>2. CASE I!Found(id) = {}
  BY <1>2 DEF I!CostOf
<1>3. CASE I!Found(id) # {}
  <2>1. I!Found(id) \subseteq Nat /\ I!Found(id) \subseteq DOMAIN loaded.nodes
        /\ \A i \in DOMAIN loaded.nodes : loaded.nodes[i] \in I!NodeConfigs
    <3>1. loaded.nodes \in Seq(I!NodeConfigs)
      BY DEF InjectorInv, LoadedGraph
    <3>2. DOMAIN loaded.nodes = 1 .. Len(loaded.nodes) /\ Len(loaded.nodes) \in Nat
          /\ \A i \in DOMAIN loaded.nodes : loaded.nodes[i] \in I!NodeConfigs
      BY <3>1, PlacesAreFinite
    <3> QED
      BY <3>2 DEF I!Found
  <2> DEFINE S == I!Found(id)
  <2> HIDE DEF S
  <2>2. Min(S) \in S
    BY <1>3, <2>1, MinIn DEF S
  <2>3. I!FindNode(id) = loaded.nodes[Min(S)]
    BY DEF I!FindNode, I!Min, Min, S
  <2>4. n \in I!NodeConfigs /\ Ascends(n)
    BY <2>1, <2>2, <2>3 DEF S, LoadedAscends
  <2>5. I!Divides(n)
    BY <1>3
  <2> HIDE DEF n
  <2>6. I!EdgeCost(n, r) <= I!EdgeCost(n, s)
    BY <1>1, <2>4, <2>5, CostsGrow
  <2>7. I!CostOf(id, r) = I!EdgeCost(n, r) /\ I!CostOf(id, s) = I!EdgeCost(n, s)
    BY <1>3 DEF I!CostOf, n
  <2>8. I!CostOf(id, r) <= I!CostOf(id, s)
    BY <2>6, <2>7
  <2> QED
    BY <2>8 DEF r, s
<1> QED
  BY <1>2, <1>3

LEMMA PrintShows ==
    ASSUME InjectorInv, LoadedAscends, I!ShownIsSent, I!PrintPacket
    PROVE  I!ShownIsSent'
<1> DEFINE id == Head(todo)
           first == I!GetReadings(id, age)
<1>1. /\ \/ /\ UNCHANGED <<shown, sent>>
         \/ /\ I!Found(id) = {} \/ I!Divides(I!FindNode(id))
            /\ \E later \in {t \in Ages : t >= age} :
                 /\ sent' = I!PacketForNode(id, later)
                 /\ air' = I!BuildHazardPacket(sent')
                 /\ shown' = [node |-> id, temp |-> first.temp_c, smoke |-> first.smoke_ppm,
                              flame |-> first.flame_detected, cost |-> I!CostOf(id, first),
                              valid |-> I!CrcValid(air')]
      /\ UNCHANGED <<loaded, profile, zone, corrupt>>
  BY DEF I!PrintPacket
<1>2. CASE UNCHANGED <<shown, sent>>
  BY <1>1, <1>2 DEF I!ShownIsSent
<1>3. ASSUME I!Found(id) = {} \/ I!Divides(I!FindNode(id)),
             NEW later \in {t \in Ages : t >= age},
             sent' = I!PacketForNode(id, later), air' = I!BuildHazardPacket(sent'),
             shown' = [node |-> id, temp |-> first.temp_c, smoke |-> first.smoke_ppm,
                       flame |-> first.flame_detected, cost |-> I!CostOf(id, first),
                       valid |-> I!CrcValid(air')]
      PROVE  I!ShownIsSent'
  <2>1. Fields
    BY DEF InjectorInv
  <2>2. age \in Nat /\ later \in Nat /\ age <= later
    BY <2>1, InjectorAssumption DEF Fields
  <2>3. id \in I!PacketId
    <3>1. todo \in Seq(I!PacketId) /\ todo # << >>
      BY <2>1 DEF Fields, I!PrintPacket
    <3> QED
      BY <3>1, HeadTailProperties
  <2> DEFINE last == I!GetReadings(id, later)
             p == I!PacketForNode(id, later)
  <2>4. /\ first \in Reading /\ last \in Reading /\ NoWorse(first, last)
        /\ last.flame_detected => id = zone
    BY <2>2, ReadingsGrow
  <2>5. I!CostOf(id, first) <= I!CostOf(id, last)
    BY <1>3, <2>2, PrintGrows
  <2>6. Fits(p)
    BY <2>2, <2>3, PrintsFit
  <2>7. /\ p.node = id /\ p.temp = last.temp_c /\ p.smoke = last.smoke_ppm
        /\ p.flame = last.flame_detected /\ p.cost = I!CostOf(id, last) /\ p.corrupt = corrupt
    BY DEF I!PacketForNode
  <2> HIDE DEF first, last, p, id
  <2>8. ~ p.corrupt => I!CrcValid(air')
    <3>1. ~ p.corrupt => CrcValid(I!BuildHazardPacket(p))
      BY <2>6, PacketBits
    <3> QED
      BY <1>3, <3>1, SameChecksum DEF p
  <2>9. sent' = p
    BY <1>3 DEF p
  <2>10. /\ shown'.node = id /\ shown'.temp = first.temp_c /\ shown'.smoke = first.smoke_ppm
         /\ shown'.flame = first.flame_detected /\ shown'.cost = I!CostOf(id, first)
         /\ shown'.valid = I!CrcValid(air')
    BY <1>3
  <2>11. zone' = zone
    BY <1>1
  <2>12. /\ shown'.node = sent'.node
         /\ shown'.flame => sent'.flame
         /\ shown'.temp <= sent'.temp /\ shown'.smoke <= sent'.smoke /\ shown'.cost <= sent'.cost
         /\ sent'.flame => sent'.node = zone'
    BY <2>4, <2>5, <2>7, <2>9, <2>10, <2>11 DEF NoWorse
  <2>13. ~ shown'.valid => sent'.corrupt
    BY <2>8, <2>9, <2>10
  <2> QED
    BY <2>12, <2>13 DEF I!ShownIsSent
<1> QED
  BY <1>1, <1>2, <1>3

LEMMA ShownStep ==
    ASSUME RangesAscend, InjectorInv, ShownInv, [I!Next]_(I!vars)
    PROVE  ShownInv'
<1>1. LoadedAscends /\ I!ShownIsSent
  BY DEF ShownInv, ShownIsSent
<1>2. mode \in {"args", "cli"} => sent = I!Nothing
  BY DEF InjectorInv, Printed
<1>3. CASE I!LaunchPacket \/ I!Launch
  <2>1. I!ReadsGraph /\ mode = "args" /\ sent' = sent
    BY <1>3 DEF I!LaunchPacket, I!Launch
  <2>2. LoadedAscends'
    BY <1>1, <2>1 DEF I!ReadsGraph, LoadedAscends, RangesAscend
  <2>3. I!ShownIsSent'
    BY <1>2, <2>1 DEF I!ShownIsSent, I!Nothing
  <2> QED
    BY <2>2, <2>3 DEF ShownInv, ShownIsSent
<1>4. CASE I!RunCli
  <2>1. mode = "cli" /\ UNCHANGED <<loaded, sent>>
    BY <1>4 DEF I!RunCli, I!SetProfile, I!TriggerFlashover, I!SetZone, I!SetCorruptMode, I!Pub, I!Quit
  <2>2. LoadedAscends'
    BY <1>1, <2>1 DEF LoadedAscends
  <2>3. I!ShownIsSent'
    BY <1>2, <2>1 DEF I!ShownIsSent, I!Nothing
  <2> QED
    BY <2>2, <2>3 DEF ShownInv, ShownIsSent
<1>5. CASE I!PrintPacket
  <2>1. loaded' = loaded
    BY <1>5 DEF I!PrintPacket
  <2>2. LoadedAscends'
    BY <1>1, <2>1 DEF LoadedAscends
  <2>3. I!ShownIsSent'
    BY <1>1, <1>5, PrintShows
  <2> QED
    BY <2>2, <2>3 DEF ShownInv, ShownIsSent
<1>6. CASE I!LaunchFails \/ I!NothingToPrint \/ I!Wait \/ I!Damage \/ UNCHANGED I!vars
  <2>1. UNCHANGED <<loaded, zone, shown, sent>>
    BY <1>6 DEF I!LaunchFails, I!NothingToPrint, I!Quit, I!Wait, I!Damage, I!vars
  <2>2. LoadedAscends'
    BY <1>1, <2>1 DEF LoadedAscends
  <2>3. I!ShownIsSent'
    BY <1>1, <2>1 DEF I!ShownIsSent, I!Nothing
  <2> QED
    BY <2>2, <2>3 DEF ShownInv, ShownIsSent
<1> QED
  BY <1>3, <1>4, <1>5, <1>6 DEF I!Next

\* The nodes are told no less than the operator was shown, nobody but the target burns,
\* and a checksum called invalid is that of the corrupt mode: for any ages of the fire
\* and any graph whose ranges ascend.  (In a range that descends, hotter is cheaper.)
THEOREM NoLessIsSent == RangesAscend /\ AllSpec => []ShownIsSent
<1>1. RangesAscend /\ I!Init => ShownInv
  <2> SUFFICES ASSUME RangesAscend, I!Init PROVE ShownInv
    OBVIOUS
  <2>1. LoadedAscends
    BY DefaultAscends DEF I!Init, LoadedAscends
  <2>2. I!ShownIsSent
    BY DEF I!Init, I!ShownIsSent
  <2> QED
    BY <2>1, <2>2 DEF ShownInv, ShownIsSent
<1>2. RangesAscend /\ InjectorInv /\ ShownInv /\ [I!Next]_(I!vars) => ShownInv'
  BY ShownStep
<1>3. ShownInv => ShownIsSent
  BY DEF ShownInv
<1>4. CASE RangesAscend
  <2>1. I!Spec /\ []InjectorInv => []ShownInv
    BY <1>1, <1>2, <1>4, PTL DEF I!Spec
  <2> QED
    BY <1>3, <2>1, SideBySide, InjectorKeeps, PTL
<1> QED
  BY <1>4
=============================================================================
