-------------------------------- MODULE Mqtt --------------------------------
(***************************************************************************)
(* The two programs that are to speak MQTT, the bridge and the injector.   *)
(* They share nothing, since the injector cannot publish: each runs beside *)
(* the other's initial state.                                              *)
(***************************************************************************)
EXTENDS BridgeRoutes

CONSTANTS Files, Zones, Ages, MaxSeq    \* the injector's

VARIABLES mode, loaded, profile, zone, corrupt, number, age, todo, shown, sent, air

\* (Two variables get other names, since TLC takes a parameter with the name of a
\* variable for it, and computes what depends on it again and again.)
I == INSTANCE Injector WITH graph <- loaded, seq <- number

injector == <<mode, loaded, profile, zone, corrupt, number, age, todo, shown, sent, air>>
allVars  == <<vars, injector>>

\* Ids fit the field they are packed into; what a file says of a node are numbers.
ASSUME InjectorAssumption ==
    /\ Zones \subseteq I!PacketId
    /\ 0 \in Ages /\ Ages \subseteq Nat
    /\ MaxSeq \in Nat
    /\ \A file \in Files : I!Loads(file) => I!FromDict(file).nodes \in Seq(I!NodeConfigs)

AllInit == Init /\ I!Init

AllNext == \/ I!Init /\ Next /\ UNCHANGED injector
           \/ Init /\ I!Next /\ UNCHANGED vars

AllSpec == AllInit /\ [][AllNext]_allVars

----------------------------------------------------------------------------
TypesOK == TypeOK /\ I!TypeOK
ShownIsSent == I!ShownIsSent
DamageIsNoticed == I!DamageIsNoticed
=============================================================================
