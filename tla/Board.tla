------------------------------- MODULE Board -------------------------------
(***************************************************************************)
(* The parts of loop() in firmware/src/main.cpp that keep a state of their *)
(* own beside the link-state tables: the health of the sensors and the     *)
(* tier, and the hop a node follows.  They share nothing, since the tier   *)
(* enters only the cost a node publishes: each runs beside the other's     *)
(* initial state.                                                          *)
(***************************************************************************)
EXTENDS Guidance, SensorSizes

VARIABLES clock, health, tier, recent

S == INSTANCE Sensors

sensorVars == <<clock, health, tier, recent>>
allVars    == <<vars, sensorVars>>

Judge == Init /\ S!Next /\ UNCHANGED vars

Guide(A) == S!Init /\ A /\ UNCHANGED sensorVars

AllInit == Init /\ S!Init

AllNext == Judge \/ Guide(Next)

\* loop() is called again and again.
AllSpec == AllInit /\ [][AllNext]_allVars /\ WF_allVars(Judge) /\ WF_allVars(Guide(Loop))

----------------------------------------------------------------------------
\* The type invariant of the sensors; that of the hop is Guidance's.
SensorsTyped == S!TypeOK

\* sensor_health_update never condemns a live sensor on a mixture of old and new
\* samples (see Sensors).
VerdictIsRecent == S!VerdictIsRecent

\* sensor_state_update gives up the readings of a stuck sensor again and again
\* (see Sensors).
StuckIsNoticed == S!StuckIsNoticed
=============================================================================
