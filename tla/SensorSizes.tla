---------------------------- MODULE SensorSizes ----------------------------
(***************************************************************************)
(* A node's sensors and the constants of their health check                *)
(* (firmware/src/fusion.cpp).                                              *)
(***************************************************************************)
EXTENDS Integers

CONSTANTS Analog,    \* the temperature and smoke sensors
          Flame,     \* the flame sensor
          Readings,  \* for each sensor, what it may read; 0 is a reading of all
          Bad,       \* NaN, or out of the physical range
          Ring,      \* SENSOR_HEALTH_RING_SIZE
          IdxMod,    \* 2^8: the range of idx
          Window,    \* SENSOR_STUCK_WINDOW_MS, in iterations of loop()
          ClockMod   \* 2^32: the range of millis(), in iterations of loop()

Sensor == Analog \cup {Flame}

ASSUME SensorsAssumption ==
    /\ Flame \notin Analog
    /\ \A s \in Sensor : Bad \notin Readings[s] /\ 0 \in Readings[s]
    /\ Ring \in Nat \ {0}
    /\ IdxMod \in Nat
    /\ Ring < IdxMod
    /\ Window \in Nat
    /\ ClockMod \in Nat
    /\ Window < ClockMod
=============================================================================
