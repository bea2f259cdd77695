------------------------------ MODULE Sensors ------------------------------
(***************************************************************************)
(* The health of a node's sensors (firmware/src/fusion.cpp) and the tier   *)
(* it falls back to (firmware/src/failsafe.cpp), as loop() of main.cpp     *)
(* drives them.  A sensor is unhealthy when its reading is impossible, or  *)
(* when its last samples are all the same.  Readings are members of a      *)
(* small set, far enough apart for the variance of a ring that is not      *)
(* constant to exceed SENSOR_NOISE_FLOOR.                                  *)
(***************************************************************************)
EXTENDS SensorSizes, Sequences

VARIABLES
    clock,    \* millis() since sensor_state_init, which takes first_sample_ms
    health,   \* SensorHealth of each sensor: ring_buffer, idx, healthy
    tier,     \* active_tier
    recent    \* ghost: the last Ring possible samples of each sensor, oldest first,
              \* and whether the very last sample was possible

vars == <<clock, health, tier, recent>>

Health(s) == [ring : [0 .. Ring - 1 -> Readings[s]], idx : 0 .. IdxMod - 1,
              healthy : BOOLEAN]

Tiers == {"local", "neighbours", "static"}

TypeOK ==
    /\ clock \in 0 .. ClockMod - 1
    /\ DOMAIN health = Sensor
    /\ \A s \in Sensor : health[s] \in Health(s)
    /\ tier \in Tiers
    /\ DOMAIN recent = Sensor
    /\ \A s \in Sensor :
         /\ recent[s] \in [samples : Seq(Readings[s]), possible : BOOLEAN]
         /\ Len(recent[s].samples) <= Ring

Init ==
    /\ clock = 0
    /\ health = [s \in Sensor |-> [ring |-> [i \in 0 .. Ring - 1 |-> 0], idx |-> 0,
                                   healthy |-> TRUE]]
    /\ tier = "local"
    /\ recent = [s \in Sensor |-> [samples |-> << >>, possible |-> TRUE]]

----------------------------------------------------------------------------
\* compute_variance is below the noise floor.
Flat(ring) == \A i, j \in DOMAIN ring : ring[i] = ring[j]

\* Mutant: idx counts the slots of the ring.
CountInRing(idx) == (idx + 1) % Ring

\* Mutant: idx has no width.
CountWide(idx) == idx + 1

\* idx++ on a uint8_t.
Count(idx) == (idx + 1) % IdxMod

\* Mutant: the ring is judged before it is full.
StuckEarly(ring, idx, elapsed) == elapsed >= Window /\ Flat(ring)

\* The verdict on a ring into which idx samples went.
Stuck(ring, idx, elapsed) == idx >= Ring /\ elapsed >= Window /\ Flat(ring)

\* sensor_health_update at time now.
Update(h, sample, now) ==
    IF sample = Bad THEN [h EXCEPT !.healthy = FALSE]
    ELSE LET ring == [h.ring EXCEPT ![h.idx % Ring] = sample]
             idx  == Count(h.idx)
         IN  [ring |-> ring, idx |-> idx, healthy |-> ~ Stuck(ring, idx, now)]

Remember(r, sample) ==
    IF sample = Bad THEN [r EXCEPT !.possible = FALSE]
    ELSE [samples |-> IF Len(r.samples) = Ring THEN Append(Tail(r.samples), sample)
                                               ELSE Append(r.samples, sample),
          possible |-> TRUE]

\* The tier sensor_state_update falls back to.
Tier(h) ==
    IF \A s \in Sensor : h[s].healthy THEN "local"
    ELSE IF \E s \in Analog : ~ h[s].healthy THEN "neighbours"
    ELSE "static"

\* One iteration of loop(): all sensors are read and judged with one now.  The
\* flame sensor is a pin: its reading is always possible.
Sense(sample) ==
    LET now == (clock + 1) % ClockMod
        h   == [s \in Sensor |-> Update(health[s], sample[s], now)]
    IN  /\ clock' = now
        /\ health' = h
        /\ tier' = Tier(h)
        /\ recent' = [s \in Sensor |-> Remember(recent[s], sample[s])]

\* What the sensors may say together.
Samples == {sample \in [Sensor -> UNION {Readings[s] : s \in Sensor} \cup {Bad}] :
              /\ \A s \in Analog : sample[s] \in Readings[s] \cup {Bad}
              /\ sample[Flame] \in Readings[Flame]}

Next == \E sample \in Samples : Sense(sample)

\* loop() runs for ever.
Spec == Init /\ [][Next]_vars /\ WF_vars(Next)

----------------------------------------------------------------------------
(* Properties.                                                             *)

\* A sensor whose last reading was possible is distrusted only when its last
\* Ring readings really were the same: the wrapping of idx, which leaves the
\* slots of the ring out of turn, never lets a mixture of old and new samples
\* condemn a live sensor.
VerdictIsRecent ==
    \A s \in Sensor :
        ~ health[s].healthy /\ recent[s].possible =>
            Len(recent[s].samples) = Ring /\ Flat(recent[s].samples)

\* A sensor that stays stuck takes the node off its own readings again and again,
\* and an analog one makes it turn to its neighbours.  (Not for good: when idx
\* wraps, the ring counts as empty, and the sensor is trusted until idx has
\* reached Ring again.)
StuckIsNoticed ==
    \A s \in Sensor :
        <>[](Len(recent[s].samples) = Ring /\ Flat(recent[s].samples))
            => []<>(tier # "local" /\ (s \in Analog => tier = "neighbours"))

\* The static default is for the node all of whose sensors have failed
\* (docs/firmware.md, the diagram of the fail-safe hierarchy).
StaticIsLastResort ==
    tier = "static" => \A s \in Sensor : ~ health[s].healthy
=============================================================================
