--------------------------- MODULE Sensors_proofs ---------------------------
(***************************************************************************)
(* The verdict on a sensor is about its last samples, for a ring and an    *)
(* index of any size, beside the hop.  The induction goes over what a ring *)
(* holds: counted back from the slot that is written next, the latest      *)
(* samples, as many as idx says at most.                                   *)
(***************************************************************************)
EXTENDS Board, Sequences, TLAPS

\* Counting back from a slot by less than a round leads to another slot.
LEMMA OtherSlot ==
    ASSUME NEW m \in Nat, m > 0, NEW i \in Int, NEW k \in Int, 0 < k, k < m
    PROVE  (i - k) % m # i % m
<1> DEFINE q == i \div m
           r == i % m
           p == (i - k) \div m
<1>1. i = m * q + r /\ q \in Int
  OBVIOUS
<1>2. i - k = m * p + ((i - k) % m) /\ p \in Int
  OBVIOUS
<1> HIDE DEF p, q, r
<1>3. SUFFICES ASSUME (i - k) % m = r PROVE FALSE
  BY DEF r
<1>4. k = m * (q - p)
  <2>1. (i - k) + k = i /\ m * q \in Int /\ m * p \in Int
    BY <1>1, <1>2
  <2>2. k = m * q - m * p
    BY <1>1, <1>2, <1>3, <2>1
  <2>3. m * q - m * p = m * (q - p)
    BY <1>1, <1>2
  <2> QED
    BY <2>2, <2>3
<1>5. q - p \in Int
  BY <1>1, <1>2
<1>6. CASE q - p <= 0
  BY <1>4, <1>5, <1>6
<1>7. CASE q - p >= 1
  BY <1>4, <1>5, <1>7
<1> QED
  BY <1>5, <1>6, <1>7

\* The sizes the proofs compute with.
LEMMA Numbers ==
    /\ Ring \in Nat /\ Ring > 0
    /\ IdxMod \in Nat /\ Ring < IdxMod
    /\ ClockMod \in Nat /\ ClockMod > 0
BY SensorsAssumption

\* What a ring and an index know of the samples that were remembered.
Records(ring, idx, r) ==
    /\ idx < Ring => Len(r) >= idx
    /\ idx >= Ring => Len(r) = Ring
    /\ \A k \in 1 .. Ring : k <= idx => ring[(idx - k) % Ring] = r[Len(r) + 1 - k]

\* What is remembered once a possible sample was added.
Latest(r, sample) ==
    IF Len(r) = Ring THEN Append(Tail(r), sample) ELSE Append(r, sample)

\* A verdict on a possible sample was read off the ring.
Judged(s) ==
    ~ health[s].healthy /\ recent[s].possible =>
        health[s].idx >= Ring /\ S!Flat(health[s].ring)

Inv ==
    /\ S!TypeOK
    /\ \A s \in S!Sensor : /\ Records(health[s].ring, health[s].idx, recent[s].samples)
                         /\ Judged(s)

\* The remembered samples keep their order, and the new one comes last.
LEMMA LatestShifts ==
    ASSUME NEW V, NEW sample \in V, NEW r \in Seq(V), Len(r) <= Ring
    PROVE  LET last == Latest(r, sample)
           IN  /\ last \in Seq(V) /\ Len(last) <= Ring
               /\ Len(last) = IF Len(r) = Ring THEN Ring ELSE Len(r) + 1
               /\ last[Len(last)] = sample
               /\ \A k \in 1 .. Len(r) :
                    k < Ring => last[Len(last) - k] = r[Len(r) + 1 - k]
<1>0. Len(r) \in Nat
  OBVIOUS
<1>1. CASE Len(r) = Ring
  <2> DEFINE t == Tail(r)
             last == Append(t, sample)
  <2>1. r # << >>
    BY <1>1, Numbers
  <2>2. /\ t \in Seq(V) /\ Len(t) = Ring - 1
        /\ \A i \in 1 .. Ring - 1 : t[i] = r[i + 1]
    BY <1>1, <2>1
  <2> HIDE DEF t
  <2>3. /\ last \in Seq(V) /\ Len(last) = Ring /\ last[Ring] = sample
        /\ \A i \in 1 .. Ring - 1 : last[i] = t[i]
    BY <2>2, Numbers
  <2>4. Latest(r, sample) = last
    BY <1>1 DEF Latest, t
  <2> HIDE DEF last
  <2>5. ASSUME NEW k \in 1 .. Len(r), k < Ring
        PROVE  last[Len(last) - k] = r[Len(r) + 1 - k]
    <3>1. Ring - k \in 1 .. Ring - 1 /\ (Ring - k) + 1 = Ring + 1 - k
      BY <2>5, Numbers
    <3> QED
      BY <1>1, <2>2, <2>3, <3>1
  <2> QED
    BY <1>1, <2>3, <2>4, <2>5, Numbers
<1>2. CASE Len(r) # Ring
  <2> DEFINE last == Append(r, sample)
  <2>1. /\ last \in Seq(V) /\ Len(last) = Len(r) + 1 /\ last[Len(r) + 1] = sample
        /\ \A i \in 1 .. Len(r) : last[i] = r[i]
    OBVIOUS
  <2>2. Latest(r, sample) = last
    BY <1>2 DEF Latest
  <2> HIDE DEF last
  <2>3. ASSUME NEW k \in 1 .. Len(r)
        PROVE  last[Len(last) - k] = r[Len(r) + 1 - k]
    <3>1. Len(last) - k = Len(r) + 1 - k /\ Len(r) + 1 - k \in 1 .. Len(r)
      BY <1>0, <2>1
    <3> QED
      BY <2>1, <3>1
  <2> QED
    BY <1>0, <1>2, <2>1, <2>2, <2>3, Numbers
<1> QED
  BY <1>1, <1>2

\* A possible sample goes to its slot, and to the end of the remembered ones.
LEMMA RingFollows ==
    ASSUME NEW V, NEW sample \in V, NEW ring \in [0 .. Ring - 1 -> V],
           NEW idx \in 0 .. IdxMod - 1, NEW r \in Seq(V), Len(r) <= Ring,
           Records(ring, idx, r)
    PROVE  Records([ring EXCEPT ![idx % Ring] = sample], S!Count(idx),
                   Latest(r, sample))
<1> DEFINE slot == idx % Ring
           new  == [ring EXCEPT ![slot] = sample]
           last == Latest(r, sample)
           next == S!Count(idx)
<1>1. /\ Len(last) \in Nat /\ Len(r) \in Nat
      /\ Len(last) = IF Len(r) = Ring THEN Ring ELSE Len(r) + 1
      /\ last[Len(last)] = sample
      /\ \A k \in 1 .. Len(r) : k < Ring => last[Len(last) - k] = r[Len(r) + 1 - k]
  BY LatestShifts
<1>2. idx \in Nat /\ slot \in 0 .. Ring - 1
  BY Numbers
<1>3. /\ new[slot] = sample
      /\ \A i \in 0 .. Ring - 1 : i # slot => new[i] = ring[i]
  BY <1>2
<1>4. next = 0 \/ next = idx + 1
  <2>1. CASE idx + 1 = IdxMod
    BY <2>1, Numbers DEF S!Count
  <2>2. CASE idx + 1 < IdxMod
    BY <1>2, <2>2, Numbers DEF S!Count
  <2> QED
    BY <2>1, <2>2, Numbers
<1>5. /\ idx < Ring => Len(r) >= idx
      /\ idx >= Ring => Len(r) = Ring
      /\ \A k \in 1 .. Ring : k <= idx => ring[(idx - k) % Ring] = r[Len(r) + 1 - k]
  BY DEF Records
<1>o. \A k \in Int : 0 < k /\ k < Ring => (idx - k) % Ring # slot
  BY <1>2, OtherSlot, Numbers
<1> HIDE DEF slot, new, last, next
<1>6. CASE next = 0
  <2>1. /\ 0 < Ring => Len(last) >= 0
        /\ \A k \in 1 .. Ring : ~ (k <= 0)
    BY <1>1
  <2>2. Records(new, 0, last)
    BY <2>1, Numbers DEF Records
  <2> QED
    BY <1>6, <2>2 DEF slot, new, last, next
<1>7. CASE next = idx + 1
  <2>1. /\ next < Ring => Len(last) >= next
        /\ next >= Ring => Len(last) = Ring
    BY <1>1, <1>2, <1>5, <1>7, Numbers
  <2>2. ASSUME NEW k \in 1 .. Ring, k <= next
        PROVE  new[(next - k) % Ring] = last[Len(last) + 1 - k]
    <3>1. CASE k = 1
      <4>1. next - k = idx /\ Len(last) + 1 - k = Len(last)
        BY <1>1, <1>2, <1>7, <3>1
      <4>2. (next - k) % Ring = slot
        BY <4>1 DEF slot
      <4> QED
        BY <1>1, <1>3, <4>1, <4>2
    <3>2. CASE k > 1
      <4> DEFINE j == k - 1
      <4>1. /\ j \in 1 .. Ring /\ j < Ring /\ j <= idx
            /\ next - k = idx - j /\ Len(last) + 1 - k = Len(last) - j
        BY <1>1, <1>2, <1>7, <2>2, <3>2, Numbers
      <4> HIDE DEF j
      <4>2. (idx - j) % Ring # slot
        BY <1>o, <4>1
      <4>3. (idx - j) % Ring \in 0 .. Ring - 1
        BY <1>2, <4>1, Numbers
      <4>4. new[(idx - j) % Ring] = ring[(idx - j) % Ring]
        BY <1>3, <4>2, <4>3
      <4>5. ring[(idx - j) % Ring] = r[Len(r) + 1 - j]
        BY <1>5, <4>1
      <4>6. j \in 1 .. Len(r)
        BY <1>1, <1>2, <1>5, <4>1, Numbers
      <4>7. last[Len(last) - j] = r[Len(r) + 1 - j]
        BY <1>1, <4>1, <4>6
      <4> QED
        BY <4>1, <4>4, <4>5, <4>7
    <3> QED
      BY <2>2, <3>1, <3>2
  <2>3. Records(new, next, last)
    BY <2>1, <2>2 DEF Records
  <2> QED
    BY <2>3 DEF slot, new, last, next
<1> QED
  BY <1>4, <1>6, <1>7

\* An empty ring knows nothing yet.
LEMMA InitInv == S!Init => Inv
<1> SUFFICES ASSUME S!Init PROVE Inv
  OBVIOUS
<1>1. S!TypeOK
  <2>1. clock \in 0 .. ClockMod - 1 /\ tier \in S!Tiers
    BY SensorsAssumption DEF S!Init, S!Tiers
  <2>2. ASSUME NEW s \in S!Sensor PROVE health[s] \in S!Health(s)
    <3>1. 0 \in Readings[s] /\ 0 \in 0 .. IdxMod - 1
      BY SensorsAssumption DEF S!Sensor, Sensor
    <3> QED
      BY <3>1 DEF S!Init, S!Health
  <2>3. ASSUME NEW s \in S!Sensor
        PROVE  /\ recent[s] \in [samples : Seq(Readings[s]), possible : BOOLEAN]
               /\ Len(recent[s].samples) <= Ring
    <3>1. recent[s] = [samples |-> << >>, possible |-> TRUE]
      BY DEF S!Init
    <3>2. << >> \in Seq(Readings[s]) /\ Len(<< >>) = 0
      OBVIOUS
    <3> QED
      BY <3>1, <3>2, SensorsAssumption
  <2> QED
    BY <2>1, <2>2, <2>3 DEF S!Init, S!TypeOK
<1>2. ASSUME NEW s \in S!Sensor
      PROVE  /\ Records(health[s].ring, health[s].idx, recent[s].samples)
             /\ Judged(s)
  BY SensorsAssumption DEF S!Init, Records, Judged
<1> QED
  BY <1>1, <1>2 DEF Inv

\* Health and the ghost, typed and in step, for one sensor.
InStep(s, h, r) ==
    /\ h \in S!Health(s)
    /\ r \in [samples : Seq(Readings[s]), possible : BOOLEAN]
    /\ Len(r.samples) <= Ring
    /\ Records(h.ring, h.idx, r.samples)
    /\ ~ h.healthy /\ r.possible => h.idx >= Ring /\ S!Flat(h.ring)

\* One call of sensor_health_update keeps a sensor in step with the ghost.
LEMMA UpdateInStep ==
    ASSUME NEW s \in S!Sensor, NEW h, NEW r, InStep(s, h, r),
           NEW sample \in Readings[s] \cup {Bad}, NEW time
    PROVE  InStep(s, S!Update(h, sample, time), S!Remember(r, sample))
<1>1. /\ h.ring \in [0 .. Ring - 1 -> Readings[s]] /\ h.idx \in 0 .. IdxMod - 1
      /\ h = [ring |-> h.ring, idx |-> h.idx, healthy |-> h.healthy]
  BY DEF InStep, S!Health
<1>2. CASE sample = Bad
  <2>1. S!Update(h, sample, time) = [ring |-> h.ring, idx |-> h.idx, healthy |-> FALSE]
    BY <1>1, <1>2 DEF S!Update
  <2>2. S!Remember(r, sample) = [samples |-> r.samples, possible |-> FALSE]
    BY <1>2 DEF S!Remember, InStep
  <2>3. S!Update(h, sample, time) \in S!Health(s)
    BY <1>1, <2>1 DEF S!Health
  <2>4. /\ S!Update(h, sample, time).ring = h.ring
        /\ S!Update(h, sample, time).idx = h.idx
    BY <2>1
  <2>5. Records(h.ring, h.idx, r.samples) /\ Len(r.samples) <= Ring
        /\ r.samples \in Seq(Readings[s])
    BY DEF InStep
  <2>6. Records(S!Update(h, sample, time).ring, S!Update(h, sample, time).idx,
                S!Remember(r, sample).samples)
    BY <2>2, <2>4, <2>5
  <2> QED
    BY <2>2, <2>3, <2>5, <2>6 DEF InStep
<1>3. CASE sample # Bad
  <2> DEFINE ring    == [h.ring EXCEPT ![h.idx % Ring] = sample]
             idx     == S!Count(h.idx)
             verdict == ~ S!Stuck(ring, idx, time)
             last    == Latest(r.samples, sample)
  <2>1. /\ S!Update(h, sample, time).ring = ring
        /\ S!Update(h, sample, time).idx = idx
        /\ S!Update(h, sample, time).healthy = verdict
        /\ S!Update(h, sample, time) = [ring |-> ring, idx |-> idx, healthy |-> verdict]
    BY <1>3 DEF S!Update
  <2>2. S!Remember(r, sample) = [samples |-> last, possible |-> TRUE]
    BY <1>3 DEF S!Remember, Latest
  <2>3. Records(ring, idx, last)
    BY <1>1, <1>3, RingFollows DEF InStep
  <2>4. last \in Seq(Readings[s]) /\ Len(last) <= Ring
    BY <1>3, LatestShifts DEF InStep
  <2>5. ring \in [0 .. Ring - 1 -> Readings[s]] /\ idx \in 0 .. IdxMod - 1
    BY <1>1, <1>3, Numbers DEF S!Count
  <2>6. verdict \in BOOLEAN /\ (~ verdict => idx >= Ring /\ S!Flat(ring))
    BY DEF S!Stuck
  <2> HIDE DEF ring, idx, verdict, last
  <2>7. S!Update(h, sample, time) \in S!Health(s)
    BY <2>1, <2>5, <2>6 DEF S!Health
  <2> QED
    BY <2>1, <2>2, <2>3, <2>4, <2>6, <2>7 DEF InStep
<1> QED
  BY <1>2, <1>3

\* One iteration of loop() judges every sensor.
LEMMA NextInv == Inv /\ [S!Next]_sensorVars => Inv'
<1> SUFFICES ASSUME Inv, [S!Next]_sensorVars PROVE Inv'
  OBVIOUS
<1>1. CASE UNCHANGED sensorVars
  BY <1>1 DEF sensorVars, Inv, S!TypeOK, Judged
<1>2. CASE S!Next
  <2>1. PICK sample \in S!Samples : S!Sense(sample)
    BY <1>2 DEF S!Next
  <2> DEFINE time == (clock + 1) % ClockMod
  <2>2. /\ clock' = time
        /\ health' = [s \in S!Sensor |-> S!Update(health[s], sample[s], time)]
        /\ tier' = S!Tier(health')
        /\ recent' = [s \in S!Sensor |-> S!Remember(recent[s], sample[s])]
    BY <2>1 DEF S!Sense
  <2>3. ASSUME NEW s \in S!Sensor PROVE InStep(s, health'[s], recent'[s])
    <3>1. sample[s] \in Readings[s] \cup {Bad}
      BY DEF S!Samples, S!Sensor
    <3>2. InStep(s, health[s], recent[s])
      BY DEF Inv, S!TypeOK, Judged, InStep
    <3> QED
      BY <2>2, <3>1, <3>2, UpdateInStep
  <2>4. clock' \in 0 .. ClockMod - 1
    BY <2>2, Numbers DEF Inv, S!TypeOK
  <2>5. tier' \in S!Tiers
    BY <2>2 DEF S!Tier, S!Tiers
  <2>6. DOMAIN health' = S!Sensor /\ DOMAIN recent' = S!Sensor
    BY <2>2
  <2> QED
    BY <2>3, <2>4, <2>5, <2>6 DEF Inv, S!TypeOK, InStep, Judged
<1> QED
  BY <1>1, <1>2

\* The invariant holds for ever: what the node does about its hop leaves the
\* sensors alone.
LEMMA AlwaysInv == AllSpec => []Inv
<1>1. AllInit => Inv
  BY InitInv DEF AllInit
<1>2. Inv /\ [AllNext]_allVars => Inv'
  <2>1. [AllNext]_allVars => [S!Next]_sensorVars
    BY DEF AllNext, Judge, Guide, allVars, sensorVars
  <2> QED
    BY <2>1, NextInv
<1> QED
  BY <1>1, <1>2, PTL DEF AllSpec

\* The ring, the wrapping index, the tier and the samples remembered of every
\* sensor have their types (fusion.h, failsafe.cpp).
THEOREM TypesHold == AllSpec => []SensorsTyped
<1>1. Inv => SensorsTyped
  BY DEF Inv, SensorsTyped
<1> QED
  BY <1>1, AlwaysInv, PTL

\* sensor_health_update condemns a sensor whose reading was possible only over its
\* last Ring readings, all the same, however often idx has wrapped.
THEOREM VerdictsAreRecent == AllSpec => []VerdictIsRecent
<1>1. ASSUME Inv PROVE VerdictIsRecent
  <2> SUFFICES ASSUME NEW s \in S!Sensor, ~ health[s].healthy, recent[s].possible
               PROVE  Len(recent[s].samples) = Ring /\ S!Flat(recent[s].samples)
    BY DEF VerdictIsRecent, S!VerdictIsRecent
  <2> DEFINE ring == health[s].ring
             idx  == health[s].idx
             r    == recent[s].samples
  <2>0. Records(ring, idx, r)
    BY <1>1 DEF Inv
  <2>1. /\ ring \in [0 .. Ring - 1 -> Readings[s]] /\ idx \in 0 .. IdxMod - 1
        /\ r \in Seq(Readings[s])
    BY <1>1 DEF Inv, S!TypeOK, S!Health
  <2>2. idx >= Ring /\ S!Flat(ring)
    BY <1>1 DEF Inv, Judged
  <2> HIDE DEF ring, idx, r
  <2>3. Len(r) = Ring /\ \A k \in 1 .. Ring : ring[(idx - k) % Ring] = r[Ring + 1 - k]
    <3>1. Len(r) = Ring /\ \A k \in 1 .. Ring : k <= idx
      BY <2>0, <2>1, <2>2, Numbers DEF Records
    <3> QED
      BY <2>0, <3>1 DEF Records
  <2>4. ASSUME NEW i \in DOMAIN r
        PROVE  r[i] = ring[(idx - (Ring + 1 - i)) % Ring]
               /\ (idx - (Ring + 1 - i)) % Ring \in DOMAIN ring
    <3>1. i \in 1 .. Ring
      BY <2>1, <2>3, <2>4
    <3>2. Ring + 1 - i \in 1 .. Ring /\ Ring + 1 - (Ring + 1 - i) = i
      BY <3>1, Numbers
    <3>3. (idx - (Ring + 1 - i)) % Ring \in 0 .. Ring - 1
      BY <2>1, <3>2, Numbers
    <3> QED
      BY <2>1, <2>3, <3>2, <3>3
  <2>5. S!Flat(r)
    BY <2>2, <2>4 DEF S!Flat
  <2> QED
    BY <2>3, <2>5 DEF r
<1> QED
  BY <1>1, AlwaysInv, PTL
=============================================================================
