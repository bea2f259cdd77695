--------------------------- MODULE TickLoop_proofs ---------------------------
(***************************************************************************)
(* A reset is final, and nobody who listens is dropped from a list, for    *)
(* any buildings, clients, demos and buffers.                              *)
(***************************************************************************)
EXTENDS TickLoop, Lemmas, FiniteSetTheorems, TLAPS

\* SnapshotStore.push adds nothing but the snapshot.
LEMMA PushAdds ==
    ASSUME NEW buffer \in Seq(BOOLEAN), NEW snap \in BOOLEAN
    PROVE  /\ Pushed(buffer, snap) \in Seq(BOOLEAN)
           /\ ToSet(Pushed(buffer, snap)) \subseteq ToSet(buffer) \cup {snap}
<1>1. CASE Len(buffer) = MaxSnapshots
  <2>1. buffer # << >>
    BY <1>1, TickLoopAssumption
  <2>2. Tail(buffer) \in Seq(BOOLEAN) /\ Len(Tail(buffer)) = Len(buffer) - 1
        /\ \A i \in 1 .. Len(buffer) - 1 : Tail(buffer)[i] = buffer[i + 1]
    BY <2>1
  <2>3. ToSet(Tail(buffer)) \subseteq ToSet(buffer)
    BY <2>2 DEF ToSet
  <2>4. ToSet(Append(Tail(buffer), snap)) \subseteq ToSet(Tail(buffer)) \cup {snap}
    BY <2>2 DEF ToSet
  <2> QED
    BY <1>1, <2>2, <2>3, <2>4 DEF Pushed
<1>2. CASE Len(buffer) # MaxSnapshots
  <2>1. /\ Append(buffer, snap) \in Seq(BOOLEAN)
        /\ ToSet(Append(buffer, snap)) \subseteq ToSet(buffer) \cup {snap}
    BY DEF ToSet
  <2> QED
    BY <1>2, <2>1 DEF Pushed
<1> QED
  BY <1>1, <1>2

\* What the induction needs of the types, and that a demo is somebody's wish.
Simulation ==
    /\ states \in Seq(Building)
    /\ sim \in [Building -> BOOLEAN]
    /\ quiet \in [Building -> BOOLEAN]
    /\ store \in [Building -> Seq(BOOLEAN)]
    /\ client \in [Client -> [socket : {"open", "gone"}, building : Building] \cup {Out}]
    /\ "pos" \in DOMAIN tick /\ tick.pos \in Nat
    /\ demo # NoDemo => demo.building \in Building /\ ~ quiet[demo.building]

Inv == Simulation /\ ResetIsFinal

LEMMA InitInv == Init => Inv
BY DEF Init, Inv, Simulation, ResetIsFinal, Replay, ToSet, Asleep, NoDemo, Out

\* A building that is asked for is appended to the dict, or known already.
LEMMA GetStateOK ==
    ASSUME Inv, NEW b \in Building, GetState(b)
    PROVE  states' \in Seq(Building)
BY DEF Inv, Simulation, GetState

LEMMA TickSimInv == ASSUME Inv, TickSim PROVE Inv'
<1> DEFINE b == states[tick.pos + 1]
           pushed == Pushed(store[b], sim[b])
<1>1. /\ tick.pos < Len(states)
      /\ store' = [store EXCEPT ![b] = pushed]
      /\ tick' = [tick EXCEPT !.pc = "bcast", !.pos = @ + 1, !.idx = 1,
                              !.snap = sim[b], !.dead = {}]
      /\ UNCHANGED <<states, sim, client, demo, quiet>>
  BY DEF TickSim
<1>2. b \in Building
  BY <1>1 DEF Inv, Simulation
<1>3. /\ pushed \in Seq(BOOLEAN)
      /\ ToSet(pushed) \subseteq ToSet(store[b]) \cup {sim[b]}
  <2>1. store[b] \in Seq(BOOLEAN) /\ sim[b] \in BOOLEAN
    BY <1>2 DEF Inv, Simulation
  <2> HIDE DEF b
  <2> QED
    BY <2>1, PushAdds
<1> HIDE DEF b, pushed
<1>4. "pos" \in DOMAIN tick' /\ tick'.pos \in Nat
  BY <1>1 DEF Inv, Simulation
<1>5. store' \in [Building -> Seq(BOOLEAN)]
  BY <1>1, <1>2, <1>3 DEF Inv, Simulation
<1>6. Simulation'
  BY <1>1, <1>4, <1>5 DEF Inv, Simulation
<1>7. ResetIsFinal'
  <2> SUFFICES ASSUME NEW d \in Building, quiet'[d]
               PROVE  ~ sim'[d] /\ TRUE \notin ToSet(store'[d])
    BY DEF ResetIsFinal, Replay
  <2>1. ~ sim[d] /\ TRUE \notin ToSet(store[d])
    BY <1>1 DEF Inv, ResetIsFinal, Replay
  <2> QED
    BY <1>1, <1>3, <2>1 DEF Inv, Simulation
<1> QED
  BY <1>6, <1>7 DEF Inv

\* The steps of the tick task but TickSim leave the simulation alone.
LEMMA TickInv ==
    ASSUME Inv,
           TickWake \/ TickRaises \/ TickSimRaises \/ TickSleeps \/ TickSends
               \/ TickSendRaises \/ TickAwaitRaises \/ TickResumes \/ TickReaps
    PROVE  Inv'
<1>1. UNCHANGED <<states, sim, store, client, demo, quiet>>
  BY DEF TickWake, TickRaises, TickSimRaises, TickSleeps, TickSends, TickSendRaises,
         TickAwaitRaises, TickResumes, TickReaps
<1>2. CASE TickWake \/ TickRaises \/ TickSimRaises \/ TickSleeps
  <2>1. "pos" \in DOMAIN tick' /\ tick'.pos \in Nat
    <3>1. CASE TickWake
      BY <3>1 DEF TickWake, Asleep
    <3>2. CASE TickRaises \/ TickSimRaises
      BY <3>2 DEF TickRaises, TickSimRaises, Asleep
    <3>3. CASE TickSleeps
      BY <3>3 DEF TickSleeps, Asleep
    <3> QED
      BY <1>2, <3>1, <3>2, <3>3
  <2> QED
    BY <1>1, <2>1 DEF Inv, Simulation, ResetIsFinal, Replay
<1>3. CASE TickSends \/ TickSendRaises \/ TickAwaitRaises \/ TickResumes \/ TickReaps
  <2>1. "pos" \in DOMAIN tick' /\ tick'.pos \in Nat
    BY <1>3 DEF Inv, Simulation, TickSends, TickSendRaises, TickAwaitRaises,
                TickResumes, TickReaps
  <2> QED
    BY <1>1, <2>1 DEF Inv, Simulation, ResetIsFinal, Replay
<1> QED
  BY <1>2, <1>3

\* The handlers that reset b: sim and store are calm there, and only the demo they
\* start, if any, may speak of b.
LEMMA ResetInv ==
    ASSUME Inv, NEW b \in Building, Reset(b) \/ RunDemo(b) PROVE Inv'
<1>1. /\ sim' = [sim EXCEPT ![b] = FALSE]
      /\ store' = [store EXCEPT ![b] = << >>]
      /\ UNCHANGED <<client, tick>>
  BY DEF Reset, RunDemo
<1>2. quiet' \in [Building -> BOOLEAN] /\ \A d \in Building \ {b} : quiet'[d] = quiet[d]
  BY DEF Inv, Simulation, Reset, RunDemo
<1>3. demo' # NoDemo => demo'.building \in Building /\ ~ quiet'[demo'.building]
  <2>1. CASE Reset(b)
    BY <2>1 DEF Reset
  <2>2. CASE RunDemo(b) /\ b \in Tall
    <3>1. quiet' = [quiet EXCEPT ![b] = FALSE]
      BY <2>2 DEF RunDemo
    <3>2. demo'.building = b
      BY <2>2 DEF RunDemo
    <3> QED
      BY <3>1, <3>2 DEF Inv, Simulation
  <2>3. CASE RunDemo(b) /\ b \notin Tall
    BY <2>3 DEF RunDemo
  <2> QED
    BY <2>1, <2>2, <2>3
<1>4. states' \in Seq(Building)
  BY GetStateOK DEF Reset, RunDemo
<1>5. sim' \in [Building -> BOOLEAN] /\ store' \in [Building -> Seq(BOOLEAN)]
  BY <1>1 DEF Inv, Simulation
<1>6. Simulation'
  BY <1>1, <1>2, <1>3, <1>4, <1>5 DEF Inv, Simulation
<1>7. ToSet(<< >>) = {}
  BY DEF ToSet
<1>8. ResetIsFinal'
  BY <1>1, <1>2, <1>7 DEF Inv, Simulation, ResetIsFinal, Replay
<1> QED
  BY <1>6, <1>8 DEF Inv

\* The handlers that inject at b: nobody calls b quiet any more.
LEMMA InjectInv ==
    ASSUME Inv, NEW b \in Building,
           states' \in Seq(Building),
           sim' = [sim EXCEPT ![b] = TRUE],
           quiet' = [quiet EXCEPT ![b] = FALSE],
           demo' \in {demo, NoDemo},
           UNCHANGED <<store, client, tick>>
    PROVE  Inv'
<1>1. Simulation'
  BY DEF Inv, Simulation
<1>2. ResetIsFinal'
  BY DEF Inv, Simulation, ResetIsFinal, Replay
<1> QED
  BY <1>1, <1>2 DEF Inv

LEMMA DemoStageInv == ASSUME Inv, DemoStage PROVE Inv'
<1>1. /\ demo.building \in Building /\ ~ quiet[demo.building]
      /\ sim' = [sim EXCEPT ![demo.building] = TRUE]
      /\ UNCHANGED <<states, store, client, tick, quiet>>
  BY DEF Inv, Simulation, DemoStage
<1>2. demo' # NoDemo => demo'.building = demo.building
  BY DEF DemoStage, Inv, Simulation
<1>3. Simulation'
  BY <1>1, <1>2 DEF Inv, Simulation
<1>4. ResetIsFinal'
  BY <1>1 DEF Inv, Simulation, ResetIsFinal, Replay
<1> QED
  BY <1>3, <1>4 DEF Inv

\* Clients come and go; what they look at stays.
LEMMA ClientInv ==
    ASSUME Inv,
           states' \in Seq(Building),
           client' \in [Client -> [socket : {"open", "gone"}, building : Building]
                                      \cup {Out}],
           UNCHANGED <<sim, store, demo, tick, quiet>>
    PROVE  Inv'
BY DEF Inv, Simulation, ResetIsFinal, Replay

LEMMA NextInv == ASSUME Inv, [Next]_vars PROVE Inv'
<1>1. CASE Tick
  BY <1>1, TickSimInv, TickInv DEF Tick
<1>2. ASSUME NEW b \in Building, Reset(b) \/ RunDemo(b) PROVE Inv'
  BY <1>2, ResetInv
<1>3. ASSUME NEW b \in Building, Inject(b) PROVE Inv'
  BY <1>3, GetStateOK, InjectInv DEF Inject
<1>4. CASE DemoStage
  BY <1>4, DemoStageInv
<1>5. ASSUME NEW c \in Client, NEW b \in Building, Connect(c, b) PROVE Inv'
  <2>1. client' \in [Client -> [socket : {"open", "gone"}, building : Building]
                                   \cup {Out}]
    BY <1>5 DEF Inv, Simulation, Connect
  <2> QED
    BY <1>5, <2>1, GetStateOK, ClientInv DEF Connect
<1>6. ASSUME NEW c \in Client, Message(c) PROVE Inv'
  <2>1. client[c].building \in Building
    BY <1>6 DEF Inv, Simulation, Message, Out
  <2>2. states \in Seq(Building)
    BY DEF Inv, Simulation
  <2> QED
    BY <1>6, <2>1, <2>2, InjectInv DEF Message
<1>7. ASSUME NEW c \in Client, Misfit(c) \/ Leave(c) \/ HandlerEnds(c) PROVE Inv'
  <2>1. client[c] \in [socket : {"open", "gone"}, building : Building]
    BY <1>7 DEF Inv, Simulation, Misfit, Leave, HandlerEnds, Out
  <2>2. client' \in [Client -> [socket : {"open", "gone"}, building : Building]
                                   \cup {Out}]
    <3>1. client \in [Client -> [socket : {"open", "gone"}, building : Building] \cup {Out}]
      BY DEF Inv, Simulation
    <3>2. client' = [client EXCEPT ![c] = Out] \/ client' = [client EXCEPT ![c].socket = "gone"]
      BY <1>7 DEF Misfit, Leave, HandlerEnds
    <3>3. [client[c] EXCEPT !.socket = "gone"]
              \in [socket : {"open", "gone"}, building : Building]
      BY <2>1
    <3>4. \E o \in [socket : {"open", "gone"}, building : Building] \cup {Out} :
              client' = [client EXCEPT ![c] = o]
      BY <3>2, <3>3
    <3> QED
      BY <3>1, <3>4
  <2>3. states \in Seq(Building)
    BY DEF Inv, Simulation
  <2> QED
    BY <1>7, <2>2, <2>3, ClientInv DEF Misfit, Leave, HandlerEnds
<1>8. ASSUME NEW u \in Unknown, ConnectUnknown(u) PROVE Inv'
  <2>1. states \in Seq(Building)
    BY DEF Inv, Simulation
  <2> QED
    BY <1>8, <2>1, ClientInv DEF ConnectUnknown, Inv, Simulation
<1>9. CASE Restart
  <2>1. Simulation'
    BY <1>9 DEF Restart, Simulation, Asleep, NoDemo, Out
  <2>2. ResetIsFinal'
    BY <1>9 DEF Restart, ResetIsFinal, Replay, ToSet
  <2> QED
    BY <2>1, <2>2 DEF Inv
<1>10. CASE UNCHANGED vars
  BY <1>10 DEF vars, Inv, Simulation, ResetIsFinal, Replay
<1> QED
  BY <1>1, <1>2, <1>3, <1>4, <1>5, <1>6, <1>7, <1>8, <1>9, <1>10 DEF Next

\* After a reset nothing of the past comes back, neither from a demo nor from a
\* broadcast that was under way.
THEOREM ResetsAreFinal == Spec => []ResetIsFinal
<1>1. Inv /\ [Next]_vars => Inv'
  BY NextInv
<1>2. Inv => ResetIsFinal
  BY DEF Inv
<1> QED
  BY InitInv, <1>1, <1>2, PTL DEF Spec

----------------------------------------------------------------------------
(* Lists.                                                                  *)

\* left is what remains of the first n elements.
IsLeft(left, list, D, n) ==
    left = [i \in 0 .. n |->
                IF i = 0 THEN << >>
                ELSE IF list[i] \in D THEN left[i - 1] ELSE Append(left[i - 1], list[i])]

\* The recursive function in Without exists.
LEMMA LeftExists ==
    ASSUME NEW S, NEW list \in Seq(S), NEW D
    PROVE  \E left : IsLeft(left, list, D, Len(list))
<1> DEFINE N == Len(list)
           T == {n \in 0 .. N : \E left : IsLeft(left, list, D, n)}
<1>1. N \in Nat
  OBVIOUS
<1> HIDE DEF N
<1>2. 0 \in T
  <2> DEFINE left == [i \in 0 .. 0 |-> << >>]
  <2>1. IsLeft(left, list, D, 0)
    BY DEF IsLeft
  <2> HIDE DEF left
  <2> QED
    BY <1>1, <2>1
<1>3. ASSUME NEW n \in 0 .. N - 1, n \in T PROVE n + 1 \in T
  <2>1. PICK left : IsLeft(left, list, D, n)
    BY <1>3
  <2> DEFINE m    == n + 1
             next == IF list[m] \in D THEN left[n] ELSE Append(left[n], list[m])
             more == [i \in 0 .. m |-> IF i = m THEN next ELSE left[i]]
  <2>2. ASSUME NEW i \in 0 .. m
        PROVE  more[i] = IF i = 0 THEN << >>
                         ELSE IF list[i] \in D THEN more[i - 1] ELSE Append(more[i - 1], list[i])
    <3>1. CASE i = m
      <4>1. more[i - 1] = left[n] /\ more[i] = next /\ i # 0
        <5> HIDE DEF next
        <5> QED
          BY <1>1, <3>1
      <4> QED
        BY <3>1, <4>1
    <3>2. CASE i # m
      <4>1. i \in 0 .. n /\ (i # 0 => i - 1 \in 0 .. m /\ i - 1 # m)
        BY <1>1, <3>2
      <4>2. left[i] = IF i = 0 THEN << >>
                      ELSE IF list[i] \in D THEN left[i - 1] ELSE Append(left[i - 1], list[i])
        BY <2>1, <4>1 DEF IsLeft
      <4>3. more[i] = left[i] /\ (i # 0 => more[i - 1] = left[i - 1])
        <5> HIDE DEF next, m
        <5> QED
          BY <3>2, <4>1
      <4> QED
        BY <4>2, <4>3
    <3> QED
      BY <3>1, <3>2
  <2>3. more = [i \in 0 .. m |-> more[i]]
    OBVIOUS
  <2> HIDE DEF more
  <2>4. IsLeft(more, list, D, m)
    BY <2>2, <2>3 DEF IsLeft
  <2> QED
    BY <1>1, <2>4
<1>4. 0 .. N \subseteq T
  <2> HIDE DEF T
  <2> QED
    BY <1>1, <1>2, <1>3, FromZero
<1>5. N \in T
  BY <1>1, <1>4
<1> QED
  BY <1>5 DEF N

\* What Without leaves are the elements outside of D; none comes twice that did
\* not before.
LEMMA WithoutOK ==
    ASSUME NEW S, NEW list \in Seq(S), NEW D
    PROVE  /\ Without(list, D) \in Seq(S)
           /\ ToSet(Without(list, D)) = ToSet(list) \ D
           /\ IsInjective(list) => IsInjective(Without(list, D))
<1> DEFINE N == Len(list)
           left == CHOOSE f : IsLeft(f, list, D, N)
           Right(n, s) == /\ s \in Seq(S)
                          /\ \A x : x \in ToSet(s) <=> x \notin D /\ \E i \in 1 .. n : list[i] = x
                          /\ IsInjective(list) => IsInjective(s)
           T == {n \in 0 .. N : Right(n, left[n])}
<1>1. N \in Nat /\ DOMAIN list = 1 .. N /\ \A i \in 1 .. N : list[i] \in S
  OBVIOUS
<1>2. IsLeft(left, list, D, N)
  BY LeftExists
<1>3. Without(list, D) = left[N]
  BY DEF Without, IsLeft
<1> HIDE DEF left, N
<1>4. left[0] = << >>
  BY <1>1, <1>2 DEF IsLeft
<1>5. ASSUME NEW n \in 1 .. N
      PROVE  left[n] = IF list[n] \in D THEN left[n - 1] ELSE Append(left[n - 1], list[n])
  <2>1. n \in 0 .. N /\ n # 0
    BY <1>1
  <2> QED
    BY <1>2, <2>1 DEF IsLeft
<1>6. 0 \in T
  <2>1. Right(0, << >>)
    BY DEF ToSet, IsInjective
  <2> HIDE DEF Right
  <2> QED
    BY <1>1, <1>4, <2>1
<1>7. ASSUME NEW k \in 0 .. N - 1, k \in T PROVE k + 1 \in T
  <2> DEFINE n == k + 1
             s == left[k]
             x == list[n]
  <2>1. n \in 1 .. N /\ n - 1 = k /\ Right(k, s) /\ x \in S
    BY <1>1, <1>7
  <2>2. left[n] = IF x \in D THEN s ELSE Append(s, x)
    BY <1>5, <2>1
  <2> HIDE DEF s, x, n
  <2>3. \A y : (\E i \in 1 .. n : list[i] = y) <=> (y = x \/ \E i \in 1 .. k : list[i] = y)
    BY <1>1, <2>1 DEF x, n
  <2>4. CASE x \in D
    <3>1. Right(n, s)
      BY <2>1, <2>3, <2>4
    <3> HIDE DEF Right
    <3> QED
      BY <2>1, <2>2, <2>4, <3>1 DEF n
  <2>5. CASE x \notin D
    <3> DEFINE t == Append(s, x)
    <3>1. /\ s \in Seq(S) /\ Len(s) \in Nat /\ DOMAIN s = 1 .. Len(s)
          /\ t \in Seq(S) /\ DOMAIN t = 1 .. Len(s) + 1
          /\ \A i \in 1 .. Len(s) : t[i] = s[i]
          /\ t[Len(s) + 1] = x
      BY <2>1
    <3>2. left[n] = t
      BY <2>2, <2>5
    <3> HIDE DEF t
    <3>3. ToSet(t) = ToSet(s) \cup {x}
      BY <3>1 DEF ToSet
    <3>4. \A y : y \in ToSet(t) <=> y \notin D /\ \E i \in 1 .. n : list[i] = y
      BY <2>1, <2>3, <2>5, <3>3
    <3>5. ASSUME IsInjective(list) PROVE IsInjective(t)
      <4>1. x \notin ToSet(s)
        <5>1. \A i \in 1 .. k : list[i] # x
          BY <1>1, <2>1, <3>5 DEF IsInjective, x, n
        <5> QED
          BY <2>1, <5>1
      <4>2. IsInjective(s)
        BY <2>1, <3>5
      <4> QED
        BY <3>1, <4>1, <4>2 DEF IsInjective, ToSet
    <3>6. Right(n, t)
      BY <3>1, <3>4, <3>5
    <3> HIDE DEF Right
    <3> QED
      BY <2>1, <3>2, <3>6 DEF n
  <2> QED
    BY <2>4, <2>5
<1>8. 0 .. N \subseteq T
  <2> HIDE DEF T
  <2> QED
    BY <1>1, <1>6, <1>7, FromZero
<1>9. Right(N, left[N])
  <2>1. N \in 0 .. N
    BY <1>1
  <2>2. N \in T
    <3> HIDE DEF T
    <3> QED
      BY <1>8, <2>1
  <2> HIDE DEF Right
  <2> QED
    BY <2>2
<1>10. ToSet(list) = {list[i] : i \in 1 .. N}
  BY <1>1 DEF ToSet
<1> QED
  BY <1>3, <1>9, <1>10

\* One more element, which is new, at the end.
LEMMA AppendNew ==
    ASSUME NEW S, NEW list \in Seq(S), NEW x \in S
    PROVE  /\ Append(list, x) \in Seq(S)
           /\ ToSet(Append(list, x)) = ToSet(list) \cup {x}
           /\ IsInjective(list) /\ x \notin ToSet(list) => IsInjective(Append(list, x))
<1> DEFINE t == Append(list, x)
<1>1. /\ t \in Seq(S) /\ DOMAIN t = 1 .. Len(list) + 1 /\ DOMAIN list = 1 .. Len(list)
      /\ Len(list) \in Nat
      /\ \A i \in 1 .. Len(list) : t[i] = list[i]
      /\ t[Len(list) + 1] = x
  OBVIOUS
<1> HIDE DEF t
<1>2. ToSet(t) = ToSet(list) \cup {x}
  BY <1>1 DEF ToSet
<1>3. IsInjective(list) /\ x \notin ToSet(list) => IsInjective(t)
  BY <1>1 DEF ToSet, IsInjective
<1> QED
  BY <1>1, <1>2, <1>3 DEF t

\* A list without repetition is no longer than the set it is drawn from.
LEMMA ShortList ==
    ASSUME NEW S, IsFiniteSet(S), NEW list \in Seq(S), IsInjective(list)
    PROVE  Len(list) <= Cardinality(S)
<1>1. Len(list) \in Nat /\ list \in [1 .. Len(list) -> S]
  OBVIOUS
<1>2. list \in Injection(1 .. Len(list), S)
  BY <1>1 DEF Injection
<1>3. Cardinality(1 .. Len(list)) <= Cardinality(S)
  BY <1>2, FS_Injection
<1>4. Cardinality(1 .. Len(list)) = Len(list)
  BY <1>1, FS_Interval
<1> QED
  BY <1>3, <1>4

----------------------------------------------------------------------------
(* Who is on which list.                                                   *)

Socket == [Client -> [socket : {"open", "gone"}, building : Building] \cup {Out}]

\* The listed are those who connected, each on the list of its building and once;
\* whoever is open is listed; and the dead that a broadcast collects are not open.
Listed(list, b, sockets) ==
    /\ list \in Seq(Client) /\ IsInjective(list)
    /\ \A c \in ToSet(list) : sockets[c].socket # "out" /\ sockets[c].building = b
    /\ \A c \in Client : sockets[c].socket = "open" /\ sockets[c].building = b => c \in ToSet(list)

Roster ==
    /\ client \in Socket
    /\ conns = [x \in Building \cup Unknown |-> conns[x]]
    /\ \A b \in Building : Listed(conns[b], b, client)
    /\ \A u \in Unknown : conns[u] \in Seq({"closed"})
    /\ \A c \in tick.dead : client[c].socket # "open"

\* Building is what it says, and only the list of b changed.
LEMMA OneListChanged ==
    ASSUME Roster, client' \in Socket, tick'.dead \subseteq tick.dead,
           \A c \in tick.dead : client'[c].socket # "open",
           NEW b \in Building, NEW list, conns' = [conns EXCEPT ![b] = list],
           Listed(list, b, client'),
           \A d \in Building \ {b} : Listed(conns[d], d, client')
    PROVE  Roster'
<1>1. conns' = [x \in Building \cup Unknown |-> conns'[x]]
  BY DEF Roster
<1>2. \A d \in Building : Listed(conns'[d], d, client')
  BY DEF Roster
<1>3. \A u \in Unknown : conns'[u] \in Seq({"closed"})
  BY TickLoopAssumption DEF Roster
<1> QED
  BY <1>1, <1>2, <1>3 DEF Roster

LEMMA InitRoster == Init => Roster
<1> SUFFICES ASSUME Init PROVE Roster
  OBVIOUS
<1>1. << >> \in Seq(Client) /\ << >> \in Seq({"closed"}) /\ IsInjective(<< >>) /\ ToSet(<< >>) = {}
  BY DEF IsInjective, ToSet
<1>2. client \in Socket /\ \A c \in Client : client[c].socket = "out"
  BY DEF Init, Socket, Out
<1>3. \A b \in Building : Listed(conns[b], b, client)
  BY <1>1, <1>2 DEF Init, Listed
<1>4. conns = [x \in Building \cup Unknown |-> conns[x]] /\ \A u \in Unknown : conns[u] \in Seq({"closed"})
  BY <1>1 DEF Init
<1>5. tick.dead = {}
  BY DEF Init, Asleep
<1> QED
  BY <1>2, <1>3, <1>4, <1>5 DEF Roster

\* A new socket is on no list yet.
LEMMA ConnectRoster ==
    ASSUME Roster, NEW c \in Client, NEW b \in Building, Connect(c, b) PROVE Roster'
<1> DEFINE list == Append(conns[b], c)
<1>1. /\ client[c] = Out /\ c \notin tick.dead
      /\ conns' = [conns EXCEPT ![b] = list]
      /\ client' = [client EXCEPT ![c] = [socket |-> "open", building |-> b]]
      /\ tick' = tick
  BY DEF Connect, Roster
<1>2. client' \in Socket /\ client'[c].socket = "open" /\ client'[c].building = b
      /\ \A o \in Client \ {c} : client'[o] = client[o]
  BY <1>1 DEF Roster, Socket
<1>3. \A d \in Building : Listed(conns[d], d, client) /\ c \notin ToSet(conns[d])
  BY <1>1 DEF Roster, Listed, Out
<1>4. \A d \in Building : conns[d] \in Seq(Client) /\ ToSet(conns[d]) \subseteq Client
  BY <1>3 DEF Listed, ToSet
<1>5. /\ list \in Seq(Client)
      /\ ToSet(list) = ToSet(conns[b]) \cup {c}
      /\ IsInjective(list)
  BY <1>3, <1>4, AppendNew DEF Listed
<1> HIDE DEF list
<1>6. Listed(list, b, client')
  BY <1>2, <1>3, <1>4, <1>5 DEF Listed
<1>7. \A d \in Building \ {b} : Listed(conns[d], d, client')
  BY <1>2, <1>3, <1>4 DEF Listed
<1>8. \A o \in tick.dead : client'[o].socket # "open"
  BY <1>1 DEF Roster, Socket
<1> QED
  BY <1>1, <1>2, <1>6, <1>7, <1>8, OneListChanged

\* A handler that ends takes its own socket off the list, and no other.
LEMMA DropRoster ==
    ASSUME Roster, NEW c \in Client, Misfit(c) \/ HandlerEnds(c) PROVE Roster'
<1> DEFINE b    == client[c].building
           list == Without(conns[b], {c})
<1>1. /\ client[c].socket # "out"
      /\ conns' = [conns EXCEPT ![b] = list]
      /\ client' = [client EXCEPT ![c] = Out]
      /\ tick' = tick
  BY DEF Misfit, HandlerEnds
<1>2. b \in Building
  BY <1>1 DEF Roster, Socket, Out
<1> HIDE DEF b
<1>3. client' \in Socket /\ client'[c].socket = "out"
      /\ \A o \in Client \ {c} : client'[o] = client[o]
  BY <1>1 DEF Roster, Socket, Out
<1>4. \A d \in Building : Listed(conns[d], d, client)
  BY DEF Roster
<1>5. \A d \in Building : conns[d] \in Seq(Client) /\ ToSet(conns[d]) \subseteq Client
  BY <1>4 DEF Listed, ToSet
<1>6. list \in Seq(Client) /\ IsInjective(list)
  BY <1>2, <1>4, <1>5, WithoutOK DEF Listed
<1>7. ToSet(list) = ToSet(conns[b]) \ {c}
  BY <1>2, <1>5, WithoutOK
<1> HIDE DEF list
<1>8. Listed(list, b, client')
  BY <1>2, <1>3, <1>4, <1>5, <1>6, <1>7 DEF Listed
<1>9. \A d \in Building \ {b} : Listed(conns[d], d, client')
  <2>1. \A d \in Building \ {b} : c \notin ToSet(conns[d])
    BY <1>4 DEF Listed, b
  <2> QED
    BY <1>3, <1>4, <1>5, <2>1 DEF Listed
<1>10. \A o \in tick.dead : client'[o].socket # "open"
  BY <1>1, <1>3 DEF Roster, Socket, Out
<1> QED
  BY <1>1, <1>2, <1>3, <1>8, <1>9, <1>10, OneListChanged

\* A client that leaves stays listed until its handler ends.
LEMMA LeaveRoster ==
    ASSUME Roster, NEW c \in Client, Leave(c) PROVE Roster'
<1>1. /\ client[c].socket = "open" /\ client[c] # Out
      /\ client' = [client EXCEPT ![c].socket = "gone"]
      /\ tick' = tick /\ conns' = conns
  BY DEF Leave, Out
<1>2. /\ client' \in Socket
      /\ client'[c].socket = "gone" /\ client'[c].building = client[c].building
      /\ \A o \in Client \ {c} : client'[o] = client[o]
  BY <1>1 DEF Roster, Socket
<1>3. \A d \in Building : Listed(conns[d], d, client')
  <2> SUFFICES ASSUME NEW d \in Building PROVE Listed(conns[d], d, client')
    OBVIOUS
  <2>1. Listed(conns[d], d, client) /\ ToSet(conns[d]) \subseteq Client
    BY DEF Roster, Listed, ToSet
  <2> QED
    BY <1>1, <1>2, <2>1 DEF Listed
<1>4. \A o \in tick.dead : client'[o].socket # "open"
  BY <1>1, <1>2 DEF Roster, Socket
<1> QED
  BY <1>1, <1>2, <1>3, <1>4 DEF Roster

\* The broadcast removes only what it found closed.
LEMMA ReapRoster == ASSUME Roster, TickReaps, At \in Building PROVE Roster'
<1> DEFINE b    == At
           list == Without(conns[b], tick.dead)
<1>1. /\ conns' = [conns EXCEPT ![b] = list]
      /\ client' = client
      /\ tick'.dead = {} \/ tick'.dead = tick.dead
  BY DEF TickReaps
<1> HIDE DEF b
<1>2. b \in Building
  BY DEF b
<1>3. Listed(conns[b], b, client)
  BY <1>2 DEF Roster
<1>4. list \in Seq(Client) /\ IsInjective(list)
  BY <1>3, WithoutOK DEF Listed
<1>5. ToSet(list) = ToSet(conns[b]) \ tick.dead
  BY <1>3, WithoutOK DEF Listed
<1> HIDE DEF list
<1>6. Listed(list, b, client')
  BY <1>1, <1>3, <1>4, <1>5 DEF Listed, Roster
<1>7. \A d \in Building \ {b} : Listed(conns[d], d, client')
  BY <1>1 DEF Roster
<1>8. client' \in Socket /\ (\A c \in tick.dead : client'[c].socket # "open")
      /\ tick'.dead \subseteq tick.dead
  BY <1>1 DEF Roster
<1> QED
  BY <1>1, <1>2, <1>6, <1>7, <1>8, OneListChanged

\* The rest of the broadcast collects who is not open; no list changes.
LEMMA SendRoster ==
    ASSUME Roster, UNCHANGED <<conns, client>>,
           \A c \in tick'.dead : c \in tick.dead \/ client[c].socket # "open"
    PROVE  Roster'
BY DEF Roster

LEMMA UnknownRoster ==
    ASSUME Roster, NEW u \in Unknown, ConnectUnknown(u) PROVE Roster'
<1>1. /\ conns' = [conns EXCEPT ![u] = Append(@, "closed")]
      /\ UNCHANGED <<client, tick>>
  BY DEF ConnectUnknown
<1>2. u \notin Building
  BY TickLoopAssumption
<1>3. conns'[u] \in Seq({"closed"})
  <2>1. conns'[u] = Append(conns[u], "closed") /\ conns[u] \in Seq({"closed"})
    BY <1>1 DEF Roster
  <2> QED
    BY <2>1
<1>4. conns' = [x \in Building \cup Unknown |-> conns'[x]]
      /\ \A x \in Building \cup Unknown : x # u => conns'[x] = conns[x]
  BY <1>1 DEF Roster
<1>5. \A d \in Building : Listed(conns'[d], d, client')
  BY <1>1, <1>2, <1>4 DEF Roster
<1> QED
  BY <1>1, <1>3, <1>4, <1>5 DEF Roster

----------------------------------------------------------------------------
(* Where the tick task is.                                                 *)

\* The tick task is at a building that exists, and at a place of its list that
\* existed when it looked; the dict of buildings has each once; the buffers are
\* within their limit.
Ticking ==
    /\ IsInjective(states)
    /\ \A b \in Building : Len(store[b]) <= MaxSnapshots
    /\ demo \in [building : Tall, left : 1 .. Stages] \cup {NoDemo}
    /\ tick \in TickState
    /\ tick.size <= Cardinality(Building)
    /\ tick.idx <= Cardinality(Client) + 1
    /\ tick.pc = "await" => tick.idx <= Cardinality(Client) /\ tick.ws \in Client
    /\ tick.pc \in {"bcast", "await"} => tick.pos \in DOMAIN states /\ tick.idx # 0

Whole == Inv /\ Roster /\ Ticking

LEMMA Counts ==
    /\ Cardinality(Client) \in Nat
    /\ Cardinality(Building) \in Nat
BY FS_CardinalityType, TickLoopAssumption

\* The fields of the tick task's state, taken apart and put together.
LEMMA FieldsOK ==
    ASSUME NEW t \in TickState
    PROVE  /\ t.pc \in {"sleep", "next", "bcast", "await", "dead"}
           /\ t.size \in Nat /\ t.pos \in Nat /\ t.idx \in Nat /\ t.idx + 1 \in Nat
           /\ t.ws \in Client \cup {"none"} /\ t.snap \in BOOLEAN /\ t.dead \in SUBSET Client
BY DEF TickState

LEMMA RecordOK ==
    ASSUME NEW pc \in {"sleep", "next", "bcast", "await", "dead"},
           NEW size \in Nat, NEW pos \in Nat, NEW idx \in Nat,
           NEW ws \in Client \cup {"none"}, NEW snap \in BOOLEAN, NEW dead \in SUBSET Client
    PROVE  [pc |-> pc, size |-> size, pos |-> pos, idx |-> idx, ws |-> ws,
            snap |-> snap, dead |-> dead] \in TickState
BY DEF TickState

LEMMA InitTicking == Init => Ticking
<1> SUFFICES ASSUME Init PROVE Ticking
  OBVIOUS
<1>1. IsInjective(states) /\ \A b \in Building : Len(store[b]) <= MaxSnapshots
  BY TickLoopAssumption DEF Init, IsInjective
<1>2. Asleep \in TickState /\ tick = Asleep
  BY DEF Init, Asleep, TickState
<1> QED
  BY <1>1, <1>2, Counts DEF Init, Ticking, Asleep

\* The steps that move the tick task, and what else they may change.
LEMMA TaskTicking ==
    ASSUME Ticking, states' = states, demo' = demo, tick' \in TickState,
           \A b \in Building : Len(store'[b]) <= MaxSnapshots,
           tick'.size <= Cardinality(Building),
           tick'.idx <= Cardinality(Client) + 1,
           tick'.pc = "await" => tick'.idx <= Cardinality(Client) /\ tick'.ws \in Client,
           tick'.pc \in {"bcast", "await"} => tick'.pos \in DOMAIN states /\ tick'.idx # 0
    PROVE  Ticking'
BY DEF Ticking

\* Between two broadcasts.
LEMMA PauseTicking ==
    ASSUME Whole, TickWake \/ TickRaises \/ TickSimRaises \/ TickSleeps PROVE Ticking'
<1>1. states' = states /\ store' = store /\ demo' = demo
  BY DEF TickWake, TickRaises, TickSimRaises, TickSleeps
<1>2. Len(states) \in Nat /\ Len(states) <= Cardinality(Building)
  BY ShortList, TickLoopAssumption DEF Whole, Inv, Simulation, Ticking
<1>3. /\ tick' \in TickState
      /\ tick'.size <= Cardinality(Building)
      /\ tick'.idx = 0
      /\ tick'.pc \in {"sleep", "next", "dead"}
  <2>1. CASE TickWake
    BY <1>2, <2>1 DEF TickWake, Asleep, TickState
  <2>2. CASE TickRaises \/ TickSimRaises
    <3>1. tick' = [pc |-> "dead", size |-> 0, pos |-> 0, idx |-> 0, ws |-> "none",
                   snap |-> FALSE, dead |-> {}]
      BY <2>2 DEF TickRaises, TickSimRaises, Asleep
    <3> QED
      BY <3>1, Counts DEF TickState
  <2>3. CASE TickSleeps
    BY <2>3, Counts DEF TickSleeps, Asleep, TickState
  <2> QED
    BY <2>1, <2>2, <2>3
<1> QED
  BY <1>1, <1>3, Counts, TaskTicking DEF Whole, Ticking

\* SnapshotStore.push keeps to the limit.
LEMMA PushShort ==
    ASSUME NEW buffer \in Seq(BOOLEAN), NEW snap \in BOOLEAN, Len(buffer) <= MaxSnapshots
    PROVE  Len(Pushed(buffer, snap)) <= MaxSnapshots
<1>1. CASE Len(buffer) = MaxSnapshots
  <2>1. buffer # << >>
    BY <1>1, TickLoopAssumption
  <2>2. Tail(buffer) \in Seq(BOOLEAN) /\ Len(Tail(buffer)) = Len(buffer) - 1
    BY <2>1
  <2>3. Len(Append(Tail(buffer), snap)) = MaxSnapshots
    BY <1>1, <2>2, TickLoopAssumption
  <2> QED
    BY <1>1, <2>3, TickLoopAssumption DEF Pushed
<1>2. CASE Len(buffer) # MaxSnapshots
  <2>1. Len(Append(buffer, snap)) = Len(buffer) + 1 /\ Len(buffer) \in Nat
    OBVIOUS
  <2> QED
    BY <1>2, <2>1, TickLoopAssumption DEF Pushed
<1> QED
  BY <1>1, <1>2

LEMMA SimTicking == ASSUME Whole, TickSim PROVE Ticking'
<1> DEFINE b == states[tick.pos + 1]
<1>1. /\ tick.pos \in Nat /\ tick.pos < Len(states)
      /\ store' = [store EXCEPT ![b] = Pushed(@, sim[b])]
      /\ states' = states /\ demo' = demo
      /\ tick' = [tick EXCEPT !.pc = "bcast", !.pos = @ + 1, !.idx = 1,
                              !.snap = sim[b], !.dead = {}]
  BY DEF TickSim, Whole, Inv, Simulation
<1>2. b \in Building /\ tick.pos + 1 \in DOMAIN states
  BY <1>1 DEF Whole, Inv, Simulation
<1> HIDE DEF b
<1>3. sim[b] \in BOOLEAN
  BY <1>2 DEF Whole, Inv, Simulation
<1>4. store[b] \in Seq(BOOLEAN) /\ Len(store[b]) <= MaxSnapshots
  BY <1>2 DEF Whole, Inv, Simulation, Ticking
<1>5. Len(Pushed(store[b], sim[b])) <= MaxSnapshots
  BY <1>3, <1>4, PushShort
<1>6. \A d \in Building : Len(store'[d]) <= MaxSnapshots
  BY <1>1, <1>2, <1>5 DEF Whole, Inv, Simulation, Ticking
<1>7. /\ tick' \in TickState
      /\ tick'.size = tick.size /\ tick'.idx = 1 /\ tick'.pc = "bcast"
      /\ tick'.pos = tick.pos + 1
  <2> DEFINE snap == sim[b]
  <2> HIDE DEF snap
  <2>1. snap \in BOOLEAN
    BY <1>3 DEF snap
  <2>2. tick' = [tick EXCEPT !.pc = "bcast", !.pos = @ + 1, !.idx = 1,
                            !.snap = snap, !.dead = {}]
    BY <1>1 DEF snap
  <2>3. tick \in TickState
    BY DEF Whole, Ticking
  <2>4. /\ tick'.size = tick.size /\ tick'.idx = 1 /\ tick'.pc = "bcast"
        /\ tick'.pos = tick.pos + 1
    BY <2>2, <2>3 DEF TickState
  <2>5. tick' \in TickState
    <3>1. tick' = [pc |-> "bcast", size |-> tick.size, pos |-> tick.pos + 1, idx |-> 1,
                   ws |-> tick.ws, snap |-> snap, dead |-> {}]
      BY <2>2, <2>3 DEF TickState
    <3>2. /\ tick.size \in Nat /\ tick.pos + 1 \in Nat /\ 1 \in Nat
          /\ tick.ws \in Client \cup {"none"} /\ {} \in SUBSET Client
      BY <2>3 DEF TickState
    <3> QED
      BY <2>1, <3>1, <3>2 DEF TickState
  <2> QED
    BY <2>4, <2>5
<1> QED
  BY <1>1, <1>2, <1>6, <1>7, Counts, TaskTicking DEF Whole, Ticking

\* The place of a client on the list that is broadcast to.
LEMMA PlaceOK ==
    ASSUME Whole, tick.pc = "bcast", tick.idx <= Len(conns[At])
    PROVE  /\ At \in Building
           /\ tick.idx <= Cardinality(Client)
           /\ To \in Client
<1>1. At \in Building
  BY DEF Whole, Inv, Simulation, Ticking, At
<1>2. conns[At] \in Seq(Client) /\ IsInjective(conns[At])
  BY <1>1 DEF Whole, Roster, Listed
<1>3. Len(conns[At]) <= Cardinality(Client) /\ Len(conns[At]) \in Nat
  BY <1>2, ShortList, TickLoopAssumption
<1>4. tick.idx \in Nat
  BY DEF Whole, Ticking, TickState
<1>5. tick.idx # 0
  BY DEF Whole, Ticking
<1>6. tick.idx \in 1 .. Len(conns[At]) /\ tick.idx <= Cardinality(Client)
  BY <1>3, <1>4, <1>5, Counts
<1>7. conns[At][tick.idx] \in Client
  BY <1>2, <1>6
<1> QED
  BY <1>1, <1>6, <1>7 DEF To

\* The steps of a broadcast.
LEMMA CastTicking ==
    ASSUME Whole, TickSends \/ TickSendRaises \/ TickAwaitRaises \/ TickResumes \/ TickReaps
    PROVE  Ticking'
<1>1. states' = states /\ store' = store /\ demo' = demo
  BY DEF TickSends, TickSendRaises, TickAwaitRaises, TickResumes, TickReaps
<1>2. tick \in TickState /\ Ticking
  BY DEF Whole, Ticking
<1>3. CASE TickSends
  <2>1. tick.pc = "bcast" /\ tick.idx <= Len(conns[At]) /\ tick' = [tick EXCEPT !.pc = "await", !.ws = To]
    BY <1>3 DEF TickSends
  <2>2. To \in Client /\ tick.idx <= Cardinality(Client)
    BY <2>1, PlaceOK
  <2>3. tick' \in TickState
    BY <1>2, <2>1, <2>2 DEF TickState
  <2>4. tick'.size = tick.size /\ tick'.idx = tick.idx /\ tick'.pc = "await"
        /\ tick'.pos = tick.pos /\ tick'.ws = To
    BY <1>2, <2>1 DEF TickState
  <2> QED
    BY <1>1, <1>2, <2>1, <2>2, <2>3, <2>4, TaskTicking DEF Ticking
<1>4. CASE TickSendRaises
  <2>1. tick.pc = "bcast" /\ tick.idx <= Len(conns[At])
        /\ tick' = [tick EXCEPT !.idx = @ + 1, !.dead = @ \cup {To}]
    BY <1>4 DEF TickSendRaises
  <2>2. To \in Client /\ tick.idx <= Cardinality(Client)
    BY <2>1, PlaceOK
  <2>3. tick' \in TickState
    <3> DEFINE dead == tick.dead \cup {To}
    <3>1. dead \in SUBSET Client
      BY <1>2, <2>2 DEF TickState
    <3>2. tick' = [tick EXCEPT !.idx = @ + 1, !.dead = dead]
      BY <2>1
    <3> HIDE DEF dead
    <3>3. tick' = [pc |-> tick.pc, size |-> tick.size, pos |-> tick.pos, idx |-> tick.idx + 1,
                   ws |-> tick.ws, snap |-> tick.snap, dead |-> dead]
      BY <1>2, <3>2 DEF TickState
    <3> QED
      BY <1>2, <3>1, <3>3, FieldsOK, RecordOK
  <2>4. tick'.size = tick.size /\ tick'.idx = tick.idx + 1 /\ tick'.pc = "bcast"
        /\ tick'.pos = tick.pos /\ tick.idx \in Nat
    BY <1>2, <2>1 DEF TickState
  <2> QED
    BY <1>1, <1>2, <2>1, <2>2, <2>3, <2>4, Counts, TaskTicking DEF Ticking
<1>5. CASE TickAwaitRaises \/ TickResumes
  <2>1. tick.pc = "await"
        /\ \/ tick' = [tick EXCEPT !.pc = "bcast", !.idx = @ + 1, !.ws = "none",
                                   !.dead = @ \cup {tick.ws}]
           \/ tick' = [tick EXCEPT !.pc = "bcast", !.idx = @ + 1, !.ws = "none"]
    BY <1>5 DEF TickAwaitRaises, TickResumes
  <2>2. tick.ws \in Client /\ tick.idx <= Cardinality(Client)
    BY <2>1 DEF Whole, Ticking
  <2>3. tick' \in TickState
    <3> DEFINE dead == tick.dead \cup {tick.ws}
    <3>1. dead \in SUBSET Client /\ tick.dead \in SUBSET Client
      BY <1>2, <2>2 DEF TickState
    <3>2. \/ tick' = [tick EXCEPT !.pc = "bcast", !.idx = @ + 1, !.ws = "none", !.dead = dead]
          \/ tick' = [tick EXCEPT !.pc = "bcast", !.idx = @ + 1, !.ws = "none"]
      BY <2>1
    <3> HIDE DEF dead
    <3>3. PICK d \in {dead, tick.dead} :
              tick' = [pc |-> "bcast", size |-> tick.size, pos |-> tick.pos, idx |-> tick.idx + 1,
                       ws |-> "none", snap |-> tick.snap, dead |-> d]
      <4>1. CASE tick' = [tick EXCEPT !.pc = "bcast", !.idx = @ + 1, !.ws = "none", !.dead = dead]
        BY <1>2, <4>1 DEF TickState
      <4>2. CASE tick' = [tick EXCEPT !.pc = "bcast", !.idx = @ + 1, !.ws = "none"]
        BY <1>2, <4>2 DEF TickState
      <4> QED
        BY <3>2, <4>1, <4>2
    <3>4. "bcast" \in {"sleep", "next", "bcast", "await", "dead"} /\ "none" \in Client \cup {"none"}
      OBVIOUS
    <3>5. d \in SUBSET Client
      BY <3>1
    <3>6. /\ tick.size \in Nat /\ tick.pos \in Nat /\ tick.idx + 1 \in Nat
          /\ tick.snap \in BOOLEAN
      BY <1>2, FieldsOK
    <3> QED
      BY <3>3, <3>4, <3>5, <3>6, RecordOK
  <2>4. tick'.size = tick.size /\ tick'.idx = tick.idx + 1 /\ tick'.pc = "bcast"
        /\ tick'.pos = tick.pos /\ tick.idx \in Nat
    BY <1>2, <2>1 DEF TickState
  <2> QED
    BY <1>1, <1>2, <2>1, <2>2, <2>3, <2>4, Counts, TaskTicking DEF Ticking
<1>6. CASE TickReaps
  <2>1. tick' = [tick EXCEPT !.pc = "next", !.idx = 0, !.snap = FALSE, !.dead = {}]
    BY <1>6 DEF TickReaps
  <2>2. tick' \in TickState
    BY <1>2, <2>1 DEF TickState
  <2>3. tick'.size = tick.size /\ tick'.idx = 0 /\ tick'.pc = "next"
    BY <1>2, <2>1 DEF TickState
  <2> QED
    BY <1>1, <1>2, <2>1, <2>2, <2>3, Counts, TaskTicking DEF Ticking
<1> QED
  BY <1>3, <1>4, <1>5, <1>6

\* A handler leaves the tick task where it is; the dict only grows.
LEMMA HandlerTicking ==
    ASSUME Whole, tick' = tick,
           states' = states \/ \E b \in Building : GetState(b),
           \A b \in Building : store'[b] \in {store[b], << >>},
           demo' \in [building : Tall, left : 1 .. Stages] \cup {NoDemo}
    PROVE  Ticking'
<1>1. \A b \in Building : Len(store'[b]) <= MaxSnapshots
  BY TickLoopAssumption DEF Whole, Ticking
<1>2. IsInjective(states') /\ DOMAIN states \subseteq DOMAIN states'
  <2>1. CASE states' = states
    BY <2>1 DEF Whole, Ticking
  <2>2. ASSUME NEW b \in Building, b \notin ToSet(states), states' = Append(states, b)
        PROVE  IsInjective(states') /\ DOMAIN states \subseteq DOMAIN states'
    <3>1. states \in Seq(Building) /\ IsInjective(states)
      BY DEF Whole, Inv, Simulation, Ticking
    <3>2. IsInjective(states')
      BY <2>2, <3>1, AppendNew
    <3>3. DOMAIN states \subseteq DOMAIN states'
      BY <2>2, <3>1
    <3> QED
      BY <3>2, <3>3
  <2> QED
    BY <2>1, <2>2 DEF GetState
<1>3. Ticking
  BY DEF Whole
<1> QED
  BY <1>1, <1>2, <1>3 DEF Ticking

LEMMA RestartTicking == ASSUME Restart PROVE Ticking'
<1>1. IsInjective(states') /\ \A b \in Building : Len(store'[b]) <= MaxSnapshots
  BY TickLoopAssumption DEF Restart, IsInjective
<1>2. Asleep \in TickState /\ tick' = Asleep
  BY DEF Restart, Asleep, TickState
<1> QED
  BY <1>1, <1>2, Counts DEF Restart, Ticking, Asleep

LEMMA RestartRoster == ASSUME Restart PROVE Roster'
<1>1. << >> \in Seq(Client) /\ << >> \in Seq({"closed"}) /\ IsInjective(<< >>) /\ ToSet(<< >>) = {}
  BY DEF IsInjective, ToSet
<1>2. client' \in Socket /\ \A c \in Client : client'[c].socket = "out"
  BY DEF Restart, Socket, Out
<1>3. \A b \in Building : Listed(conns'[b], b, client')
  BY <1>1, <1>2 DEF Restart, Listed
<1>4. conns' = [x \in Building \cup Unknown |-> conns'[x]]
      /\ \A u \in Unknown : conns'[u] \in Seq({"closed"})
  BY <1>1 DEF Restart
<1>5. tick'.dead = {}
  BY DEF Restart, Asleep
<1> QED
  BY <1>2, <1>3, <1>4, <1>5 DEF Roster

LEMMA NextRoster == ASSUME Whole, [Next]_vars PROVE Roster'
<1>1. Roster
  BY DEF Whole
<1>2. CASE TickWake \/ TickRaises \/ TickSimRaises \/ TickSleeps \/ TickSim
  <2>1. conns' = conns /\ client' = client
    BY <1>2 DEF TickWake, TickRaises, TickSimRaises, TickSleeps, TickSim
  <2>2. tick'.dead = {}
    <3>1. CASE TickWake \/ TickRaises \/ TickSimRaises \/ TickSleeps
      <4>1. CASE TickWake
        BY <4>1 DEF TickWake, Asleep
      <4>2. CASE TickRaises \/ TickSimRaises
        BY <4>2 DEF TickRaises, TickSimRaises, Asleep
      <4>3. CASE TickSleeps
        BY <4>3 DEF TickSleeps, Asleep
      <4> QED
        BY <3>1, <4>1, <4>2, <4>3
    <3>2. CASE TickSim
      <4>1. tick \in TickState
        BY DEF Whole, Ticking
      <4> QED
        BY <3>2, <4>1 DEF TickSim, TickState
    <3> QED
      BY <1>2, <3>1, <3>2
  <2> QED
    BY <1>1, <2>1, <2>2, SendRoster
<1>3. CASE TickSends \/ TickSendRaises \/ TickAwaitRaises \/ TickResumes
  <2>1. conns' = conns /\ client' = client
    BY <1>3 DEF TickSends, TickSendRaises, TickAwaitRaises, TickResumes
  <2>2. tick \in TickState
    BY DEF Whole, Ticking
  <2>3. CASE TickSends \/ TickResumes
    <3>1. tick'.dead = tick.dead
      BY <2>2, <2>3 DEF TickSends, TickResumes, TickState
    <3> QED
      BY <1>1, <2>1, <3>1, SendRoster
  <2>4. CASE TickSendRaises
    <3>1. tick'.dead = tick.dead \cup {To} /\ client[To].socket = "gone"
      BY <2>2, <2>4 DEF TickSendRaises, TickState
    <3> QED
      BY <1>1, <2>1, <3>1, SendRoster
  <2>5. CASE TickAwaitRaises
    <3>1. tick'.dead = tick.dead \cup {tick.ws} /\ client[tick.ws].socket # "open"
      BY <2>2, <2>5 DEF TickAwaitRaises, TickState
    <3> QED
      BY <1>1, <2>1, <3>1, SendRoster
  <2> QED
    BY <1>3, <2>3, <2>4, <2>5
<1>4. CASE TickReaps
  <2>1. At \in Building
    BY <1>4 DEF TickReaps, At, Whole, Ticking, Inv, Simulation
  <2> QED
    BY <1>1, <1>4, <2>1, ReapRoster
<1>5. ASSUME NEW b \in Building, Inject(b) \/ Reset(b) \/ RunDemo(b) PROVE Roster'
  BY <1>1, <1>5, SendRoster DEF Inject, Reset, RunDemo
<1>6. CASE DemoStage
  BY <1>1, <1>6, SendRoster DEF DemoStage
<1>7. ASSUME NEW c \in Client, NEW b \in Building, Connect(c, b) PROVE Roster'
  BY <1>1, <1>7, ConnectRoster
<1>8. ASSUME NEW u \in Unknown, ConnectUnknown(u) PROVE Roster'
  BY <1>1, <1>8, UnknownRoster
<1>9. ASSUME NEW c \in Client, Message(c) PROVE Roster'
  BY <1>1, <1>9, SendRoster DEF Message
<1>10. ASSUME NEW c \in Client, Misfit(c) \/ HandlerEnds(c) PROVE Roster'
  BY <1>1, <1>10, DropRoster
<1>11. ASSUME NEW c \in Client, Leave(c) PROVE Roster'
  BY <1>1, <1>11, LeaveRoster
<1>12. CASE Restart
  BY <1>12, RestartRoster
<1>13. CASE UNCHANGED vars
  BY <1>1, <1>13, SendRoster DEF vars
<1> QED
  BY <1>2, <1>3, <1>4, <1>5, <1>6, <1>7, <1>8, <1>9, <1>10, <1>11, <1>12, <1>13
     DEF Next, Tick

LEMMA NextTicking == ASSUME Whole, [Next]_vars PROVE Ticking'
<1>1. demo \in [building : Tall, left : 1 .. Stages] \cup {NoDemo}
  BY DEF Whole, Ticking
<1>2. CASE Tick
  BY <1>2, PauseTicking, SimTicking, CastTicking DEF Tick
<1>3. ASSUME NEW b \in Building, Inject(b) \/ Reset(b) PROVE Ticking'
  <2>1. tick' = tick /\ GetState(b) /\ demo' = NoDemo
    BY <1>3 DEF Inject, Reset
  <2>2. \A d \in Building : store'[d] \in {store[d], << >>}
    BY <1>3 DEF Inject, Reset, Whole, Inv, Simulation
  <2> QED
    BY <2>1, <2>2, HandlerTicking
<1>4. ASSUME NEW b \in Building, RunDemo(b) PROVE Ticking'
  <2>1. tick' = tick /\ GetState(b)
    BY <1>4 DEF RunDemo
  <2>2. \A d \in Building : store'[d] \in {store[d], << >>}
    BY <1>4 DEF RunDemo, Whole, Inv, Simulation
  <2>3. demo' \in [building : Tall, left : 1 .. Stages] \cup {NoDemo}
    BY <1>4, TickLoopAssumption DEF RunDemo
  <2> QED
    BY <2>1, <2>2, <2>3, HandlerTicking
<1>5. CASE DemoStage
  <2>1. tick' = tick /\ states' = states /\ store' = store
    BY <1>5 DEF DemoStage
  <2>2. demo' \in [building : Tall, left : 1 .. Stages] \cup {NoDemo}
    BY <1>1, <1>5, TickLoopAssumption DEF DemoStage
  <2> QED
    BY <2>1, <2>2, HandlerTicking
<1>6. ASSUME NEW c \in Client, NEW b \in Building, Connect(c, b) PROVE Ticking'
  BY <1>1, <1>6, HandlerTicking DEF Connect
<1>7. ASSUME NEW u \in Unknown, ConnectUnknown(u) PROVE Ticking'
  BY <1>1, <1>7, HandlerTicking DEF ConnectUnknown
<1>8. ASSUME NEW c \in Client, Message(c) \/ Misfit(c) \/ Leave(c) \/ HandlerEnds(c)
      PROVE  Ticking'
  BY <1>1, <1>8, HandlerTicking DEF Message, Misfit, Leave, HandlerEnds
<1>9. CASE Restart
  BY <1>9, RestartTicking
<1>10. CASE UNCHANGED vars
  BY <1>1, <1>10, HandlerTicking DEF vars
<1> QED
  BY <1>2, <1>3, <1>4, <1>5, <1>6, <1>7, <1>8, <1>9, <1>10 DEF Next

LEMMA InitWhole == Init => Whole
BY InitInv, InitRoster, InitTicking DEF Whole

LEMMA NextWhole == ASSUME Whole, [Next]_vars PROVE Whole'
<1>1. Inv'
  BY NextInv DEF Whole
<1> QED
  BY <1>1, NextRoster, NextTicking DEF Whole

\* Only a client of a building in Loose gives it a scenario that is no string.
OddIsLoose == odd \subseteq Loose

LEMMA NextOdd == ASSUME OddIsLoose, [Next]_vars PROVE OddIsLoose'
<1>1. CASE Tick
  BY <1>1 DEF OddIsLoose, Tick, TickWake, TickRaises, TickSleeps, TickSim,
              TickSimRaises, TickSends, TickSendRaises, TickAwaitRaises, TickResumes,
              TickReaps
<1>2. ASSUME NEW b \in Building, Inject(b) \/ Reset(b) \/ RunDemo(b) PROVE OddIsLoose'
  BY <1>2 DEF OddIsLoose, Inject, Reset, RunDemo
<1>3. CASE DemoStage
  BY <1>3 DEF OddIsLoose, DemoStage
<1>4. ASSUME NEW c \in Client, NEW b \in Building, Connect(c, b) PROVE OddIsLoose'
  BY <1>4 DEF OddIsLoose, Connect
<1>5. ASSUME NEW u \in Unknown, ConnectUnknown(u) PROVE OddIsLoose'
  BY <1>5 DEF OddIsLoose, ConnectUnknown
<1>6. ASSUME NEW c \in Client, Message(c) \/ Misfit(c) PROVE OddIsLoose'
  BY <1>6 DEF OddIsLoose, Message, Misfit, Named
<1>7. ASSUME NEW c \in Client, Leave(c) \/ HandlerEnds(c) PROVE OddIsLoose'
  BY <1>7 DEF OddIsLoose, Leave, HandlerEnds
<1>8. CASE Restart
  BY <1>8 DEF OddIsLoose, Restart
<1>9. CASE UNCHANGED vars
  BY <1>9 DEF OddIsLoose, vars
<1> QED
  BY <1>1, <1>2, <1>3, <1>4, <1>5, <1>6, <1>7, <1>8, <1>9 DEF Next

LEMMA WholeTypes == ASSUME Whole, OddIsLoose PROVE TypeOK
<1>1. DOMAIN store = Building /\ DOMAIN conns = Building \cup Unknown
  BY DEF Whole, Inv, Simulation, Roster
<1>2. \A b \in Building : store[b] \in Seq(BOOLEAN) /\ Len(store[b]) <= MaxSnapshots
  BY DEF Whole, Inv, Simulation, Ticking
<1>3. \A b \in Building : conns[b] \in Seq(Client)
  BY DEF Whole, Roster, Listed
<1>4. tick.pc \in {"bcast", "await"} => tick.pos \in DOMAIN states
  BY DEF Whole, Ticking
<1> QED
  BY <1>1, <1>2, <1>3, <1>4
     DEF Whole, Inv, Simulation, Roster, Ticking, TypeOK, OddIsLoose

\* The variables keep their types; in particular the broadcast stays on the lists it
\* walks, the buffers keep to MAX_SNAPSHOTS, and no building is in the dict twice.
THEOREM TypeCorrect == Spec => []TypeOK
<1>1. Init => Whole /\ OddIsLoose
  BY InitWhole DEF Init, OddIsLoose
<1>2. Whole /\ OddIsLoose /\ [Next]_vars => Whole' /\ OddIsLoose'
  BY NextWhole, NextOdd
<1>3. Whole /\ OddIsLoose => TypeOK
  BY WholeTypes
<1> QED
  BY <1>1, <1>2, <1>3, PTL DEF Spec

\* Where a client stands on a list without repetition.
LEMMA OnePlace ==
    ASSUME NEW list \in Seq(Client), IsInjective(list), NEW i \in DOMAIN list
    PROVE  Cardinality({j \in DOMAIN list : list[j] = list[i]}) = 1
<1>1. {j \in DOMAIN list : list[j] = list[i]} = {i}
  BY DEF IsInjective
<1> QED
  BY <1>1, FS_Singleton

LEMMA WholeListed == ASSUME Whole PROVE OpenIsListed
<1> SUFFICES ASSUME NEW c \in Client, NEW b \in Building
             PROVE  LET places == {i \in DOMAIN conns[b] : conns[b][i] = c}
                        mine   == client[c].building = b
                    IN  /\ places # {} => mine /\ Cardinality(places) = 1
                        /\ client[c].socket = "open" /\ mine => places # {}
  BY DEF OpenIsListed
<1> DEFINE list   == conns[b]
           places == {i \in DOMAIN list : list[i] = c}
<1>1. Listed(list, b, client)
  BY DEF Whole, Roster
<1> HIDE DEF list
<1>2. list \in Seq(Client) /\ IsInjective(list)
  BY <1>1 DEF Listed
<1>3. ToSet(list) = {list[i] : i \in DOMAIN list}
  BY <1>2 DEF ToSet
<1>4. ASSUME places # {} PROVE client[c].building = b /\ Cardinality(places) = 1
  <2>1. PICK i \in DOMAIN list : list[i] = c
    BY <1>4
  <2>2. Cardinality(places) = 1
    BY <1>2, <2>1, OnePlace
  <2> QED
    BY <1>1, <1>3, <2>1, <2>2 DEF Listed
<1>5. client[c].socket = "open" /\ client[c].building = b => places # {}
  BY <1>1, <1>3 DEF Listed
<1> QED
  BY <1>4, <1>5 DEF list

\* Whoever is connected is on the list of its building, once, and on no other,
\* however the others come and go.
THEOREM OpenAreListed == Spec => []OpenIsListed
<1>1. Whole /\ [Next]_vars => Whole'
  BY NextWhole
<1>2. Whole => OpenIsListed
  BY WholeListed
<1> QED
  BY InitWhole, <1>1, <1>2, PTL DEF Spec
=============================================================================
