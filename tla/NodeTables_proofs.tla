------------------------- MODULE NodeTables_proofs -------------------------
(***************************************************************************)
(* What NodeTables promises for every number of nodes, every width of the  *)
(* sequence numbers and every bound.                                       *)
(***************************************************************************)
EXTENDS NodeTables, FiniteSetTheorems, TLAPS

----------------------------------------------------------------------------
(* The operators on tables and numbers.                                    *)

\* An upsert leaves a table a table and changes the entry of its id only.
LEMMA UpsertTable ==
    ASSUME NEW S, NEW t, IsTable(t, S), NEW id \in S, NEW e \in Entry
    PROVE  /\ IsTable(Upsert(t, id, e), S)
           /\ \A n \in DOMAIN Upsert(t, id, e) :
                  \/ n = id /\ Upsert(t, id, e)[n] = e
                  \/ n \in DOMAIN t /\ Upsert(t, id, e)[n] = t[n]
BY DEF Upsert, IsTable

\* Ageing keeps the slots; of an entry it changes the count of ageings only.
LEMMA AgeTable ==
    ASSUME NEW S, NEW t, IsTable(t, S), NEW now, NEW own
    PROVE  /\ IsTable(AgeEdges(t, now, own), S)
           /\ DOMAIN AgeEdges(t, now, own) = DOMAIN t
           /\ \A n \in DOMAIN t :
                  /\ AgeEdges(t, now, own)[n].at = t[n].at
                  /\ AgeEdges(t, now, own)[n].flame = t[n].flame
                  /\ AgeEdges(t, now, own)[n].sensed = t[n].sensed
<1>1. MaxAged \in Nat
  BY LinkStateAssumption
<1>2. ASSUME NEW e \in Entry
      PROVE  /\ AgeEntry(e, now) \in Entry
             /\ AgeEntry(e, now).at = e.at
             /\ AgeEntry(e, now).flame = e.flame
             /\ AgeEntry(e, now).sensed = e.sensed
  <2>1. CASE Elapsed(now, e.upd) > Stale /\ e.aged < MaxAged
    <3>1. AgeEntry(e, now) = [e EXCEPT !.aged = @ + 1]
      BY <2>1 DEF AgeEntry
    <3>2. e.aged + 1 \in 0 .. MaxAged
      BY <1>1, <2>1 DEF Entry
    <3> QED
      BY <3>1, <3>2 DEF Entry
  <2>2. CASE ~(Elapsed(now, e.upd) > Stale /\ e.aged < MaxAged)
    BY <2>2 DEF AgeEntry
  <2> QED
    BY <2>1, <2>2
<1> QED
  BY <1>2 DEF AgeEdges, IsTable

\* A number read k and j < k steps back from one counter: the older one is not
\* newer as long as they are less than half the range apart.
LEMMA OlderIsNotNewer ==
    ASSUME NEW c \in Seqs, NEW j \in Nat, NEW k \in Nat,
           j <= k, k <= Half
    PROVE  ~ Newer(SeqDiff(c, k), SeqDiff(c, j))
BY HalfAssumption DEF Newer, SeqDiff, Seqs, SeqMod

\* Two steps of a counter put every number read back from it two steps
\* further away.
LEMMA TwoSteps ==
    ASSUME NEW c \in Seqs, NEW k \in Nat, k <= Half
    PROVE  /\ SeqNext(c) \in Seqs
           /\ SeqNext(SeqNext(c)) \in Seqs
           /\ SeqDiff(SeqNext(SeqNext(c)), 1) = SeqNext(c)
           /\ k + 2 <= Half => SeqDiff(SeqNext(SeqNext(c)), k + 2) = SeqDiff(c, k)
BY HalfAssumption DEF SeqDiff, SeqNext, Seqs, SeqMod

\* The only reception that is accepted is the undamaged packet.
LEMMA AcceptedIsSent ==
    ASSUME NEW p, NEW d \in Receptions(p), Accepts(d)
    PROVE  d.pkt = p /\ d.flame = p.flame
BY DEF Receptions, Accepts

----------------------------------------------------------------------------
(* Type correctness.                                                       *)

\* Of each field of a mixed entry the value is one of the two.
LEMMA MixedEntry ==
    ASSUME NEW e \in Entry, NEW f \in Entry, NEW m \in Mixed(e, f)
    PROVE  m \in Entry /\ m.at \in {e.at, f.at}
<1>1. 0 \in 0 .. MaxAged
  BY LinkStateAssumption
<1>2. PICK x \in {e, f}, y \in {e, f}, z \in {e, f} :
        m = [at |-> x.at, upd |-> y.upd, flame |-> z.flame, sensed |-> x.sensed, aged |-> 0]
  BY DEF Mixed
<1> QED
  BY <1>1, <1>2 DEF Entry

\* A booting node has two empty tables.
LEMMA BootTablesOK ==
    /\ DOMAIN BootTables = Buf
    /\ \A b \in Buf : IsTable(BootTables[b], Node) /\ DOMAIN BootTables[b] = {}
<1>1. IsTable(EmptyTable, Node) /\ DOMAIN EmptyTable = {}
  BY DEF IsTable, EmptyTable
<1> QED
  BY <1>1 DEF BootTables

\* What an ageing that meets an upsert of a node's entry makes of a table.
LEMMA AgeingCollided ==
    ASSUME TypeOK, AgeingCollides
    PROVE  /\ cb \in Busy /\ loop.ptr = cb.buf
           /\ \E e \in Entry :
                /\ e.at = cb.pkt.at /\ e.flame = cb.flame /\ e.sensed = cb.pkt.flame
                /\ tbl' = [tbl EXCEPT ![cb.buf] =
                              [AgeEdges(tbl[cb.buf], loop.now, Me) EXCEPT ![cb.pkt.src] = e]]
<1> DEFINE t == tbl[cb.buf]
           s == cb.pkt.src
<1>1. cb \in Busy
  BY DEF TypeOK, AgeingCollides, Idle
<1>2. clock \in Nat /\ MaxAged \in Nat
  BY NodeTablesAssumption, LinkStateAssumption DEF TypeOK
<1>3. PacketEntry \in Entry /\ cb.buf \in Buf /\ s \in DOMAIN t
  BY <1>1, <1>2 DEF PacketEntry, Fresh, Entry, Busy, Packet, AgeingCollides
<1>4. t[s] \in Entry
  BY <1>3 DEF TypeOK, IsTable
<1>5. PICK base \in {t[s], PacketEntry}, upd \in {t[s].upd, clock} :
        tbl' = [tbl EXCEPT ![cb.buf] =
                  [AgeEdges(@, loop.now, Me) EXCEPT ![s] =
                      [PacketEntry EXCEPT !.aged =
                          AgeEntry([base EXCEPT !.upd = upd], loop.now).aged]]]
  BY DEF AgeingCollides
<1> DEFINE old == [base EXCEPT !.upd = upd]
           e == [PacketEntry EXCEPT !.aged = AgeEntry(old, loop.now).aged]
<1>6. old \in Entry
  BY <1>2, <1>3, <1>4 DEF Entry
<1>7. AgeEntry(old, loop.now).aged \in 0 .. MaxAged
  <2> HIDE DEF old
  <2>1. old.aged \in 0 .. MaxAged
    BY <1>6 DEF Entry
  <2>2. CASE Elapsed(loop.now, old.upd) > Stale /\ old.aged < MaxAged
    <3>1. AgeEntry(old, loop.now).aged = old.aged + 1
      BY <1>6, <2>2 DEF AgeEntry, Entry
    <3> QED
      BY <1>2, <2>1, <2>2, <3>1
  <2>3. CASE ~ (Elapsed(loop.now, old.upd) > Stale /\ old.aged < MaxAged)
    BY <2>1, <2>3 DEF AgeEntry
  <2> QED
    BY <2>2, <2>3
<1>8. e \in Entry /\ e.at = cb.pkt.at /\ e.flame = cb.flame /\ e.sensed = cb.pkt.flame
  <2> HIDE DEF old
  <2>1. e = [at |-> cb.pkt.at, upd |-> clock, flame |-> cb.flame, sensed |-> cb.pkt.flame,
             aged |-> AgeEntry(old, loop.now).aged]
    BY DEF PacketEntry, Fresh
  <2> QED
    BY <1>1, <1>2, <1>7, <2>1 DEF Entry, Busy, Packet
<1>9. tbl' = [tbl EXCEPT ![cb.buf] = [AgeEdges(t, loop.now, Me) EXCEPT ![s] = e]]
  BY <1>5
<1> QED
  BY <1>1, <1>8, <1>9 DEF AgeingCollides

\* A thread that holds nothing is in one of its states.
LEMMA HoldingOK == Holding("boot") \in LoopState /\ Holding("begin") \in LoopState
<1>1. 0 \in 0 .. MaxTime
  BY NodeTablesAssumption
<1> QED
  BY <1>1 DEF Holding, LoopState, Buf

LEMMA InitTypeOK == Init => TypeOK
<1> SUFFICES ASSUME Init PROVE TypeOK
  OBVIOUS
<1>1. 0 \in Seqs /\ Start \subseteq Seqs /\ MaxTime \in Nat
  BY HalfAssumption, NodeTablesAssumption DEF Seqs, SeqMod
<1>2. DOMAIN tbl = Buf /\ \A b \in Buf : IsTable(tbl[b], Node)
  BY BootTablesOK DEF Init
<1>3. loop \in LoopState
  BY HoldingOK DEF Init
<1>4. cb \in {Idle} \cup Busy /\ torn \in BOOLEAN
  BY DEF Init
<1> QED
  BY <1>1, <1>2, <1>3, <1>4 DEF Init, TypeOK, Node, Buf

\* TypeOK is inductive.
LEMMA NextTypeOK == TypeOK /\ [Next]_vars => TypeOK'
<1> SUFFICES ASSUME TypeOK, [Next]_vars PROVE TypeOK'
  OBVIOUS
<1> USE DEF TypeOK
<1>a. /\ MaxTime \in Nat /\ MaxAged \in Nat /\ 0 \in Seqs
      /\ Me \in Node /\ Remote \subseteq Node
  BY HalfAssumption, NodeTablesAssumption, LinkStateAssumption DEF Seqs, SeqMod, Node
<1>b. AfterOwn \in LoopState
  <2>1. [loop EXCEPT !.pc = "age", !.ptr = active] \in LoopState
    BY DEF LoopState
  <2> QED
    BY <2>1, HoldingOK DEF AfterOwn
<1>1. ASSUME NEW r \in Remote, NEW flame \in BOOLEAN, RemoteLoop(r, flame) PROVE TypeOK'
  <2>1. SeqNext(counter[r]) \in Seqs /\ SeqNext(SeqNext(counter[r])) \in Seqs
    BY HalfAssumption DEF Seqs, SeqMod, SeqNext
  <2>2. [src |-> r, seq |-> SeqNext(counter[r]), at |-> at[r] + 2, flame |-> flame] \in Packet
    BY <2>1 DEF Packet
  <2>3. net' \in SUBSET Packet
    BY <1>1, <2>2 DEF RemoteLoop
  <2>4. at' \in [Remote -> Nat] /\ counter' \in [Remote -> Seqs]
    BY <1>1, <2>1 DEF RemoteLoop
  <2> QED
    BY <1>1, <2>3, <2>4 DEF RemoteLoop, seqVars, tableVars
<1>2. ASSUME NEW r \in Remote, RemoteReboot(r) PROVE TypeOK'
  BY <1>a, <1>2 DEF RemoteReboot, seqVars, tableVars
<1>3. CASE Tick
  BY <1>a, <1>3 DEF Tick, netVars, seqVars, tableVars
<1>4. ASSUME NEW p \in net, NEW d \in Receptions(p), PacketAccepted(d) PROVE TypeOK'
  <2>1. d.pkt = p /\ d.flame = p.flame
    BY <1>4, AcceptedIsSent DEF PacketAccepted
  <2>2. p \in Packet /\ p.src \in Remote /\ p.seq \in Seqs /\ p.at \in Nat /\ p.flame \in BOOLEAN
    BY DEF Packet
  <2>3. WriteBuf(active) \in Buf
    BY DEF WriteBuf, Other, Buf
  <2>4. cb' \in Busy
    BY <1>4, <2>1, <2>2, <2>3 DEF PacketAccepted, Busy
  <2>5. last_seq' \in [Remote -> Seqs] /\ lastAt' \in [Remote -> Nat]
    BY <1>4, <2>1, <2>2 DEF PacketAccepted
  <2> QED
    BY <1>4, <2>4, <2>5 DEF PacketAccepted, netVars, tableVars
<1>5. CASE CallbackUpsert
  <2>1. cb \in Busy
    BY <1>5 DEF CallbackUpsert, Idle
  <2>2. cb.buf \in Buf /\ cb.pkt.src \in Node
    BY <1>a, <2>1 DEF Busy, Packet
  <2>3. PacketEntry \in Entry
    BY <1>a, <2>1 DEF PacketEntry, Fresh, Entry, Busy, Packet
  <2>4. DOMAIN tbl' = Buf /\ \A b \in Buf : IsTable(tbl'[b], Node)
    BY <1>5, <2>2, <2>3, UpsertTable DEF CallbackUpsert
  <2>5. cb' \in Busy
    BY <1>5, <2>1 DEF CallbackUpsert, Busy
  <2> QED
    BY <1>5, <2>4, <2>5 DEF CallbackUpsert, netVars, seqVars
<1>6. CASE CallbackSwap
  <2>1. cb \in Busy
    BY <1>6 DEF CallbackSwap, Idle
  <2>2. cb.buf \in Buf /\ cb.pkt.src \in Node /\ cb.pkt.at \in Nat
    BY <1>a, <2>1 DEF Busy, Packet
  <2> QED
    BY <1>6, <2>2 DEF CallbackSwap, netVars, seqVars
<1>7. CASE LoopBegin
  BY <1>7 DEF LoopBegin, LoopState, netVars, seqVars, tableVars
<1>8. CASE OwnUpsert
  <2>1. OwnEntry \in Entry
    BY <1>a DEF OwnEntry, Fresh, Entry, LoopState
  <2>2. DOMAIN tbl' = Buf /\ \A b \in Buf : IsTable(tbl'[b], Node)
    BY <1>8, <1>a, <2>1, UpsertTable DEF OwnUpsert
  <2> QED
    BY <1>8, <1>b, <2>2 DEF OwnUpsert, netVars, seqVars
<1>9. CASE LoopAge
  <2>1. DOMAIN tbl' = Buf /\ \A b \in Buf : IsTable(tbl'[b], Node)
    BY <1>9, AgeTable DEF LoopAge
  <2>2. loop' \in LoopState
    <3>1. loop' = [pc |-> "route", now |-> 0, ptr |-> active]
      BY <1>9 DEF LoopAge, LoopState
    <3> QED
      BY <1>a, <3>1 DEF LoopState
  <2> QED
    BY <1>9, <2>1, <2>2 DEF LoopAge, netVars, seqVars
<1>10. CASE Route
  <2>1. Reads(tbl[loop.ptr]) \in [Remote -> Nat]
    BY DEF Reads, IsTable, Entry, LoopState
  <2> QED
    BY <1>10, <2>1, HoldingOK DEF Route, netVars, seqVars, tableVars
<1>11. CASE UpsertsCollide
  <2>1. cb \in Busy
    BY <1>11 DEF UpsertsCollide, Idle
  <2>2. OwnEntry \in Entry /\ PacketEntry \in Entry
    BY <1>a, <2>1 DEF OwnEntry, PacketEntry, Fresh, Entry, Busy, Packet, LoopState
  <2>3. PICK id \in {Me, cb.pkt.src}, e \in Mixed(OwnEntry, PacketEntry) :
          tbl' = [tbl EXCEPT ![cb.buf] = Upsert(@, id, e)]
    BY <1>11 DEF UpsertsCollide
  <2>4. id \in Node /\ e \in Entry /\ cb.buf \in Buf
    BY <1>a, <2>1, <2>2, MixedEntry DEF Busy, Packet
  <2>5. DOMAIN tbl' = Buf /\ \A b \in Buf : IsTable(tbl'[b], Node)
    BY <2>3, <2>4, UpsertTable
  <2>6. cb' \in Busy
    BY <1>11, <2>1 DEF UpsertsCollide, Busy
  <2> QED
    BY <1>11, <1>b, <2>5, <2>6 DEF UpsertsCollide, netVars, seqVars
<1>12. CASE AgeingCollides
  <2>1. PICK e \in Entry :
          tbl' = [tbl EXCEPT ![cb.buf] =
                    [AgeEdges(tbl[cb.buf], loop.now, Me) EXCEPT ![cb.pkt.src] = e]]
    BY <1>12, AgeingCollided
  <2>2. cb \in Busy /\ cb.buf \in Buf
    BY <1>12, AgeingCollided DEF Busy
  <2>3. DOMAIN tbl' = Buf /\ \A b \in Buf : IsTable(tbl'[b], Node)
    <3>1. IsTable(AgeEdges(tbl[cb.buf], loop.now, Me), Node)
      BY <2>2, AgeTable
    <3> QED
      BY <2>1, <2>2, <3>1 DEF IsTable
  <2>4. cb' \in Busy
    BY <1>12, <2>2 DEF AgeingCollides, Busy
  <2>5. loop' \in LoopState
    <3>1. loop' = [pc |-> "route", now |-> 0, ptr |-> active]
      BY <1>12 DEF AgeingCollides, LoopState
    <3> QED
      BY <1>a, <3>1 DEF LoopState
  <2> QED
    BY <1>12, <2>3, <2>4, <2>5 DEF AgeingCollides, netVars, seqVars
<1>13. CASE Reboot
  <2>1. DOMAIN tbl' = Buf /\ \A b \in Buf : IsTable(tbl'[b], Node)
    BY <1>13, BootTablesOK DEF Reboot
  <2> QED
    BY <1>13, <1>a, <2>1, HoldingOK DEF Reboot, Buf
<1>14. CASE UNCHANGED vars
  BY <1>14 DEF vars, netVars, seqVars, tableVars
<1> QED
  BY <1>1, <1>2, <1>3, <1>4, <1>5, <1>6, <1>7, <1>8, <1>9, <1>10, <1>11, <1>12, <1>13,
     <1>14 DEF Next, Callback, Loop

\* The state of the node and of the mesh stays well formed: in particular the
\* callback and loop() keep every table a table of entries of known nodes.
THEOREM TypeCorrect == Spec => []TypeOK
<1> QED
  BY InitTypeOK, NextTypeOK, PTL DEF Spec

----------------------------------------------------------------------------
(* The flame flags.                                                        *)

FlameInv ==
    /\ FlameIsSensed
    /\ cb \in Busy => cb.flame = cb.pkt.flame

LEMMA NextFlameInv == TypeOK /\ FlameInv /\ [Next]_vars => FlameInv'
<1> SUFFICES ASSUME TypeOK, FlameInv, [Next]_vars PROVE FlameInv'
  OBVIOUS
<1> USE DEF FlameInv, FlameIsSensed
<1>a. /\ DOMAIN tbl = Buf
      /\ \A b \in Buf : IsTable(tbl[b], Node)
      /\ cb \in {Idle} \cup Busy
      /\ loop.ptr \in Buf /\ loop.now \in Nat /\ clock \in Nat
  BY NodeTablesAssumption DEF TypeOK, LoopState
<1>b. Me \in Node
  BY DEF Node
<1>1. ASSUME NEW r \in Remote, NEW flame \in BOOLEAN, RemoteLoop(r, flame) PROVE FlameInv'
  BY <1>1 DEF RemoteLoop, tableVars
<1>2. ASSUME NEW r \in Remote, RemoteReboot(r) PROVE FlameInv'
  BY <1>2 DEF RemoteReboot, tableVars
<1>3. CASE Tick
  BY <1>3 DEF Tick, tableVars
<1>4. ASSUME NEW p \in net, NEW d \in Receptions(p), PacketAccepted(d) PROVE FlameInv'
  BY <1>4, AcceptedIsSent DEF PacketAccepted, tableVars
<1>5. CASE CallbackUpsert
  <2>1. cb \in Busy /\ torn' = torn
    BY <1>5, <1>a DEF CallbackUpsert, Idle
  <2>2. cb'.flame = cb.flame /\ cb'.pkt = cb.pkt
    BY <1>5, <2>1 DEF CallbackUpsert, Busy
  <2>3. /\ PacketEntry \in Entry /\ PacketEntry.flame = PacketEntry.sensed
        /\ cb.pkt.src \in Node
    BY <1>a, <2>1, LinkStateAssumption DEF PacketEntry, Fresh, Entry, Busy, Packet, Node
  <2>4. \A b \in Buf :
          tbl'[b] = IF b = cb.buf THEN Upsert(tbl[b], cb.pkt.src, PacketEntry) ELSE tbl[b]
    BY <1>5, <1>a DEF CallbackUpsert
  <2>5. ASSUME ~ torn, NEW b \in Buf, NEW n \in DOMAIN tbl'[b]
        PROVE  tbl'[b][n].flame = tbl'[b][n].sensed
    BY <1>a, <2>3, <2>4, <2>5, UpsertTable
  <2> QED
    BY <2>1, <2>2, <2>5
<1>6. CASE CallbackSwap
  BY <1>6 DEF CallbackSwap, Idle, Busy
<1>7. CASE LoopBegin
  BY <1>7 DEF LoopBegin, tableVars
<1>8. CASE OwnUpsert
  <2>1. OwnEntry \in Entry /\ OwnEntry.flame = OwnEntry.sensed
    BY <1>a, LinkStateAssumption DEF OwnEntry, Fresh, Entry
  <2>2. \A b \in Buf :
          tbl'[b] = IF b = loop.ptr THEN Upsert(tbl[b], Me, OwnEntry) ELSE tbl[b]
    BY <1>8, <1>a DEF OwnUpsert
  <2>3. ASSUME ~ torn, NEW b \in Buf, NEW n \in DOMAIN tbl'[b]
        PROVE  tbl'[b][n].flame = tbl'[b][n].sensed
    BY <1>a, <1>b, <2>1, <2>2, <2>3, UpsertTable
  <2> QED
    BY <1>8, <2>3 DEF OwnUpsert
<1>9. CASE LoopAge
  <2>1. \A b \in Buf : tbl'[b] = IF b = loop.ptr THEN AgeEdges(tbl[b], loop.now, Me) ELSE tbl[b]
    BY <1>9, <1>a DEF LoopAge
  <2>2. ASSUME ~ torn, NEW b \in Buf, NEW n \in DOMAIN tbl'[b]
        PROVE  tbl'[b][n].flame = tbl'[b][n].sensed
    BY <1>a, <2>1, <2>2, AgeTable
  <2> QED
    BY <1>9, <2>2 DEF LoopAge
<1>10. CASE Route
  BY <1>10 DEF Route, tableVars
<1>11. CASE UpsertsCollide
  <2>1. torn' /\ cb \in Busy
    BY <1>11, <1>a DEF UpsertsCollide, Idle
  <2>2. cb'.flame = cb.flame /\ cb'.pkt = cb.pkt
    BY <1>11, <2>1 DEF UpsertsCollide, Busy
  <2> QED
    BY <2>1, <2>2
<1>12. CASE AgeingCollides
  <2>1. PICK e \in Entry :
          /\ e.flame = cb.flame /\ e.sensed = cb.pkt.flame
          /\ tbl' = [tbl EXCEPT ![cb.buf] =
                       [AgeEdges(tbl[cb.buf], loop.now, Me) EXCEPT ![cb.pkt.src] = e]]
    BY <1>12, AgeingCollided
  <2>2. cb \in Busy /\ cb.buf \in Buf /\ e.flame = e.sensed
    BY <1>12, <2>1, AgeingCollided DEF Busy
  <2>3. cb'.flame = cb.flame /\ cb'.pkt = cb.pkt /\ torn' = torn
    BY <1>12, <2>2 DEF AgeingCollides, Busy
  <2>4. ASSUME ~ torn, NEW b \in Buf, NEW n \in DOMAIN tbl'[b]
        PROVE  tbl'[b][n].flame = tbl'[b][n].sensed
    <3>1. CASE b = cb.buf
      <4> DEFINE u == AgeEdges(tbl[b], loop.now, Me)
      <4>1. tbl'[b] = [u EXCEPT ![cb.pkt.src] = e]
        BY <1>a, <2>1, <3>1
      <4>2. \A m \in DOMAIN u : u[m].flame = u[m].sensed
        BY <1>a, <2>4, AgeTable
      <4> HIDE DEF u
      <4> QED
        BY <2>2, <4>1, <4>2
    <3>2. CASE b # cb.buf
      BY <1>a, <2>1, <2>4, <3>2
    <3> QED
      BY <3>1, <3>2
  <2> QED
    BY <2>2, <2>3, <2>4
<1>13. CASE Reboot
  <2>1. tbl' = BootTables /\ cb' = Idle
    BY <1>13 DEF Reboot
  <2>2. \A b \in Buf : \A n \in DOMAIN tbl'[b] : tbl'[b][n].flame = tbl'[b][n].sensed
    BY <2>1, BootTablesOK
  <2> QED
    BY <2>1, <2>2 DEF Idle, Busy
<1>14. CASE UNCHANGED vars
  BY <1>14 DEF vars, tableVars
<1> QED
  BY <1>1, <1>2, <1>3, <1>4, <1>5, <1>6, <1>7, <1>8, <1>9, <1>10, <1>11, <1>12, <1>13,
     <1>14 DEF Next, Callback, Loop

\* A flame in a table was sensed by the node it is about, unless two upserts have met
\* in one slot: communication loss is not fire detection, a damaged packet is none
\* either, and an ageing that meets an upsert leaves the flame alone.
THEOREM FlamesAreSensed == Spec => []FlameIsSensed
<1>1. Init => FlameInv
  <2> SUFFICES ASSUME Init PROVE FlameInv
    OBVIOUS
  <2>1. tbl = BootTables /\ cb = Idle
    BY DEF Init
  <2>2. \A b \in Buf : \A n \in DOMAIN tbl[b] : tbl[b][n].flame = tbl[b][n].sensed
    BY <2>1, BootTablesOK
  <2> QED
    BY <2>1, <2>2 DEF FlameInv, FlameIsSensed, Idle, Busy
<1>2. FlameInv => FlameIsSensed
  BY DEF FlameInv
<1> QED
  BY TypeCorrect, <1>1, NextFlameInv, <1>2, PTL DEF Spec

----------------------------------------------------------------------------
(* The sequence numbers.  A packet in flight carries the number its source *)
(* used at - p.at + 1 steps ago; so does the number accepted last, unless  *)
(* its source has rebooted or run far ahead since.                         *)

NetInv ==
    /\ \A r \in Remote : bootAt[r] <= at[r] /\ lastAt[r] <= at[r]
    /\ \A p \in net : /\ bootAt[p.src] < p.at
                      /\ p.at <= at[p.src]
                      /\ at[p.src] - p.at < Lifetime
                      /\ p.seq = SeqDiff(counter[p.src], at[p.src] - p.at + 1)
    /\ \A r \in Remote :
          bootAt[r] < lastAt[r] /\ at[r] - lastAt[r] < Lifetime
            => last_seq[r] = SeqDiff(counter[r], at[r] - lastAt[r] + 1)

\* A packet that is accepted was published after the one accepted before it.
LEMMA AcceptedIsNewer ==
    ASSUME TypeOK, NetInv, NEW p \in net, Newer(p.seq, last_seq[p.src])
    PROVE  p.at > lastAt[p.src]
<1> DEFINE r == p.src
<1>1. /\ r \in Remote /\ p.at \in Nat /\ at[r] \in Nat /\ lastAt[r] \in Nat
      /\ bootAt[r] \in Nat /\ counter[r] \in Seqs
  BY DEF TypeOK, Packet
<1>2. Lifetime \in 1 .. Half /\ Half \in Nat
  BY NodeTablesAssumption, HalfAssumption
<1>3. SUFFICES ASSUME p.at <= lastAt[r] PROVE FALSE
  BY <1>1
<1>4. bootAt[r] < lastAt[r] /\ at[r] - lastAt[r] < Lifetime
  BY <1>1, <1>2, <1>3 DEF NetInv
<1> DEFINE j == at[r] - lastAt[r] + 1
           k == at[r] - p.at + 1
<1>5. last_seq[r] = SeqDiff(counter[r], j) /\ p.seq = SeqDiff(counter[r], k)
  BY <1>1, <1>4 DEF NetInv
<1>6. j \in Nat /\ k \in Nat /\ j <= k /\ k <= Half
  BY <1>1, <1>2, <1>3 DEF NetInv
<1> QED
  BY <1>1, <1>5, <1>6, OlderIsNotNewer

LEMMA NextNetInv == TypeOK /\ NetInv /\ [Next]_vars => NetInv'
<1> SUFFICES ASSUME TypeOK, NetInv, [Next]_vars PROVE NetInv'
  OBVIOUS
<1>a. Lifetime \in 1 .. Half /\ Half \in Nat
  BY NodeTablesAssumption, HalfAssumption
<1>b. /\ at \in [Remote -> Nat] /\ bootAt \in [Remote -> Nat] /\ lastAt \in [Remote -> Nat]
      /\ counter \in [Remote -> Seqs]
      /\ \A p \in net : p.src \in Remote /\ p.at \in Nat
  BY DEF TypeOK, Packet
<1>1. ASSUME NEW r \in Remote, NEW flame \in BOOLEAN, RemoteLoop(r, flame) PROVE NetInv'
  <2> DEFINE new == [src |-> r, seq |-> SeqNext(counter[r]), at |-> at[r] + 2, flame |-> flame]
             c == counter[r]
  <2>1. /\ at' = [at EXCEPT ![r] = at[r] + 2]
        /\ counter' = [counter EXCEPT ![r] = SeqNext(SeqNext(c))]
        /\ net' = {p \in net : p.src = r => at[r] + 2 - p.at < Lifetime} \cup {new}
        /\ bootAt' = bootAt /\ last_seq' = last_seq /\ lastAt' = lastAt
    BY <1>1 DEF RemoteLoop, seqVars
  <2>2. /\ at'[r] = at[r] + 2 /\ counter'[r] = SeqNext(SeqNext(c))
        /\ \A q \in Remote : q # r => at'[q] = at[q] /\ counter'[q] = counter[q]
    BY <1>b, <2>1
  <2>3. \A k \in Nat : k + 2 <= Half => SeqDiff(SeqNext(SeqNext(c)), k + 2) = SeqDiff(c, k)
    BY <1>a, <1>b, TwoSteps
  <2>4. \A q \in Remote : bootAt'[q] <= at'[q] /\ lastAt'[q] <= at'[q]
    BY <1>b, <2>1, <2>2 DEF NetInv
  <2>5. ASSUME NEW p \in net'
        PROVE  /\ bootAt'[p.src] < p.at
               /\ p.at <= at'[p.src]
               /\ at'[p.src] - p.at < Lifetime
               /\ p.seq = SeqDiff(counter'[p.src], at'[p.src] - p.at + 1)
    <3>1. CASE p = new
      <4>1. SeqDiff(SeqNext(SeqNext(c)), 1) = SeqNext(c)
        BY <1>a, <1>b, TwoSteps
      <4>2. p.src = r /\ p.at = at[r] + 2 /\ p.seq = SeqNext(c)
        BY <3>1
      <4>3. at'[r] - p.at + 1 = 1
        BY <1>b, <2>2, <4>2
      <4> QED
        BY <1>a, <1>b, <2>1, <2>2, <4>1, <4>2, <4>3 DEF NetInv
    <3>2. CASE p # new /\ p.src = r
      <4>1. p \in net /\ at[r] + 2 - p.at < Lifetime
        BY <2>1, <3>2
      <4> DEFINE k == at[r] - p.at + 1
      <4>2. k \in Nat /\ k + 2 <= Half /\ p.seq = SeqDiff(c, k)
        BY <1>a, <1>b, <3>2, <4>1 DEF NetInv
      <4>3. p.seq = SeqDiff(SeqNext(SeqNext(c)), k + 2)
        BY <2>3, <4>2
      <4>4. at'[r] - p.at + 1 = k + 2
        BY <1>b, <2>2, <4>1
      <4>5. bootAt'[r] < p.at /\ p.at <= at'[r] /\ at'[r] - p.at < Lifetime
        BY <1>b, <2>1, <2>2, <3>2, <4>1 DEF NetInv
      <4> QED
        BY <2>2, <3>2, <4>3, <4>4, <4>5
    <3>3. CASE p # new /\ p.src # r
      BY <1>b, <2>1, <2>2, <3>3 DEF NetInv
    <3> QED
      BY <2>1, <3>1, <3>2, <3>3
  <2>6. ASSUME NEW q \in Remote, bootAt'[q] < lastAt'[q], at'[q] - lastAt'[q] < Lifetime
        PROVE  last_seq'[q] = SeqDiff(counter'[q], at'[q] - lastAt'[q] + 1)
    <3>1. CASE q = r
      <4> DEFINE k == at[r] - lastAt[r] + 1
      <4>1. k \in Nat /\ k + 2 <= Half /\ last_seq[r] = SeqDiff(c, k)
        BY <1>a, <1>b, <2>1, <2>2, <2>6, <3>1 DEF NetInv
      <4>2. last_seq[r] = SeqDiff(SeqNext(SeqNext(c)), k + 2)
        BY <2>3, <4>1
      <4>3. at'[r] - lastAt'[r] + 1 = k + 2
        BY <1>b, <2>1, <2>2
      <4> QED
        BY <2>1, <2>2, <3>1, <4>2, <4>3
    <3>2. CASE q # r
      BY <2>1, <2>2, <2>6, <3>2 DEF NetInv
    <3> QED
      BY <3>1, <3>2
  <2> QED
    BY <2>4, <2>5, <2>6 DEF NetInv
<1>2. ASSUME NEW r \in Remote, RemoteReboot(r) PROVE NetInv'
  BY <1>2, <1>b DEF RemoteReboot, seqVars, NetInv
<1>3. CASE Tick
  BY <1>3 DEF Tick, netVars, seqVars, NetInv
<1>4. ASSUME NEW p \in net, NEW d \in Receptions(p), PacketAccepted(d) PROVE NetInv'
  <2>1. d.pkt = p
    BY <1>4, AcceptedIsSent DEF PacketAccepted
  <2>2. /\ last_seq' = [last_seq EXCEPT ![p.src] = p.seq]
        /\ lastAt' = [lastAt EXCEPT ![p.src] = p.at]
        /\ at' = at /\ bootAt' = bootAt /\ counter' = counter /\ net' = net
    BY <1>4, <2>1 DEF PacketAccepted, netVars
  <2>3. last_seq \in [Remote -> Seqs]
    BY DEF TypeOK
  <2> QED
    BY <1>b, <2>2, <2>3 DEF NetInv
<1>5. CASE Callback
  BY <1>5 DEF Callback, CallbackUpsert, CallbackSwap, netVars, seqVars, NetInv
<1>6. CASE Loop
  BY <1>6 DEF Loop, LoopBegin, OwnUpsert, LoopAge, Route, netVars, seqVars, NetInv
<1>7. CASE UpsertsCollide \/ AgeingCollides
  BY <1>7 DEF UpsertsCollide, AgeingCollides, netVars, seqVars, NetInv
<1>8. CASE Reboot
  BY <1>8, <1>b DEF Reboot, NetInv
<1>9. CASE UNCHANGED vars
  BY <1>9 DEF vars, netVars, seqVars, NetInv
<1> QED
  BY <1>1, <1>2, <1>3, <1>4, <1>5, <1>6, <1>7, <1>8, <1>9 DEF Next

----------------------------------------------------------------------------
(* The two tables as two views of the mesh.                                *)

\* The publications each table holds.
Seen == [b \in Buf |-> Reads(tbl[b])]

\* The callback writes its packet: its table now holds it, or dropped it.
Hears ==
    /\ cb \in Busy /\ cb.pc = "upsert"
    /\ cb' = [cb EXCEPT !.pc = "swap"]
    /\ Seen' \in {Seen, [Seen EXCEPT ![cb.buf][cb.pkt.src] = cb.pkt.at]}
    /\ UNCHANGED <<at, lastAt, routed>>

\* Tables that hold the same publications of the other nodes.
LEMMA SameSeen ==
    ASSUME \A b \in Buf : \A r \in Remote :
               /\ r \in DOMAIN tbl'[b] <=> r \in DOMAIN tbl[b]
               /\ r \in DOMAIN tbl[b] => tbl'[b][r].at = tbl[b][r].at
    PROVE  Seen' = Seen
BY DEF Seen, Reads

\* One table holds another publication of one node, the rest is as it was.
LEMMA OneSeen ==
    ASSUME NEW b \in Buf, NEW s \in Remote, NEW k,
           s \in DOMAIN tbl'[b] /\ tbl'[b][s].at = k,
           \A c \in Buf : \A r \in Remote : b # c \/ r # s =>
               /\ r \in DOMAIN tbl'[c] <=> r \in DOMAIN tbl[c]
               /\ r \in DOMAIN tbl[c] => tbl'[c][r].at = tbl[c][r].at
    PROVE  Seen' = [Seen EXCEPT ![b][s] = k]
<1> DEFINE new == [Seen EXCEPT ![b][s] = k]
<1>1. \A c \in Buf : Seen'[c] = Reads(tbl'[c]) /\ Seen[c] = Reads(tbl[c])
  BY DEF Seen, Reads
<1>2. Seen[b] = [r \in Remote |-> Seen[b][r]]
  BY <1>1 DEF Reads
<1>3. ASSUME NEW c \in Buf, NEW r \in Remote
      PROVE  Reads(tbl'[c])[r] = IF c = b /\ r = s THEN k ELSE Reads(tbl[c])[r]
  BY <1>3 DEF Reads
<1>4. ASSUME NEW c \in Buf PROVE Seen'[c] = new[c]
  <2>1. CASE c = b
    <3>1. new[c] = [Seen[b] EXCEPT ![s] = k]
      BY <2>1 DEF Seen
    <3>2. new[c] = [r \in Remote |-> IF r = s THEN k ELSE Seen[b][r]]
      BY <1>2, <3>1
    <3>3. Reads(tbl'[c]) = [r \in Remote |-> Reads(tbl'[c])[r]]
      BY DEF Reads
    <3> QED
      BY <1>1, <1>3, <2>1, <3>2, <3>3
  <2>2. CASE c # b
    <3>1. new[c] = Seen[c]
      BY <2>2 DEF Seen
    <3>2. Reads(tbl'[c]) = Reads(tbl[c])
      BY <1>3, <2>2 DEF Reads
    <3> QED
      BY <1>1, <3>1, <3>2
  <2> QED
    BY <2>1, <2>2
<1>5. Seen' = [c \in Buf |-> Seen'[c]] /\ new = [c \in Buf |-> new[c]]
  BY DEF Seen
<1> QED
  BY <1>4, <1>5

\* What a step does to the views.
LEMMA StepSeen ==
    ASSUME TypeOK, [Next]_vars
    PROVE  \/ Reboot
           \/ Hears
           \/ \E p \in net : \E d \in Receptions(p) : PacketAccepted(d) /\ Seen' = Seen
           \/ Seen' = Seen /\ lastAt' = lastAt /\ cb' \in {cb, Idle}
<1>a. /\ DOMAIN tbl = Buf
      /\ \A b \in Buf : IsTable(tbl[b], Node)
      /\ cb \in {Idle} \cup Busy
      /\ loop.ptr \in Buf /\ loop.now \in Nat /\ clock \in Nat
  BY NodeTablesAssumption DEF TypeOK, LoopState
<1>b. Me \in Node /\ Me \notin Remote /\ Remote \subseteq Node
  BY NodeTablesAssumption DEF Node
<1>c. ASSUME cb \in Busy
      PROVE  /\ PacketEntry \in Entry /\ PacketEntry.at = cb.pkt.at
             /\ cb.buf \in Buf /\ cb.pkt.src \in Remote
  BY <1>a, <1>c, LinkStateAssumption DEF PacketEntry, Fresh, Entry, Busy, Packet
<1>d. OwnEntry \in Entry /\ OwnEntry.at = 0
  BY <1>a, LinkStateAssumption DEF OwnEntry, Fresh, Entry
<1>1. ASSUME NEW r \in Remote, NEW flame \in BOOLEAN, RemoteLoop(r, flame)
      PROVE  Seen' = Seen /\ lastAt' = lastAt /\ cb' = cb
  BY <1>1 DEF RemoteLoop, seqVars, tableVars, Seen
<1>2. ASSUME NEW r \in Remote, RemoteReboot(r)
      PROVE  Seen' = Seen /\ lastAt' = lastAt /\ cb' = cb
  BY <1>2 DEF RemoteReboot, seqVars, tableVars, Seen
<1>3. CASE Tick \/ CallbackSwap \/ LoopBegin \/ Route \/ UNCHANGED vars
  BY <1>3 DEF Tick, CallbackSwap, LoopBegin, Route, vars, seqVars, tableVars, Seen
<1>4. ASSUME NEW p \in net, NEW d \in Receptions(p), PacketAccepted(d)
      PROVE  Seen' = Seen
  BY <1>4 DEF PacketAccepted, tableVars, Seen
<1>5. CASE CallbackUpsert
  <2>1. cb \in Busy /\ cb.pc = "upsert"
    BY <1>5, <1>a DEF CallbackUpsert, Idle
  <2> DEFINE s == cb.pkt.src
  <2>2. \A b \in Buf : tbl'[b] = IF b = cb.buf THEN Upsert(tbl[b], s, PacketEntry) ELSE tbl[b]
    BY <1>5, <1>a DEF CallbackUpsert
  <2>3. Seen' \in {Seen, [Seen EXCEPT ![cb.buf][s] = cb.pkt.at]}
    <3>1. CASE s \in DOMAIN tbl[cb.buf] \/ Cardinality(DOMAIN tbl[cb.buf]) < MaxNodes
      <4>1. /\ s \in DOMAIN tbl'[cb.buf] /\ tbl'[cb.buf][s] = PacketEntry
            /\ \A n \in Node \ {s} :
                  /\ n \in DOMAIN tbl'[cb.buf] <=> n \in DOMAIN tbl[cb.buf]
                  /\ n \in DOMAIN tbl[cb.buf] => tbl'[cb.buf][n] = tbl[cb.buf][n]
        BY <1>c, <2>1, <2>2, <3>1 DEF Upsert
      <4>2. Seen' = [Seen EXCEPT ![cb.buf][s] = cb.pkt.at]
        BY <1>b, <1>c, <2>1, <2>2, <4>1, OneSeen
      <4> QED
        BY <4>2
    <3>2. CASE ~ (s \in DOMAIN tbl[cb.buf] \/ Cardinality(DOMAIN tbl[cb.buf]) < MaxNodes)
      <4>1. \A b \in Buf : tbl'[b] = tbl[b]
        BY <1>c, <2>1, <2>2, <3>2 DEF Upsert
      <4> QED
        BY <4>1, SameSeen
    <3> QED
      BY <3>1, <3>2
  <2> QED
    BY <1>5, <2>1, <2>3 DEF Hears, CallbackUpsert, netVars, seqVars
<1>6. CASE OwnUpsert
  <2>1. \A b \in Buf : tbl'[b] = IF b = loop.ptr THEN Upsert(tbl[b], Me, OwnEntry) ELSE tbl[b]
    BY <1>6, <1>a DEF OwnUpsert
  <2>2. \A b \in Buf : \A r \in Remote :
           /\ r \in DOMAIN tbl'[b] <=> r \in DOMAIN tbl[b]
           /\ r \in DOMAIN tbl[b] => tbl'[b][r].at = tbl[b][r].at
    BY <1>b, <2>1 DEF Upsert
  <2> QED
    BY <1>6, <2>2, SameSeen DEF OwnUpsert, seqVars
<1>7. CASE LoopAge
  <2>1. \A b \in Buf : tbl'[b] = IF b = loop.ptr THEN AgeEdges(tbl[b], loop.now, Me) ELSE tbl[b]
    BY <1>7, <1>a DEF LoopAge
  <2>2. \A b \in Buf : \A r \in Remote :
           /\ r \in DOMAIN tbl'[b] <=> r \in DOMAIN tbl[b]
           /\ r \in DOMAIN tbl[b] => tbl'[b][r].at = tbl[b][r].at
    BY <1>a, <2>1, AgeTable
  <2> QED
    BY <1>7, <2>2, SameSeen DEF LoopAge, seqVars
<1>8. CASE UpsertsCollide
  <2>1. cb \in Busy /\ cb.pc = "upsert"
    BY <1>8, <1>a DEF UpsertsCollide, Idle
  <2> DEFINE s == cb.pkt.src
             t == tbl[cb.buf]
  <2>2. PICK id \in {Me, s}, e \in Mixed(OwnEntry, PacketEntry) :
          tbl' = [tbl EXCEPT ![cb.buf] = Upsert(@, id, e)]
    BY <1>8 DEF UpsertsCollide
  <2>3. e.at \in {0, cb.pkt.at}
    BY <1>c, <1>d, <2>1, <2>2, MixedEntry
  <2>4. /\ id \notin DOMAIN t /\ s \notin DOMAIN t
        /\ Cardinality(DOMAIN t) < MaxNodes
    BY <1>8, <2>2 DEF UpsertsCollide
  <2>5. tbl'[cb.buf] = [n \in DOMAIN t \cup {id} |-> IF n = id THEN e ELSE t[n]]
    BY <1>a, <1>c, <2>1, <2>2, <2>4 DEF Upsert
  <2>6. \A b \in Buf : b # cb.buf => tbl'[b] = tbl[b]
    BY <1>a, <2>2
  <2>7. Seen' \in {Seen, [Seen EXCEPT ![cb.buf][s] = cb.pkt.at]}
    <3>1. CASE id = Me
      <4>1. \A b \in Buf : \A r \in Remote :
               /\ r \in DOMAIN tbl'[b] <=> r \in DOMAIN tbl[b]
               /\ r \in DOMAIN tbl[b] => tbl'[b][r].at = tbl[b][r].at
        BY <1>b, <2>5, <2>6, <3>1
      <4> QED
        BY <4>1, SameSeen
    <3>2. CASE id = s /\ e.at = cb.pkt.at
      <4>1. s \in DOMAIN tbl'[cb.buf] /\ tbl'[cb.buf][s].at = cb.pkt.at
        BY <2>5, <3>2
      <4>2. \A c \in Buf : \A r \in Remote : cb.buf # c \/ r # s =>
               /\ r \in DOMAIN tbl'[c] <=> r \in DOMAIN tbl[c]
               /\ r \in DOMAIN tbl[c] => tbl'[c][r].at = tbl[c][r].at
        BY <2>5, <2>6, <3>2
      <4>3. Seen' = [Seen EXCEPT ![cb.buf][s] = cb.pkt.at]
        BY <1>c, <2>1, <4>1, <4>2, OneSeen
      <4> QED
        BY <4>3
    <3>3. CASE id = s /\ e.at = 0
      <4>1. \A b \in Buf : \A r \in Remote : Reads(tbl'[b])[r] = Reads(tbl[b])[r]
        BY <2>4, <2>5, <2>6, <3>3 DEF Reads
      <4>2. \A b \in Buf : Reads(tbl'[b]) = Reads(tbl[b])
        BY <4>1 DEF Reads
      <4>3. Seen' = Seen
        BY <4>2 DEF Seen
      <4> QED
        BY <4>3
    <3> QED
      BY <2>2, <2>3, <3>1, <3>2, <3>3
  <2> QED
    BY <1>8, <2>1, <2>7 DEF Hears, UpsertsCollide, netVars, seqVars
<1>9. CASE AgeingCollides
  <2>1. cb \in Busy /\ cb.pc = "upsert"
    BY <1>9, <1>a DEF AgeingCollides, Idle
  <2> DEFINE s == cb.pkt.src
             u == AgeEdges(tbl[cb.buf], loop.now, Me)
  <2>2. PICK e \in Entry : e.at = cb.pkt.at /\ tbl' = [tbl EXCEPT ![cb.buf] = [u EXCEPT ![s] = e]]
    BY <1>9, AgeingCollided
  <2>3. /\ DOMAIN u = DOMAIN tbl[cb.buf]
        /\ \A n \in DOMAIN u : u[n].at = tbl[cb.buf][n].at
    BY <1>a, <1>c, <2>1, AgeTable
  <2>4. s \in DOMAIN u
    BY <1>9, <2>3 DEF AgeingCollides
  <2> HIDE DEF u
  <2>5. tbl'[cb.buf] = [u EXCEPT ![s] = e] /\ \A b \in Buf : b # cb.buf => tbl'[b] = tbl[b]
    BY <1>a, <1>c, <2>1, <2>2
  <2>6. s \in DOMAIN tbl'[cb.buf] /\ tbl'[cb.buf][s].at = cb.pkt.at
    BY <2>2, <2>4, <2>5
  <2>7. \A c \in Buf : \A r \in Remote : cb.buf # c \/ r # s =>
           /\ r \in DOMAIN tbl'[c] <=> r \in DOMAIN tbl[c]
           /\ r \in DOMAIN tbl[c] => tbl'[c][r].at = tbl[c][r].at
    BY <2>3, <2>5
  <2>8. Seen' = [Seen EXCEPT ![cb.buf][s] = cb.pkt.at]
    BY <1>c, <2>1, <2>6, <2>7, OneSeen
  <2> QED
    BY <1>9, <2>1, <2>8 DEF Hears, AgeingCollides, netVars, seqVars
<1> QED
  BY <1>1, <1>2, <1>3, <1>4, <1>5, <1>6, <1>7, <1>8, <1>9 DEF Next, Callback, Loop

KnownInv ==
    /\ cb \in Busy => cb.pkt.at <= lastAt[cb.pkt.src]
    /\ cb \in Busy /\ cb.pc = "upsert" => \A b \in Buf : Seen[b][cb.pkt.src] < cb.pkt.at
    /\ \A b \in Buf : \A r \in Remote : Seen[b][r] <= lastAt[r]

\* Both tables are views: publications of the other nodes.
LEMMA SeenType == TypeOK => Seen \in [Buf -> [Remote -> Nat]]
BY DEF TypeOK, Seen, Reads, IsTable, Entry

LEMMA NextKnownInv == TypeOK /\ NetInv /\ KnownInv /\ [Next]_vars => KnownInv'
<1> SUFFICES ASSUME TypeOK, NetInv, KnownInv, [Next]_vars PROVE KnownInv'
  OBVIOUS
<1>a. lastAt \in [Remote -> Nat] /\ Seen \in [Buf -> [Remote -> Nat]]
  BY SeenType DEF TypeOK
<1>1. CASE Reboot
  <2>1. tbl' = BootTables /\ cb' = Idle /\ lastAt' = [r \in Remote |-> 0]
    BY <1>1 DEF Reboot
  <2>2. \A b \in Buf : \A r \in Remote : Seen'[b][r] = 0
    BY <2>1, BootTablesOK DEF Seen, Reads
  <2> QED
    BY <2>1, <2>2 DEF KnownInv, Idle, Busy
<1>2. CASE Hears
  <2>1. /\ cb \in Busy /\ cb.buf \in Buf /\ cb.pkt.src \in Remote /\ cb.pkt.at \in Nat
        /\ lastAt' = lastAt
    BY <1>2 DEF Hears, Busy, Packet
  <2>2. cb'.pkt = cb.pkt /\ cb'.pc = "swap"
    BY <1>2, <2>1 DEF Hears, Busy
  <2>3. cb.pkt.at <= lastAt[cb.pkt.src]
    BY <2>1 DEF KnownInv
  <2>4. \A b \in Buf : \A r \in Remote : Seen'[b][r] <= lastAt[r]
    <3>1. CASE Seen' = Seen
      BY <3>1 DEF KnownInv
    <3>2. CASE Seen' = [Seen EXCEPT ![cb.buf][cb.pkt.src] = cb.pkt.at]
      <4>1. \A b \in Buf : \A r \in Remote :
              Seen'[b][r] = IF b = cb.buf /\ r = cb.pkt.src THEN cb.pkt.at ELSE Seen[b][r]
        BY <1>a, <2>1, <3>2
      <4> QED
        BY <2>3, <4>1 DEF KnownInv
    <3> QED
      BY <1>2, <3>1, <3>2 DEF Hears
  <2> QED
    BY <2>1, <2>2, <2>3, <2>4 DEF KnownInv
<1>3. ASSUME NEW p \in net, NEW d \in Receptions(p), PacketAccepted(d), Seen' = Seen
      PROVE  KnownInv'
  <2>1. d.pkt = p
    BY <1>3, AcceptedIsSent DEF PacketAccepted
  <2>2. p.src \in Remote /\ p.at \in Nat
    BY DEF TypeOK, Packet
  <2>3. p.at > lastAt[p.src]
    BY <1>3, <2>1, AcceptedIsNewer DEF PacketAccepted, Accepts
  <2>4. lastAt' = [lastAt EXCEPT ![p.src] = p.at] /\ cb'.pkt = p
    BY <1>3, <2>1 DEF PacketAccepted
  <2>5. \A r \in Remote : lastAt'[r] \in Nat /\ lastAt[r] <= lastAt'[r]
    BY <1>a, <2>2, <2>3, <2>4
  <2>6. \A b \in Buf : \A r \in Remote : Seen[b][r] <= lastAt[r]
    BY DEF KnownInv
  <2>7. \A b \in Buf : \A r \in Remote : Seen[b][r] <= lastAt'[r]
    BY <1>a, <2>5, <2>6
  <2>8. \A b \in Buf : Seen[b][p.src] < p.at
    BY <1>a, <2>2, <2>3, <2>6
  <2>9. p.at <= lastAt'[p.src]
    BY <1>a, <2>2, <2>4
  <2> QED
    BY <1>3, <2>4, <2>7, <2>8, <2>9 DEF KnownInv
<1>4. CASE Seen' = Seen /\ lastAt' = lastAt /\ cb' \in {cb, Idle}
  BY <1>4 DEF KnownInv, Idle, Busy
<1> QED
  BY <1>1, <1>2, <1>3, <1>4, StepSeen

----------------------------------------------------------------------------
(* The refinement.                                                         *)

LEMMA InitRefines == Init => D!Init /\ NetInv /\ KnownInv
<1> SUFFICES ASSUME Init PROVE D!Init /\ NetInv /\ KnownInv
  OBVIOUS
<1>1. \A b \in Buf : Reads(tbl[b]) = [r \in Remote |-> 0]
  BY BootTablesOK DEF Init, Reads
<1>2. D!Init
  BY <1>1 DEF Init, D!Init, D!Nothing
<1>3. NetInv
  BY DEF Init, NetInv
<1>4. KnownInv
  BY <1>1 DEF Init, KnownInv, Seen, Idle, Busy
<1> QED
  BY <1>2, <1>3, <1>4

LEMMA NextRefines == TypeOK /\ NetInv /\ KnownInv /\ [Next]_vars => [D!Next]_(D!dvars)
<1> SUFFICES ASSUME TypeOK, NetInv, KnownInv, [Next]_vars PROVE [D!Next]_(D!dvars)
  OBVIOUS
<1>a. /\ at \in [Remote -> Nat] /\ lastAt \in [Remote -> Nat] /\ MaxAt \in [Remote -> Nat]
      /\ Seen \in [Buf -> [Remote -> Nat]]
  BY NodeTablesAssumption, SeenType DEF TypeOK
<1>1. ASSUME NEW r \in Remote, NEW flame \in BOOLEAN, RemoteLoop(r, flame)
      PROVE  D!Publish(r)
  <2>1. at[r] + 2 \in 1 .. MaxAt[r] /\ at[r] + 2 > at[r]
    BY <1>1, <1>a DEF RemoteLoop
  <2> QED
    BY <1>1, <2>1 DEF RemoteLoop, tableVars, D!Publish
<1>2. ASSUME Hears
      PROVE  D!Learn(cb.buf, cb.pkt.src) \/ UNCHANGED D!dvars
  <2>1. cb.buf \in Buf /\ cb.pkt.src \in Remote /\ cb.pkt.at \in Nat
    BY <1>2 DEF Hears, Busy, Packet
  <2>2. cb.pkt.at \in 1 .. at[cb.pkt.src] /\ \A b \in Buf : Seen[b][cb.pkt.src] < cb.pkt.at
    <3>1. /\ cb.pkt.at <= lastAt[cb.pkt.src]
          /\ \A b \in Buf : Seen[b][cb.pkt.src] < cb.pkt.at
      BY <1>2 DEF Hears, KnownInv
    <3>2. lastAt[cb.pkt.src] <= at[cb.pkt.src]
      BY <2>1 DEF NetInv
    <3>3. Seen[cb.buf][cb.pkt.src] \in Nat
      BY <1>a, <2>1
    <3> QED
      BY <1>a, <2>1, <3>1, <3>2, <3>3
  <2>3. CASE Seen' = Seen
    BY <1>2, <2>3 DEF Hears, Seen, D!dvars
  <2>4. CASE Seen' = [Seen EXCEPT ![cb.buf][cb.pkt.src] = cb.pkt.at]
    <3>1. \A b \in Buf : cb.pkt.at > Seen[b][cb.pkt.src]
      BY <1>a, <2>1, <2>2
    <3> QED
      BY <1>2, <2>2, <2>4, <3>1 DEF Hears, Seen, D!Learn
  <2> QED
    BY <1>2, <2>3, <2>4 DEF Hears
<1>3. ASSUME Route PROVE D!Route(loop.ptr)
  <2>1. loop.ptr \in Buf /\ routed' = Reads(tbl[loop.ptr])
    BY <1>3 DEF Route, TypeOK, LoopState
  <2> QED
    BY <1>3, <2>1 DEF Route, netVars, tableVars, D!Route
<1>4. ASSUME Reboot PROVE D!Restart
  <2>1. \A b \in Buf : Reads(tbl'[b]) = [r \in Remote |-> 0]
    BY <1>4, BootTablesOK DEF Reboot, Reads
  <2> QED
    BY <1>4, <2>1 DEF Reboot, D!Restart, D!Nothing
<1>5. ASSUME Seen' = Seen, UNCHANGED <<at, routed>> PROVE UNCHANGED D!dvars
  BY <1>5 DEF Seen, D!dvars
<1>6. CASE Seen' = Seen
  <2>1. CASE UNCHANGED <<at, routed>>
    BY <1>5, <1>6, <2>1
  <2>2. CASE ~ UNCHANGED <<at, routed>>
    <3>1. \/ \E r \in Remote, flame \in BOOLEAN : RemoteLoop(r, flame)
          \/ Route
          \/ Reboot
      BY <2>2 DEF Next, RemoteReboot, Tick, PacketAccepted, Callback, CallbackUpsert,
                  CallbackSwap, Loop, LoopBegin, OwnUpsert, LoopAge, UpsertsCollide,
                  AgeingCollides, vars, netVars
    <3>2. loop.ptr \in Buf
      BY DEF TypeOK, LoopState
    <3> QED
      BY <1>1, <1>3, <1>4, <3>1, <3>2 DEF D!Next
  <2> QED
    BY <2>1, <2>2
<1>7. CASE Hears
  <2>1. cb.buf \in Buf /\ cb.pkt.src \in Remote
    BY <1>7 DEF Hears, Busy, Packet
  <2> QED
    BY <1>2, <1>7, <2>1 DEF D!Next
<1>8. CASE Reboot
  BY <1>4, <1>8 DEF D!Next
<1> QED
  BY <1>6, <1>7, <1>8, StepSeen

\* The node's two tables are two views of the mesh: whatever the network loses,
\* repeats or reorders within its lifetime bound, across wrap-around of the numbers
\* and reboots, and however the two threads meet, neither table goes back to an older
\* state of a node, a packet that enters one is newer than what both hold, and a route
\* rests on one table as a whole (which may be behind the one the route before it used).
THEOREM NodeDisseminates == Spec => Disseminates
<1>1. TypeOK /\ NetInv /\ KnownInv /\ [Next]_vars => NetInv' /\ KnownInv'
  BY NextNetInv, NextKnownInv
<1> QED
  BY TypeCorrect, InitRefines, <1>1, NextRefines, PTL DEF Spec, Disseminates, D!Spec

----------------------------------------------------------------------------
(* Nothing accepted is lost.  Only ids below MaxNodes get a slot, so there *)
(* is one for each of them; and while a packet waits for its upsert it is  *)
(* the newest of its source.                                               *)

SlotIds == 0 .. MaxNodes - 1

\* A table whose ids are below MaxNodes has room for another such id.
LEMMA RoomForId ==
    ASSUME NEW t, DOMAIN t \subseteq SlotIds,
           NEW id \in SlotIds, id \notin DOMAIN t
    PROVE  Cardinality(DOMAIN t) < MaxNodes
<1> DEFINE all == 0 .. MaxNodes - 1
<1>1. MaxNodes \in Nat \ {0}
  BY LinkStateAssumption
<1>2. IsFiniteSet(all) /\ Cardinality(all) = MaxNodes
  <2>1. 0 \in Int /\ MaxNodes - 1 \in Int /\ 0 <= MaxNodes - 1
    BY <1>1
  <2>2. IsFiniteSet(all) /\ Cardinality(all) = (MaxNodes - 1) - 0 + 1
    BY <2>1, FS_Interval
  <2> QED
    BY <1>1, <2>2
<1>3. DOMAIN t \subseteq all /\ DOMAIN t # all
  BY DEF SlotIds
<1> HIDE DEF all
<1>4. DOMAIN t \in SUBSET all
  BY <1>3
<1>5. /\ IsFiniteSet(DOMAIN t)
      /\ Cardinality(DOMAIN t) <= Cardinality(all)
      /\ Cardinality(all) = Cardinality(DOMAIN t) => all = DOMAIN t
  BY <1>2, <1>4, FS_Subset
<1>6. Cardinality(DOMAIN t) \in Nat
  BY <1>5, FS_CardinalityType
<1> QED
  BY <1>1, <1>2, <1>3, <1>5, <1>6

LatestInv ==
    /\ LatestInATable
    /\ \A b \in Buf : DOMAIN tbl[b] \subseteq SlotIds
    /\ cb \in Busy => cb.pkt.at = lastAt[cb.pkt.src] /\ cb.pkt.src < MaxNodes

\* u is t with e for id.
TakesIn(t, id, e, u) ==
    /\ DOMAIN u = DOMAIN t \cup {id}
    /\ u[id] = e
    /\ \A n \in DOMAIN t \ {id} : u[n] = t[n]

\* An upsert into a table of such ids takes the entry in, and keeps the others.
LEMMA UpsertStays ==
    ASSUME NEW t, DOMAIN t \subseteq SlotIds, NEW id \in SlotIds, NEW e
    PROVE  TakesIn(t, id, e, Upsert(t, id, e))
<1>1. id \in DOMAIN t \/ Cardinality(DOMAIN t) < MaxNodes
  BY RoomForId
<1> QED
  BY <1>1 DEF Upsert, TakesIn

LEMMA NextLatestInv ==
    Me < MaxNodes /\ TypeOK /\ LatestInv /\ [Next]_vars => LatestInv'
<1> SUFFICES ASSUME Me < MaxNodes, TypeOK, LatestInv, [Next]_vars PROVE LatestInv'
  OBVIOUS
<1>a. /\ DOMAIN tbl = Buf
      /\ cb \in {Idle} \cup Busy
      /\ loop.ptr \in Buf
      /\ lastAt \in [Remote -> Nat]
  BY DEF TypeOK, LoopState
<1>b. Me \in SlotIds /\ Me \notin Remote
  BY NodeTablesAssumption, LinkStateAssumption DEF SlotIds
<1>c. ASSUME cb \in Busy
      PROVE  /\ cb.buf \in Buf /\ cb.pkt.src \in Remote /\ cb.pkt.src \in SlotIds
             /\ PacketEntry.at = lastAt[cb.pkt.src]
  <2>1. cb.buf \in Buf /\ cb.pkt.src \in Remote
    BY <1>c DEF Busy, Packet
  <2>2. cb.pkt.src \in Nat /\ MaxNodes \in Nat /\ cb.pkt.src < MaxNodes
    BY <1>c, <2>1, NodeTablesAssumption, LinkStateAssumption DEF LatestInv
  <2>3. PacketEntry.at = lastAt[cb.pkt.src]
    BY <1>c DEF PacketEntry, Fresh, LatestInv
  <2> QED
    BY <2>1, <2>2, <2>3 DEF SlotIds
\* An entry for the packet in hand, and all others kept: its node is up to date.
<1>d. ASSUME cb \in Busy, cb.pc = "upsert", ~ torn,
             NEW e, e.at = lastAt[cb.pkt.src],
             cb.pkt.src \in DOMAIN tbl'[cb.buf] /\ tbl'[cb.buf][cb.pkt.src].at = e.at,
             \A b \in Buf : \A r \in Remote \ {cb.pkt.src} :
                 r \in DOMAIN tbl[b] => r \in DOMAIN tbl'[b] /\ tbl'[b][r].at = tbl[b][r].at,
             NEW r \in Remote, lastAt[r] # 0
      PROVE  \E b \in Buf : r \in DOMAIN tbl'[b] /\ tbl'[b][r].at = lastAt[r]
  <2>1. CASE r = cb.pkt.src
    BY <1>c, <1>d, <2>1
  <2>2. CASE r # cb.pkt.src
    <3>1. PICK b \in Buf : r \in DOMAIN tbl[b] /\ tbl[b][r].at = lastAt[r]
      BY <1>d, <2>2 DEF LatestInv, LatestInATable
    <3> QED
      BY <1>d, <2>2, <3>1
  <2> QED
    BY <2>1, <2>2
<1>1. ASSUME NEW r \in Remote, NEW flame \in BOOLEAN, RemoteLoop(r, flame) PROVE LatestInv'
  BY <1>1 DEF RemoteLoop, seqVars, tableVars, LatestInv, LatestInATable
<1>2. ASSUME NEW r \in Remote, RemoteReboot(r) PROVE LatestInv'
  BY <1>2 DEF RemoteReboot, seqVars, tableVars, LatestInv, LatestInATable
<1>3. CASE Tick
  BY <1>3 DEF Tick, seqVars, tableVars, LatestInv, LatestInATable
<1>4. ASSUME NEW p \in net, NEW d \in Receptions(p), PacketAccepted(d) PROVE LatestInv'
  <2>1. d.pkt = p
    BY <1>4, AcceptedIsSent DEF PacketAccepted
  <2>2. p.src \in Remote /\ p.at \in Nat /\ p.src < MaxNodes
    BY <1>4, <2>1 DEF TypeOK, Packet, PacketAccepted, Accepts
  <2>3. /\ lastAt' = [lastAt EXCEPT ![p.src] = p.at]
        /\ tbl' = tbl /\ cb = Idle /\ cb'.pkt = p /\ cb'.pc = "upsert"
    BY <1>4, <2>1 DEF PacketAccepted, tableVars
  <2>4. cb.pc = "idle"
    BY <2>3 DEF Idle
  <2>5. ASSUME ~ torn, NEW r \in Remote
        PROVE  \/ lastAt'[r] = 0
               \/ cb'.pc = "upsert" /\ cb'.pkt.src = r
               \/ \E b \in Buf : r \in DOMAIN tbl'[b] /\ tbl'[b][r].at = lastAt'[r]
    <3>1. CASE r = p.src
      BY <2>3, <3>1
    <3>2. CASE r # p.src
      BY <1>a, <2>3, <2>4, <2>5, <3>2 DEF LatestInv, LatestInATable
    <3> QED
      BY <3>1, <3>2
  <2>6. torn' = torn
    BY <1>4 DEF PacketAccepted, tableVars
  <2> QED
    BY <1>a, <2>2, <2>3, <2>5, <2>6 DEF LatestInv, LatestInATable
<1>5. CASE CallbackUpsert
  <2>1. cb \in Busy /\ cb.pc = "upsert"
    BY <1>5, <1>a DEF CallbackUpsert, Idle
  <2> DEFINE s == cb.pkt.src
  <2>2. cb'.pkt = cb.pkt /\ lastAt' = lastAt /\ torn' = torn
    BY <1>5, <2>1 DEF CallbackUpsert, Busy, seqVars
  <2>3. \A b \in Buf : tbl'[b] = IF b = cb.buf THEN Upsert(tbl[b], s, PacketEntry) ELSE tbl[b]
    BY <1>5, <1>a DEF CallbackUpsert
  <2>4. TakesIn(tbl[cb.buf], s, PacketEntry, tbl'[cb.buf])
    <3>1. /\ DOMAIN tbl[cb.buf] \subseteq SlotIds
          /\ tbl'[cb.buf] = Upsert(tbl[cb.buf], s, PacketEntry)
      BY <1>c, <2>1, <2>3 DEF LatestInv
    <3> QED
      BY <1>c, <2>1, <3>1, UpsertStays
  <2>5. \A b \in Buf : DOMAIN tbl'[b] \subseteq SlotIds
    BY <1>c, <2>1, <2>3, <2>4 DEF TakesIn, LatestInv
  <2>6. ASSUME ~ torn, NEW r \in Remote, lastAt[r] # 0
        PROVE  \E b \in Buf : r \in DOMAIN tbl'[b] /\ tbl'[b][r].at = lastAt[r]
    BY <1>c, <1>d, <2>1, <2>3, <2>4, <2>6 DEF TakesIn
  <2> QED
    BY <2>1, <2>2, <2>5, <2>6 DEF LatestInv, LatestInATable
<1>6. CASE CallbackSwap
  BY <1>6 DEF CallbackSwap, Idle, Busy, seqVars, LatestInv, LatestInATable
<1>7. CASE LoopBegin
  BY <1>7 DEF LoopBegin, seqVars, tableVars, LatestInv, LatestInATable
<1>8. CASE OwnUpsert
  <2>1. lastAt' = lastAt /\ cb' = cb /\ torn' = torn
    BY <1>8 DEF OwnUpsert, seqVars
  <2>2. \A b \in Buf : tbl'[b] = IF b = loop.ptr THEN Upsert(tbl[b], Me, OwnEntry) ELSE tbl[b]
    BY <1>8, <1>a DEF OwnUpsert
  <2>3. TakesIn(tbl[loop.ptr], Me, OwnEntry, tbl'[loop.ptr])
    <3>1. /\ DOMAIN tbl[loop.ptr] \subseteq SlotIds
          /\ tbl'[loop.ptr] = Upsert(tbl[loop.ptr], Me, OwnEntry)
      BY <1>a, <2>2 DEF LatestInv
    <3> QED
      BY <1>b, <3>1, UpsertStays
  <2>4. \A b \in Buf : /\ DOMAIN tbl'[b] \subseteq SlotIds
                       /\ \A r \in Remote : r \in DOMAIN tbl[b] =>
                              r \in DOMAIN tbl'[b] /\ tbl'[b][r] = tbl[b][r]
    BY <1>a, <1>b, <2>2, <2>3 DEF TakesIn, LatestInv
  <2> QED
    BY <2>1, <2>4 DEF LatestInv, LatestInATable
<1>9. CASE LoopAge
  <2>1. lastAt' = lastAt /\ cb' = cb /\ torn' = torn
    BY <1>9 DEF LoopAge, seqVars
  <2>2. \A b \in Buf : tbl'[b] = IF b = loop.ptr THEN AgeEdges(tbl[b], loop.now, Me) ELSE tbl[b]
    BY <1>9, <1>a DEF LoopAge
  <2>3. \A b \in Buf : /\ DOMAIN tbl'[b] = DOMAIN tbl[b]
                       /\ \A r \in DOMAIN tbl[b] : tbl'[b][r].at = tbl[b][r].at
    BY <2>2, AgeTable DEF TypeOK
  <2> QED
    BY <2>1, <2>3 DEF LatestInv, LatestInATable
<1>10. CASE Route
  BY <1>10 DEF Route, seqVars, tableVars, LatestInv, LatestInATable
<1>11. CASE UpsertsCollide
  <2>1. cb \in Busy
    BY <1>11, <1>a DEF UpsertsCollide, Idle
  <2>2. PICK id \in {Me, cb.pkt.src}, e \in Mixed(OwnEntry, PacketEntry) :
          tbl' = [tbl EXCEPT ![cb.buf] = Upsert(@, id, e)]
    BY <1>11 DEF UpsertsCollide
  <2>3. id \in SlotIds
    BY <1>b, <1>c, <2>1, <2>2
  <2>4. \A b \in Buf : DOMAIN tbl'[b] \subseteq SlotIds
    <3>1. \A b \in Buf : tbl'[b] \in {tbl[b], Upsert(tbl[b], id, e)}
      BY <1>a, <2>2
    <3>2. \A b \in Buf : DOMAIN Upsert(tbl[b], id, e) \subseteq DOMAIN tbl[b] \cup {id}
      BY DEF Upsert
    <3>3. \A b \in Buf : DOMAIN tbl[b] \subseteq SlotIds
      BY DEF LatestInv
    <3> QED
      BY <2>3, <3>1, <3>2, <3>3
  <2>5. cb'.pkt = cb.pkt /\ lastAt' = lastAt /\ torn'
    BY <1>11, <2>1 DEF UpsertsCollide, Busy, seqVars
  <2> QED
    BY <2>1, <2>4, <2>5 DEF LatestInv, LatestInATable
<1>12. CASE AgeingCollides
  <2>1. cb \in Busy /\ cb.pc = "upsert"
    BY <1>12, <1>a DEF AgeingCollides, Idle
  <2> DEFINE s == cb.pkt.src
             u == AgeEdges(tbl[cb.buf], loop.now, Me)
  <2>2. PICK e \in Entry : e.at = cb.pkt.at /\ tbl' = [tbl EXCEPT ![cb.buf] = [u EXCEPT ![s] = e]]
    BY <1>12, AgeingCollided
  <2>3. /\ DOMAIN u = DOMAIN tbl[cb.buf]
        /\ \A n \in DOMAIN u : u[n].at = tbl[cb.buf][n].at
    <3>1. IsTable(tbl[cb.buf], Node)
      BY <1>c, <2>1 DEF TypeOK
    <3> QED
      BY <3>1, AgeTable
  <2>4. s \in DOMAIN u
    BY <1>12, <2>3 DEF AgeingCollides
  <2> HIDE DEF u
  <2>5. tbl'[cb.buf] = [u EXCEPT ![s] = e] /\ \A b \in Buf : b # cb.buf => tbl'[b] = tbl[b]
    BY <1>a, <1>c, <2>1, <2>2
  <2>6. \A b \in Buf : /\ DOMAIN tbl'[b] = DOMAIN tbl[b]
                       /\ \A r \in DOMAIN tbl[b] \ {s} : tbl'[b][r].at = tbl[b][r].at
    BY <2>3, <2>5
  <2>7. \A b \in Buf : DOMAIN tbl'[b] \subseteq SlotIds
    BY <2>6 DEF LatestInv
  <2>8. s \in DOMAIN tbl'[cb.buf] /\ tbl'[cb.buf][s].at = e.at
    BY <2>4, <2>5
  <2>9. e.at = lastAt[s]
    BY <2>1, <2>2 DEF LatestInv
  <2>10. ASSUME ~ torn, NEW r \in Remote, lastAt[r] # 0
         PROVE  \E b \in Buf : r \in DOMAIN tbl'[b] /\ tbl'[b][r].at = lastAt[r]
    BY <1>d, <2>1, <2>6, <2>8, <2>9, <2>10
  <2>11. cb'.pkt = cb.pkt /\ lastAt' = lastAt /\ torn' = torn
    BY <1>12, <2>1 DEF AgeingCollides, Busy, seqVars
  <2> QED
    BY <2>1, <2>7, <2>10, <2>11 DEF LatestInv, LatestInATable
<1>13. CASE Reboot
  <2>1. tbl' = BootTables /\ cb' = Idle /\ lastAt' = [r \in Remote |-> 0]
    BY <1>13 DEF Reboot
  <2>2. \A b \in Buf : DOMAIN tbl'[b] \subseteq SlotIds
    BY <2>1, BootTablesOK
  <2> QED
    BY <2>1, <2>2 DEF Idle, Busy, LatestInv, LatestInATable
<1>14. CASE UNCHANGED vars
  BY <1>14 DEF vars, seqVars, tableVars, LatestInv, LatestInATable
<1> QED
  BY <1>1, <1>2, <1>3, <1>4, <1>5, <1>6, <1>7, <1>8, <1>9, <1>10, <1>11, <1>12, <1>13,
     <1>14 DEF Next, Callback, Loop

\* An accepted packet is not lost unless two upserts meet in one slot: if the node's
\* own id is below MAX_NODES, as every id it accepts is, no table is ever full for a
\* node that has none of its slots, and the newest packet of each node is in one of the
\* two tables.
THEOREM LatestIsKept == Me < MaxNodes /\ Spec => []LatestInATable
<1> SUFFICES ASSUME Me < MaxNodes PROVE Spec => []LatestInATable
  OBVIOUS
<1>1. Init => LatestInv
  <2> SUFFICES ASSUME Init PROVE LatestInv
    OBVIOUS
  <2>1. tbl = BootTables /\ cb = Idle /\ lastAt = [r \in Remote |-> 0]
    BY DEF Init
  <2>2. \A b \in Buf : DOMAIN tbl[b] \subseteq SlotIds
    BY <2>1, BootTablesOK
  <2> QED
    BY <2>1, <2>2 DEF LatestInv, LatestInATable, Idle, Busy
<1>2. TypeOK /\ LatestInv /\ [Next]_vars => LatestInv'
  BY NextLatestInv
<1>3. LatestInv => LatestInATable
  BY DEF LatestInv
<1> QED
  BY TypeCorrect, <1>1, <1>2, <1>3, PTL DEF Spec
=============================================================================
