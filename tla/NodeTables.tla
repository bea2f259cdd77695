----------------------------- MODULE NodeTables -----------------------------
(***************************************************************************)
(* One evacuation node (firmware/src/main.cpp) and the packets other nodes *)
(* send it.  The node runs two threads on two cores: the ESP-NOW receive   *)
(* callback (on_data_recv, on_packet_received) and loop().  They share two *)
(* link-state tables: the callback writes the inactive one and then makes  *)
(* it active; loop() takes the active pointer once per table operation and *)
(* works on the table behind it.  There is no lock.  Two packets within    *)
(* one operation of loop() put both threads on one table; an overlap of    *)
(* their operations that is no sequence of them is an action of its own.   *)
(* The flag table_updated is left out: loop() sets triggered = true before *)
(* it looks at the flag, so every iteration recomputes the route whatever  *)
(* the flag says.                                                          *)
(*                                                                         *)
(* The other nodes broadcast at will, reboot (their counter restarts at 0) *)
(* and their packets may be lost, duplicated, delayed, overtaken and       *)
(* damaged.  A packet in flight is younger than Lifetime sequence numbers  *)
(* of its source, and a rebooting node is silent (setup waits 1 s) for     *)
(* longer than a packet is in flight.                                      *)
(***************************************************************************)
EXTENDS LinkState, SeqNum

CONSTANTS Me,        \* MY_NODE_ID
          Remote,    \* the ids of the other nodes
          Lit,       \* those of them whose flame sensor may see a flame
          Lifetime,  \* sequence numbers a source uses while a packet is in flight
          Start,     \* where the counters of the others may be when Me boots first
          MaxAt,     \* bound of the model on the numbers each source uses
          MaxTime    \* bound of the model on the clock

ASSUME NodeTablesAssumption ==
    /\ Me \in Nat
    /\ Remote \subseteq Nat
    /\ Lit \subseteq Remote
    /\ Me \notin Remote
    /\ Lifetime \in 1 .. Half
    /\ Start \subseteq Seqs
    /\ MaxAt \in [Remote -> Nat]
    /\ MaxTime \in Nat
    /\ MaxTime < TimeMod

VARIABLES
    clock,          \* millis()
    at,             \* ghost: numbers each source has used since the first boot
    bootAt,         \* ghost: at[r] when r last booted
    counter,        \* seq_num_next's counter of each source
    net,            \* packets in flight
    last_seq,       \* last_seq[], for the other nodes
    lastAt,         \* ghost: at of the packet accepted last from each node
    tbl,            \* link_state_buffer_a and link_state_buffer_b
    active,         \* active_table
    published,      \* ghost: what the active table was last swapped in for
    torn,           \* ghost: since the boot two upserts have taken one free slot
    cb,             \* the callback: where it is, its packet and write_buf
    loop,           \* setup() and loop(): where they are, their now and table pointer
    routed          \* ghost: publications the last routing_compute read

netVars    == <<at, bootAt, counter, net>>
seqVars    == <<last_seq, lastAt>>
tableVars  == <<tbl, active, published, torn>>
vars == <<clock, netVars, seqVars, tableVars, cb, loop, routed>>

Buf  == {"A", "B"}
Node == Remote \cup {Me}

Packet == [src : Remote, seq : Seqs, at : Nat, flame : BOOLEAN]

\* What the radio hands over for packet p: p itself, or p damaged on the way.
Receptions(p) == {[pkt |-> p, flame |-> p.flame,  crcOk |-> TRUE],
                  [pkt |-> p, flame |-> ~p.flame, crcOk |-> FALSE]}

LoopState == [pc : {"boot", "setup", "begin", "own", "age", "route"},
              now : 0 .. MaxTime, ptr : Buf]

Idle == [pc |-> "idle"]
Busy == [pc : {"upsert", "swap"}, pkt : Packet, flame : BOOLEAN, buf : Buf]

TypeOK ==
    /\ clock \in 0 .. MaxTime
    /\ at \in [Remote -> Nat]
    /\ bootAt \in [Remote -> Nat]
    /\ counter \in [Remote -> Seqs]
    /\ net \in SUBSET Packet
    /\ last_seq \in [Remote -> Seqs]
    /\ lastAt \in [Remote -> Nat]
    /\ DOMAIN tbl = Buf
    /\ \A b \in Buf : IsTable(tbl[b], Node)
    /\ active \in Buf
    /\ published \in [src : Node, at : Nat]
    /\ torn \in BOOLEAN
    /\ cb \in {Idle} \cup Busy
    /\ loop \in LoopState
    /\ routed \in [Remote -> Nat]

----------------------------------------------------------------------------
\* setup() up to comms_init, which lets packets in before the own entry is in a
\* table: two empty tables, the first is active.
BootTables == [b \in Buf |-> EmptyTable]

\* A thread that holds no time and no table.
Holding(pc) == [pc |-> pc, now |-> 0, ptr |-> "A"]

Init ==
    /\ clock = 0
    /\ at = [r \in Remote |-> 0]
    /\ bootAt = [r \in Remote |-> 0]
    /\ counter \in [Remote -> Start]
    /\ net = {}
    /\ last_seq = [r \in Remote |-> 0]
    /\ lastAt = [r \in Remote |-> 0]
    /\ tbl = BootTables
    /\ active = "A"
    /\ published = [src |-> Me, at |-> 0]
    /\ torn = FALSE
    /\ cb = Idle
    /\ loop = Holding("boot")
    /\ routed = [r \in Remote |-> 0]

----------------------------------------------------------------------------
(* The other nodes and the time.                                           *)

\* loop() of node r as the mesh sees it: the own-entry upsert takes one number,
\* the broadcast the next one.  Packets that got too old are gone.
RemoteLoop(r, flame) ==
    /\ flame => r \in Lit
    /\ at[r] + 2 <= MaxAt[r]
    /\ at' = [at EXCEPT ![r] = @ + 2]
    /\ counter' = [counter EXCEPT ![r] = SeqNext(SeqNext(@))]
    /\ net' = {p \in net : p.src = r => at[r] + 2 - p.at < Lifetime}
              \cup {[src |-> r, seq |-> SeqNext(counter[r]), at |-> at[r] + 2,
                     flame |-> flame]}
    /\ UNCHANGED <<clock, bootAt, seqVars, tableVars, cb, loop, routed>>

\* Node r restarts: seq_num_next's static counter is 0 again.  (With no number left
\* under the bound a restart would only lose packets.)
RemoteReboot(r) ==
    /\ at[r] > bootAt[r]
    /\ at[r] + 2 <= MaxAt[r]
    /\ bootAt' = [bootAt EXCEPT ![r] = at[r]]
    /\ counter' = [counter EXCEPT ![r] = 0]
    /\ net' = {p \in net : p.src # r}
    /\ UNCHANGED <<clock, at, seqVars, tableVars, cb, loop, routed>>

Tick ==
    /\ clock < MaxTime
    /\ clock' = clock + 1
    /\ UNCHANGED <<netVars, seqVars, tableVars, cb, loop, routed>>

----------------------------------------------------------------------------
(* The receive callback.                                                   *)

Other(b) == IF b = "A" THEN "B" ELSE "A"

\* on_packet_received: the table that is not active.
WriteBuf(b) == Other(b)

\* The guards of on_data_recv and seq_num_accept.  Every sender uses
\* DEFAULT_TTL and no node forwards, so a packet never arrives with ttl 0.
Accepts(d) ==
    /\ d.crcOk
    /\ d.pkt.src < MaxNodes
    /\ Newer(d.pkt.seq, last_seq[d.pkt.src])

\* on_data_recv and on_packet_received up to the upsert: the inactive table is
\* picked, the number is remembered.  A packet that is not accepted changes
\* nothing.  The packet stays in flight: it may be delivered again.
PacketAccepted(d) ==
    /\ cb = Idle
    /\ Accepts(d)
    /\ last_seq' = [last_seq EXCEPT ![d.pkt.src] = d.pkt.seq]
    /\ lastAt' = [lastAt EXCEPT ![d.pkt.src] = d.pkt.at]
    /\ cb' = [pc |-> "upsert", pkt |-> d.pkt, flame |-> d.flame,
              buf |-> WriteBuf(active)]
    /\ UNCHANGED <<clock, netVars, tableVars, loop, routed>>

\* The entry of the packet in hand, stamped millis().
PacketEntry == Fresh(cb.pkt.at, clock, cb.flame, cb.pkt.flame)

\* link_state_upsert of the packet into the table that was inactive.
CallbackUpsert ==
    /\ cb.pc = "upsert"
    /\ tbl' = [tbl EXCEPT ![cb.buf] = Upsert(@, cb.pkt.src, PacketEntry)]
    /\ cb' = [cb EXCEPT !.pc = "swap"]
    /\ UNCHANGED <<clock, netVars, seqVars, active, published, torn, loop, routed>>

CallbackSwap ==
    /\ cb.pc = "swap"
    /\ active' = cb.buf
    /\ published' = [src |-> cb.pkt.src, at |-> cb.pkt.at]
    /\ cb' = Idle
    /\ UNCHANGED <<clock, netVars, seqVars, tbl, torn, loop, routed>>

----------------------------------------------------------------------------
(* The end of setup(), and loop().  Each step ends by taking the active    *)
(* pointer for the next one.                                               *)

\* The clock is read, then the sensors.  What they say matters to the other
\* nodes only (RemoteLoop is the same code at another node) and is left out.
LoopBegin ==
    /\ loop.pc \in {"boot", "begin"}
    /\ loop' = [pc |-> IF loop.pc = "boot" THEN "setup" ELSE "own", now |-> clock,
                ptr |-> active]
    /\ UNCHANGED <<clock, netVars, seqVars, tableVars, cb, routed>>

OwnEntry == Fresh(0, loop.now, FALSE, FALSE)

\* setup() is over, or loop() goes on to the ageing.
AfterOwn ==
    IF loop.pc = "setup" THEN Holding("begin") ELSE [loop EXCEPT !.pc = "age", !.ptr = active]

\* The own entry is upserted; the broadcast that follows in loop() touches no table.
OwnUpsert ==
    /\ loop.pc \in {"setup", "own"}
    /\ tbl' = [tbl EXCEPT ![loop.ptr] = Upsert(@, Me, OwnEntry)]
    /\ loop' = AfterOwn
    /\ UNCHANGED <<clock, netVars, seqVars, active, published, torn, cb, routed>>

\* link_state_age_edges on the active table, with the now of the loop's start,
\* which is forgotten then.
LoopAge ==
    /\ loop.pc = "age"
    /\ tbl' = [tbl EXCEPT ![loop.ptr] = AgeEdges(@, loop.now, Me)]
    /\ loop' = [loop EXCEPT !.pc = "route", !.now = 0, !.ptr = active]
    /\ UNCHANGED <<clock, netVars, seqVars, active, published, torn, cb, routed>>

\* The publications a routing_compute over table t uses.
Reads(t) == [r \in Remote |-> IF r \in DOMAIN t THEN t[r].at ELSE 0]

\* Mutant: routing reads the table the callback writes.
RouteInactive ==
    /\ loop.pc = "route"
    /\ routed' = Reads(tbl[Other(loop.ptr)])
    /\ loop' = Holding("begin")
    /\ UNCHANGED <<clock, netVars, seqVars, tableVars, cb>>

\* routing_compute and the rest of the iteration.  loop' forgets what the next
\* iteration overwrites.
Route ==
    /\ loop.pc = "route"
    /\ routed' = Reads(tbl[loop.ptr])
    /\ loop' = Holding("begin")
    /\ UNCHANGED <<clock, netVars, seqVars, tableVars, cb>>

----------------------------------------------------------------------------
(* Both threads inside one table.  Their operations touch different slots  *)
(* or leave what one order of them leaves, but for two cases.              *)

\* What two upserts into one slot may leave: of each field, either's value.
Mixed(e, f) ==
    {[at |-> x.at, upd |-> y.upd, flame |-> z.flame, sensed |-> x.sensed, aged |-> 0] :
        x, y, z \in {e, f}}

\* Both ids are new, and both upserts read the same tbl->count: one slot gets
\* two entries and either's id.  (The count may still rise by two; the slot that
\* is skipped has no data, nothing reads it, and it is left out.)
UpsertsCollide ==
    /\ cb.pc = "upsert"
    /\ loop.pc \in {"setup", "own"}
    /\ loop.ptr = cb.buf
    /\ {Me, cb.pkt.src} \cap DOMAIN tbl[cb.buf] = {}
    /\ Cardinality(DOMAIN tbl[cb.buf]) < MaxNodes
    /\ \E id \in {Me, cb.pkt.src}, e \in Mixed(OwnEntry, PacketEntry) :
         tbl' = [tbl EXCEPT ![cb.buf] = Upsert(@, id, e)]
    /\ torn' = TRUE
    /\ cb' = [cb EXCEPT !.pc = "swap"]
    /\ loop' = AfterOwn
    /\ UNCHANGED <<clock, netVars, seqVars, active, published, routed>>

\* The ageing reads the time and the cost of the packet's node each before or
\* after the callback writes it, and writes the cost last.
AgeingCollides ==
    /\ cb.pc = "upsert"
    /\ loop.pc = "age"
    /\ loop.ptr = cb.buf
    /\ cb.pkt.src \in DOMAIN tbl[cb.buf]
    /\ LET old == tbl[cb.buf][cb.pkt.src] IN
       \E base \in {old, PacketEntry}, upd \in {old.upd, clock} :
         /\ Elapsed(loop.now, upd) > Stale
         /\ tbl' = [tbl EXCEPT ![cb.buf] =
                       [AgeEdges(@, loop.now, Me) EXCEPT ![cb.pkt.src] =
                           [PacketEntry EXCEPT !.aged =
                               AgeEntry([base EXCEPT !.upd = upd], loop.now).aged]]]
    /\ cb' = [cb EXCEPT !.pc = "swap"]
    /\ loop' = [loop EXCEPT !.pc = "route", !.now = 0, !.ptr = active]
    /\ UNCHANGED <<clock, netVars, seqVars, active, published, torn, routed>>

\* The node loses power and runs setup() again.
Reboot ==
    /\ last_seq' = [r \in Remote |-> 0]
    /\ lastAt' = [r \in Remote |-> 0]
    /\ net' = {}
    /\ tbl' = BootTables
    /\ active' = "A"
    /\ published' = [src |-> Me, at |-> 0]
    /\ torn' = FALSE
    /\ cb' = Idle
    /\ loop' = Holding("boot")
    /\ routed' = [r \in Remote |-> 0]
    /\ UNCHANGED <<clock, at, bootAt, counter>>

----------------------------------------------------------------------------
Callback == CallbackUpsert \/ CallbackSwap

Loop == LoopBegin \/ OwnUpsert \/ LoopAge \/ Route

Next ==
    \/ \E r \in Remote, flame \in BOOLEAN : RemoteLoop(r, flame)
    \/ \E r \in Remote : RemoteReboot(r)
    \/ Tick
    \/ \E p \in net : \E d \in Receptions(p) : PacketAccepted(d)
    \/ Callback
    \/ Loop
    \/ UpsertsCollide
    \/ AgeingCollides
    \/ Reboot

Spec == Init /\ [][Next]_vars

\* Both threads keep running: FreeRTOS schedules loop() on its core for ever
\* and a callback that started returns.  Nothing is assumed of the radio.
FairSpec == Spec /\ WF_vars(Loop) /\ WF_vars(Callback)

----------------------------------------------------------------------------
(* Properties.                                                             *)

\* The two threads never work on one table at the same time: while loop() is
\* inside an operation on a table, the callback does not write that table.
\* (docs/firmware.md: the main loop reads the active table and the callback
\* writes to the opposite buffer, which eliminates the need for mutexes.)
NoSharedTable ==
    cb.pc = "upsert" /\ loop.pc \in {"own", "age", "route"} => loop.ptr # cb.buf

\* Unless two upserts have met in one slot since the boot, a remote node is
\* taken to be burning only if its own flame sensor said so in the packet the
\* entry holds: neither ageing, nor a damaged packet, nor the mixing of the two
\* tables invents or hides a flame.
FlameIsSensed ==
    torn \/ \A b \in Buf : \A n \in DOMAIN tbl[b] : tbl[b][n].flame = tbl[b][n].sensed

\* Unless two upserts have met in one slot since the boot, an accepted packet is
\* not lost: the newest one of each node is in one of the two tables as soon as
\* the callback has written it.
LatestInATable ==
    torn \/ \A r \in Remote :
        \/ lastAt[r] = 0
        \/ cb.pc = "upsert" /\ cb.pkt.src = r
        \/ \E b \in Buf : r \in DOMAIN tbl[b] /\ tbl[b][r].at = lastAt[r]

\* Once the tables are swapped no more, the routes come to rest on the packet
\* they were last swapped for (unless two upserts have met in one slot).
PublishedIsRouted ==
    <>[][published' = published]_vars
        => <>[](torn \/ published.src = Me \/ routed[published.src] = published.at)

\* What the node knows of another node does not disappear from the table it
\* reads while it runs.
EntriesPersist ==
    [][Reboot \/ DOMAIN tbl[active] \cap Remote \subseteq DOMAIN tbl'[active']]_vars

\* The ageing of an entry means that its node has been silent for longer than
\* STALE_TIMEOUT_MS.
AgedOnlyWhenStale ==
    [][\A b \in Buf : \A r \in DOMAIN tbl[b] \cap DOMAIN tbl'[b] :
           tbl'[b][r].aged > tbl[b][r].aged => clock - tbl[b][r].upd > Stale]_vars

\* The node's two tables are two views of the mesh.  Neither ever goes back to an
\* older state of a node, what it learns is newer than what either holds, and a
\* route rests on one of them as a whole.
D == INSTANCE Dissemination WITH
        View <- Buf, view <- [b \in Buf |-> Reads(tbl[b])], bound <- MaxAt

Disseminates == D!Spec
=============================================================================
