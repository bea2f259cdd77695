------------------------------ MODULE TickLoop ------------------------------
(***************************************************************************)
(* The server of the digital twin (backend/main.py): the tick task that    *)
(* advances every building and broadcasts its snapshot, the WebSocket      *)
(* handlers, the REST handlers and the demo task.  They are coroutines of  *)
(* one event loop: a task runs until its next await, and between two of    *)
(* its awaits the others change what it iterates over.  The tick task      *)
(* awaits in each send and in its sleep; while it runs, no other coroutine *)
(* does.                                                                   *)
(*                                                                         *)
(* Of a building's SimState two things are kept: whether something was     *)
(* injected since it was reset (fire_origins, disabled_sensors or          *)
(* disabled_comms is not empty), which a snapshot shows, and whether the   *)
(* scenario it names is a string.  Twin has the rest of it.                *)
(***************************************************************************)
EXTENDS Integers, Sequences, FiniteSets, SequencesExt

CONSTANTS Building,      \* the ids of buildings that exist
          Unknown,       \* ids that clients ask for, but no building has
          Tall,          \* the buildings with sensors above the ground floor
          Client,        \* WebSocket clients
          Loose,         \* buildings whose clients may send a scenario that is no string
          MaxSnapshots,  \* MAX_SNAPSHOTS
          Stages         \* stages of the demo that inject something

ASSUME TickLoopAssumption ==
    /\ Tall \subseteq Building /\ Loose \subseteq Building /\ Unknown \cap Building = {}
    /\ IsFiniteSet(Building) /\ IsFiniteSet(Client)
    /\ MaxSnapshots \in Nat \ {0}
    /\ Stages \in Nat \ {0}

VARIABLES
    states,   \* the keys of _building_states, in the order of the dict
    sim,      \* SimState of each building: was anything injected?
    odd,      \* the buildings whose scenario is not a string
    store,    \* _buffer of each building's SnapshotStore
    conns,    \* _ws_connections
    client,   \* each client's socket, and the building it is for
    demo,     \* _demo_task while it is not done: its building, the stages left
    tick,     \* the tick task
    quiet     \* ghost: the building was reset and nobody asked for anything since

vars == <<states, sim, odd, store, conns, client, demo, tick, quiet>>

NoDemo == [building |-> "none", left |-> 0]
Out    == [socket |-> "out", building |-> "none"]
Asleep == [pc |-> "sleep", size |-> 0, pos |-> 0, idx |-> 0, ws |-> "none",
           snap |-> FALSE, dead |-> {}]

\* size and pos of its iterator over the dict, the index into the list, the
\* socket it sends to and the other locals.
TickState == [pc : {"sleep", "next", "bcast", "await", "dead"}, size : Nat, pos : Nat,
              idx : Nat, ws : Client \cup {"none"}, snap : BOOLEAN,
              dead : SUBSET Client]

\* The building the tick task is at, and the next client on its list.
At == states[tick.pos]
To == conns[At][tick.idx]

TypeOK ==
    /\ states \in Seq(Building)
    /\ IsInjective(states)
    /\ sim \in [Building -> BOOLEAN]
    /\ odd \subseteq Loose
    /\ DOMAIN store = Building
    /\ \A b \in Building : store[b] \in Seq(BOOLEAN) /\ Len(store[b]) <= MaxSnapshots
    /\ DOMAIN conns = Building \cup Unknown
    /\ \A b \in Building : conns[b] \in Seq(Client)
    /\ \A u \in Unknown : conns[u] \in Seq({"closed"})
    /\ client \in [Client -> [socket : {"open", "gone"}, building : Building] \cup {Out}]
    /\ demo \in [building : Tall, left : 1 .. Stages] \cup {NoDemo}
    /\ tick \in TickState
    /\ tick.size <= Cardinality(Building)
    /\ tick.idx <= Cardinality(Client) + 1
    /\ tick.pc \in {"bcast", "await"} => tick.pos \in DOMAIN states
    /\ quiet \in [Building -> BOOLEAN]

Init ==
    /\ states = << >>
    /\ sim = [b \in Building |-> FALSE]
    /\ odd = {}
    /\ store = [b \in Building |-> << >>]
    /\ conns = [b \in Building \cup Unknown |-> << >>]
    /\ client = [c \in Client |-> Out]
    /\ demo = NoDemo
    /\ tick = Asleep
    /\ quiet = [b \in Building |-> TRUE]

----------------------------------------------------------------------------
(* The tick task.                                                          *)

\* The sleep is over: a new iterator of the dict, which remembers its size.
TickWake ==
    /\ tick.pc = "sleep"
    /\ tick' = [Asleep EXCEPT !.pc = "next", !.size = Len(states)]
    /\ UNCHANGED <<states, sim, odd, store, conns, client, demo, quiet>>

\* The iterator finds a dict of another size: RuntimeError, which ends the task.
TickRaises ==
    /\ tick.pc = "next"
    /\ Len(states) # tick.size
    /\ tick' = [Asleep EXCEPT !.pc = "dead"]
    /\ UNCHANGED <<states, sim, odd, store, conns, client, demo, quiet>>

TickSleeps ==
    /\ tick.pc = "next"
    /\ Len(states) = tick.size
    /\ tick.pos = tick.size
    /\ tick' = Asleep
    /\ UNCHANGED <<states, sim, odd, store, conns, client, demo, quiet>>

\* Mutant: the buffer grows one beyond its limit.
PushedLoose(buffer, snap) ==
    IF Len(buffer) > MaxSnapshots THEN Append(Tail(buffer), snap) ELSE Append(buffer, snap)

\* SnapshotStore.push
Pushed(buffer, snap) ==
    IF Len(buffer) = MaxSnapshots THEN Append(Tail(buffer), snap) ELSE Append(buffer, snap)

\* tick_sim of the next building; its snapshot is stored, the broadcast begins.
TickSim ==
    /\ tick.pc = "next"
    /\ Len(states) = tick.size
    /\ tick.pos < tick.size
    /\ states[tick.pos + 1] \notin odd
    /\ LET b == states[tick.pos + 1]
       IN  /\ store' = [store EXCEPT ![b] = Pushed(@, sim[b])]
           /\ tick' = [tick EXCEPT !.pc = "bcast", !.pos = @ + 1, !.idx = 1,
                                   !.snap = sim[b], !.dead = {}]
    /\ UNCHANGED <<states, sim, odd, conns, client, demo, quiet>>

\* tick_sim of the next building cannot make its Snapshot, whose scenario is to be
\* a string: ValidationError, which ends the task.
TickSimRaises ==
    /\ tick.pc = "next"
    /\ Len(states) = tick.size
    /\ tick.pos < tick.size
    /\ states[tick.pos + 1] \in odd
    /\ tick' = [Asleep EXCEPT !.pc = "dead"]
    /\ UNCHANGED <<states, sim, odd, store, conns, client, demo, quiet>>

\* send_json hands the snapshot to a socket and awaits.
TickSends ==
    /\ tick.pc = "bcast"
    /\ tick.idx <= Len(conns[At])
    /\ tick' = [tick EXCEPT !.pc = "await", !.ws = To]
    /\ UNCHANGED <<states, sim, odd, store, conns, client, demo, quiet>>

\* The socket is known to be closed: send_json raises.
TickSendRaises ==
    /\ tick.pc = "bcast"
    /\ tick.idx <= Len(conns[At])
    /\ client[To].socket = "gone"
    /\ tick' = [tick EXCEPT !.idx = @ + 1, !.dead = @ \cup {To}]
    /\ UNCHANGED <<states, sim, odd, store, conns, client, demo, quiet>>

\* The socket is closed while the send waits: send_json raises.
TickAwaitRaises ==
    /\ tick.pc = "await"
    /\ client[tick.ws].socket # "open"
    /\ tick' = [tick EXCEPT !.pc = "bcast", !.idx = @ + 1, !.ws = "none",
                            !.dead = @ \cup {tick.ws}]
    /\ UNCHANGED <<states, sim, odd, store, conns, client, demo, quiet>>

\* Mutant: the same index again.
TickResumesInPlace ==
    /\ tick.pc = "await"
    /\ tick' = [tick EXCEPT !.pc = "bcast", !.ws = "none"]
    /\ UNCHANGED <<states, sim, odd, store, conns, client, demo, quiet>>

\* The send is over: the iteration goes on at the next index of the list,
\* whatever was done to the list meanwhile.
TickResumes ==
    /\ tick.pc = "await"
    /\ tick' = [tick EXCEPT !.pc = "bcast", !.idx = @ + 1, !.ws = "none"]
    /\ UNCHANGED <<states, sim, odd, store, conns, client, demo, quiet>>

\* What list.remove of every element of D leaves of a list.
Without(list, D) ==
    LET left[i \in 0 .. Len(list)] ==
            IF i = 0 THEN << >>
            ELSE IF list[i] \in D THEN left[i - 1] ELSE Append(left[i - 1], list[i])
    IN  left[Len(list)]

\* Mutant: one dead socket empties the list.
TickReapsAll ==
    /\ tick.pc = "bcast"
    /\ tick.idx > Len(conns[At])
    /\ conns' = [conns EXCEPT ![At] = IF tick.dead = {} THEN @ ELSE << >>]
    /\ tick' = [tick EXCEPT !.pc = "next", !.idx = 0, !.snap = FALSE, !.dead = {}]
    /\ UNCHANGED <<states, sim, odd, store, client, demo, quiet>>

\* The list is through: dead sockets that are still in it are removed.
TickReaps ==
    /\ tick.pc = "bcast"
    /\ tick.idx > Len(conns[At])
    /\ conns' = [conns EXCEPT ![At] = Without(@, tick.dead)]
    /\ tick' = [tick EXCEPT !.pc = "next", !.idx = 0, !.snap = FALSE, !.dead = {}]
    /\ UNCHANGED <<states, sim, odd, store, client, demo, quiet>>

----------------------------------------------------------------------------
(* The handlers.                                                           *)

\* Another coroutine runs: the tick task awaits something, or is no more.
Yielded == tick.pc \in {"sleep", "await", "dead"}

\* _get_state: a building that was never asked for gets a new SimState.
GetState(b) ==
    states' = IF b \in ToSet(states) THEN states ELSE Append(states, b)

\* inject_hazard by POST /api/inject; the demo, of whatever building, is over.
Inject(b) ==
    /\ Yielded
    /\ GetState(b)
    /\ sim' = [sim EXCEPT ![b] = TRUE]
    /\ odd' = odd \ {b}
    /\ quiet' = [quiet EXCEPT ![b] = FALSE]
    /\ demo' = NoDemo
    /\ UNCHANGED <<store, conns, client, tick>>

\* Mutant: the demo goes on.
ResetKeepsDemo(b) ==
    /\ Yielded
    /\ GetState(b)
    /\ sim' = [sim EXCEPT ![b] = FALSE]
    /\ odd' = odd \ {b}
    /\ store' = [store EXCEPT ![b] = << >>]
    /\ quiet' = [quiet EXCEPT ![b] = TRUE]
    /\ UNCHANGED <<conns, client, tick, demo>>

\* POST /api/reset
Reset(b) ==
    /\ Yielded
    /\ GetState(b)
    /\ sim' = [sim EXCEPT ![b] = FALSE]
    /\ odd' = odd \ {b}
    /\ store' = [store EXCEPT ![b] = << >>]
    /\ quiet' = [quiet EXCEPT ![b] = TRUE]
    /\ demo' = NoDemo
    /\ UNCHANGED <<conns, client, tick>>

\* POST /api/demo: a reset, and a new demo in the place of the one that runs.
\* (Without sensors above the ground the demo injects nothing.)
RunDemo(b) ==
    /\ Yielded
    /\ GetState(b)
    /\ sim' = [sim EXCEPT ![b] = FALSE]
    /\ odd' = odd \ {b}
    /\ store' = [store EXCEPT ![b] = << >>]
    /\ quiet' = [quiet EXCEPT ![b] = b \notin Tall]
    /\ demo' = IF b \in Tall THEN [building |-> b, left |-> Stages] ELSE NoDemo
    /\ UNCHANGED <<conns, client, tick>>

\* _auto_demo reaches its next stage.
DemoStage ==
    /\ Yielded
    /\ demo # NoDemo
    /\ sim' = [sim EXCEPT ![demo.building] = TRUE]
    /\ odd' = odd \ {demo.building}
    /\ demo' = IF demo.left = 1 THEN NoDemo ELSE [demo EXCEPT !.left = @ - 1]
    /\ UNCHANGED <<states, store, conns, client, tick, quiet>>

\* Mutant: a new connection goes to the front of the list.
ConnectInFront(c, b) ==
    /\ Yielded
    /\ client[c] = Out
    /\ c \notin tick.dead \cup {tick.ws}
    /\ GetState(b)
    /\ conns' = [conns EXCEPT ![b] = <<c>> \o @]
    /\ client' = [client EXCEPT ![c] = [socket |-> "open", building |-> b]]
    /\ UNCHANGED <<sim, odd, store, demo, tick, quiet>>

\* ws_events up to its loop: the socket is listed, and is sent the latest
\* snapshot.  A client comes back with a new socket, which no task knows yet.
Connect(c, b) ==
    /\ Yielded
    /\ client[c] = Out
    /\ c \notin tick.dead \cup {tick.ws}
    /\ GetState(b)
    /\ conns' = [conns EXCEPT ![b] = Append(@, c)]
    /\ client' = [client EXCEPT ![c] = [socket |-> "open", building |-> b]]
    /\ UNCHANGED <<sim, odd, store, demo, tick, quiet>>

\* ws_events for a building that does not exist: the socket is listed before
\* _get_state raises, outside of the try; it is closed and stays on the list.
\* (Bound: one such socket an id; whose it was, nothing depends on.)
ConnectUnknown(u) ==
    /\ Yielded
    /\ conns[u] = << >>
    /\ conns' = [conns EXCEPT ![u] = Append(@, "closed")]
    /\ UNCHANGED <<states, sim, odd, store, client, demo, tick, quiet>>

\* inject_hazard keeps the scenario it is given, a string or not.  (Bound: Loose.)
Named(b) == {odd \ {b}, odd \cup ({b} \cap Loose)}

\* A message over the socket injects; the demo goes on.  No type is asked of its
\* scenario (POST /api/inject asks for a string).
Message(c) ==
    /\ Yielded
    /\ client[c].socket = "open"
    /\ sim' = [sim EXCEPT ![client[c].building] = TRUE]
    /\ odd' \in Named(client[c].building)
    /\ quiet' = [quiet EXCEPT ![client[c].building] = FALSE]
    /\ UNCHANGED <<states, store, conns, client, demo, tick>>

\* A message with inject but without its nodeId or scenario: KeyError, which nobody
\* catches; or with a nodeId that cannot be hashed: TypeError, when the scenario is
\* kept already.  The socket is taken off the list and closed.
Misfit(c) ==
    /\ Yielded
    /\ client[c].socket = "open"
    /\ odd' \in {odd} \cup Named(client[c].building)
    /\ conns' = [conns EXCEPT ![client[c].building] = Without(@, {c})]
    /\ client' = [client EXCEPT ![c] = Out]
    /\ UNCHANGED <<states, sim, store, demo, tick, quiet>>

\* The client closes the socket, or the connection is lost.
Leave(c) ==
    /\ client[c].socket = "open"
    /\ client' = [client EXCEPT ![c].socket = "gone"]
    /\ UNCHANGED <<states, sim, odd, store, conns, demo, tick, quiet>>

\* The end of ws_events: the handler wakes up to a closed socket and takes it
\* off the list, unless the tick task already did.
HandlerEnds(c) ==
    /\ Yielded
    /\ client[c].socket = "gone"
    /\ conns' = [conns EXCEPT ![client[c].building] = Without(@, {c})]
    /\ client' = [client EXCEPT ![c] = Out]
    /\ UNCHANGED <<states, sim, odd, store, demo, tick, quiet>>

\* The process ends and starts again (lifespan): both tasks are cancelled, all that
\* is known is in memory, a new tick task begins.
Restart ==
    /\ states' = << >>
    /\ sim' = [b \in Building |-> FALSE]
    /\ odd' = {}
    /\ store' = [b \in Building |-> << >>]
    /\ conns' = [b \in Building \cup Unknown |-> << >>]
    /\ client' = [c \in Client |-> Out]
    /\ demo' = NoDemo
    /\ tick' = Asleep
    /\ quiet' = [b \in Building |-> TRUE]

\* GET /api/replay up to now: what is in the buffer.
Replay(b) == ToSet(store[b])

\* GET /api/health
Health == [buildings      |-> Len(states),
           ws_connections |-> MapThenSumSet(LAMBDA b : Len(conns[b]), DOMAIN conns),
           tick_running   |-> tick.pc # "dead"]

----------------------------------------------------------------------------
Tick == \/ TickWake \/ TickRaises \/ TickSleeps \/ TickSim \/ TickSimRaises
        \/ TickSends \/ TickSendRaises \/ TickAwaitRaises \/ TickResumes \/ TickReaps

Next ==
    \/ Tick
    \/ \E b \in Building : Inject(b) \/ Reset(b) \/ RunDemo(b)
    \/ DemoStage
    \/ \E c \in Client : \E b \in Building : Connect(c, b)
    \/ \E u \in Unknown : ConnectUnknown(u)
    \/ \E c \in Client : Message(c) \/ Misfit(c) \/ Leave(c) \/ HandlerEnds(c)
    \/ Restart

Spec == Init /\ [][Next]_vars

\* The event loop resumes a task whose await is over.  A send is over at the
\* latest when the server's ping to the client times out.
FairSpec == Spec /\ WF_vars(Tick) /\ \A c \in Client : WF_vars(HandlerEnds(c))

----------------------------------------------------------------------------
(* Properties.                                                             *)

\* After a reset a building is calm, and so is what replay finds of it, until
\* somebody injects again: neither a demo that was under way nor a broadcast
\* that was under way brings the past back.
ResetIsFinal ==
    \A b \in Building :
        quiet[b] => ~ sim[b] /\ TRUE \notin Replay(b)

\* A client whose socket is open is on the list of its building, once, and on
\* no other: however its neighbours come and go during a broadcast, or are thrown out
\* for what they said, it is not thrown out with them.
OpenIsListed ==
    \A c \in Client : \A b \in Building :
        LET places == {i \in DOMAIN conns[b] : conns[b][i] = c}
            mine   == client[c].building = b
        IN  /\ places # {} => mine /\ Cardinality(places) = 1
            /\ client[c].socket = "open" /\ mine => places # {}

\* The tick task outlives whatever the handlers do (docs/backend.md: it
\* "iterates all buildings every 200ms").
TickSurvives == Health.tick_running

\* While the tick task lives, every building that was asked for since the start is
\* advanced again and again, whoever comes and goes during the broadcasts.
BuildingsAdvance ==
    \A b \in Building :
        [](b \in ToSet(states) =>
               <>(\/ tick.pc = "dead" \/ b \notin ToSet(states)
                  \/ tick.pc = "bcast" /\ At = b))

\* While the tick task lives, a client that stays is served again and again,
\* although the task skips a socket when an earlier one leaves the list during
\* the broadcast.
ClientsAreServed ==
    \A c \in Client :
        []<>(tick.pc = "dead" \/ client[c].socket # "open" \/ tick.ws = c)
=============================================================================
