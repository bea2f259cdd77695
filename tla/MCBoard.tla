------------------------------ MODULE MCBoard ------------------------------
(***************************************************************************)
(* Node 2 of the default graph of main.cpp with its distances multiplied   *)
(* by Stretch, so that a hot node's ways out cost about as much as         *)
(* sheltering (in the graph as it is no cost that is not a flame's comes   *)
(* near a limit).  The answers are those of the cheapest ways out, which   *)
(* the routing run shows routing_compute to give.  A thermometer and a     *)
(* flame sensor, with a ring of three and an idx that wraps at eight, not  *)
(* a multiple of three, as 256 is none of ten.                             *)
(***************************************************************************)
EXTENDS Board, TLC

Stretch     == 150
MCRemote    == {1, 3, 4}
MCThreshold == 200000

\* The ways out of node 2 that cross no exit: first edge, the rest, the nodes.
Ways == {[hop |-> 1, first |-> 10, rest |-> 0,  nodes |-> {1}],
         [hop |-> 4, first |-> 14, rest |-> 0,  nodes |-> {4}],
         [hop |-> 3, first |-> 12, rest |-> 10, nodes |-> {3, 6}],
         [hop |-> 3, first |-> 12, rest |-> 6,  nodes |-> {3, 4}],
         [hop |-> 5, first |-> 8,  rest |-> 10, nodes |-> {5, 1}],
         [hop |-> 5, first |-> 8,  rest |-> 10, nodes |-> {5, 4}]}

\* What a unit of distance costs out of node 2, and out of any other.
Levels == {3, 90}
Calm   == 3

Shelter == [next_hop |-> 0, cost |-> MCThreshold, shelter |-> TRUE]

Answer(level, burning) ==
    LET cost(w)  == Stretch * (level * w.first + Calm * w.rest)
        open     == {w \in Ways : w.nodes \cap burning = {}}
        cheapest == {w \in open : \A o \in open : cost(w) <= cost(o)}
    IN  IF \A w \in open : cost(w) >= MCThreshold THEN {Shelter}
        ELSE {[next_hop |-> w.hop, cost |-> cost(w), shelter |-> FALSE] : w \in cheapest}

MCRouted ==
    [v \in SUBSET MCRemote |-> UNION {Answer(level, v) : level \in Levels}]

MCReadings == "temp" :> {0, 1} @@ "flame" :> {0, 1}
=============================================================================
