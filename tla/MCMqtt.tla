------------------------------- MODULE MCMqtt -------------------------------
(***************************************************************************)
(* The bridge, on a plan of two floors and messages of every kind, and the *)
(* injector.                                                               *)
(***************************************************************************)
EXTENDS Mqtt

(* A room between two exits below, two rooms above. *)

R(id, floor, x, z, exit, stairs) ==
    [id |-> id, floor |-> floor, x |-> x, z |-> z, width |-> 4, depth |-> 4,
     isExit |-> exit, isStairwell |-> stairs]
C(id, from, to, floor) ==
    [id |-> id, fromRoom |-> from, toRoom |-> to, floor |-> floor, junctionPoints |-> << >>]
F(index) == [index |-> index, elevation |-> 5 * index, width |-> 16, depth |-> 4]

MCGraph == PlaceNodes(
    [rooms     |-> << R("s0", 0, 4, 0, FALSE, TRUE), R("w", 0, 0, 0, TRUE, FALSE),
                      R("s1", 1, 4, 0, FALSE, TRUE), R("a", 1, 8, 0, FALSE, FALSE) >>,
     corridors |-> << C("c0", "s0", "w", 0), C("c1", "a", "s1", 1) >>,
     floors    |-> << F(0), F(1) >>])

H(node, temp, smoke, flame) ==
    [kind |-> "hazard", node |-> node, temp |-> temp, smoke |-> smoke, flame |-> flame]

\* Node 0 is calm, hot or burning, 3 calm, 2 and one that is not in the plan burning
\* but cool; faults of node 0 and of one that is not in the plan.
MCMessages ==
    {H(0, 25, 0, FALSE), H(0, 90, 700, FALSE), H(0, 90, 1200, TRUE), H(3, 25, 0, FALSE),
     H(2, 30, 100, TRUE), H(9, 30, 100, TRUE)} \cup
    {[kind |-> "status", node |-> n, fault |-> f] : n \in {0, 9}, f \in BOOLEAN} \cup
    {[kind |-> "garbage"], [kind |-> "misshapen"]}

MCInjections == { << <<"n", "s0">>, "sensor_failure" >>, << <<"n", "s0">>, "comm_failure" >>,
                  << <<"n", "a">>, "flashover" >>, << <<"n", "s1">>, "slow_smolder" >> }

\* Defaults and given values; a node whose range is empty; an edge without a length.
MCFiles == { [nodes |-> << [id |-> 2, T_baseline |-> 200, occupant_capacity |-> 1],
                           [id |-> 4, S_critical |-> 0] >>],
             [edges |-> << [from |-> 1, to |-> 2] >>] }

MCZones == {2, 9}
MCAges  == {0, 3, 60}
=============================================================================
