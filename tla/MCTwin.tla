------------------------------- MODULE MCTwin -------------------------------
(***************************************************************************)
(* Two versions of a plan.  Mall: an exit and a stairwell below, a wing    *)
(* with two sensors above, reached over a corridor with two waypoints.     *)
(* Annex: the upper floor is narrower, the stairs do not meet, one         *)
(* corridor has one waypoint, one names a room that is not there.  Ward is *)
(* Mall with more rooms than the demo has failures.                        *)
(***************************************************************************)
EXTENDS Twin

R(id, floor, x, z) == [id |-> id, floor |-> floor, x |-> x, z |-> z, width |-> 4, depth |-> 4,
                       isExit |-> FALSE, isStairwell |-> FALSE]
Exit(r)  == [r EXCEPT !.isExit = TRUE]
Stair(r) == [r EXCEPT !.isStairwell = TRUE]
C(id, from, to, floor, points) ==
    [id |-> id, fromRoom |-> from, toRoom |-> to, floor |-> floor, junctionPoints |-> points]
P(x, y, z) == [x |-> x, y |-> y, z |-> z]
F(index, width, depth) ==
    [index |-> index, elevation |-> 5 * index, width |-> width, depth |-> depth]

Mall ==
    [rooms     |-> << Exit(R("out", 0, 0, 0)), Stair(R("s0", 0, 16, 0)),
                      Stair(R("s1", 1, 16, 1)), R("a", 1, 0, 0), R("b", 1, 8, 6) >>,
     corridors |-> << C("c0", "out", "s0", 0, << >>),
                      C("c1", "s1", "a", 1, << P(12, 5, 2), P(8, 5, 2) >>),
                      C("c2", "b", "s1", 1, << >>) >>,
     floors    |-> << F(0, 20, 10), F(1, 20, 10) >>]

Annex ==
    [rooms     |-> << Exit(R("out", 0, 0, 0)), Stair(R("s0", 0, 16, 0)),
                      Stair(R("s1", 1, 8, 0)), R("a", 1, 0, 0) >>,
     corridors |-> << C("c0", "out", "s0", 0, << P(8, 0, 2) >>),
                      C("c1", "s1", "a", 1, << >>),
                      C("c2", "a", "z", 1, << P(4, 5, 6) >>) >>,
     floors    |-> << F(0, 20, 10), F(1, 12, 10) >>]

MCDefs == {Mall, Annex}

\* Four sensors upstairs.
Ward == [Mall EXCEPT !.rooms = @ \o << R("c", 1, 4, 6), R("d", 1, 12, 6) >>]

MCWard == {Ward}

\* A fire upstairs, one below, failures, and a node that is in neither plan.
MCInjections == { << <<"n", "a">>, "flashover" >>, << <<"n", "s0">>, "flashover" >>,
                  << <<"n", "a">>, "sensor_failure" >>, << <<"n", "x">>, "slow_smolder" >> }
=============================================================================
