----------------------------- MODULE MCRouting -----------------------------
(***************************************************************************)
(* The default graph of main.cpp (init_default_graph) under every table    *)
(* with the entries below.                                                 *)
(***************************************************************************)
EXTENDS Routing

MCNode  == 1 .. 6
MCExits == {1, 4, 6}

E(a, b, d) == [from |-> a, to |-> b, base |-> d]

MCEdges == {E(1, 2, 10), E(2, 3, 12), E(3, 6, 10), E(2, 4, 14),
            E(4, 5, 10), E(5, 1, 10), E(5, 2, 8), E(3, 4, 6)}

\* Twice exp(2.2 T + 1.6 S) + 0.5 O: no entry; T = S = 0, O = 1; T = S = 1, O = 1.
MCFactor == [absent |-> 2, calm |-> 3, hot |-> 90]

\* The firmware's entries: none; at its critical temperature and smoke; burning,
\* the other readings still those of a calm node.
MCEntries == {[level |-> "absent", flame |-> FALSE, sighted |-> TRUE],
              [level |-> "hot", flame |-> FALSE, sighted |-> TRUE],
              [level |-> "calm", flame |-> TRUE, sighted |-> TRUE]}

\* The engine's: without hazard; burning; burning, its sensors having failed.
\* A node without hazard whose sensors have failed matters beside a burning one.
MCHazards == {[level |-> "calm", flame |-> FALSE, sighted |-> TRUE],
              [level |-> "calm", flame |-> FALSE, sighted |-> FALSE],
              [level |-> "hot", flame |-> TRUE, sighted |-> TRUE],
              [level |-> "hot", flame |-> TRUE, sighted |-> FALSE]}

MCTables == [firmware |-> [MCNode -> MCEntries],
             engine   |-> {t \in [MCNode -> MCHazards] : t[4] = t[6] /\ t[1].sighted}]

\* Every node of the graph and one that is not in it.
MCOwners == MCNode \cup {9}

=============================================================================
