---------------------------- MODULE MCNodeTables ----------------------------
(***************************************************************************)
(* Node 2 of the default graph and two of its neighbours.  Node 1 sends    *)
(* often enough for its sequence numbers to wrap, node 3 once: enough for  *)
(* its packet to fall between any two of node 1.                           *)
(***************************************************************************)
EXTENDS NodeTables, TLC

MCRemote == {1, 3}
MCMaxAt  == 1 :> 6 @@ 3 :> 2
=============================================================================
