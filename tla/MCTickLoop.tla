---------------------------- MODULE MCTickLoop ----------------------------
(***************************************************************************)
(* Two buildings, one of them without sensors above the ground floor, and  *)
(* two clients: enough for one client to leave the list in front of the    *)
(* other during a broadcast, and for a building to appear during the       *)
(* broadcast of another.                                                   *)
(***************************************************************************)
EXTENDS TickLoop

MCBuilding == {"mall", "plaza"}
MCUnknown  == {"nowhere"}
MCTall     == {"mall"}
MCLoose    == {"mall"}
MCClient   == {"c1", "c2"}
=============================================================================
