----------------------------- MODULE LinkState -----------------------------
(***************************************************************************)
(* The link-state table of firmware/src/link_state.cpp.  A table is a      *)
(* function from the ids that have a slot to their entries; the order of   *)
(* the slots is never looked at.  Of an entry's payload it keeps what the  *)
(* rest of the node tells apart:                                           *)
(*   at      which publication of its source the entry holds (a ghost; the *)
(*           seq_num, temperature and smoke of the entry are functions of  *)
(*           it), 0 for the node's own entry                               *)
(*   upd     last_update_ms                                                *)
(*   flame   flame_detected                                                *)
(*   sensed  what the source's flame sensor said then (a ghost)            *)
(*   aged    how many times the ageing multiplied edge_cost, up to MaxAged *)
(***************************************************************************)
EXTENDS Integers, FiniteSets

CONSTANTS MaxNodes,   \* MAX_NODES: slots of a table, and bound of the ids
          Stale,      \* STALE_TIMEOUT_MS
          TimeMod,    \* 2^32: the range of millis()
          MaxAged     \* bound of the model on the count of ageings

ASSUME LinkStateAssumption ==
    /\ MaxNodes \in Nat \ {0}
    /\ Stale \in Nat
    /\ TimeMod \in Nat \ {0}
    /\ Stale < TimeMod
    /\ MaxAged \in Nat

Entry == [at : Nat, upd : Nat, flame : BOOLEAN, sensed : BOOLEAN,
          aged : 0 .. MaxAged]

\* t is a table with slots for some of Ids.
IsTable(t, Ids) ==
    /\ DOMAIN t \subseteq Ids
    /\ t = [n \in DOMAIN t |-> t[n]]
    /\ \A n \in DOMAIN t : t[n] \in Entry

EmptyTable == [n \in {} |-> 0]

\* The entry an upsert writes: a fresh cost, nothing aged.
Fresh(at, upd, flame, sensed) ==
    [at |-> at, upd |-> upd, flame |-> flame, sensed |-> sensed, aged |-> 0]

\* Mutant: an entry that exists is never overwritten.
UpsertOnce(tbl, id, entry) ==
    IF id \notin DOMAIN tbl /\ Cardinality(DOMAIN tbl) < MaxNodes
    THEN [n \in DOMAIN tbl \cup {id} |-> IF n = id THEN entry ELSE tbl[n]]
    ELSE tbl

\* link_state_upsert: overwrite the slot of id or take a new one; a full table
\* drops the entry.
Upsert(tbl, id, entry) ==
    IF id \in DOMAIN tbl \/ Cardinality(DOMAIN tbl) < MaxNodes
    THEN [n \in DOMAIN tbl \cup {id} |-> IF n = id THEN entry ELSE tbl[n]]
    ELSE tbl

\* now_ms - last_update_ms on uint32_t: an update later than now counts as
\* almost 2^32 ms ago.
Elapsed(now, then) == IF now >= then THEN now - then ELSE now - then + TimeMod

\* One entry under link_state_age_edges: the cost is multiplied again, the
\* flame flag is left alone.
AgeEntry(entry, now) ==
    IF Elapsed(now, entry.upd) > Stale /\ entry.aged < MaxAged
    THEN [entry EXCEPT !.aged = @ + 1]
    ELSE entry

\* Mutant: a silent node is taken for a burning one.
AgeEdgesAsFlame(tbl, now, own) ==
    [n \in DOMAIN tbl |->
        IF n # own /\ Elapsed(now, tbl[n].upd) > Stale
        THEN [tbl[n] EXCEPT !.flame = TRUE] ELSE tbl[n]]

\* link_state_age_edges: every entry but the own one.
AgeEdges(tbl, now, own) ==
    [n \in DOMAIN tbl |-> IF n = own THEN tbl[n] ELSE AgeEntry(tbl[n], now)]
=============================================================================
