------------------------- MODULE MCPlacementDeletes -------------------------
(* Two backends, one shard and two placements: enough for a cycle through *)
(* a shard lock and a delete wait, and for two deletes of one row.         *)
EXTENDS PlacementDeletes, TLC

CONSTANTS s1, s2, p1, p2

MCSessions == {s1, s2}
MCShardIds == {1}
MCKeyRange == 2
MCPlacements == {p1, p2}
MCXactTag == [s \in MCSessions |-> IF s = s1 THEN <<2, 1>> ELSE <<2, 2>>]
=============================================================================
