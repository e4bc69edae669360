-------------------------- MODULE CommittedCatalog --------------------------
(***************************************************************************)
(* What the distribution metadata promises to every other transaction:   *)
(* the committed contents of pg_dist_partition, pg_dist_shard and         *)
(* pg_dist_shard_placement, and the shard id sequence.  The sequence only *)
(* moves forward; the committed rows change only all at once, when a      *)
(* transaction commits; committed partitions and shards are never         *)
(* removed; a new shard takes an id already issued that no committed      *)
(* shard has, and a new placement an id no committed placement has.       *)
(***************************************************************************)
EXTENDS Naturals

CONSTANT MaxShardId

VARIABLES partitions, shards, placements, lastId

catalogVars == <<partitions, shards, placements>>
vars == <<partitions, shards, placements, lastId>>

Ids(rows) == {r.id : r \in rows}
PlacementOids(rows) == {r.oid : r \in rows}

Init ==
    /\ partitions = {}
    /\ shards = {}
    /\ placements = {}
    /\ lastId = 0

(* nextval hands out larger values; values may be skipped.                 *)
AdvanceSequence ==
    /\ lastId' \in (lastId + 1)..MaxShardId
    /\ UNCHANGED catalogVars

(* One transaction's changes become visible together.                     *)
CommitTransaction ==
    LET newShards == shards' \ shards
        added == placements' \ placements
    IN
    /\ partitions \subseteq partitions'
    /\ shards \subseteq shards'
    /\ \A r \in newShards :
          /\ r.id \in 1..lastId
          /\ r.id \notin Ids(shards)
          /\ \A q \in newShards : q.id = r.id => q = r
    /\ \A r \in added : r.oid \notin PlacementOids(placements)
    /\ UNCHANGED lastId

Next == AdvanceSequence \/ CommitTransaction

Spec == Init /\ [][Next]_vars
=============================================================================
