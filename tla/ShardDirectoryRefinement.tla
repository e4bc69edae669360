---------------------- MODULE ShardDirectoryRefinement ----------------------
(***************************************************************************)
(* ShardDirectory implements CommittedCatalog: the committed rows, with   *)
(* the transaction bookkeeping (xmin, xmax) and the caller's requested    *)
(* placement id dropped, and the sequence's last value.                   *)
(***************************************************************************)
EXTENDS ShardDirectory

(* A row as other transactions see it once committed.                    *)
PartitionOf(p) == [rel |-> p.rel, method |-> p.method, key |-> p.key]
ShardOf(r) == [id |-> r.id, rel |-> r.rel, minv |-> r.minv, maxv |-> r.maxv]
PlacementOf(r) == [oid |-> r.oid, shard |-> r.shard, state |-> r.state]

CommittedRows(rows) == {q \in rows : q.xmin = Committed}

CommittedPartitions == {PartitionOf(p) : p \in CommittedRows(partitionRows)}
CommittedShards == {ShardOf(r) : r \in CommittedRows(shardRows)}
CommittedPlacements == {PlacementOf(r) : r \in CommittedRows(placementRows)}

Catalog == INSTANCE CommittedCatalog
    WITH partitions <- CommittedPartitions,
         shards <- CommittedShards,
         placements <- CommittedPlacements,
         lastId <- shardSeq

(* Whatever the sessions do, with rollbacks, ERRORs and server restarts,  *)
(* the committed catalog only ever changes by whole transactions, never   *)
(* loses a committed shard, and never commits a shard id twice.           *)
CatalogSpec == Catalog!Spec
=============================================================================
