--------------------------- MODULE MCShardListLoad ---------------------------
(* Two writer backends and three shard ids: enough for a writer to commit *)
(* two shards in one transaction while the other aborts, during a scan.   *)
EXTENDS ShardListLoad, TLC

CONSTANTS w1, w2

MCWriters == {w1, w2}
MCShardIds == {1, 2, 3}

(* The two writers are interchangeable.                                    *)
MCSymmetry == Permutations(MCWriters)
=============================================================================
