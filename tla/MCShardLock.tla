--------------------------- MODULE MCShardLock ---------------------------
(* Small instance of ShardLock for TLC: the uint32 key field narrowed to  *)
(* one bit, so that shards 1 and 3 differ only in the upper half.         *)
EXTENDS ShardLock, TLC

CONSTANTS s1, s2, s3

MCSessions == {s1, s2, s3}
MCShardIds == {1, 3}
MCKeyRange == 2
=============================================================================
