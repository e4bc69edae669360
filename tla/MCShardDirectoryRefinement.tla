-------------------- MODULE MCShardDirectoryRefinement --------------------
(* The instance of MCShardDirectory, checked against CommittedCatalog.     *)
EXTENDS MCShardDirectory, ShardDirectoryRefinement
=============================================================================
