--------------------------- MODULE ShardListLoad ---------------------------
(***************************************************************************)
(* LookupShardIntervalList on a cache miss, one step per iteration of     *)
(* LoadShardIntervalList's index scan (src/distribution_metadata.c),      *)
(* racing other backends that insert shards of the same table and commit  *)
(* or roll back.                                                           *)
(*                                                                         *)
(* The scan uses SnapshotSelf, which is not a snapshot taken once: each   *)
(* heap tuple's visibility is decided when index_getnext fetches it.  A   *)
(* row another backend inserts while the scan runs has its index entry    *)
(* placed either behind the cursor (the scan never meets it) or ahead of  *)
(* it, since pg_dist_shard_relation_index orders equal keys arbitrarily.  *)
(* Shard rows are never deleted, and shard ids are unique (proved in      *)
(* ShardDirectoryProofs), so a shard is named by its id.                  *)
(***************************************************************************)
EXTENDS Naturals, FiniteSets

CONSTANTS
    Writers,     \* backends that insert shards of the table
    ShardIds,    \* ids NextSequenceId can hand out
    Committed,   \* xmin of a committed row
    NoEntry      \* no cache entry for the table

ASSUME LoadAssumption == Committed \notin Writers

VARIABLES
    shardRows,   \* rows of pg_dist_shard of the table: [id, xmin]
    scanning,    \* the loading backend is inside LoadShardIntervalList
    passed,      \* ids whose index entries the scan's cursor is past
    loaded,      \* shardIntervalList built so far
    cache,       \* the loading backend's cache entry for the table
    startIds,    \* history: the ids visible when the scan began
    seen         \* history: every set of visible ids during the scan

vars == <<shardRows, scanning, passed, loaded, cache, startIds, seen>>

Ids(rows) == {r.id : r \in rows}
CommittedIds == Ids({r \in shardRows : r.xmin = Committed})

(* The visible set changed: record it while a scan is running.            *)
Observe == seen' = IF scanning THEN seen \cup {CommittedIds'} ELSE seen

-----------------------------------------------------------------------------
(* The loading backend.                                                    *)

(* LookupShardIntervalList misses the cache and LoadShardIntervalList     *)
(* begins its index scan on the table's relation id.                      *)
BeginLoad ==
    /\ ~scanning
    /\ cache = NoEntry
    /\ scanning' = TRUE
    /\ passed' = {}
    /\ loaded' = {}
    /\ startIds' = CommittedIds
    /\ seen' = {CommittedIds}
    /\ UNCHANGED <<shardRows, cache>>

(* Mutant: the loop drops the tuple the first index_getnext returned.     *)
ScanNextSkipFirst(id) ==
    /\ scanning
    /\ id \in Ids(shardRows) \ passed
    /\ passed' = passed \cup {id}
    /\ loaded' = IF id \in CommittedIds /\ passed # {} THEN loaded \cup {id} ELSE loaded
    /\ UNCHANGED <<shardRows, scanning, cache, startIds, seen>>

(* One iteration: index_getnext returns the next entry whose tuple is     *)
(* visible to SnapshotSelf now; LoadShardInterval(shardId) re-reads the   *)
(* row, which a committed row never leaves, and the interval is appended. *)
(* An entry whose inserter is still in progress is skipped.               *)
ScanNext(id) ==
    /\ scanning
    /\ id \in Ids(shardRows) \ passed
    /\ passed' = passed \cup {id}
    /\ loaded' = IF id \in CommittedIds THEN loaded \cup {id} ELSE loaded
    /\ UNCHANGED <<shardRows, scanning, cache, startIds, seen>>

(* index_getnext finds no more entries: the list is returned, and         *)
(* LookupShardIntervalList caches it unless it is empty.                  *)
EndLoad ==
    /\ scanning
    /\ Ids(shardRows) \subseteq passed
    /\ scanning' = FALSE
    /\ cache' = IF loaded = {} THEN NoEntry ELSE loaded
    /\ UNCHANGED <<shardRows, passed, loaded, startIds, seen>>

(* The backend exits; a new backend starts with no cache.                 *)
SessionEnd ==
    /\ ~scanning
    /\ cache # NoEntry
    /\ cache' = NoEntry
    /\ UNCHANGED <<shardRows, scanning, passed, loaded, startIds, seen>>

-----------------------------------------------------------------------------
(* The other backends.                                                     *)

(* Mutant: the row stores one past the id the caller passed.             *)
InsertShardRowOffByOne(w, id) ==
    /\ id + 1 \notin Ids(shardRows)
    /\ shardRows' = shardRows \cup {[id |-> id + 1, xmin |-> w]}
    /\ \E behind \in BOOLEAN :
          passed' = IF scanning /\ passed # {} /\ behind THEN passed \cup {id + 1} ELSE passed
    /\ UNCHANGED <<scanning, loaded, cache, startIds, seen>>

(* InsertShardRow with an id from NextSequenceId; the new index entry    *)
(* lands behind or ahead of a running scan's cursor once the scan has a   *)
(* position (after its first index_getnext), and ahead of it before.      *)
InsertShardRow(w, id) ==
    /\ id \notin Ids(shardRows)
    /\ shardRows' = shardRows \cup {[id |-> id, xmin |-> w]}
    /\ \E behind \in BOOLEAN :
          passed' = IF scanning /\ passed # {} /\ behind THEN passed \cup {id} ELSE passed
    /\ UNCHANGED <<scanning, loaded, cache, startIds, seen>>

WriterCommit(w) ==
    /\ \E r \in shardRows : r.xmin = w
    /\ shardRows' = {IF r.xmin = w THEN [r EXCEPT !.xmin = Committed] ELSE r :
                       r \in shardRows}
    /\ Observe
    /\ UNCHANGED <<scanning, passed, loaded, cache, startIds>>

WriterAbort(w) ==
    /\ \E r \in shardRows : r.xmin = w
    /\ shardRows' = {r \in shardRows : r.xmin # w}
    /\ passed' = passed \ Ids({r \in shardRows : r.xmin = w})
    /\ UNCHANGED <<scanning, loaded, cache, startIds, seen>>

-----------------------------------------------------------------------------

Init ==
    /\ shardRows = {}
    /\ scanning = FALSE
    /\ passed = {}
    /\ loaded = {}
    /\ cache = NoEntry
    /\ startIds = {}
    /\ seen = {}

Next ==
    \/ BeginLoad
    \/ \E id \in ShardIds : ScanNext(id)
    \/ EndLoad
    \/ SessionEnd
    \/ \E w \in Writers :
          \/ \E id \in ShardIds : InsertShardRow(w, id)
          \/ WriterCommit(w)
          \/ WriterAbort(w)

Spec == Init /\ [][Next]_vars

-----------------------------------------------------------------------------
(* Properties.                                                             *)

TypeOK ==
    /\ shardRows \subseteq [id : ShardIds, xmin : Writers \cup {Committed}]
    /\ scanning \in BOOLEAN
    /\ passed \subseteq ShardIds
    /\ loaded \subseteq ShardIds
    /\ cache \in (SUBSET ShardIds) \cup {NoEntry}
    /\ startIds \subseteq ShardIds
    /\ seen \subseteq SUBSET ShardIds

(* A list LookupShardIntervalList caches holds every shard that was       *)
(* committed when its scan began, and only shards that are committed now: *)
(* concurrent inserts, commits and rollbacks during the scan never make   *)
(* it miss an older shard or keep a shard that was rolled back.           *)
CacheBetweenStartAndCommitted ==
    cache # NoEntry => startIds \subseteq cache /\ cache \subseteq CommittedIds

(* The documented reading of the cache entry: "the table's shard          *)
(* intervals at the time of first load", i.e. the committed shards at    *)
(* some one moment of the load.                                           *)
CacheIsSnapshot ==
    cache # NoEntry => cache \in seen
=============================================================================
