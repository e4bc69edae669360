--------------------------- MODULE ShardDirectory ---------------------------
(***************************************************************************)
(* The distribution metadata directory of pg_shard                        *)
(* (src/distribution_metadata.c): the three catalog tables                *)
(* pg_dist_partition, pg_dist_shard and pg_dist_shard_placement as seen   *)
(* through PostgreSQL transactions, the per-backend shard interval cache  *)
(* ShardIntervalListCache, the shard id sequence, and the server restart  *)
(* that follows a backend crash.                                          *)
(*                                                                         *)
(* Every session is one backend process that is always inside a          *)
(* transaction.  Catalog rows carry the inserting (xmin) and, for         *)
(* placements, the deleting (xmax) session while that session's           *)
(* transaction is open; Commit publishes them, and an ERROR raised by any *)
(* operation aborts the transaction exactly as ROLLBACK does.  All scans  *)
(* of the code use SnapshotSelf: a session sees every committed row and   *)
(* its own uncommitted changes, and nothing of other open transactions.   *)
(***************************************************************************)
EXTENDS Integers, FiniteSets

CONSTANTS
    Sessions,        \* backends, each with one open transaction
    Tables,          \* relation oids that callers name
    Columns,         \* column names that callers pass
    AttNum,          \* get_attnum: 0 = InvalidAttrNumber, < 0 system column
    ColType,         \* the type of each column
    BoundTexts,      \* min/max texts callers pass, as the integer they spell
    Int4Min, Int4Max,\* range accepted by int4in
    MaxShardId,      \* bound on the shard id sequence
    SeqLogVals,      \* values nextval logs ahead (SEQ_LOG_VALS)
    PlacementIds,    \* placement ids callers pass to InsertShardPlacementRow
    Oids,            \* oids the server can assign to placement rows
    ShardStates,     \* placement states
    STATE_FINALIZED,
    Committed,       \* xmin of a committed row
    NoXmax,          \* xmax of a row nobody is deleting
    NullBound,       \* a NULL min/max column
    NoEntry          \* no cache entry for a table

Types == {"int4", "text"}
HASH_PARTITION_TYPE == "h"
RANGE_PARTITION_TYPE == "r"
PartitionTypes == {HASH_PARTITION_TYPE, RANGE_PARTITION_TYPE}

ASSUME ConstantsAssumption ==
    /\ AttNum \in [Columns -> Int]
    /\ ColType \in [Columns -> Types]
    /\ BoundTexts \subseteq Int
    /\ Int4Min \in Int /\ Int4Max \in Int
    /\ MaxShardId \in Nat /\ SeqLogVals \in Nat
    /\ STATE_FINALIZED \in ShardStates
    /\ Committed \notin Sessions /\ NoXmax \notin Sessions
    /\ NullBound \notin BoundTexts

VARIABLES
    partitionRows,   \* rows of pg_dist_partition
    shardRows,       \* rows of pg_dist_shard
    placementRows,   \* rows of pg_dist_shard_placement
    shardSeq,        \* last value of the shard id sequence
    allocated,       \* ids a caller took from NextSequenceId in this transaction
    shardCache,      \* ShardIntervalListCache of each backend
    rolledBack,      \* ids of shards a session inserted and then rolled back
    crashed          \* a backend has crashed and the server restarted

vars == <<partitionRows, shardRows, placementRows, shardSeq, allocated,
          shardCache, rolledBack, crashed>>

Xmin == Sessions \cup {Committed}
Bound == BoundTexts \cup {NullBound}
ShardId == 1..MaxShardId
PartitionRow == [rel : Tables, method : PartitionTypes, key : Columns, xmin : Xmin]
ShardRow == [id : ShardId, rel : Tables, minv : Bound, maxv : Bound, xmin : Xmin]
PlacementRow == [oid : Oids, req : PlacementIds, shard : ShardId,
                 state : ShardStates, xmin : Xmin, xmax : Sessions \cup {NoXmax}]
ShardInterval == [id : ShardId, rel : Tables, min : Int, max : Int, type : Types]

-----------------------------------------------------------------------------
(* Visibility under SnapshotSelf.                                          *)

Inserted(s, r) == r.xmin \in {Committed, s}
VisibleTo(s, r) == Inserted(s, r) /\ r.xmax # s

VisiblePartitionRows(s, t) == {p \in partitionRows : Inserted(s, p) /\ p.rel = t}
VisibleShardRows(s, t) == {r \in shardRows : Inserted(s, r) /\ r.rel = t}
VisiblePlacements(s, sid) ==
    {r \in placementRows : VisibleTo(s, r) /\ r.shard = sid}

(* ColumnNameToColumn fails for an unknown or a system column.             *)
IsUserColumn(c) == AttNum[c] > 0

MaxAttNum == CHOOSE a \in {AttNum[c] : c \in Columns} :
                 \A c \in Columns : AttNum[c] <= a

(* The interval type LoadShardInterval picks: int4 for hash partitioning,  *)
(* the partition column's type otherwise.                                  *)
IntervalType(p) ==
    IF p.method = HASH_PARTITION_TYPE THEN "int4" ELSE ColType[p.key]

(* OidInputFunctionCall of the type's input function: int4in rejects text  *)
(* outside the int4 range, textin accepts any text.                        *)
TypeInputOk(type, txt) == type = "text" \/ txt \in Int4Min..Int4Max

BoundsParse(r, p) ==
    TypeInputOk(IntervalType(p), r.minv) /\ TypeInputOk(IntervalType(p), r.maxv)

ToInterval(r, p) ==
    [id |-> r.id, rel |-> r.rel, min |-> r.minv, max |-> r.maxv,
     type |-> IntervalType(p)]

(* LoadShardIntervalRow ignores isNull: TextDatumGetCString of a NULL     *)
(* min_value or max_value dereferences a null pointer.                     *)
HasNullBound(r) == r.minv = NullBound \/ r.maxv = NullBound

(* The outcome of a call that fails on shard row r: a NULL bound crashes   *)
(* the backend; any other failure is an ERROR.                             *)
FailureOf(r) ==
    [kind |-> IF HasNullBound(r) THEN "crash" ELSE "error", val |-> {}]


(* The possible results of LoadShardInterval over the shard rows `rows` of *)
(* table t, in the index's unspecified order: the first failing row        *)
(* decides the failure.  PartitionType and PartitionColumn both read the   *)
(* first visible partition row p.                                          *)
LoadResults(s, t, rows) ==
    IF rows = {} THEN {[kind |-> "ok", val |-> {}]}
    ELSE IF VisiblePartitionRows(s, t) = {} THEN {FailureOf(r) : r \in rows}
    ELSE UNION {
        LET failing == {r \in rows : HasNullBound(r) \/ ~BoundsParse(r, p)}
        IN IF failing = {}
           THEN {[kind |-> "ok", val |-> {ToInterval(r, p) : r \in rows}]}
           ELSE {FailureOf(r) : r \in failing}
        : p \in VisiblePartitionRows(s, t)}

(* Mutant: a scan that also returns other transactions' uncommitted rows  *)
(* (a dirty snapshot instead of SnapshotSelf).                             *)
ShardListResultsDirty(s, t) == LoadResults(s, t, {r \in shardRows : r.rel = t})

(* The shards LoadShardIntervalList(t) would return to s, or its failure. *)
ShardListResults(s, t) == LoadResults(s, t, VisibleShardRows(s, t))

-----------------------------------------------------------------------------
(* Transaction ends.                                                       *)

(* Abort of s's transaction (ROLLBACK or an ERROR): its inserted rows go,  *)
(* its deletions are undone.  The cache and the sequence are not           *)
(* transactional and keep what they hold.                                  *)
AbortTxn(s) ==
    /\ partitionRows' = {p \in partitionRows : p.xmin # s}
    /\ shardRows' = {r \in shardRows : r.xmin # s}
    /\ placementRows' =
         {IF r.xmax = s THEN [r EXCEPT !.xmax = NoXmax] ELSE r :
            r \in {q \in placementRows : q.xmin # s}}
    /\ allocated' = [allocated EXCEPT ![s] = {}]
    /\ rolledBack' = [rolledBack EXCEPT ![s] = @ \cup
                        {r.id : r \in {q \in shardRows : q.xmin = s}}]
    /\ UNCHANGED <<shardSeq, shardCache, crashed>>

(* ereport(ERROR): the call returns nothing and the transaction aborts.    *)
RaiseError(s) == AbortTxn(s)

Rollback(s) == AbortTxn(s)

Commit(s) ==
    /\ partitionRows' = {IF p.xmin = s THEN [p EXCEPT !.xmin = Committed] ELSE p :
                           p \in partitionRows}
    /\ shardRows' = {IF r.xmin = s THEN [r EXCEPT !.xmin = Committed] ELSE r :
                       r \in shardRows}
    /\ placementRows' = {IF r.xmin = s THEN [r EXCEPT !.xmin = Committed] ELSE r :
                           r \in {q \in placementRows : q.xmax # s}}
    /\ allocated' = [allocated EXCEPT ![s] = {}]
    /\ UNCHANGED <<shardSeq, shardCache, rolledBack, crashed>>

(* A backend crash: the postmaster kills every backend and restarts.      *)
(* Uncommitted work of all sessions is lost, every backend starts with an *)
(* empty cache, and the sequence resumes from the value nextval logged    *)
(* ahead, never below what it returned.                                   *)
ServerRestart ==
    /\ partitionRows' = {p \in partitionRows : p.xmin = Committed}
    /\ shardRows' = {r \in shardRows : r.xmin = Committed}
    /\ placementRows' = {[r EXCEPT !.xmax = NoXmax] :
                           r \in {q \in placementRows : q.xmin = Committed}}
    /\ shardSeq' \in shardSeq..(IF shardSeq + SeqLogVals < MaxShardId
                                THEN shardSeq + SeqLogVals ELSE MaxShardId)
    /\ allocated' = [x \in Sessions |-> {}]
    /\ shardCache' = [x \in Sessions |-> [t \in Tables |-> NoEntry]]
    /\ rolledBack' = [x \in Sessions |-> {}]
    /\ crashed' = TRUE

(* A result of LoadResults that is not a list: ERROR or crash.            *)
Fail(s, res) ==
    IF res.kind = "crash" THEN ServerRestart ELSE RaiseError(s)

-----------------------------------------------------------------------------
(* Operations of distribution_metadata.c.  A call that returns normally   *)
(* and changes nothing is a stuttering step; its result is the operator   *)
(* named ...Result, which the properties read.                            *)

(* LookupShardIntervalList: on a miss, load the list and cache it unless  *)
(* it is empty.                                                           *)
LookupShardIntervalList(s, t) ==
    /\ shardCache[s][t] = NoEntry
    /\ \E res \in ShardListResults(s, t) :
         IF res.kind = "ok"
         THEN /\ res.val # {}
              /\ shardCache' = [shardCache EXCEPT ![s][t] = res.val]
              /\ UNCHANGED <<partitionRows, shardRows, placementRows, shardSeq,
                             allocated, rolledBack, crashed>>
         ELSE Fail(s, res)

LoadShardIntervalList(s, t) ==
    \E res \in ShardListResults(s, t) : res.kind # "ok" /\ Fail(s, res)

(* LoadShardInterval: LoadShardIntervalRow raises an ERROR for an unknown  *)
(* shard id.                                                               *)
LoadShardInterval(s, sid) ==
    LET rows == {r \in shardRows : Inserted(s, r) /\ r.id = sid} IN
    IF rows = {} THEN RaiseError(s)
    ELSE \E r \in rows : \E res \in LoadResults(s, r.rel, {r}) :
            res.kind # "ok" /\ Fail(s, res)

(* LoadShardPlacementList raises an ERROR when the shard has no visible   *)
(* placement; LoadFinalizedShardPlacementList calls it and then filters.  *)
LoadShardPlacementList(s, sid) ==
    /\ VisiblePlacements(s, sid) = {}
    /\ RaiseError(s)

LoadShardPlacementListResult(s, sid) ==
    {[id |-> r.oid, state |-> r.state] : r \in VisiblePlacements(s, sid)}

LoadFinalizedShardPlacementListResult(s, sid) ==
    {pl \in LoadShardPlacementListResult(s, sid) : pl.state = STATE_FINALIZED}

(* IsDistributedTable and DistributedTablesExist never fail.               *)
IsDistributedTable(s, t) == VisiblePartitionRows(s, t) # {}

DistributedTablesExist(s) == \E p \in partitionRows : Inserted(s, p)

(* PartitionColumn and PartitionType raise an ERROR when t has no visible  *)
(* partition row; otherwise they read its key or method.                   *)
PartitionColumn(s, t) ==
    /\ VisiblePartitionRows(s, t) = {}
    /\ RaiseError(s)

PartitionType(s, t) ==
    /\ VisiblePartitionRows(s, t) = {}
    /\ RaiseError(s)

ColumnNameToColumn(s, c) ==
    /\ ~IsUserColumn(c)
    /\ RaiseError(s)

(* column_to_column_name (citus_metadata_sync.c) raises an ERROR for a    *)
(* system attribute number and for one no column has.                      *)
ColumnToColumnName(s, a) ==
    /\ a <= 0 \/ \A c \in Columns : AttNum[c] # a
    /\ RaiseError(s)

(* InsertPartitionRow resolves the column name first (CitusDB metadata     *)
(* stores the Var), then inserts without any uniqueness check.            *)
InsertPartitionRow(s, t, method, c) ==
    IF ~IsUserColumn(c) THEN RaiseError(s)
    ELSE /\ partitionRows' = partitionRows \cup
              {[rel |-> t, method |-> method, key |-> c, xmin |-> s]}
         /\ UNCHANGED <<shardRows, placementRows, shardSeq, allocated,
                        shardCache, rolledBack, crashed>>

(* InsertShardRow stores both bounds only when both are given, else both  *)
(* are NULL.  Its callers pass an id they took from NextSequenceId.       *)
InsertShardRow(s, t, sid, minText, maxText) ==
    LET both == minText # NullBound /\ maxText # NullBound IN
    /\ sid \in allocated[s]
    /\ shardRows' = shardRows \cup
         {[id |-> sid, rel |-> t, xmin |-> s,
           minv |-> IF both THEN minText ELSE NullBound,
           maxv |-> IF both THEN maxText ELSE NullBound]}
    /\ allocated' = [allocated EXCEPT ![s] = @ \ {sid}]
    /\ UNCHANGED <<partitionRows, placementRows, shardSeq, shardCache,
                   rolledBack, crashed>>

(* Mutant: an oid chosen against the rows s can see only.                 *)
FreshPlacementOidsVisible(s) == Oids \ {r.oid : r \in {q \in placementRows : VisibleTo(s, q)}}

(* The oids heap_insert may give a new placement row: GetNewOidWithIndex  *)
(* skips every oid the oid index holds, committed or not.                  *)
FreshPlacementOids(s) == Oids \ {r.oid : r \in placementRows}

(* InsertShardPlacementRow: with CitusDB metadata the id is written to     *)
(* values[ObjectIdAttributeNumber - 1], outside the tuple, and the row     *)
(* gets the fresh oid heap_insert assigns through the oid index; req only  *)
(* records the id the caller passed.                                       *)
InsertShardPlacementRow(s, pid, sid, state) ==
    \E oid \in FreshPlacementOids(s) :
        /\ placementRows' = placementRows \cup
             {[oid |-> oid, req |-> pid, shard |-> sid, state |-> state,
               xmin |-> s, xmax |-> NoXmax]}
        /\ UNCHANGED <<partitionRows, shardRows, shardSeq, allocated, shardCache,
                       rolledBack, crashed>>

(* DeleteShardPlacementRow: an ERROR when no visible row has the id; a row *)
(* another open transaction is deleting makes heap_delete wait for it.    *)
DeleteShardPlacementRow(s, pid) ==
    LET rows == {r \in placementRows : VisibleTo(s, r) /\ r.oid = pid} IN
    IF rows = {} THEN RaiseError(s)
    ELSE \E r \in rows :
         /\ r.xmax = NoXmax
         /\ placementRows' = (placementRows \ {r}) \cup {[r EXCEPT !.xmax = s]}
         /\ UNCHANGED <<partitionRows, shardRows, shardSeq, allocated, shardCache,
                        rolledBack, crashed>>

(* Mutant: returns the sequence value before the increment.               *)
NextSequenceIdOldValue(s) ==
    /\ shardSeq < MaxShardId
    /\ shardSeq' = shardSeq + 1
    /\ allocated' = [allocated EXCEPT ![s] = @ \cup {shardSeq}]
    /\ UNCHANGED <<partitionRows, shardRows, placementRows, shardCache,
                   rolledBack, crashed>>

(* Mutant: the next id computed as one more than the largest shard id the *)
(* session can see, instead of from a sequence.                           *)
NextSequenceIdFromCatalog(s) ==
    LET used == {0} \cup allocated[s] \cup {r.id : r \in {q \in shardRows : Inserted(s, q)}}
        top == CHOOSE m \in used : \A u \in used : u <= m
    IN /\ top < MaxShardId
       /\ allocated' = [allocated EXCEPT ![s] = @ \cup {top + 1}]
       /\ UNCHANGED <<partitionRows, shardRows, placementRows, shardSeq, shardCache,
                      rolledBack, crashed>>

(* NextSequenceId: nextval is not transactional.                          *)
NextSequenceId(s) ==
    /\ shardSeq < MaxShardId
    /\ shardSeq' = shardSeq + 1
    /\ allocated' = [allocated EXCEPT ![s] = @ \cup {shardSeq + 1}]
    /\ UNCHANGED <<partitionRows, shardRows, placementRows, shardCache,
                   rolledBack, crashed>>

-----------------------------------------------------------------------------

Init ==
    /\ partitionRows = {}
    /\ shardRows = {}
    /\ placementRows = {}
    /\ shardSeq = 0
    /\ allocated = [s \in Sessions |-> {}]
    /\ shardCache = [s \in Sessions |-> [t \in Tables |-> NoEntry]]
    /\ rolledBack = [s \in Sessions |-> {}]
    /\ crashed = FALSE

Next ==
    \E s \in Sessions :
        \/ Commit(s)
        \/ Rollback(s)
        \/ NextSequenceId(s)
        \/ \E t \in Tables :
             \/ LookupShardIntervalList(s, t)
             \/ LoadShardIntervalList(s, t)
             \/ PartitionColumn(s, t)
             \/ PartitionType(s, t)
             \/ \E m \in PartitionTypes, c \in Columns : InsertPartitionRow(s, t, m, c)
             \/ \E sid \in ShardId, lo, hi \in Bound : InsertShardRow(s, t, sid, lo, hi)
        \/ \E c \in Columns : ColumnNameToColumn(s, c)
        \/ \E a \in {AttNum[c] : c \in Columns} \cup {MaxAttNum + 1} :
             ColumnToColumnName(s, a)
        \/ \E sid \in ShardId :
             \/ LoadShardInterval(s, sid)
             \/ LoadShardPlacementList(s, sid)
             \/ \E pid \in PlacementIds, st \in ShardStates :
                  InsertShardPlacementRow(s, pid, sid, st)
        \/ \E pid \in Oids : DeleteShardPlacementRow(s, pid)

Spec == Init /\ [][Next]_vars

-----------------------------------------------------------------------------
(* Properties.                                                             *)

TypeOK ==
    /\ partitionRows \subseteq PartitionRow
    /\ shardRows \subseteq ShardRow
    /\ placementRows \subseteq PlacementRow
    /\ shardSeq \in 0..MaxShardId
    /\ allocated \in [Sessions -> SUBSET ShardId]
    /\ shardCache \in [Sessions -> [Tables -> (SUBSET ShardInterval) \cup {NoEntry}]]
    /\ rolledBack \in [Sessions -> SUBSET ShardId]
    /\ crashed \in BOOLEAN

(* No two rows of pg_dist_shard carry the same shard id, whatever the     *)
(* transactions that took ids from NextSequenceId do: roll back, commit,  *)
(* or lose everything in a server restart.  It rests on nextval being     *)
(* outside the transaction and never reissuing a value.                   *)
ShardIdsUnique ==
    \A r1, r2 \in shardRows : r1.id = r2.id => r1 = r2

(* Every interval a backend's ShardIntervalListCache holds for table t is *)
(* a shard of t that the backend can still see, with the bounds of its   *)
(* row, unless that backend itself inserted the shard and rolled it back: *)
(* the cache is stale only by shards added later (documented) and by its  *)
(* own rolled back inserts, never by another transaction's rows.          *)
CacheLagsCatalog ==
    \A s \in Sessions, t \in Tables :
        shardCache[s][t] # NoEntry =>
            \A iv \in shardCache[s][t] :
                \/ \E r \in VisibleShardRows(s, t) :
                      r.id = iv.id /\ r.minv = iv.min /\ r.maxv = iv.max
                \/ iv.id \in rolledBack[s]

(* Every id NextSequenceId hands to a caller is fresh: no row of          *)
(* pg_dist_shard carries it, no other session holds it, and no session    *)
(* inserted it and rolled back, after any sequence of rollbacks, commits  *)
(* and server restarts (which resume nextval from its logged-ahead        *)
(* value).                                                                 *)
FreshShardIds ==
    [][\A s \in Sessions : \A i \in allocated'[s] \ allocated[s] :
          /\ \A r \in shardRows : r.id # i
          /\ \A x \in Sessions : i \notin rolledBack[x]
          /\ \A x \in Sessions \ {s} : i \notin allocated[x]]_vars

(* The stricter reading of "the cache entry is the table's shard list at  *)
(* the time of first load" together with "rollback undoes the inserted    *)
(* rows": every cached shard still exists.                                *)
CachedShardsExist ==
    \A s \in Sessions, t \in Tables :
        shardCache[s][t] # NoEntry =>
            \A iv \in shardCache[s][t] : \E r \in VisibleShardRows(s, t) : r.id = iv.id

(* Loading shard intervals never crashes the server: a shard stored with  *)
(* NULL bounds, which InsertShardRow accepts, loads without a crash.      *)
NoBackendCrash == ~crashed

(* No two rows of pg_dist_shard_placement share an id, so that           *)
(* DeleteShardPlacementRow(id) and the loaders name one placement, even   *)
(* when two sessions insert placements concurrently.                      *)
PlacementIdsUnique ==
    \A r1, r2 \in placementRows : r1.oid = r2.oid => r1 = r2

(* Every placement row carries the id its InsertShardPlacementRow call    *)
(* passed, as DeleteShardPlacementRow(id) and the loaders expect.         *)
PlacementIdKept ==
    \A r \in placementRows : r.oid = r.req
=============================================================================
