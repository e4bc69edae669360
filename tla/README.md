# TLA+ models of pg_shard's distribution metadata

This directory holds a formal model of `src/distribution_metadata.c`, the part
of pg_shard that reads and writes the distribution catalog. The build uses
CitusDB metadata (`UseCitusMetadata`). The model also covers the ERROR paths of
`src/citus_metadata_sync.c`. It contains TLC configurations that model-check
small instances, and TLAPS proofs, for every instance, of eleven invariants, one
action property, the refinement of an abstract catalog, and the lock key split.

## The system

### Parts

| Part | Code | State it touches |
|---|---|---|
| Shard directory cache | `LookupShardIntervalList` | `ShardIntervalListCache`, a per-backend static list in `CacheMemoryContext` |
| Shard interval loader | `LoadShardIntervalList`, `LoadShardInterval`, `LoadShardIntervalRow` | reads `pg_dist_shard` and `pg_dist_partition` |
| Placement loader | `LoadShardPlacementList`, `LoadFinalizedShardPlacementList`, `TupleToShardPlacement` | reads `pg_dist_shard_placement` |
| Partitioning resolver | `PartitionColumn`, `PartitionType`, `IsDistributedTable`, `DistributedTablesExist`, `ColumnNameToColumn`, `column_to_column_name` | reads `pg_dist_partition` and the attribute catalog |
| Metadata mutators | `InsertPartitionRow`, `InsertShardRow`, `InsertShardPlacementRow`, `DeleteShardPlacementRow` | writes the three catalog tables inside the caller's transaction |
| Sequence allocator | `NextSequenceId` | the shard id sequence, through `nextval` |
| Advisory locks | `LockShard` | the PostgreSQL lock manager |

### How the parts interact

- Every catalog scan uses `SnapshotSelf`. A backend sees committed rows and its
  own uncommitted changes, and nothing of other open transactions.
- An `ereport(ERROR)` aborts the caller's transaction. That removes the rows the
  transaction inserted and undoes its deletions.
- The shard list cache is not transactional. It is filled on the first
  non-empty load of a table and is never invalidated.
- `nextval` is not transactional either. A value it returns is never returned
  again, even after a rollback or a restart.
- A backend crash makes the postmaster restart every backend:
  - uncommitted work is lost;
  - every cache starts empty;
  - the sequence resumes at or above its last value, because it logs values
    ahead (`SEQ_LOG_VALS`).
- The oid of a new placement row comes from `GetNewOidWithIndex`. It skips every
  oid present in the oid index, committed or not.
- `simple_heap_delete` on a row that another open transaction is deleting
  waits for that transaction.

## Modules

### `ShardDirectory.tla`

The core module.

**State.** One variable per piece of state:

| Variable | What it holds |
|---|---|
| `partitionRows`, `shardRows`, `placementRows` | The three tables. Each row carries `xmin`: the inserting session, or `Committed`. A placement row also carries `xmax`, the session deleting it. |
| `shardSeq` | The last value of the sequence. |
| `allocated[s]` | The ids that session `s` took from `NextSequenceId` and has not yet stored. Callers pass such an id to `InsertShardRow`. |
| `shardCache[s][t]` | Session `s`'s cache entry for table `t`, or `NoEntry`. |
| `rolledBack[s]` | A history variable: the ids of shards `s` inserted and then rolled back. |
| `crashed` | A history variable: the server has restarted after a crash. |

**Actions.** There is one action per operation. Each models the whole handler,
including its ERROR paths.

- A call that returns normally and changes nothing is a stuttering step. Its
  result is an operator: `ShardListResults`, `LoadShardPlacementListResult`,
  `LoadFinalizedShardPlacementListResult`, `IsDistributedTable`,
  `DistributedTablesExist`.
- A call that fails is `RaiseError` (the transaction aborts) or `ServerRestart`
  (a crash).
- `Commit` and `Rollback` are the transaction ends of the session that calls
  the API.

**Abstractions.**
- A column is a name with an attribute number and a type.
- A bound text is the integer it spells. `int4in` rejects values outside
  `Int4Min..Int4Max`.
- Node names and ports are left out, because no property reads them.
- The `Var` text that CitusDB stores is abstracted to the column it names.

### `MCShardDirectory.tla`

The small instance TLC checks:
- two sessions and one table;
- three columns: a user column, a system column and a missing column;
- int4 narrowed to `-4..3`, with bound texts `0` (accepted by `int4in`) and `4`
  (rejected by it);
- at most 2 shard ids, and 0 or 2 oids.

### `ShardDirectoryProofs.tla`

The TLAPS proofs. See "What is proved" below.

### `ShardLock.tla` and `MCShardLock.tla`

`LockShard` on top of the PostgreSQL lock manager it calls.
- `granted` holds the PROCLOCK holds, `waitQueue` the lock's FIFO wait queue,
  and `acquired[s]` the `<<shard, mode>>` pairs for which `LockShard` returned
  in `s`'s transaction.
- `LockKey` is the split of the 64-bit id into two uint32 key fields (`>> 32`
  and the cast), with `KeyRange` standing for 2^32.
- `LockAcquire` has the conflict check against holders and against waiters
  ahead, and the queue position a backend that already holds the lock takes
  (`ProcSleep`). `ReleaseAndWake` is `LockReleaseAll` followed by
  `ProcLockWakeup`.
- `Wakeup` states `ProcLockWakeup`'s walk of the queue without recursion.
  `WakeupGrants(held, queue, G)` says which positions `G` the walk grants: a
  waiter is granted exactly when it conflicts neither with a hold of another
  backend (those granted earlier in the walk included) nor with a waiter
  still ahead of it. This fixes `G` uniquely, by induction on the position.
  The waiters left are `SubSeqAt(queue, 1..Len(queue) \ G)`, in queue order.
  The abort branch of `DeadLockCheck` removes the waiter with `SubSeqAt` too.
  TLC finds the same state space as with the recursive walk it replaced
  (11,788 states for `lock_manager`, 1,440 for `placement_deletes`).
- `DeadLockCheck` reorders the queue when the soft edges of a cycle can be
  reversed, and otherwise aborts the waiter.
- `EndTransaction` is a commit, a rollback or the abort of an ERROR (a bad
  mode).

The instance has three sessions, shards 1 and 3, and a one-bit key field. With
these values shards 1 and 3 differ only in the upper half of the key.

### `CommittedCatalog.tla` and `ShardDirectoryRefinement.tla`

`CommittedCatalog` is the abstract catalog that other backends can rely on. It
holds the committed partitions, shards and placements, and the sequence value.
It has two kinds of step:
- `AdvanceSequence` raises the sequence;
- `CommitTransaction` adds shards with fresh ids at or below the sequence, adds
  placements with fresh oids, and removes placements.

`ShardDirectoryRefinement` maps `ShardDirectory` to it. The mapping is the
committed rows with their bookkeeping fields (`xmin`, `xmax`) projected away.
Under it:
- reads, inserts, ERRORs and deletes are stutters;
- `NextSequenceId` and a restart are `AdvanceSequence` (or stutters);
- `Commit` is `CommitTransaction`.

### `ShardListLoad.tla` and `MCShardListLoad.tla`

`LookupShardIntervalList` on a cache miss, with one step per iteration of
`LoadShardIntervalList`'s index scan. It races writers that insert shards and
commit or roll back.
- `ScanNext(id)` is one `index_getnext`, with visibility decided at fetch time
  (`SnapshotSelf`).
- An index entry inserted during the scan lands behind or ahead of the cursor,
  once the scan has a position.
- `startIds` and `seen` are history variables: the committed ids at the start,
  and every committed set seen during the scan.

The instance has two writers and shard ids 1 to 3, with symmetry over the
writers.

### `PlacementDeletes.tla` and `MCPlacementDeletes.tla`

Composes `ShardLock` (through `INSTANCE`) with `DeleteShardPlacementRow`, in
the same transactions.
- `simple_heap_delete` on a row that another open transaction `t` is deleting
  waits with `XactLockTableWait`. That is a ShareLock request on `t`'s
  transaction id lock, which `t` holds in ExclusiveLock. The request goes into
  the same wait queue as the advisory locks, so the deadlock check sees cycles
  through both kinds of wait.
- `DeleteResume` is the re-read after the wait:
  - if the deleter committed, the call raises "tuple concurrently updated" and
    the transaction aborts;
  - otherwise it deletes the row, or waits again.
- `deletes[p]` counts the committed transactions whose delete of `p` returned.
- The tuple lock that `heap_delete` takes to order several waiters is left out.
  Without it, one delete can be starved by another transaction that repeatedly
  deletes the row and aborts. For that reason, "every delete returns" is not
  claimed.

The instance has two sessions, one shard and two placements.

## Runs

| Run | cfg | Expect | What it shows |
|---|---|---|---|
| `cache_and_ids` | `MCShardDirectory.cfg` | pass | `TypeOK`, `ShardIdsUnique` and `CacheLagsCatalog` hold over all interleavings of two backends (about 50k states). So does the action property `FreshShardIds`: every id `NextSequenceId` hands out is fresh. |
| `placements` | `MCShardPlacements.cfg` | pass | `PlacementIdsUnique` holds with concurrent placement inserts and deletes (about 300k states). |
| `cache_phantom` | `MCCachePhantom.cfg` | violation | `CachedShardsExist` fails. |
| `null_bound_crash` | `MCNullBoundCrash.cfg` | violation | `NoBackendCrash` fails. |
| `placement_id_dropped` | `MCPlacementId.cfg` | violation | `PlacementIdKept` fails. |
| `lock_manager` | `MCShardLock.cfg` | pass | `TypeOK`, `ShardLockExclusion`, `NoFalseConflict` and the liveness property `WaitEnds` hold for three sessions. |
| `catalog_refinement` | `MCCatalogPlacements.cfg` | pass | `ShardDirectory` implements `CommittedCatalog` (`CatalogSpec`), on the placement instance. |
| `list_load` | `MCShardListLoad.cfg` | pass | `CacheBetweenStartAndCommitted`: a cached list has every shard committed at the start of the scan, and only committed shards. |
| `list_torn_read` | `MCShardListSnapshot.cfg` | violation | `CacheIsSnapshot` fails. |
| `placement_deletes` | `MCPlacementDeletes.cfg` | pass | `DeleteOnce` and `WaitEnds` hold for concurrent deletes and shard locks. |

What the three violations show:
- **`cache_phantom`:** a backend creates a shard, looks up its table, then rolls
  back. Its cache keeps the shard that no longer exists (`distribution_metadata.c:153`).
- **`null_bound_crash`:** `InsertShardRow` accepts NULL bounds, and
  `LoadShardIntervalRow` then crashes on `TextDatumGetCString` of the NULL
  datum (`:634`).
- **`placement_id_dropped`:** `InsertShardPlacementRow` writes the caller's id to
  `values[-3]`, so the row gets a server oid instead (`:822`).
- **`list_torn_read`:** a writer commits shards 1 and 2 in one transaction
  while a load runs. The scan fetches shard 1 before the commit (invisible) and
  shard 2 after it, and caches `{2}`. No committed state ever had exactly that
  set, whereas the spec describes the entry as the shards "at the time of first
  load" (`:199`).

The bounds are enough for each question:
- Two sessions give every interleaving of a writer and a reader, and of two
  writers.
- Two shard ids let one transaction abort with an id while another commits one.
- `SeqLogVals = 1` lets a restart skip a sequence value.
- Two oids let two concurrent inserts race for one.

The cache run has no placement oids, and the placement run has one shard id,
to keep each run under a minute.

The properties, and why they are deep:
- **`ShardIdsUnique`** can only fail after several steps: an id taken, an
  abort or a crash, then a reissue.
- **`CacheLagsCatalog`** relates the cache to the catalog as the session sees
  it. It allows exactly two kinds of staleness: shards committed after the load
  (documented), and the session's own rolled-back shards.
- **`PlacementIdsUnique`** depends on the oid index seeing other sessions'
  uncommitted rows.
- **`ShardLockExclusion`** and **`WaitEnds`** (in `ShardLock`) depend on the
  wait queue order, on wakeups and on the deadlock detector's reordering.
- **`NoFalseConflict`** fails if the key split loses the upper half of the id.
- **`CatalogSpec`** says that no sequence of ERRORs, restarts and interleaved
  transactions makes the committed catalog reuse a shard id or a placement oid,
  or lose a committed shard.
- **`CacheBetweenStartAndCommitted`** holds only because a row with a pending
  insert is skipped, and a rolled-back row leaves the index.
- **`DeleteOnce`** needs the re-read after the wait: two sessions that both
  wait on a third session's delete must not both delete the row.
- **`WaitEnds`** (in `PlacementDeletes`) needs the deadlock detector to see the
  wait for a transaction id. Two sessions that each delete a placement the other
  has deleted, then lock a shard the other holds, form a cycle through both
  kinds of lock.

Each property has a mutant, listed in `PROJECT.json`, that TLC catches:

| Mutant | Property it breaks |
|---|---|
| `nextval` returning the old value | `TypeOK` |
| ids computed from the visible catalog | `ShardIdsUnique`, `FreshShardIds` |
| a dirty snapshot instead of `SnapshotSelf` | `CacheLagsCatalog` |
| oids chosen against the visible rows only | `PlacementIdsUnique` |
| `LockShard` accepting any mode | `TypeOK` of `ShardLock`, `PlacementDeletes` |
| `LockShard` not waiting | `ShardLockExclusion` |
| the key split truncated to the lower half | `NoFalseConflict` |
| a session lock instead of a transaction lock | `WaitEnds` (both modules) |
| fresh oids checked against the visible rows only | `CatalogSpec` |
| an insert storing one past the given id | `TypeOK` of `ShardListLoad` |
| the scan dropping the first tuple | `CacheBetweenStartAndCommitted` |
| the delete not re-reading the row after the wait | `DeleteOnce` |

## Fairness

`ShardDirectory`, `ShardListLoad` and the refinement run state safety only, and
assume no fairness.

`ShardLock` and `PlacementDeletes` check `WaitEnds` under weak fairness of the
following actions:
- **Transaction ends** (`EndTransaction`, `Commit`). Callers of `LockShard`
  are modifications that end their transaction. This is an assumption about
  the clients, not something pg_shard enforces.
- **`DeadLockCheck`.** A waiter runs the check once, when its
  `deadlock_timeout` timer fires (`ProcSleep`). Whenever a cycle forms, the
  waiter whose wait closed it has its timer still to fire, so the cycle is
  checked. Weak fairness asks for this one run. In the model, the check is
  enabled only while the waiter is on a cycle, so it may run more often than
  once per wait, but only to break a cycle that PostgreSQL's check would
  also find.
- **`DeleteResume`.** A woken backend runs again.

Deadlock is checked in every passing run.

## What is proved

Every proof assumes only the constant assumptions of the modules it extends:
- `ConstantsAssumption` in `ShardDirectory`;
- `LoadAssumption` in `ShardListLoad` (committed is not a writer);
- `MarkersAssumption` in `PlacementDeletes` (the row and backend markers are
  distinct from each other, from backends and from placements);
- `LockConstantsAssumption` in `PlacementDeletes`, which restates `ShardLock`'s
  three assumptions for the lock manager's constants, so that the lemmas of
  `ShardLockProofs` apply through an instance;
- `KeyRangeAssumption`, `ShardIdsAssumption` and `ShardIdSpreadAssumption` in
  `ShardLock`. The last says that two shard ids differ by less than
  `KeyRange^2` (2^64), which every pair of int64 values does.

Each invariant proof has the same shape. An inductive invariant `IInv` is shown
to hold initially and to be kept by every step, with one lemma per kind of
step, and `IInv` implies the property. TLC first checked each `IInv` as an
invariant of the property's run.

### `ShardDirectoryProofs.tla`

**`TypeCorrect == Spec => []TypeOK`.**
- `TypeOK` is inductive by itself.
- The one non-trivial step is the cache fill. Lemma `LoadResultsType` shows
  that an `ok` result of a load contains only intervals with integer bounds: a
  row with a NULL bound never reaches `ToInterval`.

**`ShardIdsUniqueHolds == Spec => []ShardIdsUnique`.**
- `ShardIdsUnique` is not inductive alone. It needs `IdInv == TypeOK /\
  SequenceInv`, which adds:
  - every id in a row or held by a session is at most `shardSeq`;
  - a held id is in no row;
  - no two sessions hold the same id.

**`PlacementIdsUniqueHolds == Spec => []PlacementIdsUnique`.**
- `OidInv == TypeOK /\ PlacementIdsUnique` is inductive.
- An insert takes an oid that is in no row, committed or not.

**`CacheLagsCatalogHolds == Spec => []CacheLagsCatalog`.**
- `TypeOK /\ CacheLagsCatalog` is inductive.
- Lemma `LoadResultsRows` says that each interval of an `ok` load is the
  interval of a row the load read.
- Lemma `CacheFrame` says that a step keeps the property when it keeps the
  cache and every row a session sees (same id, table and bounds), except rows
  whose id joins that session's rolled-back ids.
- The steps that meet the frame:
  - a commit only widens visibility;
  - an abort removes only rows of the aborting session, which no other session
    sees, and records their ids in `rolledBack` of that session;
  - a restart empties every cache.

**`FreshShardIdsHolds == Spec => FreshShardIds`** (an action property).
- The invariant is `FreshInv == IdInv /\ RolledBackBelowSeq`, which adds that
  rolled-back ids are at most the sequence value.
- Every step other than `NextSequenceId` only shrinks the held ids.
- `NextSequenceId` returns `shardSeq + 1`, which is above every id in a row,
  held or rolled back.

### `ShardDirectoryRefinementProofs.tla`

**`Refinement == Spec => CatalogSpec`.**
- The proof uses `RefInv == IdInv /\ PlacementIdsUnique`.
- The initial states map to the empty catalog.
- Each step, under `RefInv`, maps to a stutter or to a catalog step:
  - `NextSequenceId` and a restart map to `AdvanceSequence`.
  - `Commit` maps to `CommitTransaction`. Its new shards have fresh ids at or
    below the sequence, and its new placements have fresh oids.

### `ShardLockProofs.tla`

**`LockKeyInjective`.** Two ids with the same `LockKey` are equal, for every key
width `KeyRange`, provided the ids differ by less than `KeyRange^2`. For the
real width this covers every pair of uint64 shard ids.

**`ShardLockExclusionHolds`, `NoFalseConflictHolds` and `LockTypeCorrect`.**
- `ShardLockExclusion` is not inductive: it speaks of `acquired` only, and a
  wakeup's grants depend on the holds. The invariant `LockInv` adds to
  `TypeOK`:
  - `Compatible(granted)`: two holds of different backends on one tag have
    compatible modes;
  - `AcquiredHeld`: every pair `LockShard` returned for is backed by a hold of
    the same backend, shard and mode;
  - `KeyOfShard`: every hold and every waiter carries the tag `LockKey` of its
    shard.
- Lemma `WakeupKeeps` is the heart of the proof. A wakeup keeps the holds
  compatible, because a waiter is granted only when it fits every hold and
  every waiter granted before it. Every waiter that leaves the queue is
  granted, and the rest is a subsequence of the queue.
- Lemma `WakeStep` covers every wakeup: at transaction end, at the deadlock
  check's abort, and after its rearrangement.
- Lemma `GrantStep` covers an immediate grant. The caller already holds the
  mode, so every other holder is compatible with it, or no other holder
  conflicts.
- The queue steps (`Append`, the `ProcSleep` insertion `InsertBefore`, a
  reordering) keep the waiters' keys.
- Exclusion follows: two returned pairs for one shard are backed by holds
  with one tag, which are compatible. `NoFalseConflict` follows from
  `KeyOfShard`, `LockKeyInjective` and `ShardIdSpreadAssumption`.

### `ShardListLoadProofs.tla`

**`CacheBetweenStartAndCommittedHolds`** and **`LoadTypeCorrect`**.
- The invariant `LoadInv` adds to `TypeOK` and the property:
  - the start ids and the appended ids are committed (committed rows stay
    committed);
  - the cursor is only past ids that have a row (a rollback takes its ids out
    of the cursor's past);
  - a start id the cursor is past was appended.
- When the scan ends every row is behind the cursor, so every start id was
  appended.

### `PlacementDeletesProofs.tla`

**`DeleteOnceHolds == Spec => []DeleteOnce`.**
- The invariant `DeleteInv` ties the history to the rows:
  - the placements whose delete returned in a backend's open transaction are
    exactly the rows whose `xmax` is that backend;
  - `deletes[p]` is 1 exactly when the row's delete has committed.
- A commit therefore counts only rows that no transaction has deleted yet.
- A backend that waited re-reads the row and fails once the delete is
  committed.
- The proof never looks inside the lock manager: every lock step leaves the
  rows alone, or aborts the transaction (`UndoDeletes`).

**`DeletesTypeCorrect == Spec => []TypeOK`.**
- The inductive invariant is `DeleteInv /\ LockTypes`. `LockTypes` types the
  lock manager over the wider entries of this module, whose tags include the
  transaction-id tags `XactTag[s]`.
- The wakeup, reordering, subsequence and queue-insertion lemmas of
  `ShardLockProofs` are generic in the entry set. They are used through
  `LP == INSTANCE ShardLockProofs`. `SameWakeup` shows that a wakeup of this
  module's `ShardLock` instance is a wakeup of `LP`'s.
- `HeapDeleteTyped` covers the two lock requests of `heap_delete`. The
  ShareLock wait is on the transaction id of the row's deleter. `DeleteInv`
  gives that this deleter is a backend.

### Only model-checked

- **The liveness properties (`WaitEnds`).** TLAPS does not handle liveness under
  fairness or `ENABLED`.

## Not modelled

| What | Why |
|---|---|
| Memory use | The `CacheMemoryContext` leak on every cache miss is listed as a hazard. |
| The tuple lock of `heap_delete` | It orders the waiters on one row. Without it the model cannot exclude the starvation of a delete, so no such liveness property is claimed. |
| `src/test/distribution_metadata.c` | Test wrappers with no state of their own. |
| `src/sql/modifications.sql` | Planner regression tests. |
| Text formatting (`nodeToString`/`stringToNode`) | No property depends on the text. |

`ShardDirectory` models the load of a shard list as one atomic step.
`ShardListLoad` models the scan step by step.

## Plan

1. Model the tuple lock in `PlacementDeletes`, and check that every delete
   returns.
2. State that a caller that holds `LockShard` sees a stable placement list, by
   composing `ShardDirectory` with `ShardLock`.
