-------------------------- MODULE PlacementDeletes --------------------------
(***************************************************************************)
(* LockShard and DeleteShardPlacementRow (src/distribution_metadata.c)    *)
(* in the same transactions, over one lock manager.                        *)
(*                                                                         *)
(* DeleteShardPlacementRow finds the row with SnapshotSelf and calls      *)
(* simple_heap_delete.  When another open transaction t is deleting the   *)
(* row, heap_delete waits for t with XactLockTableWait: a ShareLock       *)
(* request on t's transaction id lock, which t holds in ExclusiveLock     *)
(* from its first write to its end.  When t ends the waiter re-reads the  *)
(* row: if t committed, simple_heap_delete raises "tuple concurrently     *)
(* updated" and the caller's transaction aborts; if t aborted, it deletes *)
(* the row (or waits again for the transaction that took the row in the  *)
(* meantime).  These waits and LockShard's waits are edges of one         *)
(* waits-for graph, so the deadlock detector sees cycles through both.    *)
(* The tuple lock heap_delete takes to keep its place among several       *)
(* waiters only orders the waiters and is left out.                       *)
(***************************************************************************)
EXTENDS Integers, Sequences, FiniteSets

CONSTANTS
    Sessions, ShardIds, KeyRange,
    Placements,   \* ids of pg_dist_shard_placement rows, all committed at start
    XactTag,      \* the lock tag of each session's transaction id
    NoShard,      \* the shard field of a transaction id lock request
    NoXmax,       \* a row nobody is deleting
    Deleted,      \* a row whose delete committed
    None          \* no delete in progress

VARIABLES
    granted, waitQueue, acquired,   \* the lock manager, as in ShardLock
    xmax,         \* per placement row: NoXmax, the deleting session, or Deleted
    pending,      \* the placement a session's DeleteShardPlacementRow waits to delete
    returned,     \* history: placements whose delete returned in the open transaction
    deletes       \* history: per placement, committed transactions whose delete returned

L == INSTANCE ShardLock

vars == <<granted, waitQueue, acquired, xmax, pending, returned, deletes>>
rowVars == <<xmax, pending, returned, deletes>>

ASSUME XactTagAssumption ==
    /\ XactTag \in [Sessions -> ({KeyRange} \X Nat)]
    /\ \A s, t \in Sessions : XactTag[s] = XactTag[t] => s = t
    /\ NoShard \notin ShardIds

(* The lock manager's constants satisfy ShardLock's assumptions: a       *)
(* positive key field range, and int64 shard ids.                          *)
ASSUME LockConstantsAssumption ==
    /\ KeyRange \in Nat \ {0}
    /\ ShardIds \subseteq Int
    /\ \A a, b \in ShardIds : a - b \in (1 - KeyRange * KeyRange)..(KeyRange * KeyRange - 1)

(* The markers of a row's state and of an idle backend are distinct from  *)
(* backends, from each other and from placements.                         *)
ASSUME MarkersAssumption ==
    /\ NoXmax # Deleted
    /\ NoXmax \notin Sessions
    /\ Deleted \notin Sessions
    /\ None \notin Placements

(* A backend is inside a call: queued on a lock, or woken and about to    *)
(* re-read the row it waited for.                                          *)
Busy(s) == L!Waiting(s) \/ pending[s] # None

(* The abort of s's transaction undoes its deletes.                       *)
UndoDeletes(s) ==
    /\ xmax' = [p \in Placements |-> IF xmax[p] = s THEN NoXmax ELSE xmax[p]]
    /\ pending' = [pending EXCEPT ![s] = None]
    /\ returned' = [returned EXCEPT ![s] = {}]
    /\ UNCHANGED deletes

(* heap_delete on a row s can see, with `held` the locks held: delete it, *)
(* or wait for its deleter t, whose transaction id lock s then requests   *)
(* in ShareLock; t holds it in ExclusiveLock, so s joins the wait queue.  *)
HeapDelete(s, p, held) ==
    \/ /\ xmax[p] = NoXmax
       /\ granted' = held \cup {[who |-> s, tag |-> XactTag[s], mode |-> L!ExclusiveLock,
                                 shard |-> NoShard, session |-> FALSE]}
       /\ xmax' = [xmax EXCEPT ![p] = s]
       /\ pending' = [pending EXCEPT ![s] = None]
       /\ returned' = [returned EXCEPT ![s] = @ \cup {p}]
       /\ UNCHANGED <<waitQueue, deletes>>
    \/ /\ xmax[p] \in Sessions \ {s}
       /\ granted' = held
       /\ waitQueue' = Append(waitQueue, [who |-> s, tag |-> XactTag[xmax[p]],
                                          mode |-> L!ShareLock, shard |-> NoShard,
                                          session |-> FALSE])
       /\ pending' = [pending EXCEPT ![s] = p]
       /\ UNCHANGED <<xmax, returned, deletes>>

(* The lock manager has just aborted s's transaction (an ERROR).          *)
AbortedNow(s) ==
    /\ acquired'[s] = {}
    /\ ~\E i \in 1..Len(waitQueue') : waitQueue'[i].who = s

-----------------------------------------------------------------------------

(* LockShard; its ERROR for a bad mode, and a deadlock ProcSleep reports  *)
(* at once, abort the transaction.                                         *)
LockShard(s, shardId, lockMode) ==
    /\ pending[s] = None
    /\ L!LockShard(s, shardId, lockMode)
    /\ IF AbortedNow(s) THEN UndoDeletes(s) ELSE UNCHANGED rowVars

(* DeleteShardPlacementRow(p): the index scan finds no row s can see      *)
(* (an ERROR), or heap_delete is called on it.                             *)
DeleteShardPlacementRow(s, p) ==
    /\ ~Busy(s)
    /\ IF xmax[p] \in {Deleted, s}
       THEN /\ L!EndTransaction(s)
            /\ UndoDeletes(s)
       ELSE /\ HeapDelete(s, p, granted)
            /\ UNCHANGED acquired

(* The ShareLock XactLockTableWait was granted, released at once.          *)
ReleaseXactWait(s) ==
    {g \in granted : ~(g.who = s /\ g.mode = L!ShareLock /\ g.shard = NoShard)}

(* Mutant: after the wait the row is deleted without re-reading it.       *)
DeleteResumeNoRecheck(s) ==
    /\ pending[s] # None
    /\ ~L!Waiting(s)
    /\ acquired' = [acquired EXCEPT ![s] = @ \ {<<NoShard, L!ShareLock>>}]
    /\ granted' = ReleaseXactWait(s) \cup
                  {[who |-> s, tag |-> XactTag[s], mode |-> L!ExclusiveLock,
                    shard |-> NoShard, session |-> FALSE]}
    /\ xmax' = [xmax EXCEPT ![pending[s]] = s]
    /\ pending' = [pending EXCEPT ![s] = None]
    /\ returned' = [returned EXCEPT ![s] = @ \cup {pending[s]}]
    /\ UNCHANGED <<waitQueue, deletes>>

(* XactLockTableWait returns and heap_delete re-reads the row: deleted by *)
(* a commit, simple_heap_delete raises an ERROR; otherwise it deletes it  *)
(* or waits again.                                                         *)
DeleteResume(s) ==
    /\ pending[s] # None
    /\ ~L!Waiting(s)
    /\ IF xmax[pending[s]] = Deleted
       THEN /\ L!ReleaseAndWake(s, waitQueue)
            /\ UndoDeletes(s)
       ELSE /\ acquired' = [acquired EXCEPT ![s] = @ \ {<<NoShard, L!ShareLock>>}]
            /\ HeapDelete(s, pending[s], ReleaseXactWait(s))

(* The caller commits: its deletes take effect and its locks go.          *)
Commit(s) ==
    /\ ~Busy(s)
    /\ L!EndTransaction(s)
    /\ xmax' = [p \in Placements |-> IF xmax[p] = s THEN Deleted ELSE xmax[p]]
    /\ deletes' = [p \in Placements |-> IF p \in returned[s] THEN deletes[p] + 1
                                         ELSE deletes[p]]
    /\ returned' = [returned EXCEPT ![s] = {}]
    /\ UNCHANGED pending

Rollback(s) ==
    /\ ~Busy(s)
    /\ L!EndTransaction(s)
    /\ UndoDeletes(s)

(* DeadLockCheck; when it aborts s, s's deletes are undone.               *)
DeadLockCheck(s) ==
    /\ L!DeadLockCheck(s)
    /\ IF L!CycleFreeOrders = {} THEN UndoDeletes(s) ELSE UNCHANGED rowVars

Init ==
    /\ L!Init
    /\ xmax = [p \in Placements |-> NoXmax]
    /\ pending = [s \in Sessions |-> None]
    /\ returned = [s \in Sessions |-> {}]
    /\ deletes = [p \in Placements |-> 0]

Next ==
    \E s \in Sessions :
        \/ \E shardId \in ShardIds, lockMode \in L!RequestModes :
              LockShard(s, shardId, lockMode)
        \/ \E p \in Placements : DeleteShardPlacementRow(s, p)
        \/ DeleteResume(s)
        \/ Commit(s)
        \/ Rollback(s)
        \/ DeadLockCheck(s)

(* Callers end their transactions, a woken backend runs on, and the      *)
(* deadlock check runs in every backend that keeps waiting.               *)
Fairness ==
    \A s \in Sessions :
        /\ WF_vars(Commit(s))
        /\ WF_vars(DeleteResume(s))
        /\ WF_vars(DeadLockCheck(s))

Spec == Init /\ [][Next]_vars /\ Fairness

-----------------------------------------------------------------------------
(* Properties.                                                             *)

LockEntry == [who : Sessions, tag : L!Tag \cup {XactTag[s] : s \in Sessions},
              mode : L!LockModes, shard : ShardIds \cup {NoShard}, session : BOOLEAN]

TypeOK ==
    /\ granted \subseteq LockEntry
    /\ waitQueue \in Seq(LockEntry)
    /\ acquired \in [Sessions -> SUBSET ((ShardIds \cup {NoShard}) \X L!LockModes)]
    /\ xmax \in [Placements -> Sessions \cup {NoXmax, Deleted}]
    /\ pending \in [Sessions -> Placements \cup {None}]
    /\ returned \in [Sessions -> SUBSET Placements]
    /\ deletes \in [Placements -> Nat]

(* A placement is deleted by one transaction only: of the transactions   *)
(* whose DeleteShardPlacementRow(p) returned without an ERROR, at most    *)
(* one commits, even when several wait on each other's deletes of p.      *)
DeleteOnce == \A p \in Placements : deletes[p] <= 1

(* Every wait, on a shard lock or on another transaction's delete, ends:  *)
(* the lock is granted or the deadlock check aborts the waiter, also on   *)
(* cycles that pass through both kinds of wait.                           *)
WaitEnds == \A s \in Sessions : L!Waiting(s) ~> ~L!Waiting(s)

=============================================================================
