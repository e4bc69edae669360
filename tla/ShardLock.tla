------------------------------ MODULE ShardLock ------------------------------
(***************************************************************************)
(* LockShard (src/distribution_metadata.c) on top of the PostgreSQL lock  *)
(* manager it calls.                                                       *)
(*                                                                         *)
(* LockShard splits the 64-bit shard id into two 32-bit advisory lock key *)
(* fields and calls LockAcquire(tag, mode, sessionLock = false,           *)
(* dontWait = false): the caller blocks until the lock is granted or its  *)
(* transaction is aborted by the deadlock detector, and the lock is       *)
(* released when the transaction ends.  The lock manager is modelled as   *)
(* the environment of LockShard: holders and one FIFO wait queue, the     *)
(* conflict check against holders and against the waiters' modes         *)
(* (waitMask), the queue position a backend that already holds the lock  *)
(* takes (ProcSleep), the wakeup of waiters at release (ProcLockWakeup),  *)
(* and the deadlock check a waiter runs after deadlock_timeout.           *)
(***************************************************************************)
EXTENDS Integers, Sequences, FiniteSets

CONSTANTS
    Sessions,      \* backends, each inside a transaction
    ShardIds,      \* shard ids callers lock
    KeyRange       \* 2^32: the range of one uint32 lock key field

ShareLock == "ShareLock"
ExclusiveLock == "ExclusiveLock"
RowExclusiveLock == "RowExclusiveLock"    \* a mode LockShard rejects
LockModes == {ShareLock, ExclusiveLock}
RequestModes == LockModes \cup {RowExclusiveLock}

ASSUME KeyRangeAssumption == KeyRange \in Nat \ {0}
ASSUME ShardIdsAssumption == ShardIds \subseteq Int

(* Shard ids are int64 values (uint64 in the catalog, cast to int64), so *)
(* two of them differ by less than 2^64 = KeyRange * KeyRange.             *)
ASSUME ShardIdSpreadAssumption ==
    \A a, b \in ShardIds : a - b \in (1 - KeyRange * KeyRange)..(KeyRange * KeyRange - 1)

VARIABLES
    granted,      \* PROCLOCK holds: [who, tag, mode, shard, session]
    waitQueue,    \* the lock's wait queue, in order: [who, tag, mode, shard, session]
    acquired      \* <<shard, mode>> pairs LockShard returned for, per transaction

vars == <<granted, waitQueue, acquired>>

(* Mutant: the upper half lost, as a shift on a 32-bit value would lose  *)
(* it.                                                                     *)
LockKeyTruncated(shardId) == <<0, shardId % KeyRange>>

(* (uint32) (shardId >> 32) and (uint32) shardId: >> on a signed int64 is *)
(* an arithmetic shift (floor division), the cast takes the value modulo  *)
(* 2^32.                                                                   *)
LockKey(shardId) == <<(shardId \div KeyRange) % KeyRange, shardId % KeyRange>>

Tag == (0..(KeyRange - 1)) \X (0..(KeyRange - 1))
Hold == [who : Sessions, tag : Tag, mode : LockModes, shard : ShardIds,
         session : BOOLEAN]
Request == [who : Sessions, tag : Tag, mode : LockModes, shard : ShardIds,
            session : BOOLEAN]

(* The conflict table restricted to the two modes LockShard takes.        *)
Conflicts(m1, m2) == ~(m1 = ShareLock /\ m2 = ShareLock)

Waiting(s) == \E i \in 1..Len(waitQueue) : waitQueue[i].who = s

HeldModes(s, tag) == {g.mode : g \in {h \in granted : h.who = s /\ h.tag = tag}}

(* LockCheckConflicts: a conflict with a lock another backend holds.      *)
HolderConflict(s, tag, mode) ==
    \E g \in granted : g.who # s /\ g.tag = tag /\ Conflicts(g.mode, mode)

(* A conflict with the mode of a waiter among the queue entries `ahead`.  *)
AheadConflict(ahead, tag, mode) ==
    \E i \in 1..Len(ahead) : ahead[i].tag = tag /\ Conflicts(ahead[i].mode, mode)

(* The subsequence of `queue` at the positions `idx`, in queue order: the *)
(* one sequence that enumerates idx increasingly.                          *)
SubSeqAt(queue, idx) ==
    {[k \in 1..Cardinality(idx) |-> queue[f[k]]] :
        f \in {f \in [1..Cardinality(idx) -> idx] :
                 /\ \A k, l \in 1..Cardinality(idx) : k < l => f[k] < f[l]
                 /\ \A i \in idx : \E k \in 1..Cardinality(idx) : f[k] = i}}

(* ProcLockWakeup, run by the releasing backend for every lock, walks the *)
(* queue in order and grants each waiter that conflicts neither with a    *)
(* hold of another backend (those it granted earlier in the walk          *)
(* included) nor with a waiter still ahead of it on the same lock.  G is  *)
(* the set of positions it grants.                                        *)
WakeupGrants(held, queue, G) ==
    \A i \in 1..Len(queue) :
        i \in G <=>
            ~ \/ \E g \in held \cup {queue[j] : j \in {k \in G : k < i}} :
                   g.who # queue[i].who /\ g.tag = queue[i].tag
                   /\ Conflicts(g.mode, queue[i].mode)
              \/ \E j \in 1..(i - 1) :
                   j \notin G /\ queue[j].tag = queue[i].tag
                   /\ Conflicts(queue[j].mode, queue[i].mode)

(* The outcome of ProcLockWakeup: the holds with the granted waiters      *)
(* added, and the waiters left, in their order.                            *)
Wakeup(held, queue) ==
    UNION {{[held |-> held \cup {queue[i] : i \in G}, queue |-> rest] :
              rest \in SubSeqAt(queue, (1..Len(queue)) \ G)} :
           G \in {G \in SUBSET (1..Len(queue)) : WakeupGrants(held, queue, G)}}

(* The waiters a wakeup grants, by the acquisition they complete.         *)
Woken(queue, newQueue) ==
    {queue[i] : i \in 1..Len(queue)} \ {newQueue[i] : i \in 1..Len(newQueue)}

(* Release every transaction-scoped hold of s (LockReleaseAll at          *)
(* transaction end), then wake the waiters; the backends it grants return *)
(* from LockShard holding their lock.                                      *)
ReleaseAndWake(s, queue) ==
    \E w \in Wakeup({g \in granted : g.who # s \/ g.session}, queue) :
    /\ granted' = w.held
    /\ waitQueue' = w.queue
    /\ acquired' = [x \in Sessions |->
                      IF x = s THEN {}
                      ELSE acquired[x] \cup
                           {<<r.shard, r.mode>> : r \in {q \in Woken(queue, w.queue) : q.who = x}}]

(* ProcSleep for a backend that already holds some mode of the lock: it   *)
(* goes before the first waiter that must wait for it, and is granted at  *)
(* once when nothing ahead of that point and no holder conflicts; if that *)
(* waiter holds a mode it must wait for, the deadlock is reported at once. *)
FirstWaitingForMe(s, tag) ==
    {i \in 1..Len(waitQueue) :
        /\ waitQueue[i].tag = tag
        /\ \E m \in HeldModes(s, tag) : Conflicts(waitQueue[i].mode, m)
        /\ \A j \in 1..(i - 1) :
             ~(waitQueue[j].tag = tag
               /\ \E m \in HeldModes(s, tag) : Conflicts(waitQueue[j].mode, m))}

Grant(s, tag, mode, shard, sessionLock) ==
    /\ granted' = granted \cup
         {[who |-> s, tag |-> tag, mode |-> mode, shard |-> shard, session |-> sessionLock]}
    /\ acquired' = [acquired EXCEPT ![s] = @ \cup {<<shard, mode>>}]
    /\ UNCHANGED waitQueue

(* A transaction end of s: commit, rollback, or the abort of an ERROR.    *)
EndTransaction(s) ==
    /\ ~Waiting(s)
    /\ ReleaseAndWake(s, waitQueue)

(* LockAcquire(tag, mode, sessionLock, dontWait) for backend s.           *)
LockAcquire(s, shard, tag, mode, sessionLock, dontWait) ==
    LET req == [who |-> s, tag |-> tag, mode |-> mode, shard |-> shard,
                session |-> sessionLock]
        found == HolderConflict(s, tag, mode) \/ AheadConflict(waitQueue, tag, mode)
        first == FirstWaitingForMe(s, tag)
    IN
    \/ /\ mode \in HeldModes(s, tag) \/ ~found
       /\ Grant(s, tag, mode, shard, sessionLock)
    \/ /\ mode \notin HeldModes(s, tag) /\ found
       /\ dontWait
       /\ acquired' = [acquired EXCEPT ![s] = @ \cup {<<shard, mode>>}]
       /\ UNCHANGED <<granted, waitQueue>>
    \/ /\ mode \notin HeldModes(s, tag) /\ found
       /\ ~dontWait
       /\ IF first = {}
          THEN /\ waitQueue' = Append(waitQueue, req)
               /\ UNCHANGED <<granted, acquired>>
          ELSE LET i == CHOOSE k \in first : TRUE IN
               IF \E m \in HeldModes(waitQueue[i].who, tag) : Conflicts(mode, m)
               THEN ReleaseAndWake(s, waitQueue)
               ELSE IF ~HolderConflict(s, tag, mode)
                       /\ ~AheadConflict(SubSeq(waitQueue, 1, i - 1), tag, mode)
                    THEN Grant(s, tag, mode, shard, sessionLock)
                    ELSE /\ waitQueue' = SubSeq(waitQueue, 1, i - 1) \o <<req>>
                                           \o SubSeq(waitQueue, i, Len(waitQueue))
                         /\ UNCHANGED <<granted, acquired>>

(* Mutant: the call does not wait, and the caller goes on whether or not  *)
(* it got the lock ((void) LockAcquire with dontWait = true).              *)
LockShardNoWait(s, shardId, lockMode) ==
    /\ ~Waiting(s)
    /\ IF lockMode \in LockModes
       THEN LockAcquire(s, shardId, LockKey(shardId), lockMode, FALSE, TRUE)
       ELSE EndTransaction(s)

(* Mutant: a session lock, which transaction end does not release.         *)
LockShardSessionLock(s, shardId, lockMode) ==
    /\ ~Waiting(s)
    /\ IF lockMode \in LockModes
       THEN LockAcquire(s, shardId, LockKey(shardId), lockMode, TRUE, FALSE)
       ELSE EndTransaction(s)

(* Mutant: the check of the mode dropped.                                 *)
LockShardAnyMode(s, shardId, lockMode) ==
    /\ ~Waiting(s)
    /\ LockAcquire(s, shardId, LockKey(shardId), lockMode, FALSE, FALSE)

(* LockShard: a transaction lock, blocking; any other mode is an ERROR,   *)
(* which aborts the transaction.                                           *)
LockShard(s, shardId, lockMode) ==
    /\ ~Waiting(s)
    /\ IF lockMode \in LockModes
       THEN LockAcquire(s, shardId, LockKey(shardId), lockMode, FALSE, FALSE)
       ELSE EndTransaction(s)

(* The waits-for graph DeadLockCheck searches, for the wait queue q: a   *)
(* waiter waits for every other holder of a conflicting mode (hard edge)  *)
(* and for every waiter ahead of it on the same lock with a conflicting   *)
(* mode (soft edge).                                                       *)
WaitsFor(q, a, b) ==
    \E i \in 1..Len(q) :
       /\ q[i].who = a
       /\ \/ \E g \in granted : g.who = b /\ g.who # a
                /\ g.tag = q[i].tag /\ Conflicts(g.mode, q[i].mode)
          \/ \E j \in 1..(i - 1) : q[j].who = b /\ q[j].tag = q[i].tag
                                  /\ Conflicts(q[j].mode, q[i].mode)

(* FindLockCycle from s: a path of waits-for edges that returns to s.      *)
OnCycle(q, s) ==
    \E n \in 1..Cardinality(Sessions) :
       \E path \in [1..n -> Sessions] :
          /\ path[1] = s
          /\ \A i \in 1..(n - 1) : WaitsFor(q, path[i], path[i + 1])
          /\ WaitsFor(q, path[n], s)

(* The orders of the waiters DeadLockCheck may give the wait queues.       *)
Reorderings ==
    {[i \in 1..Len(waitQueue) |-> waitQueue[perm[i]]] :
        perm \in {f \in [1..Len(waitQueue) -> 1..Len(waitQueue)] :
                    \A i, j \in 1..Len(waitQueue) : f[i] = f[j] => i = j}}

(* The reorderings that leave no backend on a waits-for cycle.            *)
CycleFreeOrders == {q \in Reorderings : \A x \in Sessions : ~OnCycle(q, x)}

(* DeadLockCheck, run by a waiter s after deadlock_timeout, when s is on a *)
(* cycle: if the soft edges can be reversed by reordering the wait queue,  *)
(* the queue is rearranged and its waiters woken (ProcLockWakeup);         *)
(* otherwise s leaves the queue with an ERROR that aborts its transaction. *)
DeadLockCheck(s) ==
    /\ Waiting(s)
    /\ OnCycle(waitQueue, s)
    /\ IF CycleFreeOrders # {}
       THEN \E q \in CycleFreeOrders : \E w \in Wakeup(granted, q) :
               /\ granted' = w.held
               /\ waitQueue' = w.queue
               /\ acquired' = [x \in Sessions |-> acquired[x] \cup
                      {<<r.shard, r.mode>> : r \in {e \in Woken(q, w.queue) : e.who = x}}]
       ELSE \E q \in SubSeqAt(waitQueue, {i \in 1..Len(waitQueue) : waitQueue[i].who # s}) :
               ReleaseAndWake(s, q)

Init ==
    /\ granted = {}
    /\ waitQueue = <<>>
    /\ acquired = [s \in Sessions |-> {}]

Next ==
    \E s \in Sessions :
        \/ \E shardId \in ShardIds, lockMode \in RequestModes : LockShard(s, shardId, lockMode)
        \/ EndTransaction(s)
        \/ DeadLockCheck(s)

(* Callers end their transactions, and the deadlock check runs after      *)
(* deadlock_timeout in every backend that keeps waiting.                   *)
Fairness ==
    \A s \in Sessions : WF_vars(EndTransaction(s)) /\ WF_vars(DeadLockCheck(s))

Spec == Init /\ [][Next]_vars /\ Fairness

-----------------------------------------------------------------------------
(* Properties.                                                             *)

TypeOK ==
    /\ granted \subseteq Hold
    /\ waitQueue \in Seq(Request)
    /\ acquired \in [Sessions -> SUBSET (ShardIds \X LockModes)]

(* Two transactions never both have LockShard return, for the same shard, *)
(* with modes that conflict: ExclusiveLock excludes every other holder.   *)
ShardLockExclusion ==
    \A s, t \in Sessions, sh \in ShardIds, m1, m2 \in LockModes :
        s # t /\ <<sh, m1>> \in acquired[s] /\ <<sh, m2>> \in acquired[t]
            => ~Conflicts(m1, m2)

(* One lock never stands for two shards: whatever holds or waits for the *)
(* advisory lock of a tag is for the same shard, so a LockShard call only *)
(* ever waits for transactions that lock the same shard.                   *)
NoFalseConflict ==
    LET locks == granted \cup {waitQueue[i] : i \in 1..Len(waitQueue)} IN
    \A a, b \in locks : a.tag = b.tag => a.shard = b.shard

(* Every LockShard call that blocks eventually returns: it is granted the *)
(* lock, or the deadlock check aborts its transaction.                     *)
WaitEnds == \A s \in Sessions : Waiting(s) ~> ~Waiting(s)
=============================================================================
