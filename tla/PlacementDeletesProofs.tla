------------------------ MODULE PlacementDeletesProofs ------------------------
(***************************************************************************)
(* Proof that concurrent DeleteShardPlacementRow calls commit the delete  *)
(* of a placement at most once, for every number of backends, shards and *)
(* placements.                                                             *)
(***************************************************************************)
EXTENDS PlacementDeletes, TLAPS

(* The row state behind DeleteOnce: a backend's open transaction has      *)
(* returned from deleting exactly the rows whose xmax it is, and a row    *)
(* was deleted by a committed transaction exactly when its delete is      *)
(* committed (xmax = Deleted), which no later call undoes or repeats.     *)
DeleteInv ==
    /\ xmax \in [Placements -> Sessions \cup {NoXmax, Deleted}]
    /\ pending \in [Sessions -> Placements \cup {None}]
    /\ returned \in [Sessions -> SUBSET Placements]
    /\ deletes \in [Placements -> Nat]
    /\ \A s \in Sessions : returned[s] = {p \in Placements : xmax[p] = s}
    /\ \A p \in Placements : deletes[p] = IF xmax[p] = Deleted THEN 1 ELSE 0

USE MarkersAssumption, LockConstantsAssumption

(* The abort of a transaction clears its deletes and nothing else.        *)
LEMMA UndoDeletesInv ==
    ASSUME DeleteInv, NEW s \in Sessions, UndoDeletes(s)
    PROVE  DeleteInv'
<1>1. \A p \in Placements : xmax'[p] = IF xmax[p] = s THEN NoXmax ELSE xmax[p]
      BY DEF UndoDeletes
<1>2. xmax' \in [Placements -> Sessions \cup {NoXmax, Deleted}]
      BY <1>1 DEF UndoDeletes, DeleteInv
<1>3. \A t \in Sessions : returned'[t] = {p \in Placements : xmax'[p] = t}
  <2>. SUFFICES ASSUME NEW t \in Sessions
                PROVE  returned'[t] = {p \in Placements : xmax'[p] = t}
       OBVIOUS
  <2>1. CASE t = s
        BY <1>1, <2>1 DEF UndoDeletes, DeleteInv
  <2>2. CASE t # s
        BY <1>1, <2>2 DEF UndoDeletes, DeleteInv
  <2>. QED
       BY <2>1, <2>2
<1>4. \A p \in Placements : deletes'[p] = IF xmax'[p] = Deleted THEN 1 ELSE 0
      BY <1>1 DEF UndoDeletes, DeleteInv
<1>. QED
     BY <1>2, <1>3, <1>4 DEF UndoDeletes, DeleteInv

(* heap_delete either takes the row (xmax := s, and the call returns) or *)
(* leaves every row as it is and records the row s waits to delete.        *)
LEMMA HeapDeleteInv ==
    ASSUME DeleteInv, NEW s \in Sessions, NEW p \in Placements, NEW held,
           HeapDelete(s, p, held)
    PROVE  DeleteInv'
<1>1. CASE xmax[p] = NoXmax
  <2>1. /\ xmax' = [xmax EXCEPT ![p] = s]
        /\ pending' = [pending EXCEPT ![s] = None]
        /\ returned' = [returned EXCEPT ![s] = @ \cup {p}]
        /\ UNCHANGED deletes
        BY <1>1 DEF HeapDelete
  <2>2. \A t \in Sessions : returned'[t] = {q \in Placements : xmax'[q] = t}
        BY <1>1, <2>1 DEF DeleteInv
  <2>. QED
       BY <1>1, <2>1, <2>2 DEF DeleteInv
<1>2. CASE xmax[p] # NoXmax
  <2>1. /\ pending' = [pending EXCEPT ![s] = p]
        /\ UNCHANGED <<xmax, returned, deletes>>
        BY <1>2 DEF HeapDelete
  <2>. QED
       BY <2>1 DEF DeleteInv
<1>. QED
     BY <1>1, <1>2

(* A commit turns the rows the transaction deleted into committed deletes *)
(* and counts each of them once: none of them was deleted before.        *)
LEMMA CommitInv ==
    ASSUME DeleteInv, NEW s \in Sessions, Commit(s)
    PROVE  DeleteInv'
<1>1. /\ \A p \in Placements : xmax'[p] = IF xmax[p] = s THEN Deleted ELSE xmax[p]
      /\ \A p \in Placements :
            deletes'[p] = IF p \in returned[s] THEN deletes[p] + 1 ELSE deletes[p]
      /\ returned' = [returned EXCEPT ![s] = {}]
      /\ UNCHANGED pending
      BY DEF Commit
<1>2. xmax' \in [Placements -> Sessions \cup {NoXmax, Deleted}]
      BY DEF Commit, DeleteInv
<1>3. deletes' \in [Placements -> Nat]
      BY DEF Commit, DeleteInv
<1>4. \A t \in Sessions : returned'[t] = {p \in Placements : xmax'[p] = t}
      BY <1>1 DEF DeleteInv
<1>5. \A p \in Placements : deletes'[p] = IF xmax'[p] = Deleted THEN 1 ELSE 0
      BY <1>1 DEF DeleteInv
<1>. QED
     BY <1>1, <1>2, <1>3, <1>4, <1>5 DEF DeleteInv

-----------------------------------------------------------------------------

LEMMA InitDeleteInv == Init => DeleteInv
BY DEF Init, DeleteInv

LEMMA NextDeleteInv == DeleteInv /\ [Next]_vars => DeleteInv'
<1>. SUFFICES ASSUME DeleteInv, [Next]_vars PROVE DeleteInv'
     OBVIOUS
<1>1. ASSUME NEW s \in Sessions, NEW sh \in ShardIds, NEW m \in L!RequestModes,
             LockShard(s, sh, m)
      PROVE  DeleteInv'
  <2>1. CASE AbortedNow(s)
        BY <1>1, <2>1, UndoDeletesInv DEF LockShard
  <2>2. CASE ~AbortedNow(s)
        BY <1>1, <2>2 DEF LockShard, rowVars, DeleteInv
  <2>. QED
       BY <2>1, <2>2
<1>2. ASSUME NEW s \in Sessions, NEW p \in Placements, DeleteShardPlacementRow(s, p)
      PROVE  DeleteInv'
  <2>1. CASE xmax[p] \in {Deleted, s}
        BY <1>2, <2>1, UndoDeletesInv DEF DeleteShardPlacementRow
  <2>2. CASE xmax[p] \notin {Deleted, s}
        BY <1>2, <2>2, HeapDeleteInv DEF DeleteShardPlacementRow
  <2>. QED
       BY <2>1, <2>2
<1>3. ASSUME NEW s \in Sessions, DeleteResume(s) PROVE DeleteInv'
  <2>1. pending[s] \in Placements
        BY <1>3 DEF DeleteResume, DeleteInv
  <2>2. CASE xmax[pending[s]] = Deleted
        BY <1>3, <2>2, UndoDeletesInv DEF DeleteResume
  <2>3. CASE xmax[pending[s]] # Deleted
        BY <1>3, <2>1, <2>3, HeapDeleteInv DEF DeleteResume
  <2>. QED
       BY <2>2, <2>3
<1>4. ASSUME NEW s \in Sessions, Commit(s) PROVE DeleteInv'
      BY <1>4, CommitInv
<1>5. ASSUME NEW s \in Sessions, Rollback(s) PROVE DeleteInv'
      BY <1>5, UndoDeletesInv DEF Rollback
<1>6. ASSUME NEW s \in Sessions, DeadLockCheck(s) PROVE DeleteInv'
  <2>1. CASE L!CycleFreeOrders = {}
        BY <1>6, <2>1, UndoDeletesInv DEF DeadLockCheck
  <2>2. CASE L!CycleFreeOrders # {}
        BY <1>6, <2>2 DEF DeadLockCheck, rowVars, DeleteInv
  <2>. QED
       BY <2>1, <2>2
<1>7. CASE UNCHANGED vars
      BY <1>7 DEF vars, DeleteInv
<1>. QED
     BY <1>1, <1>2, <1>3, <1>4, <1>5, <1>6, <1>7 DEF Next

(* Of the transactions whose DeleteShardPlacementRow(p) returned, at most *)
(* one commits: a backend that waited for another's delete of p re-reads  *)
(* the row and raises an ERROR once that delete has committed.            *)
THEOREM DeleteOnceHolds == Spec => []DeleteOnce
<1>1. DeleteInv => DeleteOnce
      BY DEF DeleteInv, DeleteOnce
<1>. QED
     BY InitDeleteInv, NextDeleteInv, <1>1, PTL DEF Spec

-----------------------------------------------------------------------------
(***************************************************************************)
(* Type correctness.  The lock manager here holds shard locks and         *)
(* transaction id locks; its steps are those of ShardLock, whose lemmas   *)
(* about the wakeup, the reordering and the queue insertion are used      *)
(* through an instance.                                                    *)
(***************************************************************************)

LP == INSTANCE ShardLockProofs

LockTypes ==
    /\ granted \subseteq LockEntry
    /\ waitQueue \in Seq(LockEntry)
    /\ acquired \in [Sessions -> SUBSET ((ShardIds \cup {NoShard}) \X L!LockModes)]

(* The lock manager's operators, reached through ShardLock here and       *)
(* through ShardLockProofs in LP, are the same.                            *)
LEMMA SameWakeup ==
    ASSUME NEW held, NEW q, NEW w \in L!Wakeup(held, q)
    PROVE  /\ w \in LP!Wakeup(held, q)
           /\ \A nq : L!Woken(q, nq) = LP!Woken(q, nq)
<1>1. \A a, b : L!Conflicts(a, b) = LP!Conflicts(a, b)
      BY Zenon DEF L!Conflicts, LP!Conflicts, L!ShareLock, LP!ShareLock
<1>2. \A G : L!WakeupGrants(held, q, G) = LP!WakeupGrants(held, q, G)
      BY <1>1, Zenon DEF L!WakeupGrants, LP!WakeupGrants
<1>3. \A S : LP!Cardinality(S) = L!Cardinality(S)
      BY DEF LP!Cardinality, L!Cardinality
<1>4. \A idx : L!SubSeqAt(q, idx) = LP!SubSeqAt(q, idx)
      BY <1>3 DEF L!SubSeqAt, LP!SubSeqAt
<1>5. PICK G \in SUBSET (1..Len(q)) :
          /\ L!WakeupGrants(held, q, G)
          /\ \E rest \in L!SubSeqAt(q, (1..Len(q)) \ G) :
                w = [held |-> held \cup {q[i] : i \in G}, queue |-> rest]
      BY Zenon DEF L!Wakeup
<1>6. PICK rest \in L!SubSeqAt(q, (1..Len(q)) \ G) :
          w = [held |-> held \cup {q[i] : i \in G}, queue |-> rest]
      BY <1>5
<1>7. LP!WakeupGrants(held, q, G) /\ rest \in LP!SubSeqAt(q, (1..Len(q)) \ G)
      BY <1>2, <1>4, <1>5, <1>6
<1>8. w \in LP!Wakeup(held, q)
      <2>1. G \in {H \in SUBSET (1..Len(q)) : LP!WakeupGrants(held, q, H)}
            BY <1>5, <1>7
      <2>2. w \in {[held |-> held \cup {q[i] : i \in G}, queue |-> r] :
                      r \in LP!SubSeqAt(q, (1..Len(q)) \ G)}
            BY <1>6, <1>7
      <2>. QED BY <2>1, <2>2 DEF LP!Wakeup
<1>9. \A nq : L!Woken(q, nq) = LP!Woken(q, nq)
      BY Zenon DEF L!Woken, LP!Woken
<1>. QED
     BY <1>8, <1>9

(* A wakeup moves waiters of the queue to the holds, leaves a sequence of *)
(* them in the queue, and grants every waiter that leaves it.              *)
LEMMA WakeupTyped ==
    ASSUME NEW held \in SUBSET LockEntry, NEW q \in Seq(LockEntry),
           NEW w \in L!Wakeup(held, q)
    PROVE  /\ w.held \subseteq LockEntry
           /\ held \subseteq w.held
           /\ w.queue \in Seq(LockEntry)
           /\ L!Woken(q, w.queue) \subseteq w.held
<1>1. w \in LP!Wakeup(held, q)
      BY SameWakeup
<1>2. L!Woken(q, w.queue) = LP!Woken(q, w.queue)
      BY SameWakeup
<1>3. /\ w.held \in SUBSET LockEntry
      /\ held \subseteq w.held
      /\ w.queue \in Seq(LockEntry)
      /\ LP!Woken(q, w.queue) \subseteq w.held
      BY <1>1, LP!WakeupShape
<1>. QED
     BY <1>2, <1>3

(* The end of s's transaction and the wakeup that follows keep the lock  *)
(* manager's types, for any queue of lock entries it wakes.                *)
LEMMA ReleaseAndWakeTyped ==
    ASSUME LockTypes, NEW s \in Sessions, NEW q \in Seq(LockEntry), L!ReleaseAndWake(s, q)
    PROVE  LockTypes'
<1> DEFINE held == {g \in granted : g.who # s \/ g.session}
<1>1. PICK w \in L!Wakeup(held, q) :
          /\ granted' = w.held
          /\ waitQueue' = w.queue
          /\ acquired' = [x \in Sessions |->
                            IF x = s THEN {}
                            ELSE acquired[x] \cup
                                 {<<r.shard, r.mode>> :
                                    r \in {e \in L!Woken(q, w.queue) : e.who = x}}]
      BY DEF L!ReleaseAndWake
<1>2. held \in SUBSET LockEntry
      BY DEF LockTypes
<1>3. /\ w.held \subseteq LockEntry
      /\ w.queue \in Seq(LockEntry)
      /\ L!Woken(q, w.queue) \subseteq w.held
      BY <1>2, WakeupTyped
<1>4. acquired' \in [Sessions -> SUBSET ((ShardIds \cup {NoShard}) \X L!LockModes)]
      <2>1. acquired' = [x \in Sessions |->
                          IF x = s THEN {}
                          ELSE acquired[x] \cup
                               {<<r.shard, r.mode>> :
                                  r \in {e \in L!Woken(q, w.queue) : e.who = x}}]
            BY <1>1
      <2>2. \A r \in L!Woken(q, w.queue) :
                r.shard \in ShardIds \cup {NoShard} /\ r.mode \in L!LockModes
            BY <1>3 DEF LockEntry
      <2>. QED BY <2>1, <2>2 DEF LockTypes
<1>. QED
     BY <1>1, <1>3, <1>4 DEF LockTypes

(* A grant of a lock entry keeps the types.                               *)
LEMMA GrantTyped ==
    ASSUME LockTypes, NEW s \in Sessions, NEW tag, NEW mode, NEW shard, NEW sl,
           [who |-> s, tag |-> tag, mode |-> mode, shard |-> shard, session |-> sl] \in LockEntry,
           L!Grant(s, tag, mode, shard, sl)
    PROVE  LockTypes'
<1>1. <<shard, mode>> \in (ShardIds \cup {NoShard}) \X L!LockModes
      BY DEF LockEntry
<1>. QED
     BY <1>1 DEF L!Grant, LockTypes

(* LockShard's calls of the lock manager keep its types: the lock entry  *)
(* it requests is a shard lock with LockShard's key.                       *)
LEMMA LockShardTyped ==
    ASSUME LockTypes, NEW s \in Sessions, NEW shardId \in ShardIds,
           NEW lockMode \in L!RequestModes, L!LockShard(s, shardId, lockMode)
    PROVE  LockTypes'
<1>1. CASE lockMode \notin L!LockModes
      BY <1>1, ReleaseAndWakeTyped DEF L!LockShard, L!EndTransaction, LockTypes
<1>2. CASE lockMode \in L!LockModes
      <2> DEFINE tag == L!LockKey(shardId)
                 req == [who |-> s, tag |-> tag, mode |-> lockMode, shard |-> shardId,
                         session |-> FALSE]
                 found == L!HolderConflict(s, tag, lockMode) \/ L!AheadConflict(waitQueue, tag, lockMode)
                 first == L!FirstWaitingForMe(s, tag)
                 i == CHOOSE k \in first : TRUE
      <2>0. tag \in L!Tag
            <3>1. L!LockKey(shardId) = LP!LockKey(shardId) /\ L!Tag = LP!Tag
                  BY DEF L!LockKey, LP!LockKey, L!Tag, LP!Tag
            <3>. QED BY <3>1, LP!LockKeyInTag
      <2>1. req \in LockEntry
            BY <1>2, <2>0 DEF LockEntry
      <2>2. \/ L!Grant(s, tag, lockMode, shardId, FALSE)
            \/ /\ waitQueue' = Append(waitQueue, req)
               /\ UNCHANGED <<granted, acquired>>
            \/ /\ first # {}
               /\ \/ L!ReleaseAndWake(s, waitQueue)
                  \/ /\ waitQueue' = SubSeq(waitQueue, 1, i - 1) \o <<req>>
                                      \o SubSeq(waitQueue, i, Len(waitQueue))
                     /\ UNCHANGED <<granted, acquired>>
            BY <1>2 DEF L!LockShard, L!LockAcquire
      <2>3. CASE L!Grant(s, tag, lockMode, shardId, FALSE)
            BY <2>1, <2>3, GrantTyped
      <2>4. CASE /\ waitQueue' = Append(waitQueue, req)
                 /\ UNCHANGED <<granted, acquired>>
            BY <2>1, <2>4, LP!AppendProperties DEF LockTypes
      <2>5. CASE /\ first # {}
                 /\ \/ L!ReleaseAndWake(s, waitQueue)
                    \/ /\ waitQueue' = SubSeq(waitQueue, 1, i - 1) \o <<req>>
                                        \o SubSeq(waitQueue, i, Len(waitQueue))
                       /\ UNCHANGED <<granted, acquired>>
            <3>1. i \in 1..Len(waitQueue)
                  BY <2>5 DEF L!FirstWaitingForMe
            <3>2. CASE L!ReleaseAndWake(s, waitQueue)
                  BY <3>2, ReleaseAndWakeTyped DEF LockTypes
            <3>3. CASE /\ waitQueue' = SubSeq(waitQueue, 1, i - 1) \o <<req>>
                                        \o SubSeq(waitQueue, i, Len(waitQueue))
                       /\ UNCHANGED <<granted, acquired>>
                  <4>1. PICK j \in 1..Len(waitQueue) : j = i
                        BY <3>1
                  <4>2. SubSeq(waitQueue, 1, j - 1) \o <<req>> \o SubSeq(waitQueue, j, Len(waitQueue))
                          \in Seq(LockEntry)
                        BY <2>1, LP!InsertBefore DEF LockTypes
                  <4>. QED BY <3>3, <4>1, <4>2 DEF LockTypes
            <3>. QED BY <2>5, <3>2, <3>3
      <2>. QED BY <2>2, <2>3, <2>4, <2>5
<1>. QED
     BY <1>1, <1>2

(* A subsequence of a queue of lock entries is a queue of lock entries.  *)
LEMMA SubSeqAtTyped ==
    ASSUME NEW q \in Seq(LockEntry), NEW idx \in SUBSET (1..Len(q)),
           NEW r \in L!SubSeqAt(q, idx)
    PROVE  r \in Seq(LockEntry)
<1>1. \A S : LP!Cardinality(S) = L!Cardinality(S)
      BY DEF LP!Cardinality, L!Cardinality
<1>2. r \in LP!SubSeqAt(q, idx)
      BY <1>1 DEF L!SubSeqAt, LP!SubSeqAt
<1>. QED
     BY <1>2, LP!SubSeqAtProperties

(* DeadLockCheck keeps the types: a reordering or a subsequence of the    *)
(* wait queue is a queue of lock entries, and its wakeup grants them.     *)
LEMMA DeadLockCheckTyped ==
    ASSUME LockTypes, NEW s \in Sessions, L!DeadLockCheck(s)
    PROVE  LockTypes'
<1>1. CASE L!CycleFreeOrders # {}
      <2>1. PICK q \in L!CycleFreeOrders : \E w \in L!Wakeup(granted, q) :
               /\ granted' = w.held
               /\ waitQueue' = w.queue
               /\ acquired' = [x \in Sessions |-> acquired[x] \cup
                      {<<r.shard, r.mode>> : r \in {e \in L!Woken(q, w.queue) : e.who = x}}]
            BY <1>1 DEF L!DeadLockCheck
      <2>2. q \in Seq(LockEntry)
            <3>1. q \in LP!Reorderings
                  BY DEF L!CycleFreeOrders, L!Reorderings, LP!Reorderings
            <3>. QED BY <3>1, LP!ReorderingShape DEF LockTypes
      <2>3. PICK w \in L!Wakeup(granted, q) :
               /\ granted' = w.held
               /\ waitQueue' = w.queue
               /\ acquired' = [x \in Sessions |-> acquired[x] \cup
                      {<<r.shard, r.mode>> : r \in {e \in L!Woken(q, w.queue) : e.who = x}}]
            BY <2>1
      <2>4. /\ w.held \subseteq LockEntry
            /\ w.queue \in Seq(LockEntry)
            /\ L!Woken(q, w.queue) \subseteq w.held
            BY <2>2, WakeupTyped DEF LockTypes
      <2>5. \A r \in L!Woken(q, w.queue) :
                r.shard \in ShardIds \cup {NoShard} /\ r.mode \in L!LockModes
            BY <2>4 DEF LockEntry
      <2>. QED BY <2>3, <2>4, <2>5 DEF LockTypes
<1>2. CASE L!CycleFreeOrders = {}
      <2>1. PICK q \in L!SubSeqAt(waitQueue, {i \in 1..Len(waitQueue) : waitQueue[i].who # s}) :
               L!ReleaseAndWake(s, q)
            BY <1>2 DEF L!DeadLockCheck
      <2>2. q \in Seq(LockEntry)
            BY <2>1, SubSeqAtTyped DEF LockTypes
      <2>. QED BY <2>1, <2>2, ReleaseAndWakeTyped
<1>. QED
     BY <1>1, <1>2

(* heap_delete's lock requests are lock entries: the ExclusiveLock on    *)
(* s's own transaction id, or a ShareLock on that of the row's deleter.  *)
LEMMA HeapDeleteTyped ==
    ASSUME LockTypes, DeleteInv, NEW s \in Sessions, NEW p \in Placements,
           NEW held \in SUBSET LockEntry, HeapDelete(s, p, held)
    PROVE  granted' \subseteq LockEntry /\ waitQueue' \in Seq(LockEntry)
<1>1. CASE xmax[p] = NoXmax
      <2>1. [who |-> s, tag |-> XactTag[s], mode |-> L!ExclusiveLock,
             shard |-> NoShard, session |-> FALSE] \in LockEntry
            BY DEF LockEntry, L!LockModes
      <2>. QED BY <1>1, <2>1 DEF HeapDelete, LockTypes
<1>2. CASE xmax[p] # NoXmax
      <2>1. xmax[p] \in Sessions \ {s}
            BY <1>2 DEF HeapDelete
      <2>2. [who |-> s, tag |-> XactTag[xmax[p]], mode |-> L!ShareLock,
             shard |-> NoShard, session |-> FALSE] \in LockEntry
            BY <2>1 DEF LockEntry, L!LockModes
      <2>3. waitQueue' = Append(waitQueue, [who |-> s, tag |-> XactTag[xmax[p]],
                           mode |-> L!ShareLock, shard |-> NoShard, session |-> FALSE])
            BY <1>2 DEF HeapDelete
      <2>. QED BY <1>2, <2>2, <2>3, LP!AppendProperties DEF HeapDelete, LockTypes
<1>. QED
     BY <1>1, <1>2

(* Each step of PlacementDeletes keeps the lock manager's types, given    *)
(* the row types of DeleteInv.                                             *)
LEMMA NextLockTypes == DeleteInv /\ LockTypes /\ [Next]_vars => LockTypes'
<1>. SUFFICES ASSUME DeleteInv, LockTypes, [Next]_vars PROVE LockTypes'
     OBVIOUS
<1>1. ASSUME NEW s \in Sessions, NEW sh \in ShardIds, NEW m \in L!RequestModes,
             LockShard(s, sh, m)
      PROVE  LockTypes'
      BY <1>1, LockShardTyped DEF LockShard
<1>2. ASSUME NEW s \in Sessions, NEW p \in Placements, DeleteShardPlacementRow(s, p)
      PROVE  LockTypes'
      <2>1. CASE xmax[p] \in {Deleted, s}
            BY <1>2, <2>1, ReleaseAndWakeTyped DEF DeleteShardPlacementRow,
               L!EndTransaction, LockTypes
      <2>2. CASE xmax[p] \notin {Deleted, s}
            BY <1>2, <2>2, HeapDeleteTyped DEF DeleteShardPlacementRow, LockTypes
      <2>. QED BY <2>1, <2>2
<1>3. ASSUME NEW s \in Sessions, DeleteResume(s)
      PROVE  LockTypes'
      <2>1. CASE xmax[pending[s]] = Deleted
            BY <1>3, <2>1, ReleaseAndWakeTyped DEF DeleteResume, LockTypes
      <2>2. CASE xmax[pending[s]] # Deleted
            <3>1. pending[s] \in Placements
                  BY <1>3 DEF DeleteResume, DeleteInv
            <3>2. ReleaseXactWait(s) \in SUBSET LockEntry
                  BY DEF ReleaseXactWait, LockTypes
            <3>3. HeapDelete(s, pending[s], ReleaseXactWait(s))
                  BY <1>3, <2>2 DEF DeleteResume
            <3>4. granted' \subseteq LockEntry /\ waitQueue' \in Seq(LockEntry)
                  BY <3>1, <3>2, <3>3, HeapDeleteTyped
            <3>5. acquired' \in [Sessions -> SUBSET ((ShardIds \cup {NoShard}) \X L!LockModes)]
                  BY <1>3, <2>2 DEF DeleteResume, LockTypes
            <3>. QED BY <3>4, <3>5 DEF LockTypes
      <2>. QED BY <2>1, <2>2
<1>4. ASSUME NEW s \in Sessions, Commit(s) \/ Rollback(s)
      PROVE  LockTypes'
      BY <1>4, ReleaseAndWakeTyped DEF Commit, Rollback, L!EndTransaction, LockTypes
<1>5. ASSUME NEW s \in Sessions, DeadLockCheck(s)
      PROVE  LockTypes'
      BY <1>5, DeadLockCheckTyped DEF DeadLockCheck
<1>6. CASE UNCHANGED vars
      BY <1>6 DEF vars, LockTypes
<1>. QED
     BY <1>1, <1>2, <1>3, <1>4, <1>5, <1>6 DEF Next

(* TypeOK holds in every reachable state of concurrent LockShard and      *)
(* DeleteShardPlacementRow calls: every granted or queued request is a   *)
(* shard lock or a transaction id lock of a backend, and the rows' xmax,  *)
(* the pending deletes and the histories keep their ranges.               *)
THEOREM DeletesTypeCorrect == Spec => []TypeOK
<1>1. Init => LockTypes
      BY DEF Init, L!Init, LockTypes
<1>2. DeleteInv /\ LockTypes => TypeOK
      BY DEF DeleteInv, LockTypes, TypeOK
<1>. QED
     BY InitDeleteInv, NextDeleteInv, NextLockTypes, <1>1, <1>2, PTL DEF Spec

=============================================================================
