-------------------------- MODULE ShardLockProofs --------------------------
(***************************************************************************)
(* The lock key LockShard builds from a shard id names one shard only.    *)
(***************************************************************************)
EXTENDS ShardLock, TLAPS, SequenceTheorems, FiniteSetTheorems

(* Integer division by a positive divisor: the quotient and the remainder *)
(* give back the dividend, and the remainder is below the divisor.        *)
LEMMA DivMod ==
    ASSUME NEW a \in Int, NEW k \in Nat \ {0}
    PROVE  /\ a % k = a - k * (a \div k)
           /\ a % k \in 0..(k - 1)
           /\ a \div k \in Int
BY Z3

(* Two integers with the same remainder differ by a multiple of k.        *)
LEMMA SameRemainder ==
    ASSUME NEW a \in Int, NEW b \in Int, NEW k \in Nat \ {0}, a % k = b % k
    PROVE  a - b = k * ((a \div k) - (b \div k))
<1>1. a % k = a - k * (a \div k) /\ b % k = b - k * (b \div k)
      BY DivMod
<1>2. a \div k \in Int /\ b \div k \in Int
      BY DivMod
<1>. QED
     BY <1>1, <1>2, Z3

(* A multiple of k * k that is closer to 0 than k * k is 0.               *)
LEMMA SmallMultiple ==
    ASSUME NEW m \in Int, NEW k \in Nat \ {0},
           k * k * m \in (1 - k * k)..(k * k - 1)
    PROVE  m = 0
<1>1. k * k \in Nat \ {0}
      OBVIOUS
<1>2. CASE m >= 1
      <2>1. k * k * m >= k * k
            BY <1>1, <1>2
      <2>. QED BY <2>1
<1>3. CASE m <= -1
      <2>1. k * k * m <= - (k * k)
            BY <1>1, <1>3
      <2>. QED BY <2>1
<1>. QED
     BY <1>2, <1>3

(* LockShard gives distinct shards distinct advisory locks: the split of  *)
(* the id into (uint32) (id >> 32) and (uint32) id is injective on every  *)
(* range of 2^64 consecutive ids, in particular on all of int64.          *)
THEOREM LockKeyInjective ==
    \A a, b \in Int :
        /\ LockKey(a) = LockKey(b)
        /\ a - b \in (1 - KeyRange * KeyRange)..(KeyRange * KeyRange - 1)
        => a = b
<1> SUFFICES ASSUME NEW a \in Int, NEW b \in Int, LockKey(a) = LockKey(b),
                    a - b \in (1 - KeyRange * KeyRange)..(KeyRange * KeyRange - 1)
             PROVE  a = b
    OBVIOUS
<1> DEFINE K == KeyRange
           qa == a \div K
           qb == b \div K
<1>1. K \in Nat \ {0}
      BY KeyRangeAssumption
<1>2. a % K = b % K /\ qa % K = qb % K
      BY DEF LockKey
<1>3. qa \in Int /\ qb \in Int
      BY <1>1, DivMod
<1>4. a - b = K * (qa - qb)
      BY <1>1, <1>2, SameRemainder
<1>5. qa - qb = K * ((qa \div K) - (qb \div K))
      BY <1>1, <1>2, <1>3, SameRemainder
<1>6. (qa \div K) - (qb \div K) \in Int
      BY <1>1, <1>3, DivMod
<1> DEFINE m == (qa \div K) - (qb \div K)
<1>7. a - b = K * K * m
      BY <1>1, <1>3, <1>4, <1>5, <1>6, Z3
<1>8. m = 0
      BY <1>1, <1>6, <1>7, SmallMultiple
<1>9. qa - qb = 0
      BY <1>1, <1>3, <1>5, <1>8, Z3
<1>. QED
     BY <1>1, <1>3, <1>4, <1>9, Z3

-----------------------------------------------------------------------------
(***************************************************************************)
(* Mutual exclusion of LockShard.  The lock manager keeps the holds of    *)
(* different backends on one tag compatible; every pair LockShard         *)
(* returned for is backed by a hold of the same shard and mode; and every *)
(* hold and waiter LockShard created carries the tag LockKey of its shard. *)
(***************************************************************************)

QueueSet(q) == {q[i] : i \in 1..Len(q)}

Compatible(S) ==
    \A g, h \in S : g.who # h.who /\ g.tag = h.tag => ~Conflicts(g.mode, h.mode)

KeyOfShard(S) == \A r \in S : r.tag = LockKey(r.shard)

AcquiredHeld ==
    \A s \in Sessions : \A p \in acquired[s] :
        \E g \in granted : g.who = s /\ g.shard = p[1] /\ g.mode = p[2]

LockInv ==
    /\ TypeOK
    /\ Compatible(granted)
    /\ AcquiredHeld
    /\ KeyOfShard(granted)
    /\ KeyOfShard(QueueSet(waitQueue))

(* The conflict table is symmetric.                                        *)
LEMMA ConflictsSymmetric ==
    ASSUME NEW m1, NEW m2
    PROVE  Conflicts(m1, m2) = Conflicts(m2, m1)
BY DEF Conflicts

(* A subsequence at a set of positions is a sequence of the same entries: *)
(* each of its entries is one at a chosen position, and each chosen       *)
(* position's entry is in it.                                              *)
LEMMA SubSeqAtProperties ==
    ASSUME NEW S, NEW q \in Seq(S), NEW idx \in SUBSET (1..Len(q)),
           NEW r \in SubSeqAt(q, idx)
    PROVE  /\ r \in Seq(S)
           /\ \A k \in 1..Len(r) : \E i \in idx : r[k] = q[i]
           /\ \A i \in idx : \E k \in 1..Len(r) : r[k] = q[i]
<1> DEFINE n == Cardinality(idx)
<1>0. IsFiniteSet(1..Len(q))
      BY FS_Interval, LenProperties
<1>1. IsFiniteSet(idx)
      BY <1>0, FS_Subset
<1>2. n \in Nat
      BY <1>1, FS_CardinalityType
<1>3. PICK f \in [1..n -> idx] :
          /\ \A i \in idx : \E k \in 1..n : f[k] = i
          /\ r = [k \in 1..n |-> q[f[k]]]
      BY DEF SubSeqAt
<1>4. \A k \in 1..n : q[f[k]] \in S
      BY <1>3, ElementOfSeq
<1>5. r \in [1..n -> S]
      BY <1>3, <1>4, Zenon
<1>6. r \in Seq(S) /\ Len(r) = n
      BY <1>2, <1>5
<1>. QED
     BY <1>3, <1>6

(* A waiter ProcLockWakeup grants conflicts with no hold of another       *)
(* backend, nor with a waiter it granted earlier in the walk.             *)
LEMMA GrantedWaiterFits ==
    ASSUME NEW held, NEW q \in Seq(Request), NEW G \in SUBSET (1..Len(q)),
           WakeupGrants(held, q, G), NEW i \in G,
           NEW h \in held \cup {q[j] : j \in {k \in G : k < i}},
           h.who # q[i].who, h.tag = q[i].tag
    PROVE  ~Conflicts(h.mode, q[i].mode)
<1>1. i \in 1..Len(q)
      OBVIOUS
<1>. QED
     BY <1>1, Zenon DEF WakeupGrants

(* ProcLockWakeup only moves waiters of the queue to the holds: the holds *)
(* and the queue stay within any set of lock entries they start in, the    *)
(* queue left is a subsequence of the queue, and every waiter that leaves  *)
(* the queue is granted.                                                   *)
LEMMA WakeupShape ==
    ASSUME NEW E, NEW held \in SUBSET E, NEW q \in Seq(E), NEW w \in Wakeup(held, q)
    PROVE  /\ w.held \in SUBSET E
           /\ held \subseteq w.held
           /\ w.queue \in Seq(E)
           /\ QueueSet(w.queue) \subseteq QueueSet(q)
           /\ Woken(q, w.queue) \subseteq w.held
<1>1. PICK G \in SUBSET (1..Len(q)) :
          /\ WakeupGrants(held, q, G)
          /\ \E rest \in SubSeqAt(q, (1..Len(q)) \ G) :
                w = [held |-> held \cup {q[i] : i \in G}, queue |-> rest]
      BY Zenon DEF Wakeup
<1>2. PICK rest \in SubSeqAt(q, (1..Len(q)) \ G) :
          w = [held |-> held \cup {q[i] : i \in G}, queue |-> rest]
      BY <1>1
<1>3. w.held = held \cup {q[i] : i \in G} /\ w.queue = rest
      BY <1>2
<1>4. /\ rest \in Seq(E)
      /\ \A k \in 1..Len(rest) : \E i \in (1..Len(q)) \ G : rest[k] = q[i]
      /\ \A i \in (1..Len(q)) \ G : \E k \in 1..Len(rest) : rest[k] = q[i]
      BY SubSeqAtProperties
<1>5. \A i \in 1..Len(q) : q[i] \in E
      BY ElementOfSeq
<1>6. Woken(q, w.queue) \subseteq w.held
      <2> SUFFICES ASSUME NEW i \in 1..Len(q),
                          \A k \in 1..Len(rest) : rest[k] # q[i]
                   PROVE  q[i] \in w.held
          BY <1>3 DEF Woken
      <2>1. i \in G
            BY <1>4
      <2>. QED BY <2>1, <1>3
<1>7. QueueSet(w.queue) \subseteq QueueSet(q)
      BY <1>3, <1>4 DEF QueueSet
<1>. QED
     BY <1>3, <1>4, <1>5, <1>6, <1>7

(* ProcLockWakeup keeps the holds of different backends on one tag        *)
(* compatible, and the holds keyed by their shard.                        *)
LEMMA WakeupKeeps ==
    ASSUME NEW held \in SUBSET Hold, Compatible(held), KeyOfShard(held),
           NEW q \in Seq(Request), KeyOfShard(QueueSet(q)),
           NEW w \in Wakeup(held, q)
    PROVE  /\ w.held \in SUBSET Hold
           /\ held \subseteq w.held
           /\ Compatible(w.held)
           /\ KeyOfShard(w.held)
           /\ w.queue \in Seq(Request)
           /\ QueueSet(w.queue) \subseteq QueueSet(q)
           /\ Woken(q, w.queue) \subseteq w.held
<1>0. Hold = Request
      BY DEF Hold, Request
<1>a. q \in Seq(Hold)
      BY <1>0
<1>1. PICK G \in SUBSET (1..Len(q)) :
          /\ WakeupGrants(held, q, G)
          /\ \E rest \in SubSeqAt(q, (1..Len(q)) \ G) :
                w = [held |-> held \cup {q[i] : i \in G}, queue |-> rest]
      BY Zenon DEF Wakeup
<1>b. w.held = held \cup {q[i] : i \in G}
      BY <1>1
<1>2. /\ w.held \in SUBSET Hold
      /\ held \subseteq w.held
      /\ w.queue \in Seq(Request)
      /\ QueueSet(w.queue) \subseteq QueueSet(q)
      /\ Woken(q, w.queue) \subseteq w.held
      BY <1>0, <1>a, WakeupShape
<1>6. Compatible(w.held)
      <2> SUFFICES ASSUME NEW g \in w.held, NEW h \in w.held,
                          g.who # h.who, g.tag = h.tag
                   PROVE  ~Conflicts(g.mode, h.mode)
          BY DEF Compatible
      <2>1. CASE g \in held /\ h \in held
            BY <2>1 DEF Compatible
      <2>2. CASE \E i \in G : g = q[i] /\ h \in held
            BY <2>2, <1>1, GrantedWaiterFits, ConflictsSymmetric
      <2>3. CASE \E i \in G : h = q[i] /\ g \in held
            BY <2>3, <1>1, GrantedWaiterFits
      <2>4. CASE \E i, j \in G : g = q[i] /\ h = q[j]
            <3>1. PICK i, j \in G : g = q[i] /\ h = q[j]
                  BY <2>4
            <3>2. CASE j < i
                  <4>1. h \in held \cup {q[k] : k \in {l \in G : l < i}}
                        BY <3>1, <3>2
                  <4>2. h.who # q[i].who /\ h.tag = q[i].tag
                        BY <3>1
                  <4>3. ~Conflicts(h.mode, q[i].mode)
                        BY <4>1, <4>2, <1>1, GrantedWaiterFits
                  <4>. QED BY <3>1, <4>3, ConflictsSymmetric
            <3>3. CASE i < j
                  <4>1. g \in held \cup {q[k] : k \in {l \in G : l < j}}
                        BY <3>1, <3>3
                  <4>. QED BY <3>1, <4>1, <1>1, GrantedWaiterFits
            <3>4. CASE i = j
                  BY <3>1, <3>4
            <3>. QED BY <3>2, <3>3, <3>4
      <2>. QED BY <2>1, <2>2, <2>3, <2>4, <1>b
<1>9. KeyOfShard(w.held)
      BY <1>b DEF KeyOfShard, QueueSet
<1>. QED
     BY <1>2, <1>6, <1>9

(* The acquired sets after a wakeup: the backends of E (the one whose     *)
(* transaction ends) lose theirs, the others gain what they were granted. *)
AcquiredAfter(E, q, newQueue) ==
    [x \in Sessions |->
        IF x \in E THEN {}
        ELSE acquired[x] \cup
             {<<r.shard, r.mode>> : r \in {e \in Woken(q, newQueue) : e.who = x}}]

(* A wakeup over the holds that survive the end of the transactions of E *)
(* (all of them when E is empty) preserves the invariant.                 *)
LEMMA WakeStep ==
    ASSUME LockInv, NEW E \in SUBSET Sessions,
           NEW held \in SUBSET granted, \A g \in granted : g.who \notin E => g \in held,
           NEW q \in Seq(Request), KeyOfShard(QueueSet(q)),
           NEW w \in Wakeup(held, q),
           granted' = w.held, waitQueue' = w.queue,
           acquired' = AcquiredAfter(E, q, w.queue)
    PROVE  LockInv'
<1>1. /\ held \in SUBSET Hold
      /\ Compatible(held)
      /\ KeyOfShard(held)
      BY DEF LockInv, TypeOK, Compatible, KeyOfShard
<1>2. /\ w.held \in SUBSET Hold
      /\ held \subseteq w.held
      /\ Compatible(w.held)
      /\ KeyOfShard(w.held)
      /\ w.queue \in Seq(Request)
      /\ QueueSet(w.queue) \subseteq QueueSet(q)
      /\ Woken(q, w.queue) \subseteq w.held
      BY <1>1, WakeupKeeps
<1>3. Woken(q, w.queue) \subseteq Request
      BY ElementOfSeq DEF Woken
<1>4. TypeOK'
      <2>1. acquired' \in [Sessions -> SUBSET (ShardIds \X LockModes)]
            BY <1>3 DEF LockInv, TypeOK, AcquiredAfter, Request
      <2>. QED BY <1>2, <2>1 DEF TypeOK
<1>5. AcquiredHeld'
      <2> SUFFICES ASSUME NEW x \in Sessions, NEW p \in acquired'[x]
                   PROVE  \E g \in granted' : g.who = x /\ g.shard = p[1] /\ g.mode = p[2]
          BY DEF AcquiredHeld
      <2>1. x \notin E
            BY DEF AcquiredAfter
      <2>2. CASE p \in acquired[x]
            <3>1. PICK g \in granted : g.who = x /\ g.shard = p[1] /\ g.mode = p[2]
                  BY <2>2 DEF LockInv, AcquiredHeld
            <3>. QED BY <3>1, <2>1, <1>2
      <2>3. CASE p \notin acquired[x]
            <3>1. PICK r \in Woken(q, w.queue) : r.who = x /\ p = <<r.shard, r.mode>>
                  BY <2>1, <2>3 DEF AcquiredAfter
            <3>. QED BY <3>1, <1>2
      <2>. QED BY <2>2, <2>3
<1>6. KeyOfShard(QueueSet(waitQueue'))
      BY <1>2 DEF KeyOfShard
<1>. QED
     BY <1>2, <1>4, <1>5, <1>6 DEF LockInv

(* The end of the transaction of s (LockReleaseAll, then the wakeup)      *)
(* preserves the invariant, whatever queue of the lock's waiters it wakes. *)
LEMMA ReleaseAndWakeStep ==
    ASSUME LockInv, NEW s \in Sessions,
           NEW q \in Seq(Request), KeyOfShard(QueueSet(q)),
           ReleaseAndWake(s, q)
    PROVE  LockInv'
<1> DEFINE held == {g \in granted : g.who # s \/ g.session}
<1>1. PICK w \in Wakeup(held, q) :
          /\ granted' = w.held
          /\ waitQueue' = w.queue
          /\ acquired' = [x \in Sessions |->
                            IF x = s THEN {}
                            ELSE acquired[x] \cup
                                 {<<r.shard, r.mode>> :
                                    r \in {e \in Woken(q, w.queue) : e.who = x}}]
      BY DEF ReleaseAndWake
<1>2. acquired' = AcquiredAfter({s}, q, w.queue)
      BY <1>1 DEF AcquiredAfter
<1>3. \A g \in granted : g.who \notin {s} => g \in held
      OBVIOUS
<1>. QED
     BY <1>1, <1>2, <1>3, WakeStep

(* The key LockShard builds is a pair of uint32 values.                   *)
LEMMA LockKeyInTag ==
    ASSUME NEW a \in Int
    PROVE  LockKey(a) \in Tag
<1>1. KeyRange \in Nat \ {0}
      BY KeyRangeAssumption
<1>2. a \div KeyRange \in Int
      BY <1>1, DivMod
<1>. QED
     BY <1>1, <1>2, DivMod DEF LockKey, Tag

(* A transaction lock LockAcquire grants at once, to a backend that holds *)
(* the mode already or to one no other holder conflicts with, keeps the   *)
(* invariant.                                                              *)
LEMMA GrantStep ==
    ASSUME LockInv, NEW s \in Sessions, NEW shard \in ShardIds, NEW mode \in LockModes,
           mode \in HeldModes(s, LockKey(shard)) \/ ~HolderConflict(s, LockKey(shard), mode),
           Grant(s, LockKey(shard), mode, shard, FALSE)
    PROVE  LockInv'
<1> DEFINE tag == LockKey(shard)
           req == [who |-> s, tag |-> tag, mode |-> mode, shard |-> shard, session |-> FALSE]
<1>1. granted' = granted \cup {req}
      BY DEF Grant
<1>2. req \in Hold
      BY LockKeyInTag, ShardIdsAssumption DEF Hold
<1>3. \A h \in granted : h.who # s /\ h.tag = tag =>
          ~Conflicts(h.mode, mode) /\ ~Conflicts(mode, h.mode)
      <2> SUFFICES ASSUME NEW h \in granted, h.who # s, h.tag = tag
                   PROVE  ~Conflicts(h.mode, mode)
          BY ConflictsSymmetric
      <2>1. CASE mode \in HeldModes(s, tag)
            <3>1. PICK g \in granted : g.who = s /\ g.tag = tag /\ g.mode = mode
                  BY <2>1 DEF HeldModes
            <3>. QED BY <3>1, ConflictsSymmetric DEF LockInv, Compatible
      <2>2. CASE ~HolderConflict(s, tag, mode)
            BY <2>2 DEF HolderConflict
      <2>. QED BY <2>1, <2>2
<1>4. Compatible(granted')
      BY <1>1, <1>3 DEF LockInv, Compatible
<1>0. acquired' = [acquired EXCEPT ![s] = @ \cup {<<shard, mode>>}]
      BY DEF Grant
<1>5. TypeOK'
      <2>1. granted' \subseteq Hold
            BY <1>1, <1>2 DEF LockInv, TypeOK
      <2>2. waitQueue' \in Seq(Request)
            BY DEF Grant, LockInv, TypeOK
      <2>3. acquired' \in [Sessions -> SUBSET (ShardIds \X LockModes)]
            BY <1>0 DEF LockInv, TypeOK
      <2>. QED BY <2>1, <2>2, <2>3 DEF TypeOK
<1>6. AcquiredHeld'
      <2> SUFFICES ASSUME NEW x \in Sessions, NEW p \in acquired'[x]
                   PROVE  \E g \in granted' : g.who = x /\ g.shard = p[1] /\ g.mode = p[2]
          BY DEF AcquiredHeld
      <2>1. CASE x = s /\ p = <<shard, mode>>
            <3>1. req \in granted' /\ req.who = x /\ req.shard = p[1] /\ req.mode = p[2]
                  BY <2>1, <1>1
            <3>. QED BY <3>1
      <2>2. CASE ~(x = s /\ p = <<shard, mode>>)
            <3>1. p \in acquired[x]
                  BY <2>2, <1>0 DEF LockInv, TypeOK
            <3>. QED BY <3>1, <1>1 DEF LockInv, AcquiredHeld
      <2>. QED BY <2>1, <2>2
<1>7. KeyOfShard(granted') /\ KeyOfShard(QueueSet(waitQueue'))
      BY <1>1 DEF Grant, LockInv, KeyOfShard
<1>. QED
     BY <1>4, <1>5, <1>6, <1>7 DEF LockInv

(* ProcSleep's insertion of a waiter before position i gives a sequence   *)
(* of the old waiters and the new one.                                     *)
LEMMA InsertBefore ==
    ASSUME NEW S, NEW q \in Seq(S), NEW i \in 1..Len(q), NEW r \in S
    PROVE  /\ SubSeq(q, 1, i - 1) \o <<r>> \o SubSeq(q, i, Len(q)) \in Seq(S)
           /\ QueueSet(SubSeq(q, 1, i - 1) \o <<r>> \o SubSeq(q, i, Len(q)))
                \subseteq QueueSet(q) \cup {r}
<1> DEFINE a == SubSeq(q, 1, i - 1)
           b == SubSeq(q, i, Len(q))
           ab == a \o <<r>>
<1>1. /\ a \in Seq(S) /\ Len(a) = i - 1
      /\ \A k \in 1..(i - 1) : a[k] = q[k]
      BY SubSeqProperties, ElementOfSeq
<1>2. /\ b \in Seq(S) /\ Len(b) = Len(q) - i + 1
      /\ \A k \in 1..(Len(q) - i + 1) : b[k] = q[i + k - 1]
      BY SubSeqProperties, ElementOfSeq
<1>3. <<r>> \in Seq(S) /\ Len(<<r>>) = 1 /\ <<r>>[1] = r
      OBVIOUS
<1>4. /\ ab \in Seq(S) /\ Len(ab) = i
      /\ \A k \in 1..i : ab[k] = IF k <= i - 1 THEN q[k] ELSE r
      BY <1>1, <1>3, ConcatProperties
<1>5. /\ ab \o b \in Seq(S) /\ Len(ab \o b) = Len(q) + 1
      /\ \A k \in 1..(Len(q) + 1) :
            (ab \o b)[k] = IF k <= i THEN ab[k] ELSE b[k - i]
      BY <1>2, <1>4, ConcatProperties
<1>6. \A k \in 1..(Len(q) + 1) : (ab \o b)[k] \in QueueSet(q) \cup {r}
      <2> SUFFICES ASSUME NEW k \in 1..(Len(q) + 1)
                   PROVE  (ab \o b)[k] \in QueueSet(q) \cup {r}
          OBVIOUS
      <2>1. CASE k <= i - 1
            BY <2>1, <1>4, <1>5 DEF QueueSet
      <2>2. CASE k = i
            BY <2>2, <1>4, <1>5
      <2>3. CASE k > i
            <3>1. k - i \in 1..(Len(q) - i + 1) /\ i + (k - i) - 1 \in 1..Len(q)
                  BY <2>3
            <3>2. (ab \o b)[k] = q[i + (k - i) - 1]
                  BY <2>3, <3>1, <1>2, <1>5
            <3>. QED BY <3>1, <3>2 DEF QueueSet
      <2>. QED BY <2>1, <2>2, <2>3
<1>. QED
     BY <1>5, <1>6 DEF QueueSet

(* A step that only changes the wait queue, to a sequence of waiters      *)
(* keyed by their shard, keeps the invariant.                             *)
LEMMA QueueStep ==
    ASSUME LockInv, NEW nq \in Seq(Request), KeyOfShard(QueueSet(nq)),
           waitQueue' = nq, UNCHANGED <<granted, acquired>>
    PROVE  LockInv'
BY DEF LockInv, TypeOK, Compatible, AcquiredHeld, KeyOfShard

(* ProcSleep's insertion of a waiter keyed by its shard keeps the          *)
(* invariant.                                                              *)
LEMMA InsertStep ==
    ASSUME LockInv, NEW j \in 1..Len(waitQueue), NEW r \in Request,
           r.tag = LockKey(r.shard),
           waitQueue' = SubSeq(waitQueue, 1, j - 1) \o <<r>> \o SubSeq(waitQueue, j, Len(waitQueue)),
           UNCHANGED <<granted, acquired>>
    PROVE  LockInv'
<1>1. waitQueue \in Seq(Request) /\ KeyOfShard(QueueSet(waitQueue))
      BY DEF LockInv, TypeOK
<1>2. /\ waitQueue' \in Seq(Request)
      /\ QueueSet(waitQueue') \subseteq QueueSet(waitQueue) \cup {r}
      BY <1>1, InsertBefore
<1>3. KeyOfShard(QueueSet(waitQueue'))
      BY <1>1, <1>2 DEF KeyOfShard
<1>. QED
     BY <1>2, <1>3, QueueStep

(* The wait queue is a sequence of waiters keyed by their shard.          *)
LEMMA WaitQueueKeyed ==
    ASSUME LockInv
    PROVE  waitQueue \in Seq(Request) /\ KeyOfShard(QueueSet(waitQueue))
BY DEF LockInv, TypeOK

(* A LockShard call keeps the invariant: an ERROR for a mode it rejects   *)
(* ends the transaction, and LockAcquire grants, enqueues, or reports the *)
(* deadlock ProcSleep detects, which ends the transaction.                *)
LEMMA LockShardStep ==
    ASSUME LockInv, NEW s \in Sessions, NEW shardId \in ShardIds,
           NEW lockMode \in RequestModes, LockShard(s, shardId, lockMode)
    PROVE  LockInv'
<1>1. waitQueue \in Seq(Request) /\ KeyOfShard(QueueSet(waitQueue))
      BY WaitQueueKeyed
<1>2. CASE lockMode \notin LockModes
      BY <1>1, <1>2, ReleaseAndWakeStep DEF LockShard, EndTransaction
<1>3. CASE lockMode \in LockModes
      <2> DEFINE tag == LockKey(shardId)
                 req == [who |-> s, tag |-> tag, mode |-> lockMode, shard |-> shardId,
                         session |-> FALSE]
                 found == HolderConflict(s, tag, lockMode) \/ AheadConflict(waitQueue, tag, lockMode)
                 first == FirstWaitingForMe(s, tag)
                 i == CHOOSE k \in first : TRUE
      <2>0. tag \in Tag
            BY LockKeyInTag, ShardIdsAssumption
      <2>1. req \in Request /\ req.tag = LockKey(req.shard)
            BY <1>3, <2>0 DEF Request
      <2>2. \/ /\ lockMode \in HeldModes(s, tag) \/ ~found
               /\ Grant(s, tag, lockMode, shardId, FALSE)
            \/ /\ first = {}
               /\ waitQueue' = Append(waitQueue, req)
               /\ UNCHANGED <<granted, acquired>>
            \/ /\ first # {}
               /\ \/ ReleaseAndWake(s, waitQueue)
                  \/ /\ ~HolderConflict(s, tag, lockMode)
                     /\ Grant(s, tag, lockMode, shardId, FALSE)
                  \/ /\ waitQueue' = SubSeq(waitQueue, 1, i - 1) \o <<req>>
                                      \o SubSeq(waitQueue, i, Len(waitQueue))
                     /\ UNCHANGED <<granted, acquired>>
            BY <1>3 DEF LockShard, LockAcquire
      <2>3. CASE /\ lockMode \in HeldModes(s, tag) \/ ~found
                 /\ Grant(s, tag, lockMode, shardId, FALSE)
            <3>1. lockMode \in HeldModes(s, tag) \/ ~HolderConflict(s, tag, lockMode)
                  BY <2>3
            <3>. QED BY <1>3, <2>3, <3>1, GrantStep
      <2>4. CASE /\ first = {}
                 /\ waitQueue' = Append(waitQueue, req)
                 /\ UNCHANGED <<granted, acquired>>
            <3>1. Append(waitQueue, req) \in Seq(Request)
                  /\ KeyOfShard(QueueSet(Append(waitQueue, req)))
                  <4>1. /\ Append(waitQueue, req) \in Seq(Request)
                        /\ Len(Append(waitQueue, req)) = Len(waitQueue) + 1
                        /\ \A k \in 1..Len(waitQueue) : Append(waitQueue, req)[k] = waitQueue[k]
                        /\ Append(waitQueue, req)[Len(waitQueue) + 1] = req
                        BY <1>1, <2>1, AppendProperties
                  <4>2. QueueSet(Append(waitQueue, req)) \subseteq QueueSet(waitQueue) \cup {req}
                        BY <4>1, <1>1 DEF QueueSet
                  <4>. QED BY <1>1, <2>1, <4>1, <4>2 DEF KeyOfShard
            <3>. QED BY <2>4, <3>1, QueueStep
      <2>5. CASE /\ first # {}
                 /\ \/ ReleaseAndWake(s, waitQueue)
                    \/ /\ ~HolderConflict(s, tag, lockMode)
                       /\ Grant(s, tag, lockMode, shardId, FALSE)
                    \/ /\ waitQueue' = SubSeq(waitQueue, 1, i - 1) \o <<req>>
                                        \o SubSeq(waitQueue, i, Len(waitQueue))
                       /\ UNCHANGED <<granted, acquired>>
            <3>1. i \in 1..Len(waitQueue)
                  BY <2>5 DEF FirstWaitingForMe
            <3>2. CASE ReleaseAndWake(s, waitQueue)
                  BY <1>1, <3>2, ReleaseAndWakeStep
            <3>3. CASE ~HolderConflict(s, tag, lockMode) /\ Grant(s, tag, lockMode, shardId, FALSE)
                  BY <1>3, <3>3, GrantStep
            <3>4. CASE /\ waitQueue' = SubSeq(waitQueue, 1, i - 1) \o <<req>>
                                         \o SubSeq(waitQueue, i, Len(waitQueue))
                       /\ UNCHANGED <<granted, acquired>>
                  <4>1. PICK j \in 1..Len(waitQueue) : j = i
                        BY <3>1
                  <4>2. waitQueue' = SubSeq(waitQueue, 1, j - 1) \o <<req>>
                                     \o SubSeq(waitQueue, j, Len(waitQueue))
                        BY <3>4, <4>1
                  <4>. QED BY <2>1, <3>4, <4>1, <4>2, InsertStep
            <3>. QED BY <2>5, <3>2, <3>3, <3>4
      <2>. QED BY <2>2, <2>3, <2>4, <2>5
<1>. QED
     BY <1>2, <1>3

(* A reordering of the wait queue holds the same waiters.                 *)
LEMMA ReorderingShape ==
    ASSUME NEW E, waitQueue \in Seq(E), NEW q \in Reorderings
    PROVE  q \in Seq(E) /\ QueueSet(q) \subseteq QueueSet(waitQueue)
<1>1. PICK perm \in [1..Len(waitQueue) -> 1..Len(waitQueue)] :
          q = [i \in 1..Len(waitQueue) |-> waitQueue[perm[i]]]
      BY DEF Reorderings
<1>2. \A i \in 1..Len(waitQueue) : q[i] = waitQueue[perm[i]] /\ perm[i] \in 1..Len(waitQueue)
      BY <1>1
<1>3. q \in [1..Len(waitQueue) -> E]
      BY <1>1, <1>2, ElementOfSeq
<1>4. q \in Seq(E) /\ Len(q) = Len(waitQueue)
      BY <1>3, LenProperties
<1>. QED
     BY <1>2, <1>4 DEF QueueSet

LEMMA ReorderingKeyed ==
    ASSUME LockInv, NEW q \in Reorderings
    PROVE  q \in Seq(Request) /\ KeyOfShard(QueueSet(q))
<1>1. waitQueue \in Seq(Request) /\ KeyOfShard(QueueSet(waitQueue))
      BY WaitQueueKeyed
<1>. QED
     BY <1>1, ReorderingShape DEF KeyOfShard

(* The deadlock check keeps the invariant: a rearrangement of the queue   *)
(* wakes the waiters it lets through, and an abort ends the transaction   *)
(* of s, whose waiter leaves the queue.                                    *)
LEMMA DeadLockCheckStep ==
    ASSUME LockInv, NEW s \in Sessions, DeadLockCheck(s)
    PROVE  LockInv'
<1>1. waitQueue \in Seq(Request) /\ KeyOfShard(QueueSet(waitQueue))
      BY WaitQueueKeyed
<1>2. CASE CycleFreeOrders # {}
      <2>1. PICK q \in CycleFreeOrders : \E w \in Wakeup(granted, q) :
                /\ granted' = w.held
                /\ waitQueue' = w.queue
                /\ acquired' = [x \in Sessions |-> acquired[x] \cup
                       {<<r.shard, r.mode>> : r \in {e \in Woken(q, w.queue) : e.who = x}}]
            BY <1>2 DEF DeadLockCheck
      <2>2. PICK w \in Wakeup(granted, q) :
                /\ granted' = w.held
                /\ waitQueue' = w.queue
                /\ acquired' = [x \in Sessions |-> acquired[x] \cup
                       {<<r.shard, r.mode>> : r \in {e \in Woken(q, w.queue) : e.who = x}}]
            BY <2>1
      <2>3. q \in Seq(Request) /\ KeyOfShard(QueueSet(q))
            BY ReorderingKeyed DEF CycleFreeOrders
      <2>4. acquired' = AcquiredAfter({}, q, w.queue)
            BY <2>2 DEF AcquiredAfter
      <2>. QED BY <2>2, <2>3, <2>4, WakeStep
<1>3. CASE CycleFreeOrders = {}
      <2> DEFINE idx == {i \in 1..Len(waitQueue) : waitQueue[i].who # s}
      <2>1. PICK q \in SubSeqAt(waitQueue, idx) : ReleaseAndWake(s, q)
            BY <1>3 DEF DeadLockCheck
      <2>2. /\ q \in Seq(Request)
            /\ \A k \in 1..Len(q) : \E i \in idx : q[k] = waitQueue[i]
            BY <1>1, SubSeqAtProperties
      <2>3. KeyOfShard(QueueSet(q))
            BY <1>1, <2>2 DEF KeyOfShard, QueueSet
      <2>. QED BY <2>1, <2>2, <2>3, ReleaseAndWakeStep
<1>. QED
     BY <1>2, <1>3

(* Every step of the lock manager keeps the invariant.                    *)
LEMMA NextLockInv ==
    ASSUME LockInv, [Next]_vars
    PROVE  LockInv'
<1>1. CASE UNCHANGED vars
      BY <1>1 DEF vars, LockInv, TypeOK, Compatible, AcquiredHeld, KeyOfShard, QueueSet
<1>2. CASE Next
      <2>1. PICK s \in Sessions :
                \/ \E shardId \in ShardIds, lockMode \in RequestModes : LockShard(s, shardId, lockMode)
                \/ EndTransaction(s)
                \/ DeadLockCheck(s)
            BY <1>2 DEF Next
      <2>2. CASE \E shardId \in ShardIds, lockMode \in RequestModes : LockShard(s, shardId, lockMode)
            BY <2>2, LockShardStep
      <2>3. CASE EndTransaction(s)
            BY <2>3, WaitQueueKeyed, ReleaseAndWakeStep DEF EndTransaction
      <2>4. CASE DeadLockCheck(s)
            BY <2>4, DeadLockCheckStep
      <2>. QED BY <2>1, <2>2, <2>3, <2>4
<1>. QED
     BY <1>1, <1>2

(* The lock manager starts empty.                                          *)
LEMMA InitLockInv ==
    Init => LockInv
BY DEF Init, LockInv, TypeOK, Compatible, AcquiredHeld, KeyOfShard, QueueSet

(* The invariant holds in every state the lock manager reaches.           *)
LEMMA LockInvHolds ==
    Spec => []LockInv
<1>1. Init => LockInv
      BY InitLockInv
<1>2. LockInv /\ [Next]_vars => LockInv'
      BY NextLockInv
<1>. QED
     BY <1>1, <1>2, PTL DEF Spec

(* Two transactions that both returned from LockShard for one shard hold  *)
(* grants of that shard's lock tag, which the lock manager keeps          *)
(* compatible.                                                             *)
LEMMA ExclusionFromInv ==
    ASSUME LockInv
    PROVE  ShardLockExclusion
<1> SUFFICES ASSUME NEW s \in Sessions, NEW t \in Sessions, NEW sh \in ShardIds,
                    NEW m1 \in LockModes, NEW m2 \in LockModes,
                    s # t, <<sh, m1>> \in acquired[s], <<sh, m2>> \in acquired[t]
             PROVE  ~Conflicts(m1, m2)
    BY DEF ShardLockExclusion
<1>1. PICK g \in granted : g.who = s /\ g.shard = sh /\ g.mode = m1
      BY DEF LockInv, AcquiredHeld
<1>2. PICK h \in granted : h.who = t /\ h.shard = sh /\ h.mode = m2
      BY DEF LockInv, AcquiredHeld
<1>3. g.tag = h.tag
      BY <1>1, <1>2 DEF LockInv, KeyOfShard
<1>. QED
     BY <1>1, <1>2, <1>3 DEF LockInv, Compatible

(* Holds and waiters carry the key of their shard, and the key is        *)
(* injective on int64 shard ids.                                           *)
LEMMA NoFalseConflictFromInv ==
    ASSUME LockInv
    PROVE  NoFalseConflict
<1> SUFFICES ASSUME NEW a \in granted \cup QueueSet(waitQueue),
                    NEW b \in granted \cup QueueSet(waitQueue), a.tag = b.tag
             PROVE  a.shard = b.shard
    BY DEF NoFalseConflict, QueueSet
<1>1. \A r \in granted \cup QueueSet(waitQueue) : r.shard \in ShardIds /\ r.tag = LockKey(r.shard)
      <2>1. \A r \in QueueSet(waitQueue) : r \in Request
            BY ElementOfSeq DEF LockInv, TypeOK, QueueSet
      <2>. QED BY <2>1 DEF LockInv, TypeOK, KeyOfShard, Hold, Request
<1>2. LockKey(a.shard) = LockKey(b.shard) /\ a.shard \in Int /\ b.shard \in Int
      BY <1>1, ShardIdsAssumption
<1>3. a.shard - b.shard \in (1 - KeyRange * KeyRange)..(KeyRange * KeyRange - 1)
      BY <1>1, ShardIdSpreadAssumption
<1>. QED
     BY <1>2, <1>3, LockKeyInjective

(* The lock manager's state stays well-typed: holds and waiters are lock  *)
(* requests of the two modes LockShard takes, and LockShard returns only  *)
(* for shard ids and those modes.                                          *)
THEOREM LockTypeCorrect ==
    Spec => []TypeOK
<1>1. LockInv => TypeOK
      BY DEF LockInv
<1>. QED
     BY <1>1, LockInvHolds, PTL

(* ShardLockExclusion holds for every number of backends and shards: two  *)
(* transactions never both return from LockShard for one shard with       *)
(* conflicting modes.                                                      *)
THEOREM ShardLockExclusionHolds ==
    Spec => []ShardLockExclusion
<1>1. LockInv => ShardLockExclusion
      BY ExclusionFromInv
<1>. QED
     BY <1>1, LockInvHolds, PTL

(* NoFalseConflict holds for every key width and set of int64 shard ids:  *)
(* the advisory lock of a tag is held or awaited for one shard only.      *)
THEOREM NoFalseConflictHolds ==
    Spec => []NoFalseConflict
<1>1. LockInv => NoFalseConflict
      BY NoFalseConflictFromInv
<1>. QED
     BY <1>1, LockInvHolds, PTL
=============================================================================
