------------------------- MODULE ShardListLoadProofs -------------------------
(***************************************************************************)
(* Proofs about ShardListLoad for every set of writers and shard ids: the *)
(* type invariant, and that a list LookupShardIntervalList caches lies    *)
(* between the shards committed when its scan began and those committed  *)
(* now.                                                                    *)
(***************************************************************************)
EXTENDS ShardListLoad, TLAPS

(* The strengthening CacheBetweenStartAndCommitted needs.  Committed rows  *)
(* stay committed, so the ids committed at the start of the scan, and the *)
(* ids the scan appended (each committed when fetched), remain committed; *)
(* a start id the cursor is past was fetched while committed, hence       *)
(* appended; and the cursor is only ever past ids that have a row, so     *)
(* when the scan ends every start id has been appended.                   *)
LoadInv ==
    /\ TypeOK
    /\ startIds \subseteq CommittedIds
    /\ loaded \subseteq CommittedIds
    /\ passed \subseteq Ids(shardRows)
    /\ startIds \cap passed \subseteq loaded
    /\ CacheBetweenStartAndCommitted

USE LoadAssumption

Row == [id : ShardIds, xmin : Writers \cup {Committed}]

(* Every committed id has a row.                                           *)
LEMMA CommittedHaveRows ==
    CommittedIds \subseteq Ids(shardRows)
BY DEF CommittedIds, Ids

(* An insert adds an uncommitted row: the committed ids stay as they are. *)
LEMMA InsertKeepsCommitted ==
    ASSUME TypeOK, NEW w \in Writers, NEW id \in ShardIds, InsertShardRow(w, id)
    PROVE  /\ CommittedIds' = CommittedIds
           /\ Ids(shardRows') = Ids(shardRows) \cup {id}
           /\ shardRows' \subseteq Row
<1>1. shardRows' = shardRows \cup {[id |-> id, xmin |-> w]}
      BY DEF InsertShardRow
<1>2. {r \in shardRows' : r.xmin = Committed} = {r \in shardRows : r.xmin = Committed}
      BY <1>1
<1>3. CommittedIds' = CommittedIds
      BY <1>2 DEF CommittedIds
<1>4. Ids(shardRows') = Ids(shardRows) \cup {id}
  <2>1. [id |-> id, xmin |-> w].id = id
        OBVIOUS
  <2>. QED
       BY <1>1, <2>1, Zenon DEF Ids
<1>5. [id |-> id, xmin |-> w] \in Row
      BY DEF Row
<1>6. shardRows' \subseteq Row
      BY <1>1, <1>5 DEF TypeOK, Row
<1>. QED
     BY <1>3, <1>4, <1>6

(* A commit only rewrites the xmin of the writer's rows: no committed id  *)
(* is lost and no id appears.                                              *)
LEMMA CommitGrowsCommitted ==
    ASSUME TypeOK, NEW w \in Writers, WriterCommit(w)
    PROVE  /\ CommittedIds \subseteq CommittedIds'
           /\ Ids(shardRows') = Ids(shardRows)
           /\ shardRows' \subseteq Row
<1>. DEFINE pub(r) == IF r.xmin = w THEN [r EXCEPT !.xmin = Committed] ELSE r
<1>1. shardRows' = {pub(r) : r \in shardRows}
      BY DEF WriterCommit
<1>2. \A r \in shardRows : pub(r).id = r.id /\ pub(r) \in Row
      BY DEF TypeOK, Row
<1>3. \A r \in shardRows : r.xmin = Committed => pub(r) = r
      BY DEF TypeOK, Row
<1>4. CommittedIds \subseteq CommittedIds'
  <2>. SUFFICES ASSUME NEW i \in CommittedIds PROVE i \in CommittedIds'
       OBVIOUS
  <2>1. PICK r \in shardRows : r.xmin = Committed /\ r.id = i
        BY DEF CommittedIds, Ids
  <2>. QED
       BY <1>1, <2>1, <1>3 DEF CommittedIds, Ids
<1>5. Ids(shardRows') = Ids(shardRows)
      BY <1>1, <1>2 DEF Ids
<1>6. shardRows' \subseteq Row
      BY <1>1, <1>2
<1>. QED
     BY <1>4, <1>5, <1>6

(* A rollback removes only the writer's uncommitted rows.                  *)
LEMMA AbortKeepsCommitted ==
    ASSUME TypeOK, NEW w \in Writers, WriterAbort(w)
    PROVE  /\ CommittedIds' = CommittedIds
           /\ Ids(shardRows') \subseteq Ids(shardRows)
           /\ Ids(shardRows) \ Ids({r \in shardRows : r.xmin = w}) \subseteq Ids(shardRows')
           /\ shardRows' \subseteq Row
BY DEF WriterAbort, CommittedIds, Ids, TypeOK, Row

-----------------------------------------------------------------------------

LEMMA InitLoadInv == Init => LoadInv
BY DEF Init, LoadInv, TypeOK, CommittedIds, Ids, CacheBetweenStartAndCommitted

LEMMA NextLoadInv == LoadInv /\ [Next]_vars => LoadInv'
<1>. SUFFICES ASSUME LoadInv, [Next]_vars PROVE LoadInv'
     OBVIOUS
<1>. USE DEF LoadInv, TypeOK, CacheBetweenStartAndCommitted
<1>1. CASE BeginLoad
      BY <1>1, CommittedHaveRows DEF BeginLoad, CommittedIds, Ids
<1>2. ASSUME NEW id \in ShardIds, ScanNext(id) PROVE LoadInv'
      BY <1>2 DEF ScanNext, CommittedIds, Ids
<1>3. CASE EndLoad
  <2>1. startIds \subseteq loaded
        BY <1>3, CommittedHaveRows DEF EndLoad
  <2>. QED
       BY <1>3, <2>1 DEF EndLoad, CommittedIds, Ids
<1>4. CASE SessionEnd
      BY <1>4 DEF SessionEnd, CommittedIds, Ids
<1>5. ASSUME NEW w \in Writers, NEW id \in ShardIds, InsertShardRow(w, id)
      PROVE  LoadInv'
  <2>1. /\ CommittedIds' = CommittedIds
        /\ Ids(shardRows') = Ids(shardRows) \cup {id}
        /\ shardRows' \subseteq Row
        BY <1>5, InsertKeepsCommitted
  <2>2. id \notin startIds
        BY <1>5, CommittedHaveRows DEF InsertShardRow
  <2>3. passed' \subseteq passed \cup {id}
        BY <1>5 DEF InsertShardRow
  <2>. QED
       BY <1>5, <2>1, <2>2, <2>3 DEF InsertShardRow, Row
<1>6. ASSUME NEW w \in Writers, WriterCommit(w) PROVE LoadInv'
  <2>1. /\ CommittedIds \subseteq CommittedIds'
        /\ Ids(shardRows') = Ids(shardRows)
        /\ shardRows' \subseteq Row
        BY <1>6, CommitGrowsCommitted
  <2>2. seen' \subseteq SUBSET ShardIds
        BY <1>6, <2>1 DEF WriterCommit, Observe, CommittedIds, Ids, Row
  <2>. QED
       BY <1>6, <2>1, <2>2 DEF WriterCommit, Row
<1>7. ASSUME NEW w \in Writers, WriterAbort(w) PROVE LoadInv'
  <2>1. /\ CommittedIds' = CommittedIds
        /\ Ids(shardRows') \subseteq Ids(shardRows)
        /\ Ids(shardRows) \ Ids({r \in shardRows : r.xmin = w}) \subseteq Ids(shardRows')
        /\ shardRows' \subseteq Row
        BY <1>7, AbortKeepsCommitted
  <2>2. passed' \subseteq Ids(shardRows')
        BY <1>7, <2>1 DEF WriterAbort
  <2>. QED
       BY <1>7, <2>1, <2>2 DEF WriterAbort, Row
<1>8. CASE UNCHANGED vars
      BY <1>8 DEF vars, CommittedIds, Ids
<1>. QED
     BY <1>1, <1>2, <1>3, <1>4, <1>5, <1>6, <1>7, <1>8 DEF Next

(* A list LookupShardIntervalList caches holds every shard committed when *)
(* its scan began and only shards committed now, whatever writers insert, *)
(* commit or roll back during the scan.                                    *)
THEOREM CacheBetweenStartAndCommittedHolds == Spec => []CacheBetweenStartAndCommitted
<1>1. LoadInv => CacheBetweenStartAndCommitted
      BY DEF LoadInv
<1>. QED
     BY InitLoadInv, NextLoadInv, <1>1, PTL DEF Spec

(* The scan's state keeps its types.                                       *)
THEOREM LoadTypeCorrect == Spec => []TypeOK
<1>1. LoadInv => TypeOK
      BY DEF LoadInv
<1>. QED
     BY InitLoadInv, NextLoadInv, <1>1, PTL DEF Spec

=============================================================================
