------------------- MODULE ShardDirectoryRefinementProofs -------------------
(***************************************************************************)
(* Proof that ShardDirectory implements CommittedCatalog under the        *)
(* refinement mapping of ShardDirectoryRefinement, for every value of the *)
(* constants.  Aborts, restarts that keep the sequence, uncommitted        *)
(* inserts and deletes, and reads map to stuttering steps; nextval and    *)
(* restarts that skip values map to AdvanceSequence; Commit maps to       *)
(* CommitTransaction, which needs the uniqueness of shard ids and of      *)
(* placement oids proved in ShardDirectoryProofs.                          *)
(***************************************************************************)
EXTENDS ShardDirectoryRefinement, ShardDirectoryProofs

USE ConstantsAssumption

RefInv == IdInv /\ PlacementIdsUnique

LEMMA InitRefInv == Init => RefInv
BY InitIdInv, InitOidInv DEF RefInv, OidInv

LEMMA NextRefInv == RefInv /\ [Next]_vars => RefInv'
BY NextIdInv, NextOidInv DEF RefInv, IdInv, OidInv

(* The initial catalog is empty and the sequence at zero.                  *)
LEMMA InitRefines == Init => Catalog!Init
BY DEF Init, Catalog!Init, CommittedPartitions, CommittedShards, CommittedPlacements,
   CommittedRows

-----------------------------------------------------------------------------
(* Steps that leave the committed catalog alone.                           *)

LEMMA CatalogStutter ==
    ASSUME CommittedRows(partitionRows') = CommittedRows(partitionRows),
           CommittedRows(shardRows') = CommittedRows(shardRows),
           CommittedPlacements' = CommittedPlacements,
           shardSeq' = shardSeq
    PROVE  UNCHANGED Catalog!vars
BY DEF Catalog!vars, CommittedPartitions, CommittedShards

(* An abort removes uncommitted rows and clears xmax marks, which the     *)
(* mapping does not show.                                                  *)
LEMMA AbortTxnRefines ==
    ASSUME TypeOK, NEW s \in Sessions, AbortTxn(s)
    PROVE  UNCHANGED Catalog!vars
<1> DEFINE h(r) == IF r.xmax = s THEN [r EXCEPT !.xmax = NoXmax] ELSE r
<1>1. CommittedRows(partitionRows') = CommittedRows(partitionRows)
      BY DEF AbortTxn, CommittedRows
<1>2. CommittedRows(shardRows') = CommittedRows(shardRows)
      BY DEF AbortTxn, CommittedRows
<1>3. placementRows' = {h(r) : r \in {q \in placementRows : q.xmin # s}}
      BY DEF AbortTxn
<1>4. \A r \in placementRows : h(r).xmin = r.xmin /\ PlacementOf(h(r)) = PlacementOf(r)
      BY DEF TypeOK, PlacementRow, PlacementOf
<1>5. CommittedPlacements' = CommittedPlacements
  <2>1. ASSUME NEW x \in CommittedPlacements' PROVE x \in CommittedPlacements
    <3>1. PICK r \in placementRows : r.xmin # s /\ h(r).xmin = Committed /\ x = PlacementOf(h(r))
          BY <1>3 DEF CommittedPlacements, CommittedRows
    <3>. QED
          BY <1>4, <3>1 DEF CommittedPlacements, CommittedRows
  <2>2. ASSUME NEW x \in CommittedPlacements PROVE x \in CommittedPlacements'
    <3>1. PICK r \in placementRows : r.xmin = Committed /\ x = PlacementOf(r)
          BY DEF CommittedPlacements, CommittedRows
    <3>2. h(r) \in placementRows' /\ h(r).xmin = Committed /\ x = PlacementOf(h(r))
          BY <1>3, <1>4, <3>1
    <3>. QED
          BY <3>2 DEF CommittedPlacements, CommittedRows
  <2>. QED
        BY <2>1, <2>2
<1>6. shardSeq' = shardSeq
      BY DEF AbortTxn
<1>. QED
     BY <1>1, <1>2, <1>5, <1>6, CatalogStutter

(* A restart loses the uncommitted rows; the sequence stays or moves on   *)
(* within its bound.                                                       *)
LEMMA ServerRestartRefines ==
    ASSUME TypeOK, ServerRestart
    PROVE  [Catalog!Next]_Catalog!vars
<1> DEFINE h(r) == [r EXCEPT !.xmax = NoXmax]
<1>1. CommittedRows(partitionRows') = CommittedRows(partitionRows)
      BY DEF ServerRestart, CommittedRows
<1>2. CommittedRows(shardRows') = CommittedRows(shardRows)
      BY DEF ServerRestart, CommittedRows
<1>3. placementRows' = {h(r) : r \in {q \in placementRows : q.xmin = Committed}}
      BY DEF ServerRestart
<1>4. \A r \in placementRows : h(r).xmin = r.xmin /\ PlacementOf(h(r)) = PlacementOf(r)
      BY DEF TypeOK, PlacementRow, PlacementOf
<1>5. CommittedPlacements' = CommittedPlacements
  <2>1. ASSUME NEW x \in CommittedPlacements' PROVE x \in CommittedPlacements
    <3>1. PICK r \in placementRows : r.xmin = Committed /\ x = PlacementOf(h(r))
          BY <1>3 DEF CommittedPlacements, CommittedRows
    <3>. QED
          BY <1>4, <3>1 DEF CommittedPlacements, CommittedRows
  <2>2. ASSUME NEW x \in CommittedPlacements PROVE x \in CommittedPlacements'
    <3>1. PICK r \in placementRows : r.xmin = Committed /\ x = PlacementOf(r)
          BY DEF CommittedPlacements, CommittedRows
    <3>2. h(r) \in placementRows' /\ h(r).xmin = Committed /\ x = PlacementOf(h(r))
          BY <1>3, <1>4, <3>1
    <3>. QED
          BY <3>2 DEF CommittedPlacements, CommittedRows
  <2>. QED
        BY <2>1, <2>2
<1>6. shardSeq' \in shardSeq..MaxShardId
      BY DEF ServerRestart, TypeOK
<1>7. CASE shardSeq' = shardSeq
      BY <1>1, <1>2, <1>5, <1>7, CatalogStutter
<1>8. CASE shardSeq' # shardSeq
  <2>1. shardSeq' \in (shardSeq + 1)..MaxShardId
        BY <1>6, <1>8 DEF TypeOK
  <2>2. UNCHANGED Catalog!catalogVars
        BY <1>1, <1>2, <1>5 DEF Catalog!catalogVars, CommittedPartitions, CommittedShards
  <2>. QED
        BY <2>1, <2>2 DEF Catalog!Next, Catalog!AdvanceSequence
<1>. QED
     BY <1>7, <1>8

LEMMA FailRefines ==
    ASSUME TypeOK, NEW s \in Sessions, NEW res, Fail(s, res)
    PROVE  [Catalog!Next]_Catalog!vars
BY AbortTxnRefines, ServerRestartRefines DEF Fail, RaiseError

(* A step that changes no table and not the sequence.                      *)
LEMMA FrameRefines ==
    ASSUME UNCHANGED <<partitionRows, shardRows, placementRows, shardSeq>>
    PROVE  UNCHANGED Catalog!vars
BY DEF Catalog!vars, CommittedPartitions, CommittedShards, CommittedPlacements

(* An insert adds a row of the open transaction, which the mapping hides. *)
LEMMA InsertsRefine ==
    ASSUME TypeOK, NEW s \in Sessions
    PROVE  /\ \A t \in Tables, m \in PartitionTypes, c \in Columns :
                 InsertPartitionRow(s, t, m, c) => UNCHANGED Catalog!vars
           /\ \A t \in Tables, sid \in ShardId, lo, hi \in Bound :
                 InsertShardRow(s, t, sid, lo, hi) => UNCHANGED Catalog!vars
           /\ \A pid \in PlacementIds, sid \in ShardId, st \in ShardStates :
                 InsertShardPlacementRow(s, pid, sid, st) => UNCHANGED Catalog!vars
<1>1. ASSUME NEW t \in Tables, NEW m \in PartitionTypes, NEW c \in Columns,
             InsertPartitionRow(s, t, m, c)
      PROVE  UNCHANGED Catalog!vars
  <2>1. CASE ~IsUserColumn(c)
        BY <1>1, <2>1, AbortTxnRefines DEF InsertPartitionRow, RaiseError
  <2>2. CASE IsUserColumn(c)
    <3>1. CommittedRows(partitionRows') = CommittedRows(partitionRows)
          BY <1>1, <2>2 DEF InsertPartitionRow, CommittedRows
    <3>. QED
          BY <1>1, <2>2, <3>1, CatalogStutter DEF InsertPartitionRow, CommittedPlacements
  <2>. QED
        BY <2>1, <2>2
<1>2. ASSUME NEW t \in Tables, NEW sid \in ShardId, NEW lo \in Bound, NEW hi \in Bound,
             InsertShardRow(s, t, sid, lo, hi)
      PROVE  UNCHANGED Catalog!vars
  <2>1. CommittedRows(shardRows') = CommittedRows(shardRows)
        BY <1>2 DEF InsertShardRow, CommittedRows
  <2>. QED
        BY <1>2, <2>1, CatalogStutter DEF InsertShardRow, CommittedPlacements
<1>3. ASSUME NEW pid \in PlacementIds, NEW sid \in ShardId, NEW st \in ShardStates,
             InsertShardPlacementRow(s, pid, sid, st)
      PROVE  UNCHANGED Catalog!vars
  <2>1. CommittedRows(placementRows') = CommittedRows(placementRows)
        BY <1>3 DEF InsertShardPlacementRow, CommittedRows
  <2>. QED
        BY <1>3, <2>1, CatalogStutter DEF InsertShardPlacementRow, CommittedPlacements
<1>. QED
     BY <1>1, <1>2, <1>3

(* A delete only sets xmax, which the mapping does not show.               *)
LEMMA DeleteRefines ==
    ASSUME TypeOK, NEW s \in Sessions, NEW pid, DeleteShardPlacementRow(s, pid)
    PROVE  UNCHANGED Catalog!vars
<1> DEFINE rows == {r \in placementRows : VisibleTo(s, r) /\ r.oid = pid}
<1>1. CASE rows = {}
      BY <1>1, AbortTxnRefines DEF DeleteShardPlacementRow, RaiseError
<1>2. CASE rows # {}
  <2>1. PICK r \in rows :
           /\ placementRows' = (placementRows \ {r}) \cup {[r EXCEPT !.xmax = s]}
           /\ UNCHANGED <<partitionRows, shardRows, shardSeq>>
        BY <1>2 DEF DeleteShardPlacementRow
  <2> DEFINE d == [r EXCEPT !.xmax = s]
  <2>2. d.xmin = r.xmin /\ PlacementOf(d) = PlacementOf(r)
        BY DEF TypeOK, PlacementRow, PlacementOf
  <2>3. CommittedPlacements' = CommittedPlacements
    <3>1. ASSUME NEW x \in CommittedPlacements' PROVE x \in CommittedPlacements
          BY <2>1, <2>2 DEF CommittedPlacements, CommittedRows
    <3>2. ASSUME NEW x \in CommittedPlacements PROVE x \in CommittedPlacements'
      <4>1. PICK q \in placementRows : q.xmin = Committed /\ x = PlacementOf(q)
            BY DEF CommittedPlacements, CommittedRows
      <4>2. CASE q = r
            BY <2>1, <2>2, <4>1, <4>2 DEF CommittedPlacements, CommittedRows
      <4>3. CASE q # r
            BY <2>1, <4>1, <4>3 DEF CommittedPlacements, CommittedRows
      <4>. QED
            BY <4>2, <4>3
    <3>. QED
          BY <3>1, <3>2
  <2>. QED
        BY <2>1, <2>3, CatalogStutter
<1>. QED
     BY <1>1, <1>2

(* The reads change state only by failing.                                 *)
LEMMA ReadsRefine ==
    ASSUME TypeOK, NEW s \in Sessions
    PROVE  /\ \A t \in Tables : LookupShardIntervalList(s, t) => [Catalog!Next]_Catalog!vars
           /\ \A t \in Tables : LoadShardIntervalList(s, t) => [Catalog!Next]_Catalog!vars
           /\ \A t \in Tables : PartitionColumn(s, t) => [Catalog!Next]_Catalog!vars
           /\ \A t \in Tables : PartitionType(s, t) => [Catalog!Next]_Catalog!vars
           /\ \A c \in Columns : ColumnNameToColumn(s, c) => [Catalog!Next]_Catalog!vars
           /\ \A a : ColumnToColumnName(s, a) => [Catalog!Next]_Catalog!vars
           /\ \A sid \in ShardId : LoadShardInterval(s, sid) => [Catalog!Next]_Catalog!vars
           /\ \A sid \in ShardId : LoadShardPlacementList(s, sid) => [Catalog!Next]_Catalog!vars
<1>1. \A t \in Tables : LookupShardIntervalList(s, t) => [Catalog!Next]_Catalog!vars
      BY FailRefines, FrameRefines DEF LookupShardIntervalList
<1>2. \A t \in Tables : LoadShardIntervalList(s, t) => [Catalog!Next]_Catalog!vars
      BY FailRefines DEF LoadShardIntervalList
<1>3. \A sid \in ShardId : LoadShardInterval(s, sid) => [Catalog!Next]_Catalog!vars
      BY FailRefines, AbortTxnRefines DEF LoadShardInterval, RaiseError
<1>. QED
     BY <1>1, <1>2, <1>3, AbortTxnRefines
     DEF PartitionColumn, PartitionType, ColumnNameToColumn, ColumnToColumnName,
         LoadShardPlacementList, RaiseError

(* nextval moves the sequence one value on.                                *)
LEMMA NextSequenceIdRefines ==
    ASSUME TypeOK, NEW s \in Sessions, NextSequenceId(s)
    PROVE  Catalog!AdvanceSequence
BY DEF NextSequenceId, Catalog!AdvanceSequence, Catalog!catalogVars, TypeOK,
   CommittedPartitions, CommittedShards, CommittedPlacements

-----------------------------------------------------------------------------
(* A commit publishes the transaction's inserts and drops its deletions   *)
(* at once.                                                                *)

LEMMA CommitRefines ==
    ASSUME RefInv, NEW s \in Sessions, Commit(s)
    PROVE  Catalog!CommitTransaction
<1> DEFINE pub(r) == IF r.xmin = s THEN [r EXCEPT !.xmin = Committed] ELSE r
<1>0. TypeOK /\ SequenceInv /\ PlacementIdsUnique /\ Committed # s
      BY DEF RefInv, IdInv
<1>1. /\ partitionRows' = {pub(p) : p \in partitionRows}
      /\ shardRows' = {pub(r) : r \in shardRows}
      /\ placementRows' = {pub(r) : r \in {q \in placementRows : q.xmax # s}}
      /\ shardSeq' = shardSeq
      BY DEF Commit
<1>2. /\ \A p \in partitionRows : pub(p).xmin = Committed <=> p.xmin \in {s, Committed}
      /\ \A p \in partitionRows : PartitionOf(pub(p)) = PartitionOf(p)
      /\ \A r \in shardRows : pub(r).xmin = Committed <=> r.xmin \in {s, Committed}
      /\ \A r \in shardRows : ShardOf(pub(r)) = ShardOf(r)
      /\ \A r \in placementRows : pub(r).xmin = Committed <=> r.xmin \in {s, Committed}
      /\ \A r \in placementRows : PlacementOf(pub(r)) = PlacementOf(r)
      BY <1>0 DEF TypeOK, PartitionRow, ShardRow, PlacementRow, PartitionOf, ShardOf,
         PlacementOf
<1>3. CommittedPartitions \subseteq CommittedPartitions'
  <2>1. SUFFICES ASSUME NEW p \in partitionRows, p.xmin = Committed
                 PROVE  PartitionOf(p) \in CommittedPartitions'
        BY DEF CommittedPartitions, CommittedRows
  <2>. QED
        BY <1>1, <1>2, <2>1 DEF CommittedPartitions, CommittedRows
<1>4. CommittedShards \subseteq CommittedShards'
  <2>1. SUFFICES ASSUME NEW r \in shardRows, r.xmin = Committed
                 PROVE  ShardOf(r) \in CommittedShards'
        BY DEF CommittedShards, CommittedRows
  <2>. QED
        BY <1>1, <1>2, <2>1 DEF CommittedShards, CommittedRows
<1>5. ASSUME NEW x \in CommittedShards' \ CommittedShards
      PROVE  \E r \in shardRows : r.xmin = s /\ x = ShardOf(r)
  <2>1. PICK r \in shardRows : pub(r).xmin = Committed /\ x = ShardOf(pub(r))
        BY <1>1, <1>5 DEF CommittedShards, CommittedRows
  <2>2. r.xmin # Committed
        BY <1>2, <1>5, <2>1 DEF CommittedShards, CommittedRows
  <2>. QED
        BY <1>2, <2>1, <2>2
<1>6. ASSUME NEW x \in CommittedShards' \ CommittedShards
      PROVE  /\ x.id \in 1..shardSeq
             /\ x.id \notin Catalog!Ids(CommittedShards)
             /\ \A y \in CommittedShards' \ CommittedShards : y.id = x.id => y = x
  <2>1. PICK r \in shardRows : r.xmin = s /\ x = ShardOf(r)
        BY <1>5, <1>6
  <2>2. r \in ShardRow /\ x.id = r.id
        BY <2>1, <1>0 DEF TypeOK, ShardOf
  <2>3. x.id \in 1..shardSeq
        BY <1>0, <2>2 DEF SequenceInv, ShardRow, ShardId
  <2>4. x.id \notin Catalog!Ids(CommittedShards)
    <3>1. SUFFICES ASSUME NEW q \in shardRows, q.xmin = Committed, ShardOf(q).id = r.id
                   PROVE  FALSE
          BY <2>2 DEF Catalog!Ids, CommittedShards, CommittedRows
    <3>2. q.id = r.id
          BY <1>0, <3>1 DEF TypeOK, ShardRow, ShardOf
    <3>. QED
          BY <1>0, <2>1, <3>1, <3>2 DEF SequenceInv, ShardIdsUnique
  <2>5. ASSUME NEW y \in CommittedShards' \ CommittedShards, y.id = x.id
        PROVE  y = x
    <3>1. PICK q \in shardRows : q.xmin = s /\ y = ShardOf(q)
          BY <1>5, <2>5
    <3>2. q.id = r.id
          BY <1>0, <2>1, <2>2, <2>5, <3>1 DEF TypeOK, ShardRow, ShardOf
    <3>. QED
          BY <1>0, <2>1, <3>1, <3>2 DEF SequenceInv, ShardIdsUnique
  <2>. QED
        BY <2>3, <2>4, <2>5
<1>7. ASSUME NEW x \in CommittedPlacements' \ CommittedPlacements
      PROVE  x.oid \notin Catalog!PlacementOids(CommittedPlacements)
  <2>1. PICK r \in placementRows : pub(r).xmin = Committed /\ x = PlacementOf(pub(r))
        BY <1>1, <1>7 DEF CommittedPlacements, CommittedRows
  <2>2. r.xmin # Committed
        BY <1>2, <1>7, <2>1 DEF CommittedPlacements, CommittedRows
  <2>3. x.oid = r.oid
        BY <1>2, <2>1 DEF PlacementOf
  <2>4. SUFFICES ASSUME NEW q \in placementRows, q.xmin = Committed, PlacementOf(q).oid = r.oid
                 PROVE  FALSE
        BY <2>3 DEF Catalog!PlacementOids, CommittedPlacements, CommittedRows
  <2>5. q.oid = r.oid
        BY <2>4 DEF PlacementOf
  <2>. QED
        BY <1>0, <2>2, <2>4, <2>5 DEF PlacementIdsUnique
<1>. QED
     BY <1>1, <1>3, <1>4, <1>6, <1>7 DEF Catalog!CommitTransaction

(* Every step of ShardDirectory is a step of CommittedCatalog or leaves   *)
(* the committed catalog and the sequence alone.                           *)
LEMMA NextRefines == RefInv /\ [Next]_vars => [Catalog!Next]_Catalog!vars
<1> SUFFICES ASSUME RefInv, [Next]_vars PROVE [Catalog!Next]_Catalog!vars
    OBVIOUS
<1>0. TypeOK
      BY DEF RefInv, IdInv
<1>1. CASE UNCHANGED vars
      BY <1>1, FrameRefines DEF vars
<1>2. CASE Next
  <2>1. PICK s \in Sessions :
           \/ Commit(s)
           \/ Rollback(s)
           \/ NextSequenceId(s)
           \/ \E t \in Tables :
                \/ LookupShardIntervalList(s, t)
                \/ LoadShardIntervalList(s, t)
                \/ PartitionColumn(s, t)
                \/ PartitionType(s, t)
                \/ \E m \in PartitionTypes, c \in Columns : InsertPartitionRow(s, t, m, c)
                \/ \E sid \in ShardId, lo, hi \in Bound : InsertShardRow(s, t, sid, lo, hi)
           \/ \E c \in Columns : ColumnNameToColumn(s, c)
           \/ \E a \in {AttNum[c] : c \in Columns} \cup {MaxAttNum + 1} :
                ColumnToColumnName(s, a)
           \/ \E sid \in ShardId :
                \/ LoadShardInterval(s, sid)
                \/ LoadShardPlacementList(s, sid)
                \/ \E pid \in PlacementIds, st \in ShardStates :
                     InsertShardPlacementRow(s, pid, sid, st)
           \/ \E pid \in Oids : DeleteShardPlacementRow(s, pid)
        BY <1>2 DEF Next
  <2>2. CASE Commit(s)
        BY <2>2, CommitRefines DEF Catalog!Next
  <2>3. CASE Rollback(s)
        BY <1>0, <2>3, AbortTxnRefines DEF Rollback
  <2>4. CASE NextSequenceId(s)
        BY <1>0, <2>4, NextSequenceIdRefines DEF Catalog!Next
  <2>5. CASE \E pid \in Oids : DeleteShardPlacementRow(s, pid)
        BY <1>0, <2>5, DeleteRefines
  <2>. QED
        BY <1>0, <2>1, <2>2, <2>3, <2>4, <2>5, InsertsRefine, ReadsRefine
<1>. QED
     BY <1>1, <1>2

(* ShardDirectory implements CommittedCatalog: whatever the sessions do,  *)
(* with rollbacks, ERRORs, NULL-bound crashes and server restarts, other  *)
(* transactions see the catalog change only by whole commits that never   *)
(* remove a partition or shard and never reuse a shard id or placement    *)
(* oid, and the shard id sequence never moves back.                       *)
THEOREM Refinement == Spec => CatalogSpec
<1>1. Init => RefInv /\ Catalog!Init
      BY InitRefInv, InitRefines
<1>2. RefInv /\ [Next]_vars => RefInv' /\ [Catalog!Next]_Catalog!vars
      BY NextRefInv, NextRefines
<1>. QED
     BY <1>1, <1>2, PTL DEF Spec, CatalogSpec, Catalog!Spec

=============================================================================
