------------------------ MODULE ShardDirectoryProofs ------------------------
(***************************************************************************)
(* Proofs about ShardDirectory for every value of its constants: the type *)
(* invariant, and the uniqueness of shard ids across rollbacks, commits   *)
(* and server restarts.                                                    *)
(***************************************************************************)
EXTENDS ShardDirectory, TLAPS

(* The strengthening of ShardIdsUnique that the sequence maintains: every  *)
(* id in a row or held by a caller of NextSequenceId is at most the last  *)
(* value nextval returned, an id a caller holds is in no row yet, and two *)
(* sessions never hold the same id.                                       *)
SequenceInv ==
    /\ \A r \in shardRows : r.id <= shardSeq
    /\ \A s \in Sessions : \A i \in allocated[s] : i <= shardSeq
    /\ \A s \in Sessions : \A r \in shardRows : r.id \notin allocated[s]
    /\ \A s1, s2 \in Sessions : s1 # s2 => allocated[s1] \cap allocated[s2] = {}
    /\ ShardIdsUnique

IdInv == TypeOK /\ SequenceInv
-----------------------------------------------------------------------------
(* Type correctness.                                                       *)

USE ConstantsAssumption

(* Every list LoadShardIntervalList can return is a set of well-typed     *)
(* intervals: a row that reaches ToInterval has no NULL bound, and its     *)
(* type comes from a partition row's method and column.                    *)
LEMMA LoadResultsType ==
    ASSUME TypeOK, NEW s \in Sessions, NEW t \in Tables,
           NEW rows \in SUBSET ShardRow, NEW res \in LoadResults(s, t, rows),
           res.kind = "ok"
    PROVE  res.val \in SUBSET ShardInterval
<1>1. CASE rows = {}
      BY <1>1 DEF LoadResults
<1>2. CASE rows # {} /\ VisiblePartitionRows(s, t) = {}
      BY <1>2 DEF LoadResults, FailureOf
<1>3. CASE rows # {} /\ VisiblePartitionRows(s, t) # {}
  <2>1. PICK p \in VisiblePartitionRows(s, t) :
           LET failing == {r \in rows : HasNullBound(r) \/ ~BoundsParse(r, p)}
           IN res \in IF failing = {}
                      THEN {[kind |-> "ok", val |-> {ToInterval(r, p) : r \in rows}]}
                      ELSE {FailureOf(r) : r \in failing}
        BY <1>3 DEF LoadResults
  <2>2. p \in PartitionRow
        BY DEF VisiblePartitionRows, TypeOK
  <2>3. IntervalType(p) \in Types
        BY <2>2 DEF IntervalType, PartitionRow, Types
  <2>4. \A r \in rows : ~HasNullBound(r) => ToInterval(r, p) \in ShardInterval
        BY <2>3 DEF ToInterval, HasNullBound, ShardRow, ShardInterval, Bound, ShardId
  <2>. QED
        BY <2>1, <2>4 DEF FailureOf
<1>. QED
     BY <1>1, <1>2, <1>3

(* A transaction end or a server restart keeps the types.                  *)
LEMMA AbortTxnType ==
    ASSUME TypeOK, NEW s \in Sessions, AbortTxn(s)
    PROVE  TypeOK'
<1>1. partitionRows' \subseteq PartitionRow
      BY DEF AbortTxn, TypeOK
<1>2. shardRows' \subseteq ShardRow
      BY DEF AbortTxn, TypeOK
<1>3. placementRows' \subseteq PlacementRow
  <2>1. SUFFICES ASSUME NEW r \in placementRows, r.xmin # s
                 PROVE  (IF r.xmax = s THEN [r EXCEPT !.xmax = NoXmax] ELSE r) \in PlacementRow
        BY DEF AbortTxn
  <2>2. r \in PlacementRow
        BY DEF TypeOK
  <2>. QED
        BY <2>2 DEF PlacementRow
<1>4. allocated' \in [Sessions -> SUBSET ShardId]
      BY DEF AbortTxn, TypeOK
<1>5. rolledBack' \in [Sessions -> SUBSET ShardId]
      BY DEF AbortTxn, TypeOK, ShardRow
<1>6. UNCHANGED <<shardSeq, shardCache, crashed>>
      BY DEF AbortTxn
<1>. QED
     BY <1>1, <1>2, <1>3, <1>4, <1>5, <1>6 DEF TypeOK

LEMMA CommitType ==
    ASSUME TypeOK, NEW s \in Sessions, Commit(s)
    PROVE  TypeOK'
<1>1. partitionRows' \subseteq PartitionRow
  <2>1. SUFFICES ASSUME NEW p \in partitionRows
                 PROVE  (IF p.xmin = s THEN [p EXCEPT !.xmin = Committed] ELSE p) \in PartitionRow
        BY DEF Commit
  <2>2. p \in PartitionRow
        BY DEF TypeOK
  <2>. QED
        BY <2>2 DEF PartitionRow, Xmin
<1>2. shardRows' \subseteq ShardRow
  <2>1. SUFFICES ASSUME NEW r \in shardRows
                 PROVE  (IF r.xmin = s THEN [r EXCEPT !.xmin = Committed] ELSE r) \in ShardRow
        BY DEF Commit
  <2>2. r \in ShardRow
        BY DEF TypeOK
  <2>. QED
        BY <2>2 DEF ShardRow, Xmin
<1>3. placementRows' \subseteq PlacementRow
  <2>1. SUFFICES ASSUME NEW r \in placementRows
                 PROVE  (IF r.xmin = s THEN [r EXCEPT !.xmin = Committed] ELSE r) \in PlacementRow
        BY DEF Commit
  <2>2. r \in PlacementRow
        BY DEF TypeOK
  <2>. QED
        BY <2>2 DEF PlacementRow, Xmin
<1>4. allocated' \in [Sessions -> SUBSET ShardId]
      BY DEF Commit, TypeOK
<1>5. UNCHANGED <<shardSeq, shardCache, rolledBack, crashed>>
      BY DEF Commit
<1>. QED
     BY <1>1, <1>2, <1>3, <1>4, <1>5 DEF TypeOK

LEMMA ServerRestartType ==
    ASSUME TypeOK, ServerRestart
    PROVE  TypeOK'
<1>1. placementRows' \subseteq PlacementRow
  <2>1. SUFFICES ASSUME NEW r \in placementRows
                 PROVE  [r EXCEPT !.xmax = NoXmax] \in PlacementRow
        BY DEF ServerRestart
  <2>2. r \in PlacementRow
        BY DEF TypeOK
  <2>. QED
        BY <2>2 DEF PlacementRow
<1>2. shardSeq' \in 0..MaxShardId
      BY DEF ServerRestart, TypeOK
<1>3. /\ partitionRows' \subseteq PartitionRow
      /\ shardRows' \subseteq ShardRow
      BY DEF ServerRestart, TypeOK
<1>4. /\ allocated' \in [Sessions -> SUBSET ShardId]
      /\ rolledBack' \in [Sessions -> SUBSET ShardId]
      /\ crashed' \in BOOLEAN
      BY DEF ServerRestart
<1>5. shardCache' \in [Sessions -> [Tables -> (SUBSET ShardInterval) \cup {NoEntry}]]
  <2>1. shardCache' = [x \in Sessions |-> [t \in Tables |-> NoEntry]]
        BY DEF ServerRestart
  <2>2. NoEntry \in (SUBSET ShardInterval) \cup {NoEntry}
        OBVIOUS
  <2>. QED
        BY <2>1, <2>2
<1>. QED
     BY <1>1, <1>2, <1>3, <1>4, <1>5 DEF TypeOK

LEMMA FailType ==
    ASSUME TypeOK, NEW s \in Sessions, NEW res, Fail(s, res)
    PROVE  TypeOK'
BY AbortTxnType, ServerRestartType DEF Fail, RaiseError

LEMMA LookupType ==
    ASSUME TypeOK, NEW s \in Sessions, NEW t \in Tables,
           LookupShardIntervalList(s, t)
    PROVE  TypeOK'
<1>1. PICK res \in ShardListResults(s, t) :
         IF res.kind = "ok"
         THEN /\ res.val # {}
              /\ shardCache' = [shardCache EXCEPT ![s][t] = res.val]
              /\ UNCHANGED <<partitionRows, shardRows, placementRows, shardSeq,
                             allocated, rolledBack, crashed>>
         ELSE Fail(s, res)
      BY DEF LookupShardIntervalList
<1>2. CASE res.kind = "ok"
  <2>1. VisibleShardRows(s, t) \in SUBSET ShardRow
        BY DEF VisibleShardRows, TypeOK
  <2>2. res.val \in SUBSET ShardInterval
        BY <1>1, <1>2, <2>1, LoadResultsType DEF ShardListResults
  <2>. QED
        BY <1>1, <1>2, <2>2 DEF TypeOK
<1>3. CASE res.kind # "ok"
      BY <1>1, <1>3, FailType
<1>. QED
     BY <1>2, <1>3

LEMMA InsertsType ==
    ASSUME TypeOK, NEW s \in Sessions
    PROVE  /\ \A t \in Tables, m \in PartitionTypes, c \in Columns :
                 InsertPartitionRow(s, t, m, c) => TypeOK'
           /\ \A t \in Tables, sid \in ShardId, lo, hi \in Bound :
                 InsertShardRow(s, t, sid, lo, hi) => TypeOK'
           /\ \A pid \in PlacementIds, sid \in ShardId, st \in ShardStates :
                 InsertShardPlacementRow(s, pid, sid, st) => TypeOK'
           /\ \A pid \in Oids : DeleteShardPlacementRow(s, pid) => TypeOK'
           /\ NextSequenceId(s) => TypeOK'
<1>1. ASSUME NEW t \in Tables, NEW m \in PartitionTypes, NEW c \in Columns,
             InsertPartitionRow(s, t, m, c)
      PROVE  TypeOK'
  <2>1. CASE ~IsUserColumn(c)
        BY <1>1, <2>1, AbortTxnType DEF InsertPartitionRow, RaiseError
  <2>2. CASE IsUserColumn(c)
        BY <1>1, <2>2 DEF InsertPartitionRow, TypeOK, PartitionRow, Xmin
  <2>. QED
        BY <2>1, <2>2
<1>2. ASSUME NEW t \in Tables, NEW sid \in ShardId, NEW lo \in Bound, NEW hi \in Bound,
             InsertShardRow(s, t, sid, lo, hi)
      PROVE  TypeOK'
      BY <1>2 DEF InsertShardRow, TypeOK, ShardRow, Xmin, Bound
<1>3. ASSUME NEW pid \in PlacementIds, NEW sid \in ShardId, NEW st \in ShardStates,
             InsertShardPlacementRow(s, pid, sid, st)
      PROVE  TypeOK'
      BY <1>3 DEF InsertShardPlacementRow, FreshPlacementOids, TypeOK, PlacementRow, Xmin
<1>4. ASSUME NEW pid \in Oids, DeleteShardPlacementRow(s, pid)
      PROVE  TypeOK'
  <2> DEFINE rows == {r \in placementRows : VisibleTo(s, r) /\ r.oid = pid}
  <2>1. CASE rows = {}
        BY <1>4, <2>1, AbortTxnType DEF DeleteShardPlacementRow, RaiseError
  <2>2. CASE rows # {}
    <3>1. PICK r \in rows :
             /\ r.xmax = NoXmax
             /\ placementRows' = (placementRows \ {r}) \cup {[r EXCEPT !.xmax = s]}
             /\ UNCHANGED <<partitionRows, shardRows, shardSeq, allocated, shardCache,
                            rolledBack, crashed>>
          BY <1>4, <2>2 DEF DeleteShardPlacementRow
    <3>2. r \in PlacementRow
          BY DEF TypeOK
    <3>3. [r EXCEPT !.xmax = s] \in PlacementRow
          BY <3>2 DEF PlacementRow
    <3>. QED
          BY <3>1, <3>3 DEF TypeOK
  <2>. QED
        BY <2>1, <2>2
<1>5. ASSUME NextSequenceId(s)
      PROVE  TypeOK'
      BY <1>5 DEF NextSequenceId, TypeOK, ShardId
<1>. QED
     BY <1>1, <1>2, <1>3, <1>4, <1>5

(* The reads change state only by failing.                                 *)
LEMMA ReadsType ==
    ASSUME TypeOK, NEW s \in Sessions
    PROVE  /\ \A t \in Tables : LoadShardIntervalList(s, t) => TypeOK'
           /\ \A t \in Tables : PartitionColumn(s, t) => TypeOK'
           /\ \A t \in Tables : PartitionType(s, t) => TypeOK'
           /\ \A c \in Columns : ColumnNameToColumn(s, c) => TypeOK'
           /\ \A a : ColumnToColumnName(s, a) => TypeOK'
           /\ \A sid \in ShardId : LoadShardInterval(s, sid) => TypeOK'
           /\ \A sid \in ShardId : LoadShardPlacementList(s, sid) => TypeOK'
<1>1. \A t \in Tables : LoadShardIntervalList(s, t) => TypeOK'
      BY FailType DEF LoadShardIntervalList
<1>2. \A sid \in ShardId : LoadShardInterval(s, sid) => TypeOK'
      BY FailType, AbortTxnType DEF LoadShardInterval, RaiseError
<1>. QED
     BY <1>1, <1>2, AbortTxnType DEF PartitionColumn, PartitionType, ColumnNameToColumn,
        ColumnToColumnName, LoadShardPlacementList, RaiseError

LEMMA InitType == Init => TypeOK
<1> SUFFICES ASSUME Init PROVE TypeOK
    OBVIOUS
<1>1. NoEntry \in (SUBSET ShardInterval) \cup {NoEntry}
      OBVIOUS
<1>2. shardCache \in [Sessions -> [Tables -> (SUBSET ShardInterval) \cup {NoEntry}]]
      BY <1>1 DEF Init
<1>3. shardSeq \in 0..MaxShardId
      BY DEF Init
<1>4. /\ allocated \in [Sessions -> SUBSET ShardId]
      /\ rolledBack \in [Sessions -> SUBSET ShardId]
      BY DEF Init
<1>. QED
     BY <1>2, <1>3, <1>4 DEF Init, TypeOK

(* Every step of the specification keeps the types.                       *)
LEMMA NextType == TypeOK /\ [Next]_vars => TypeOK'
<1> SUFFICES ASSUME TypeOK, [Next]_vars PROVE TypeOK'
    OBVIOUS
<1>1. CASE UNCHANGED vars
      BY <1>1 DEF vars, TypeOK
<1>2. CASE Next
  <2>1. PICK s \in Sessions :
           \/ Commit(s)
           \/ Rollback(s)
           \/ NextSequenceId(s)
           \/ \E t \in Tables :
                \/ LookupShardIntervalList(s, t)
                \/ LoadShardIntervalList(s, t)
                \/ PartitionColumn(s, t)
                \/ PartitionType(s, t)
                \/ \E m \in PartitionTypes, c \in Columns : InsertPartitionRow(s, t, m, c)
                \/ \E sid \in ShardId, lo, hi \in Bound : InsertShardRow(s, t, sid, lo, hi)
           \/ \E c \in Columns : ColumnNameToColumn(s, c)
           \/ \E a \in {AttNum[c] : c \in Columns} \cup {MaxAttNum + 1} :
                ColumnToColumnName(s, a)
           \/ \E sid \in ShardId :
                \/ LoadShardInterval(s, sid)
                \/ LoadShardPlacementList(s, sid)
                \/ \E pid \in PlacementIds, st \in ShardStates :
                     InsertShardPlacementRow(s, pid, sid, st)
           \/ \E pid \in Oids : DeleteShardPlacementRow(s, pid)
        BY <1>2 DEF Next
  <2>. QED
        BY <2>1, CommitType, AbortTxnType, LookupType, InsertsType, ReadsType DEF Rollback
<1>. QED
     BY <1>1, <1>2

(* The type invariant holds in every state of every behaviour.            *)
THEOREM TypeCorrect == Spec => []TypeOK
BY InitType, NextType, PTL DEF Spec

-----------------------------------------------------------------------------
(* Uniqueness of shard ids.                                                *)

(* A step that leaves the rows, the held ids and the sequence alone.      *)
LEMMA SequenceFrame ==
    ASSUME SequenceInv, UNCHANGED <<shardRows, allocated, shardSeq>>
    PROVE  SequenceInv'
BY DEF SequenceInv, ShardIdsUnique

(* An abort only removes rows and ids.                                     *)
LEMMA AbortTxnSeq ==
    ASSUME TypeOK, SequenceInv, NEW s \in Sessions, AbortTxn(s)
    PROVE  SequenceInv'
BY DEF AbortTxn, SequenceInv, ShardIdsUnique, TypeOK

(* A restart only removes rows and ids; the sequence never goes back.     *)
LEMMA ServerRestartSeq ==
    ASSUME TypeOK, SequenceInv, ServerRestart
    PROVE  SequenceInv'
<1>1. shardSeq \in Int /\ shardSeq' \in Int /\ shardSeq <= shardSeq'
      BY DEF ServerRestart, TypeOK
<1>2. shardRows' \subseteq shardRows
      BY DEF ServerRestart
<1>3. \A x \in Sessions : allocated'[x] = {}
      BY DEF ServerRestart
<1>4. \A r \in shardRows' : r.id <= shardSeq'
  <2>1. \A r \in shardRows : r.id \in Int /\ r.id <= shardSeq
        BY DEF SequenceInv, TypeOK, ShardRow, ShardId
  <2>. QED
        BY <1>1, <1>2, <2>1
<1>. QED
     BY <1>2, <1>3, <1>4 DEF SequenceInv, ShardIdsUnique

LEMMA FailSeq ==
    ASSUME TypeOK, SequenceInv, NEW s \in Sessions, NEW res, Fail(s, res)
    PROVE  SequenceInv'
BY AbortTxnSeq, ServerRestartSeq DEF Fail, RaiseError

(* A commit changes only the xmin of rows, never their ids.               *)
LEMMA CommitSeq ==
    ASSUME TypeOK, SequenceInv, NEW s \in Sessions, Commit(s)
    PROVE  SequenceInv'
<1> DEFINE pub(r) == IF r.xmin = s THEN [r EXCEPT !.xmin = Committed] ELSE r
<1>1. shardRows' = {pub(r) : r \in shardRows}
      BY DEF Commit
<1>2. \A r \in shardRows : pub(r).id = r.id
      BY DEF TypeOK, ShardRow
<1>3. UNCHANGED shardSeq /\ allocated' = [allocated EXCEPT ![s] = {}]
      BY DEF Commit
<1>4. ShardIdsUnique'
  <2>1. SUFFICES ASSUME NEW a \in shardRows', NEW b \in shardRows', a.id = b.id
                 PROVE  a = b
        BY DEF ShardIdsUnique
  <2>2. PICK ra \in shardRows, rb \in shardRows : a = pub(ra) /\ b = pub(rb)
        BY <1>1
  <2>3. ra = rb
        BY <1>2, <2>1, <2>2 DEF SequenceInv, ShardIdsUnique
  <2>. QED
        BY <2>2, <2>3
<1>5. \A x \in shardRows' : \E r \in shardRows : x.id = r.id
      BY <1>1, <1>2
<1>. QED
     BY <1>3, <1>4, <1>5 DEF SequenceInv, TypeOK

(* The new row takes an id its session holds: no row has it and no other  *)
(* session holds it.                                                       *)
LEMMA InsertShardRowSeq ==
    ASSUME TypeOK, SequenceInv, NEW s \in Sessions, NEW t \in Tables,
           NEW sid \in ShardId, NEW lo \in Bound, NEW hi \in Bound,
           InsertShardRow(s, t, sid, lo, hi)
    PROVE  SequenceInv'
<1> DEFINE new == [id |-> sid, rel |-> t, xmin |-> s,
                   minv |-> IF lo # NullBound /\ hi # NullBound THEN lo ELSE NullBound,
                   maxv |-> IF lo # NullBound /\ hi # NullBound THEN hi ELSE NullBound]
<1>1. /\ shardRows' = shardRows \cup {new}
      /\ allocated' = [allocated EXCEPT ![s] = @ \ {sid}]
      /\ sid \in allocated[s]
      /\ UNCHANGED shardSeq
      BY DEF InsertShardRow
<1>2. \A r \in shardRows : r.id # sid
      BY <1>1 DEF SequenceInv
<1>3. \A x \in Sessions : sid \notin allocated'[x]
      BY <1>1 DEF SequenceInv, TypeOK
<1>4. sid <= shardSeq
      BY <1>1 DEF SequenceInv
<1>. QED
     BY <1>1, <1>2, <1>3, <1>4 DEF SequenceInv, ShardIdsUnique, TypeOK

(* nextval hands out a value above every id in use.                        *)
LEMMA NextSequenceIdSeq ==
    ASSUME TypeOK, SequenceInv, NEW s \in Sessions, NextSequenceId(s)
    PROVE  SequenceInv'
BY DEF NextSequenceId, SequenceInv, ShardIdsUnique, TypeOK, ShardId, ShardRow

(* The operations that do not touch pg_dist_shard or the sequence either  *)
(* leave them alone or fail.                                               *)
LEMMA OtherOpsSeq ==
    ASSUME TypeOK, SequenceInv, NEW s \in Sessions
    PROVE  /\ \A t \in Tables : LookupShardIntervalList(s, t) => SequenceInv'
           /\ \A t \in Tables : LoadShardIntervalList(s, t) => SequenceInv'
           /\ \A t \in Tables : PartitionColumn(s, t) => SequenceInv'
           /\ \A t \in Tables : PartitionType(s, t) => SequenceInv'
           /\ \A t \in Tables, m \in PartitionTypes, c \in Columns :
                 InsertPartitionRow(s, t, m, c) => SequenceInv'
           /\ \A c \in Columns : ColumnNameToColumn(s, c) => SequenceInv'
           /\ \A a : ColumnToColumnName(s, a) => SequenceInv'
           /\ \A sid \in ShardId : LoadShardInterval(s, sid) => SequenceInv'
           /\ \A sid \in ShardId : LoadShardPlacementList(s, sid) => SequenceInv'
           /\ \A pid \in PlacementIds, sid \in ShardId, st \in ShardStates :
                 InsertShardPlacementRow(s, pid, sid, st) => SequenceInv'
           /\ \A pid \in Oids : DeleteShardPlacementRow(s, pid) => SequenceInv'
<1>1. \A t \in Tables : LookupShardIntervalList(s, t) => SequenceInv'
      BY FailSeq, SequenceFrame DEF LookupShardIntervalList
<1>2. \A t \in Tables : LoadShardIntervalList(s, t) => SequenceInv'
      BY FailSeq DEF LoadShardIntervalList
<1>3. \A sid \in ShardId : LoadShardInterval(s, sid) => SequenceInv'
      BY FailSeq, AbortTxnSeq DEF LoadShardInterval, RaiseError
<1>4. \A t \in Tables, m \in PartitionTypes, c \in Columns :
          InsertPartitionRow(s, t, m, c) => SequenceInv'
      BY AbortTxnSeq, SequenceFrame DEF InsertPartitionRow, RaiseError
<1>5. \A pid \in PlacementIds, sid \in ShardId, st \in ShardStates :
          InsertShardPlacementRow(s, pid, sid, st) => SequenceInv'
      BY SequenceFrame DEF InsertShardPlacementRow
<1>6. \A pid \in Oids : DeleteShardPlacementRow(s, pid) => SequenceInv'
      BY AbortTxnSeq, SequenceFrame DEF DeleteShardPlacementRow, RaiseError
<1>. QED
     BY <1>1, <1>2, <1>3, <1>4, <1>5, <1>6, AbortTxnSeq
     DEF PartitionColumn, PartitionType, ColumnNameToColumn, ColumnToColumnName,
         LoadShardPlacementList, RaiseError

LEMMA InitIdInv == Init => IdInv
BY InitType DEF Init, IdInv, SequenceInv, ShardIdsUnique

(* IdInv is inductive.                                                     *)
LEMMA NextIdInv == IdInv /\ [Next]_vars => IdInv'
<1> SUFFICES ASSUME TypeOK, SequenceInv, [Next]_vars PROVE IdInv'
    BY DEF IdInv
<1>1. TypeOK'
      BY NextType
<1>2. UNCHANGED vars => SequenceInv'
      BY SequenceFrame DEF vars
<1>3. Next => SequenceInv'
  <2> SUFFICES ASSUME Next PROVE SequenceInv'
      OBVIOUS
  <2>1. PICK s \in Sessions :
           \/ Commit(s)
           \/ Rollback(s)
           \/ NextSequenceId(s)
           \/ \E t \in Tables :
                \/ LookupShardIntervalList(s, t)
                \/ LoadShardIntervalList(s, t)
                \/ PartitionColumn(s, t)
                \/ PartitionType(s, t)
                \/ \E m \in PartitionTypes, c \in Columns : InsertPartitionRow(s, t, m, c)
                \/ \E sid \in ShardId, lo, hi \in Bound : InsertShardRow(s, t, sid, lo, hi)
           \/ \E c \in Columns : ColumnNameToColumn(s, c)
           \/ \E a \in {AttNum[c] : c \in Columns} \cup {MaxAttNum + 1} :
                ColumnToColumnName(s, a)
           \/ \E sid \in ShardId :
                \/ LoadShardInterval(s, sid)
                \/ LoadShardPlacementList(s, sid)
                \/ \E pid \in PlacementIds, st \in ShardStates :
                     InsertShardPlacementRow(s, pid, sid, st)
           \/ \E pid \in Oids : DeleteShardPlacementRow(s, pid)
        BY DEF Next
  <2>2. CASE Commit(s) \/ Rollback(s) \/ NextSequenceId(s)
        BY <2>2, CommitSeq, AbortTxnSeq, NextSequenceIdSeq DEF Rollback
  <2>3. CASE \E t \in Tables, sid \in ShardId, lo, hi \in Bound : InsertShardRow(s, t, sid, lo, hi)
        BY <2>3, InsertShardRowSeq
  <2>. QED
        BY <2>1, <2>2, <2>3, OtherOpsSeq
<1>. QED
     BY <1>1, <1>2, <1>3 DEF IdInv

(* No two rows of pg_dist_shard ever carry the same shard id: shard ids   *)
(* come from nextval, which rollbacks and server restarts never rewind,   *)
(* for every number of sessions and tables and every sequence bound.      *)
THEOREM ShardIdsUniqueHolds == Spec => []ShardIdsUnique
<1>1. IdInv => ShardIdsUnique
      BY DEF IdInv, SequenceInv
<1>. QED
     BY InitIdInv, NextIdInv, <1>1, PTL DEF Spec

-----------------------------------------------------------------------------
(* Uniqueness of placement oids.                                           *)

OidInv == TypeOK /\ PlacementIdsUnique

(* An abort drops the session's rows and clears its xmax marks; no oid    *)
(* changes.                                                                *)
LEMMA AbortTxnOid ==
    ASSUME TypeOK, PlacementIdsUnique, NEW s \in Sessions, AbortTxn(s)
    PROVE  PlacementIdsUnique'
<1> DEFINE h(r) == IF r.xmax = s THEN [r EXCEPT !.xmax = NoXmax] ELSE r
<1>1. placementRows' = {h(r) : r \in {q \in placementRows : q.xmin # s}}
      BY DEF AbortTxn
<1>2. \A r \in placementRows : h(r).oid = r.oid
      BY DEF TypeOK, PlacementRow
<1>3. SUFFICES ASSUME NEW a \in placementRows', NEW b \in placementRows', a.oid = b.oid
               PROVE  a = b
      BY DEF PlacementIdsUnique
<1>4. PICK ra \in placementRows, rb \in placementRows : a = h(ra) /\ b = h(rb)
      BY <1>1
<1>. QED
     BY <1>2, <1>3, <1>4 DEF PlacementIdsUnique

(* A restart keeps only committed rows and clears every xmax.             *)
LEMMA ServerRestartOid ==
    ASSUME TypeOK, PlacementIdsUnique, ServerRestart
    PROVE  PlacementIdsUnique'
<1> DEFINE h(r) == [r EXCEPT !.xmax = NoXmax]
<1>1. placementRows' = {h(r) : r \in {q \in placementRows : q.xmin = Committed}}
      BY DEF ServerRestart
<1>2. \A r \in placementRows : h(r).oid = r.oid
      BY DEF TypeOK, PlacementRow
<1>3. SUFFICES ASSUME NEW a \in placementRows', NEW b \in placementRows', a.oid = b.oid
               PROVE  a = b
      BY DEF PlacementIdsUnique
<1>4. PICK ra \in placementRows, rb \in placementRows : a = h(ra) /\ b = h(rb)
      BY <1>1
<1>. QED
     BY <1>2, <1>3, <1>4 DEF PlacementIdsUnique

LEMMA FailOid ==
    ASSUME TypeOK, PlacementIdsUnique, NEW s \in Sessions, NEW res, Fail(s, res)
    PROVE  PlacementIdsUnique'
BY AbortTxnOid, ServerRestartOid DEF Fail, RaiseError

(* A commit drops the rows it deleted and publishes its inserts.          *)
LEMMA CommitOid ==
    ASSUME TypeOK, PlacementIdsUnique, NEW s \in Sessions, Commit(s)
    PROVE  PlacementIdsUnique'
<1> DEFINE pub(r) == IF r.xmin = s THEN [r EXCEPT !.xmin = Committed] ELSE r
<1>1. placementRows' = {pub(r) : r \in {q \in placementRows : q.xmax # s}}
      BY DEF Commit
<1>2. \A r \in placementRows : pub(r).oid = r.oid
      BY DEF TypeOK, PlacementRow
<1>3. SUFFICES ASSUME NEW a \in placementRows', NEW b \in placementRows', a.oid = b.oid
               PROVE  a = b
      BY DEF PlacementIdsUnique
<1>4. PICK ra \in placementRows, rb \in placementRows : a = pub(ra) /\ b = pub(rb)
      BY <1>1
<1>. QED
     BY <1>2, <1>3, <1>4 DEF PlacementIdsUnique

(* The oid index holds every row's oid, so a new row's oid is in no row.  *)
LEMMA InsertPlacementOid ==
    ASSUME TypeOK, PlacementIdsUnique, NEW s \in Sessions, NEW pid, NEW sid, NEW st,
           InsertShardPlacementRow(s, pid, sid, st)
    PROVE  PlacementIdsUnique'
<1>1. PICK oid \in FreshPlacementOids(s) :
         placementRows' = placementRows \cup
             {[oid |-> oid, req |-> pid, shard |-> sid, state |-> st,
               xmin |-> s, xmax |-> NoXmax]}
      BY DEF InsertShardPlacementRow
<1>2. \A r \in placementRows : r.oid # oid
      BY <1>1 DEF FreshPlacementOids
<1>. QED
     BY <1>1, <1>2 DEF PlacementIdsUnique

(* A delete marks one row's xmax and keeps its oid.                        *)
LEMMA DeletePlacementOid ==
    ASSUME TypeOK, PlacementIdsUnique, NEW s \in Sessions, NEW pid,
           DeleteShardPlacementRow(s, pid)
    PROVE  PlacementIdsUnique'
<1> DEFINE rows == {r \in placementRows : VisibleTo(s, r) /\ r.oid = pid}
<1>1. CASE rows = {}
      BY <1>1, AbortTxnOid DEF DeleteShardPlacementRow, RaiseError
<1>2. CASE rows # {}
  <2>1. PICK r \in rows :
           placementRows' = (placementRows \ {r}) \cup {[r EXCEPT !.xmax = s]}
        BY <1>2 DEF DeleteShardPlacementRow
  <2>2. r \in PlacementRow
        BY DEF TypeOK
  <2>3. [r EXCEPT !.xmax = s].oid = r.oid
        BY <2>2 DEF PlacementRow
  <2>4. \A q \in placementRows \ {r} : q.oid # r.oid
        BY DEF PlacementIdsUnique
  <2>. QED
        BY <2>1, <2>3, <2>4 DEF PlacementIdsUnique
<1>. QED
     BY <1>1, <1>2

LEMMA InitOidInv == Init => OidInv
BY InitType DEF Init, OidInv, PlacementIdsUnique

(* OidInv is inductive.                                                    *)
LEMMA NextOidInv == OidInv /\ [Next]_vars => OidInv'
<1> SUFFICES ASSUME TypeOK, PlacementIdsUnique, [Next]_vars PROVE OidInv'
    BY DEF OidInv
<1>1. TypeOK'
      BY NextType
<1>2. UNCHANGED vars => PlacementIdsUnique'
      BY DEF vars, PlacementIdsUnique
<1>3. Next => PlacementIdsUnique'
  <2> SUFFICES ASSUME Next PROVE PlacementIdsUnique'
      OBVIOUS
  <2>1. PICK s \in Sessions :
           \/ Commit(s)
           \/ Rollback(s)
           \/ NextSequenceId(s)
           \/ \E t \in Tables :
                \/ LookupShardIntervalList(s, t)
                \/ LoadShardIntervalList(s, t)
                \/ PartitionColumn(s, t)
                \/ PartitionType(s, t)
                \/ \E m \in PartitionTypes, c \in Columns : InsertPartitionRow(s, t, m, c)
                \/ \E sid \in ShardId, lo, hi \in Bound : InsertShardRow(s, t, sid, lo, hi)
           \/ \E c \in Columns : ColumnNameToColumn(s, c)
           \/ \E a \in {AttNum[c] : c \in Columns} \cup {MaxAttNum + 1} :
                ColumnToColumnName(s, a)
           \/ \E sid \in ShardId :
                \/ LoadShardInterval(s, sid)
                \/ LoadShardPlacementList(s, sid)
                \/ \E pid \in PlacementIds, st \in ShardStates :
                     InsertShardPlacementRow(s, pid, sid, st)
           \/ \E pid \in Oids : DeleteShardPlacementRow(s, pid)
        BY DEF Next
  <2>2. CASE Commit(s) \/ Rollback(s)
        BY <2>2, CommitOid, AbortTxnOid DEF Rollback
  <2>3. CASE NextSequenceId(s)
        BY <2>3 DEF NextSequenceId, PlacementIdsUnique
  <2>4. CASE \E t \in Tables :
                \/ LookupShardIntervalList(s, t)
                \/ LoadShardIntervalList(s, t)
                \/ PartitionColumn(s, t)
                \/ PartitionType(s, t)
    <3>1. \A t \in Tables : LookupShardIntervalList(s, t) => PlacementIdsUnique'
          BY FailOid DEF LookupShardIntervalList, PlacementIdsUnique
    <3>2. \A t \in Tables : LoadShardIntervalList(s, t) => PlacementIdsUnique'
          BY FailOid DEF LoadShardIntervalList
    <3>3. \A t \in Tables : PartitionColumn(s, t) \/ PartitionType(s, t) => PlacementIdsUnique'
          BY AbortTxnOid DEF PartitionColumn, PartitionType, RaiseError
    <3>. QED
          BY <2>4, <3>1, <3>2, <3>3
  <2>5. CASE \E t \in Tables :
                \/ \E m \in PartitionTypes, c \in Columns : InsertPartitionRow(s, t, m, c)
                \/ \E sid \in ShardId, lo, hi \in Bound : InsertShardRow(s, t, sid, lo, hi)
        BY <2>5, AbortTxnOid DEF InsertPartitionRow, InsertShardRow, RaiseError,
           PlacementIdsUnique
  <2>6. CASE \/ \E c \in Columns : ColumnNameToColumn(s, c)
             \/ \E a \in {AttNum[c] : c \in Columns} \cup {MaxAttNum + 1} :
                  ColumnToColumnName(s, a)
        BY <2>6, AbortTxnOid DEF ColumnNameToColumn, ColumnToColumnName, RaiseError
  <2>7. CASE \E sid \in ShardId : LoadShardInterval(s, sid) \/ LoadShardPlacementList(s, sid)
        BY <2>7, FailOid, AbortTxnOid DEF LoadShardInterval, LoadShardPlacementList,
           RaiseError
  <2>8. CASE \E sid \in ShardId, pid \in PlacementIds, st \in ShardStates :
                InsertShardPlacementRow(s, pid, sid, st)
        BY <2>8, InsertPlacementOid
  <2>9. CASE \E pid \in Oids : DeleteShardPlacementRow(s, pid)
        BY <2>9, DeletePlacementOid
  <2>. QED
        BY <2>1, <2>2, <2>3, <2>4, <2>5, <2>6, <2>7, <2>8, <2>9
<1>. QED
     BY <1>1, <1>2, <1>3 DEF OidInv

(* No two rows of pg_dist_shard_placement ever share an oid, however      *)
(* placement inserts, deletes, commits, rollbacks and restarts of any     *)
(* number of sessions interleave: GetNewOidWithIndex skips the oids of    *)
(* uncommitted rows too.                                                   *)
THEOREM PlacementIdsUniqueHolds == Spec => []PlacementIdsUnique
<1>1. OidInv => PlacementIdsUnique
      BY DEF OidInv
<1>. QED
     BY InitOidInv, NextOidInv, <1>1, PTL DEF Spec

-----------------------------------------------------------------------------
(* The cache lags the catalog only by shards added later and by the       *)
(* session's own rolled-back shards.                                       *)

(* An interval of a list LoadShardIntervalList returns is the interval of *)
(* one of the rows it read, with that row's id and bounds.                 *)
LEMMA LoadResultsRows ==
    ASSUME NEW s \in Sessions, NEW t \in Tables, NEW rows,
           NEW res \in LoadResults(s, t, rows), res.kind = "ok"
    PROVE  \A iv \in res.val : \E r \in rows :
               iv.id = r.id /\ iv.min = r.minv /\ iv.max = r.maxv
<1>1. CASE rows = {}
      BY <1>1 DEF LoadResults
<1>2. CASE rows # {} /\ VisiblePartitionRows(s, t) = {}
      BY <1>2 DEF LoadResults, FailureOf
<1>3. CASE rows # {} /\ VisiblePartitionRows(s, t) # {}
  <2>1. PICK p \in VisiblePartitionRows(s, t) :
           LET failing == {r \in rows : HasNullBound(r) \/ ~BoundsParse(r, p)}
           IN res \in IF failing = {}
                      THEN {[kind |-> "ok", val |-> {ToInterval(r, p) : r \in rows}]}
                      ELSE {FailureOf(r) : r \in failing}
        BY <1>3 DEF LoadResults
  <2>2. res.val = {ToInterval(r, p) : r \in rows}
        BY <2>1 DEF FailureOf
  <2>. QED
        BY <2>2 DEF ToInterval
<1>. QED
     BY <1>1, <1>2, <1>3

(* A step that keeps the cache, loses no rolled-back id, and keeps every   *)
(* shard row a session sees (the same id, table and bounds, still visible *)
(* to it) unless the row's id joins that session's rolled-back ids.        *)
LEMMA CacheFrame ==
    ASSUME CacheLagsCatalog,
           shardCache' = shardCache,
           \A s \in Sessions : rolledBack[s] \subseteq rolledBack'[s],
           \A s \in Sessions, r \in shardRows :
               Inserted(s, r) =>
                   \/ r.id \in rolledBack'[s]
                   \/ \E q \in shardRows' :
                        /\ Inserted(s, q) /\ q.rel = r.rel /\ q.id = r.id
                        /\ q.minv = r.minv /\ q.maxv = r.maxv
    PROVE  CacheLagsCatalog'
<1>. SUFFICES ASSUME NEW s \in Sessions, NEW t \in Tables, shardCache'[s][t] # NoEntry,
                     NEW iv \in shardCache'[s][t]
              PROVE  \/ \E r \in VisibleShardRows(s, t)' :
                          r.id = iv.id /\ r.minv = iv.min /\ r.maxv = iv.max
                     \/ iv.id \in rolledBack'[s]
     BY DEF CacheLagsCatalog
<1>1. \/ \E r \in VisibleShardRows(s, t) : r.id = iv.id /\ r.minv = iv.min /\ r.maxv = iv.max
      \/ iv.id \in rolledBack[s]
      BY DEF CacheLagsCatalog
<1>. QED
     BY <1>1 DEF VisibleShardRows

(* A server restart empties every cache.                                   *)
LEMMA ServerRestartCache ==
    ASSUME ServerRestart
    PROVE  CacheLagsCatalog'
BY DEF ServerRestart, CacheLagsCatalog

(* An abort removes only rows of the aborting session, which no other      *)
(* session sees, and records their ids as rolled back by it.               *)
LEMMA AbortTxnCache ==
    ASSUME TypeOK, CacheLagsCatalog, NEW x \in Sessions, AbortTxn(x)
    PROVE  CacheLagsCatalog'
<1>1. \A s \in Sessions : rolledBack[s] \subseteq rolledBack'[s]
      BY DEF AbortTxn, TypeOK
<1>2. \A s \in Sessions, r \in shardRows :
          Inserted(s, r) =>
              \/ r.id \in rolledBack'[s]
              \/ \E q \in shardRows' :
                   /\ Inserted(s, q) /\ q.rel = r.rel /\ q.id = r.id
                   /\ q.minv = r.minv /\ q.maxv = r.maxv
  <2>. SUFFICES ASSUME NEW s \in Sessions, NEW r \in shardRows, Inserted(s, r)
                PROVE  \/ r.id \in rolledBack'[s]
                       \/ \E q \in shardRows' :
                            /\ Inserted(s, q) /\ q.rel = r.rel /\ q.id = r.id
                            /\ q.minv = r.minv /\ q.maxv = r.maxv
       OBVIOUS
  <2>1. CASE r.xmin = x
    <3>1. x = s
          BY <2>1, ConstantsAssumption DEF Inserted
    <3>2. r.id \in {q.id : q \in {q \in shardRows : q.xmin = s}}
          BY <2>1, <3>1
    <3>. QED
          BY <3>1, <3>2 DEF AbortTxn, TypeOK
  <2>2. CASE r.xmin # x
        BY <2>2 DEF AbortTxn
  <2>. QED
        BY <2>1, <2>2
<1>. QED
     BY <1>1, <1>2, CacheFrame DEF AbortTxn

LEMMA FailCache ==
    ASSUME TypeOK, CacheLagsCatalog, NEW s \in Sessions, NEW res, Fail(s, res)
    PROVE  CacheLagsCatalog'
BY AbortTxnCache, ServerRestartCache DEF Fail, RaiseError

(* A commit keeps every row, with its id, table and bounds, and makes a   *)
(* row visible to more sessions, never to fewer.                           *)
LEMMA CommitCache ==
    ASSUME CacheLagsCatalog, NEW x \in Sessions, Commit(x)
    PROVE  CacheLagsCatalog'
<1> DEFINE pub(r) == IF r.xmin = x THEN [r EXCEPT !.xmin = Committed] ELSE r
<1>1. shardRows' = {pub(r) : r \in shardRows}
      BY DEF Commit
<1>2. \A s \in Sessions, r \in shardRows :
          Inserted(s, r) =>
              \E q \in shardRows' :
                   /\ Inserted(s, q) /\ q.rel = r.rel /\ q.id = r.id
                   /\ q.minv = r.minv /\ q.maxv = r.maxv
  <2>. SUFFICES ASSUME NEW s \in Sessions, NEW r \in shardRows, Inserted(s, r)
                PROVE  \E q \in shardRows' :
                            /\ Inserted(s, q) /\ q.rel = r.rel /\ q.id = r.id
                            /\ q.minv = r.minv /\ q.maxv = r.maxv
       OBVIOUS
  <2>1. pub(r) \in shardRows'
        BY <1>1
  <2>2. Inserted(s, pub(r)) /\ pub(r).rel = r.rel /\ pub(r).id = r.id
        /\ pub(r).minv = r.minv /\ pub(r).maxv = r.maxv
        BY DEF Inserted
  <2>. QED
        BY <2>1, <2>2
<1>. QED
     BY <1>2, CacheFrame DEF Commit

(* A step that leaves the shard rows, the caches and the rolled-back ids  *)
(* alone.                                                                  *)
LEMMA UnchangedCache ==
    ASSUME CacheLagsCatalog, UNCHANGED <<shardRows, shardCache, rolledBack>>
    PROVE  CacheLagsCatalog'
BY DEF CacheLagsCatalog, VisibleShardRows

(* A cache fill stores the list just loaded: each interval is the one of *)
(* a shard row the session sees.                                           *)
LEMMA LookupCache ==
    ASSUME TypeOK, CacheLagsCatalog, NEW s \in Sessions, NEW t \in Tables,
           LookupShardIntervalList(s, t)
    PROVE  CacheLagsCatalog'
<1>1. PICK res \in ShardListResults(s, t) :
         IF res.kind = "ok"
         THEN /\ res.val # {}
              /\ shardCache' = [shardCache EXCEPT ![s][t] = res.val]
              /\ UNCHANGED <<partitionRows, shardRows, placementRows, shardSeq,
                             allocated, rolledBack, crashed>>
         ELSE Fail(s, res)
      BY DEF LookupShardIntervalList
<1>2. CASE res.kind = "ok"
  <2>1. \A iv \in res.val : \E r \in VisibleShardRows(s, t) :
            iv.id = r.id /\ iv.min = r.minv /\ iv.max = r.maxv
        BY <1>2, LoadResultsRows DEF ShardListResults
  <2>2. SUFFICES ASSUME NEW x \in Sessions, NEW u \in Tables, shardCache'[x][u] # NoEntry,
                        NEW iv \in shardCache'[x][u]
                 PROVE  \/ \E r \in VisibleShardRows(x, u)' :
                             r.id = iv.id /\ r.minv = iv.min /\ r.maxv = iv.max
                        \/ iv.id \in rolledBack'[x]
        BY DEF CacheLagsCatalog
  <2>3. CASE x = s /\ u = t
        BY <1>1, <1>2, <2>1, <2>3 DEF TypeOK, VisibleShardRows
  <2>4. CASE ~(x = s /\ u = t)
    <3>1. shardCache'[x][u] = shardCache[x][u]
          BY <1>1, <1>2, <2>4 DEF TypeOK
    <3>2. UNCHANGED <<shardRows, rolledBack>>
          BY <1>1, <1>2
    <3>3. \/ \E r \in VisibleShardRows(x, u) :
               r.id = iv.id /\ r.minv = iv.min /\ r.maxv = iv.max
          \/ iv.id \in rolledBack[x]
          BY <2>2, <3>1 DEF CacheLagsCatalog
    <3>. QED
          BY <3>2, <3>3 DEF VisibleShardRows
  <2>. QED
        BY <2>3, <2>4
<1>3. CASE res.kind # "ok"
      BY <1>1, <1>3, FailCache
<1>. QED
     BY <1>2, <1>3

(* An insert adds a row and keeps the others.                              *)
LEMMA InsertShardRowCache ==
    ASSUME CacheLagsCatalog, NEW s \in Sessions, NEW t \in Tables, NEW sid, NEW lo, NEW hi,
           InsertShardRow(s, t, sid, lo, hi)
    PROVE  CacheLagsCatalog'
BY CacheFrame DEF InsertShardRow

LEMMA InitCacheInv == Init => TypeOK /\ CacheLagsCatalog
BY InitType DEF Init, CacheLagsCatalog

LEMMA NextCache == TypeOK /\ CacheLagsCatalog /\ [Next]_vars => CacheLagsCatalog'
<1> SUFFICES ASSUME TypeOK, CacheLagsCatalog, [Next]_vars PROVE CacheLagsCatalog'
    OBVIOUS
<1>1. CASE UNCHANGED vars
      BY <1>1, UnchangedCache DEF vars
<1>2. CASE Next
  <2>1. PICK s \in Sessions :
           \/ Commit(s)
           \/ Rollback(s)
           \/ NextSequenceId(s)
           \/ \E t \in Tables :
                \/ LookupShardIntervalList(s, t)
                \/ LoadShardIntervalList(s, t)
                \/ PartitionColumn(s, t)
                \/ PartitionType(s, t)
                \/ \E m \in PartitionTypes, c \in Columns : InsertPartitionRow(s, t, m, c)
                \/ \E sid \in ShardId, lo, hi \in Bound : InsertShardRow(s, t, sid, lo, hi)
           \/ \E c \in Columns : ColumnNameToColumn(s, c)
           \/ \E a \in {AttNum[c] : c \in Columns} \cup {MaxAttNum + 1} :
                ColumnToColumnName(s, a)
           \/ \E sid \in ShardId :
                \/ LoadShardInterval(s, sid)
                \/ LoadShardPlacementList(s, sid)
                \/ \E pid \in PlacementIds, st \in ShardStates :
                     InsertShardPlacementRow(s, pid, sid, st)
           \/ \E pid \in Oids : DeleteShardPlacementRow(s, pid)
        BY <1>2 DEF Next
  <2>2. CASE Commit(s)
        BY <2>2, CommitCache
  <2>3. CASE Rollback(s)
        BY <2>3, AbortTxnCache DEF Rollback
  <2>4. CASE NextSequenceId(s)
        BY <2>4, UnchangedCache DEF NextSequenceId
  <2>5. CASE \E t \in Tables : LookupShardIntervalList(s, t)
        BY <2>5, LookupCache
  <2>6. CASE \E t \in Tables : LoadShardIntervalList(s, t) \/ PartitionColumn(s, t)
                                \/ PartitionType(s, t)
        BY <2>6, FailCache, AbortTxnCache
        DEF LoadShardIntervalList, PartitionColumn, PartitionType, RaiseError
  <2>7. CASE \E t \in Tables, m \in PartitionTypes, c \in Columns :
                InsertPartitionRow(s, t, m, c)
        BY <2>7, AbortTxnCache, UnchangedCache DEF InsertPartitionRow, RaiseError
  <2>8. CASE \E t \in Tables, sid \in ShardId, lo, hi \in Bound :
                InsertShardRow(s, t, sid, lo, hi)
        BY <2>8, InsertShardRowCache
  <2>9. CASE \/ \E c \in Columns : ColumnNameToColumn(s, c)
             \/ \E a \in {AttNum[c] : c \in Columns} \cup {MaxAttNum + 1} :
                  ColumnToColumnName(s, a)
        BY <2>9, AbortTxnCache DEF ColumnNameToColumn, ColumnToColumnName, RaiseError
  <2>10. CASE \E sid \in ShardId : LoadShardInterval(s, sid) \/ LoadShardPlacementList(s, sid)
         BY <2>10, FailCache, AbortTxnCache DEF LoadShardInterval, LoadShardPlacementList,
            RaiseError
  <2>11. CASE \E sid \in ShardId, pid \in PlacementIds, st \in ShardStates :
                 InsertShardPlacementRow(s, pid, sid, st)
         BY <2>11, UnchangedCache DEF InsertShardPlacementRow
  <2>12. CASE \E pid \in Oids : DeleteShardPlacementRow(s, pid)
         BY <2>12, AbortTxnCache, UnchangedCache DEF DeleteShardPlacementRow, RaiseError
  <2>. QED
        BY <2>1, <2>2, <2>3, <2>4, <2>5, <2>6, <2>7, <2>8, <2>9, <2>10, <2>11, <2>12
<1>. QED
     BY <1>1, <1>2

(* The cache of every backend lags the catalog only by shards committed   *)
(* after its load and by the backend's own rolled-back inserts, whatever  *)
(* the other sessions commit, roll back or crash: another transaction's   *)
(* rows never reach it, and a committed shard it holds keeps its bounds.  *)
THEOREM CacheLagsCatalogHolds == Spec => []CacheLagsCatalog
<1>1. TypeOK /\ CacheLagsCatalog /\ [Next]_vars => (TypeOK /\ CacheLagsCatalog)'
      BY NextType, NextCache
<1>. QED
     BY InitCacheInv, <1>1, PTL DEF Spec


-----------------------------------------------------------------------------
(* Freshness of the ids NextSequenceId returns.                            *)

(* Every id a session inserted and rolled back came from nextval, so it   *)
(* is at most the sequence's last value.                                   *)
RolledBackBelowSeq == \A s \in Sessions : \A i \in rolledBack[s] : i <= shardSeq

FreshInv == IdInv /\ RolledBackBelowSeq

(* The step formula of FreshShardIds.                                      *)
FreshStep ==
    \A s \in Sessions : \A i \in allocated'[s] \ allocated[s] :
        /\ \A r \in shardRows : r.id # i
        /\ \A x \in Sessions : i \notin rolledBack[x]
        /\ \A x \in Sessions \ {s} : i \notin allocated[x]

(* No session gains an id.                                                 *)
AllocShrinks == \A s \in Sessions : allocated'[s] \subseteq allocated[s]

LEMMA ShrinksFresh ==
    ASSUME AllocShrinks PROVE FreshStep
BY DEF AllocShrinks, FreshStep

(* A step that touches neither the held ids, the rolled-back ids nor the  *)
(* sequence.                                                               *)
LEMMA FrameFresh ==
    ASSUME RolledBackBelowSeq, UNCHANGED <<allocated, rolledBack, shardSeq>>
    PROVE  RolledBackBelowSeq' /\ AllocShrinks
BY DEF RolledBackBelowSeq, AllocShrinks

(* An abort clears the session's ids and rolls back ids of its rows, all  *)
(* at most the sequence value.                                             *)
LEMMA AbortTxnFresh ==
    ASSUME IdInv, RolledBackBelowSeq, NEW x \in Sessions, AbortTxn(x)
    PROVE  RolledBackBelowSeq' /\ AllocShrinks
BY DEF AbortTxn, RolledBackBelowSeq, AllocShrinks, IdInv, SequenceInv, TypeOK

(* A restart clears every session's held and rolled-back ids.             *)
LEMMA ServerRestartFresh ==
    ASSUME ServerRestart
    PROVE  RolledBackBelowSeq' /\ AllocShrinks
BY DEF ServerRestart, RolledBackBelowSeq, AllocShrinks

LEMMA FailFresh ==
    ASSUME IdInv, RolledBackBelowSeq, NEW s \in Sessions, NEW res, Fail(s, res)
    PROVE  RolledBackBelowSeq' /\ AllocShrinks
BY AbortTxnFresh, ServerRestartFresh DEF Fail, RaiseError

LEMMA CommitFresh ==
    ASSUME IdInv, RolledBackBelowSeq, NEW x \in Sessions, Commit(x)
    PROVE  RolledBackBelowSeq' /\ AllocShrinks
BY DEF Commit, RolledBackBelowSeq, AllocShrinks, IdInv, TypeOK

LEMMA InsertShardRowFresh ==
    ASSUME IdInv, RolledBackBelowSeq, NEW x \in Sessions, NEW t \in Tables,
           NEW sid \in ShardId, NEW lo \in Bound, NEW hi \in Bound,
           InsertShardRow(x, t, sid, lo, hi)
    PROVE  RolledBackBelowSeq' /\ AllocShrinks
BY DEF InsertShardRow, RolledBackBelowSeq, AllocShrinks, IdInv, TypeOK

(* nextval returns one more than every id in a row, held or rolled back.  *)
LEMMA NextSequenceIdFresh ==
    ASSUME IdInv, RolledBackBelowSeq, NEW x \in Sessions, NextSequenceId(x)
    PROVE  RolledBackBelowSeq' /\ FreshStep
<1>1. shardSeq \in Int
      BY DEF IdInv, TypeOK
<1>2. RolledBackBelowSeq'
      BY <1>1 DEF NextSequenceId, RolledBackBelowSeq, IdInv, TypeOK, ShardId
<1>3. \A s \in Sessions : allocated'[s] \ allocated[s] \subseteq {shardSeq + 1}
      BY DEF NextSequenceId, IdInv, TypeOK
<1>4. /\ \A r \in shardRows : r.id # shardSeq + 1
      /\ \A y \in Sessions : shardSeq + 1 \notin rolledBack[y]
      /\ \A y \in Sessions : shardSeq + 1 \notin allocated[y]
      BY <1>1 DEF IdInv, SequenceInv, RolledBackBelowSeq, TypeOK, ShardRow, ShardId
<1>. QED
     BY <1>2, <1>3, <1>4 DEF FreshStep

LEMMA InitFreshInv == Init => FreshInv
BY InitIdInv DEF Init, FreshInv, RolledBackBelowSeq

(* Every step keeps RolledBackBelowSeq and hands out fresh ids only.       *)
LEMMA NextFresh == FreshInv /\ [Next]_vars => RolledBackBelowSeq' /\ FreshStep
<1> SUFFICES ASSUME IdInv, RolledBackBelowSeq, [Next]_vars
             PROVE  RolledBackBelowSeq' /\ FreshStep
    BY DEF FreshInv
<1>1. CASE UNCHANGED vars
      BY <1>1, FrameFresh, ShrinksFresh DEF vars
<1>2. CASE Next
  <2>1. PICK s \in Sessions :
           \/ Commit(s)
           \/ Rollback(s)
           \/ NextSequenceId(s)
           \/ \E t \in Tables :
                \/ LookupShardIntervalList(s, t)
                \/ LoadShardIntervalList(s, t)
                \/ PartitionColumn(s, t)
                \/ PartitionType(s, t)
                \/ \E m \in PartitionTypes, c \in Columns : InsertPartitionRow(s, t, m, c)
                \/ \E sid \in ShardId, lo, hi \in Bound : InsertShardRow(s, t, sid, lo, hi)
           \/ \E c \in Columns : ColumnNameToColumn(s, c)
           \/ \E a \in {AttNum[c] : c \in Columns} \cup {MaxAttNum + 1} :
                ColumnToColumnName(s, a)
           \/ \E sid \in ShardId :
                \/ LoadShardInterval(s, sid)
                \/ LoadShardPlacementList(s, sid)
                \/ \E pid \in PlacementIds, st \in ShardStates :
                     InsertShardPlacementRow(s, pid, sid, st)
           \/ \E pid \in Oids : DeleteShardPlacementRow(s, pid)
        BY <1>2 DEF Next
  <2>2. CASE NextSequenceId(s)
        BY <2>2, NextSequenceIdFresh
  <2>3. CASE Commit(s) \/ Rollback(s)
        BY <2>3, CommitFresh, AbortTxnFresh, ShrinksFresh DEF Rollback
  <2>4. CASE \E t \in Tables :
                \/ LookupShardIntervalList(s, t)
                \/ LoadShardIntervalList(s, t)
                \/ PartitionColumn(s, t)
                \/ PartitionType(s, t)
        BY <2>4, FailFresh, FrameFresh, AbortTxnFresh, ShrinksFresh
        DEF LookupShardIntervalList, LoadShardIntervalList, PartitionColumn, PartitionType,
            RaiseError
  <2>5. CASE \E t \in Tables, m \in PartitionTypes, c \in Columns :
                InsertPartitionRow(s, t, m, c)
        BY <2>5, AbortTxnFresh, FrameFresh, ShrinksFresh DEF InsertPartitionRow, RaiseError
  <2>6. CASE \E t \in Tables, sid \in ShardId, lo, hi \in Bound :
                InsertShardRow(s, t, sid, lo, hi)
        BY <2>6, InsertShardRowFresh, ShrinksFresh
  <2>7. CASE \/ \E c \in Columns : ColumnNameToColumn(s, c)
             \/ \E a \in {AttNum[c] : c \in Columns} \cup {MaxAttNum + 1} :
                  ColumnToColumnName(s, a)
        BY <2>7, AbortTxnFresh, ShrinksFresh
        DEF ColumnNameToColumn, ColumnToColumnName, RaiseError
  <2>8. CASE \E sid \in ShardId : LoadShardInterval(s, sid) \/ LoadShardPlacementList(s, sid)
        BY <2>8, FailFresh, AbortTxnFresh, ShrinksFresh
        DEF LoadShardInterval, LoadShardPlacementList, RaiseError
  <2>9. CASE \E sid \in ShardId, pid \in PlacementIds, st \in ShardStates :
                InsertShardPlacementRow(s, pid, sid, st)
        BY <2>9, FrameFresh, ShrinksFresh DEF InsertShardPlacementRow
  <2>10. CASE \E pid \in Oids : DeleteShardPlacementRow(s, pid)
         BY <2>10, AbortTxnFresh, FrameFresh, ShrinksFresh DEF DeleteShardPlacementRow, RaiseError
  <2>. QED
        BY <2>1, <2>2, <2>3, <2>4, <2>5, <2>6, <2>7, <2>8, <2>9, <2>10
<1>. QED
     BY <1>1, <1>2

(* NextSequenceId never hands a caller an id that a shard row carries,    *)
(* that another session holds, or that a session rolled back: nextval is  *)
(* outside the transaction and a restart resumes it at or above the last  *)
(* value it returned.                                                     *)
THEOREM FreshShardIdsHolds == Spec => FreshShardIds
<1>1. FreshInv /\ [Next]_vars => FreshInv'
      BY NextFresh, NextIdInv DEF FreshInv
<1>2. FreshInv /\ [Next]_vars => [FreshStep]_vars
      BY NextFresh
<1>3. Spec => []FreshInv /\ [][Next]_vars
      BY InitFreshInv, <1>1, PTL DEF Spec
<1>4. []FreshInv /\ [][Next]_vars => [][FreshStep]_vars
      BY <1>2, PTL
<1>. QED
     BY <1>3, <1>4 DEF FreshShardIds, FreshStep

=============================================================================
