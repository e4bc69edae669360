------------------------- MODULE MCShardDirectory -------------------------
(* Small instance of ShardDirectory for TLC.                               *)
EXTENDS ShardDirectory, TLC

CONSTANTS s1, s2, t1, cUser, cSystem, cMissing

MCSessions == {s1, s2}
MCTables == {t1}
MCColumns == {cUser, cSystem, cMissing}
(* get_attnum: a user column, the system column ctid (-1), no such column *)
MCAttNum == [c \in MCColumns |-> IF c = cUser THEN 1 ELSE IF c = cSystem THEN -1 ELSE 0]
MCColType == [c \in MCColumns |-> "int4"]
(* int4 narrowed to 3 bits; 4 spells a value int4in rejects *)
MCInt4Min == -4
MCInt4Max == 3
MCBoundTexts == {0, 4}
MCSymmetry == Permutations(MCSessions)
=============================================================================
