CONSTANTS
    s1 = s1
    s2 = s2
    s3 = s3
    Sessions <- MCSessions
    ShardIds <- MCShardIds
    KeyRange <- MCKeyRange
SPECIFICATION Spec
INVARIANT TypeOK
INVARIANT ShardLockExclusion
INVARIANT NoFalseConflict
PROPERTY WaitEnds
