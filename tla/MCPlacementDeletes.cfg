CONSTANTS
    s1 = s1
    s2 = s2
    p1 = p1
    p2 = p2
    Sessions <- MCSessions
    ShardIds <- MCShardIds
    KeyRange <- MCKeyRange
    Placements <- MCPlacements
    XactTag <- MCXactTag
    NoShard = NoShard
    NoXmax = NoXmax
    Deleted = Deleted
    None = None
SPECIFICATION Spec
INVARIANT TypeOK
INVARIANT DeleteOnce
PROPERTY WaitEnds
