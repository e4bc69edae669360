CONSTANTS
    w1 = w1
    w2 = w2
    Writers <- MCWriters
    ShardIds <- MCShardIds
    Committed = Committed
    NoEntry = NoEntry
SYMMETRY MCSymmetry
SPECIFICATION Spec
INVARIANT TypeOK
INVARIANT CacheBetweenStartAndCommitted
