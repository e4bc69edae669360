CONSTANTS
    s1 = s1
    s2 = s2
    t1 = t1
    cUser = cUser
    cSystem = cSystem
    cMissing = cMissing
    Sessions <- MCSessions
    Tables <- MCTables
    Columns <- MCColumns
    AttNum <- MCAttNum
    ColType <- MCColType
    Int4Min <- MCInt4Min
    Int4Max <- MCInt4Max
    BoundTexts = {0}
    MaxShardId = 1
    SeqLogVals = 1
    PlacementIds = {1}
    Oids = {1, 2}
    ShardStates = {1, 3}
    STATE_FINALIZED = 1
    Committed = Committed
    NoXmax = NoXmax
    NullBound = NullBound
    NoEntry = NoEntry
SPECIFICATION Spec
PROPERTY CatalogSpec
