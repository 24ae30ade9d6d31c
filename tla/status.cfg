\* Four entries, two shards; the last fan asks; two ticks to the millisecond.
CONSTANTS
    Fans = {1, 2, 3, 4}
    ShardCount = 2
    ShardOf <- MCShardOf
    PageSize = 1
    MaxBatchSize = 1
    Windows <- MCWindows
    MaxAgeMs = 1
    Grain = 2
    Readers = {4}
    MaxPromotions = 1
    MaxTicks = 4
SPECIFICATION Spec
INVARIANTS TypeOK WindowIsHonoured BrowseIsBounded PositionIsBetween
PROPERTIES ExpiredBrowseIsInGap
