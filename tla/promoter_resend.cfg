\* One resent write and a single slot.
CONSTANTS
    Entries = {1, 2}
    Workers = {w1}
    ShardCount = 2
    ShardOf <- MCShardOf
    Capacity = 1
    MaxBatchSize = 2
    ReserveRetries = 2
    MaxAborts = 0
    MaxResends = 1
    MaxCorruptions = 0
SPECIFICATION Spec
INVARIANT OverPromotionImpossible
