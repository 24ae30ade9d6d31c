\* One aborted invocation.
CONSTANTS
    Entries = {1, 2}
    Workers = {w1}
    ShardCount = 2
    ShardOf <- MCShardOf
    Capacity = 2
    MaxBatchSize = 2
    ReserveRetries = 2
    MaxAborts = 1
    MaxResends = 0
    MaxCorruptions = 0
SPECIFICATION Spec
INVARIANT NoLeakWhenIdle
