\* Two overlapping invocations, one aborted and one write resent.
CONSTANTS
    Entries = {1, 2}
    Workers = {w1, w2}
    ShardCount = 2
    ShardOf <- MCShardOf
    Capacity = 2
    MaxBatchSize = 2
    ReserveRetries = 2
    MaxAborts = 1
    MaxResends = 1
    MaxCorruptions = 0
SPECIFICATION Spec
SYMMETRY WorkerSymmetry
INVARIANTS IInv CapacityBound SlotsCovered LeakIsBounded PromotedTotalIsClose
