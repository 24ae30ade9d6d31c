\* Liveness under the fairness of the schedule; one slot for two entries. No symmetry,
\* which is not sound for liveness.
CONSTANTS
    Entries = {1, 2}
    Workers = {w1, w2}
    ShardCount = 2
    ShardOf <- MCShardOf
    Capacity = 1
    MaxBatchSize = 2
    ReserveRetries = 2
    MaxAborts = 0
    MaxResends = 0
    MaxCorruptions = 1
SPECIFICATION FairSpec
INVARIANT NoOverPromotion
PROPERTIES ImplementsWaitingRoom WaitingIsPromoted EligibleIsReleased
