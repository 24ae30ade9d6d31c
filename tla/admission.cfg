\* Three calls, two for one fan, with one fault of each kind.
CONSTANTS
    c1 = c1 c2 = c2 c3 = c3 f1 = f1 f2 = f2 s1 = s1
    Fans = {f1, f2}
    Keys = {k1, k2}
    Shards = {s1}
    Calls = {c1, c2, c3}
    FanOf <- MCFanOf
    ShardOf <- MCShardOf
    MaxRetries = 1
    MaxQueueSize = 1
    MaxLosses = 1
    MaxResends = 1
    None = None
SPECIFICATION FairSpec
INVARIANTS TypeOK OneEntryPerFan AnswersAreDurable CountsEntries FullIsTrue
PROPERTIES ImplementsRegister AdmittedTotalSettles EveryCallIsAnswered
