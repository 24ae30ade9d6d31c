\* One fan, two containers; 2 and 3 have one digit, 11 has two.
CONSTANTS
    f1 = f1 s1 = s1 s2 = s2
    Fans = {f1}
    Containers = {1, 2}
    HashOf <- MCHashOf
    ShardCounts = {2, 3, 11}
    FirstRelease = 3
    Secrets = {s1, s2}
    FirstSecrets <- MCFirstSecrets
    MaxReleases = 1
    MaxRotations = 1
    MaxCrashes = 1
SPECIFICATION FairSpec
INVARIANTS TypeOK NotFoundOnlyAfterRelease StableSecretIsAccepted GrowthIsSafe
PROPERTIES FanIsServed
