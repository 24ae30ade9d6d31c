\* The default of config.py and the setting of README.md.
CONSTANTS
    f1 = f1 s1 = s1 s2 = s2
    Fans = {f1}
    Containers = {1}
    HashOf <- MCHashOf
    ShardCounts = {1000, 4000}
    FirstRelease = 1000
    Secrets = {s1, s2}
    FirstSecrets <- MCFirstSecrets
    MaxReleases = 0
    MaxRotations = 0
    MaxCrashes = 0
SPECIFICATION Spec
INVARIANT EntriesAreQueried
