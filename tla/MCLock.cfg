CONSTANTS
    Servers = {s1, s2}
    NoPid = NoPid
    MaxCrashes = 1
    MaxGeneration = 3
    MaxInode = 2
SPECIFICATION FairSpec
INVARIANT SecretsAgree
PROPERTY StaleLockRemoved
