\* Two consumers of one instance and one of another, every fault of the model.
SPECIFICATION FairSpec
CONSTANTS
    i1 = i1  i2 = i2  c1 = c1  c2 = c2  c3 = c3
    Instances = {i1, i2}
    Clients = {c1, c2, c3}
    Home <- TwoOne
    Nobody = Nobody
    Faults = {"slow", "redis"}
    MaxTokens = 4
INVARIANT MutualExclusion
PROPERTY Refinement
PROPERTY OnlyOwnerReleases
PROPERTY LockIsFreed
