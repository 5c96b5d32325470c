CONSTANTS
    p1 = p1
    p2 = p2
    config = config
    shard1 = shard1
    shard2 = shard2
    Pulls = {p1, p2}
    AtOnce = 2
    Files <- MlxFiles
    Length <- MlxLength
    Layouts <- MlxLayouts
    Events = 2
    None = None
SPECIFICATION Spec
INVARIANTS PublishedIntact
PROPERTIES LateEndsHarmless PulledIsWhole
SYMMETRY AnyPull
CHECK_DEADLOCK FALSE
