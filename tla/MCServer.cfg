CONSTANTS
    Commands = {c1, c2, c3}
    Pids = {p1, p2, p3}
    NoCommand = NoCommand
    NoPid = NoPid
    Torn = Torn
    Kinds <- SomeKinds
    MaxInterrupts = 1
    MaxFailures = 1
    MaxForeign = 1
SPECIFICATION Spec
SYMMETRY Symmetry
INVARIANTS OneSpawnedServer StoppedIsDead SpawnedIsRecorded
CHECK_DEADLOCK FALSE
