SPECIFICATION Spec
CONSTANTS
    HardMaxRetained = 3
    SlotCount = 3
    MaxAnchors = 2
    MinReuse = 1
    ByteBudget = 6
    HighWatermark = 5
    LowWatermark = 3
    CheckpointLens <- EvenCheckpoints
    CheckpointBytes = 3
    Namespaces = {ns1}
    NoNamespace = ns0
    PlanIds = {p1}
    NoPlan = NoPlan
    NoSlot = NoSlot
    MaxGeneration = 3
    MaxEpoch = 1
    Prompts <- ShortPrompts
    Suffixes = {}
    Restored = {}
    LiveStates = {}
    Sessions <- OneSession
    ResultStates = {"Session", "Anchor"}
    SideRequests = {FALSE}
    CapabilityProfiles <- HybridProfiles
    SlotFacts <- FactsAll
    ByteSizes = {2}
    BytesPerToken = 1
INVARIANTS AnchorsSound PoolNeverDeadlocks
