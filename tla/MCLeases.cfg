SPECIFICATION Spec
CONSTANTS
    HardMaxRetained = 2
    SlotCount = 1
    MaxAnchors = 1
    MinReuse = 1
    ByteBudget = 0
    HighWatermark = 0
    LowWatermark = 0
    CheckpointLens = {}
    CheckpointBytes = 0
    Namespaces = {ns1, ns2}
    NoNamespace = ns0
    PlanIds = {p1, p2}
    NoPlan = NoPlan
    NoSlot = NoSlot
    MaxGeneration = 3
    MaxEpoch = 2
    Prompts <- ShortPrompts
    Suffixes <- OneSuffix
    Restored <- ShortPrompts
    LiveStates = {"Session"}
    Sessions <- OneSession
    ResultStates = {"Session", "Anchor"}
    SideRequests = {FALSE}
    CapabilityProfiles <- FullProfiles
    SlotFacts <- FactsAll
    ByteSizes = {0}
    BytesPerToken = 1
SYMMETRY Symmetry
INVARIANTS LeaseAccounting DonorPrefixIntact IndexTracksSlots
PROPERTIES GenerationGuardsContent ImplementsLeases
