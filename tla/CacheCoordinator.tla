-------------------------- MODULE CacheCoordinator --------------------------
(***************************************************************************)
(* The Rust cache coordinator, CacheManager of clap-cache-core.  It owns   *)
(* the metadata of every backend KV slot, chooses how a prompt is served   *)
(* (continue a slot, branch from a donor, restore an anchor, start fresh)  *)
(* and leases the slots of the plan until the backend commits or aborts.   *)
(*                                                                         *)
(* One action per public operation that changes state.  A call the code    *)
(* answers with an error before it changes anything is not a step.         *)
(*                                                                         *)
(* Abstracted: the ranking keys that only order candidates (last_used,     *)
(* reuse_count, saved_us, priority, scope, tenant, quotas) become a free   *)
(* choice inside the candidate set the code ranks; telemetry, the clock    *)
(* and last_decision are left out; plan ids are fresh names, not numbers.  *)
(***************************************************************************)
EXTENDS Integers, Sequences, FiniteSets, FiniteSetsExt

CONSTANTS
    HardMaxRetained,   \* RetentionConfig.hard_max_retained_entries
    SlotCount,         \* Config.slot_count: the slots that exist at start
    MaxAnchors,        \* Config.max_anchors
    MinReuse,          \* Config.min_reuse_tokens
    ByteBudget,        \* RetentionConfig.physical_byte_budget; 0 is None
    HighWatermark,     \* RetentionConfig.high_watermark_bytes
    LowWatermark,      \* RetentionConfig.low_watermark_bytes
    CheckpointLens,    \* lengths is_automatic_checkpoint_len accepts
    CheckpointBytes,   \* automatic_checkpoint_byte_limit; 0 is u64::MAX
    Namespaces, NoNamespace,
    PlanIds, NoPlan,   \* plans in flight; NoPlan is Option::None
    NoSlot,            \* Option::None where a donor slot is expected
    MaxGeneration,     \* bound on slot generations (u64 in the code)
    MaxEpoch           \* bound on resets (u64 in the code)

CONSTANTS              \* what callers ask for
    Prompts,           \* token sequences of requests
    Suffixes,          \* token sequences appended by advance
    Restored,          \* token sequences confirm restores
    LiveStates,        \* states backends publish through advance and confirm
    Sessions,          \* Labels.session; 0 is "no session"
    ResultStates,      \* PlanRequest.result_state
    SideRequests,      \* Labels.side_request
    CapabilityProfiles,\* sets of Capabilities flags of a backend
    SlotFacts,         \* SlotCapabilities of one slot
    ByteSizes,         \* physical_bytes a backend reports
    BytesPerToken      \* PlanRequest.estimated_bytes_per_token

SlotIds == 0 .. (HardMaxRetained - 1)

(* CacheManager::new rejects any other configuration. *)
ASSUME ConfigAssumption ==
    /\ HardMaxRetained \in Nat /\ SlotCount \in 1 .. HardMaxRetained
    /\ MaxAnchors \in 0 .. HardMaxRetained
    /\ MinReuse \in Nat
    /\ {ByteBudget, LowWatermark, HighWatermark, CheckpointBytes} \subseteq Nat
    /\ LowWatermark <= HighWatermark /\ HighWatermark <= ByteBudget
    /\ CheckpointLens \subseteq Nat \ {0}

ASSUME NamesAssumption ==
    /\ NoPlan \notin PlanIds /\ NoSlot \notin SlotIds
    /\ NoNamespace \notin Namespaces
    /\ MaxGeneration \in Nat /\ MaxEpoch \in Nat
    /\ IsFiniteSet(PlanIds)

(* PlanRequest: an empty prompt or an Empty result is an InvalidArgument. *)
ASSUME RequestAssumption ==
    /\ Prompts \subseteq Seq(Int) \ {<<>>}
    /\ Suffixes \cup Restored \subseteq Seq(Int)
    /\ <<>> \notin Restored /\ LiveStates \subseteq {"Session", "PromptBoundary"}
    /\ 0 \in Sessions
    /\ ResultStates \subseteq {"Session", "PromptBoundary", "Anchor"}
    /\ SideRequests \subseteq BOOLEAN
    /\ ByteSizes \subseteq Nat /\ BytesPerToken \in Nat

States == {"Empty", "Session", "PromptBoundary", "Anchor"}
Operations == {"Noop", "Fresh", "Continue", "Branch", "Restore"}

Requests ==
    [namespace : Namespaces, tokens : Prompts, session : Sessions,
     resultState : ResultStates, sideRequest : SideRequests,
     capabilities : CapabilityProfiles,
     slotCapabilities : [SlotIds -> SlotFacts]]

Plan ==
    [epoch : Nat, operation : Operations, target : SlotIds,
     donor : SlotIds \cup {NoSlot}, reuseTokens : Nat,
     evictions : SUBSET SlotIds,
     generation : [SlotIds -> Nat],  \* 0: the plan does not name the slot
     namespace : Namespaces, tokens : Seq(Int), session : Sessions,
     resultState : States \ {"Empty"}]

ASSUME NoPlanAssumption ==
    /\ NoPlan \notin Plan
    /\ NoPlan \notin [write : SUBSET SlotIds, read : SUBSET SlotIds]

VARIABLES
    registered,  \* slots 0 .. registered-1 exist (CacheManager.slots.len())
    slots,       \* slot metadata
    epoch,       \* CacheManager.epoch
    plans,       \* CacheManager.pending: the plans not yet consumed
    index        \* terminal entries <<namespace, tokens, slot>> of RadixIndex

vars == <<registered, slots, epoch, plans, index>>

Registered == 0 .. (registered - 1)
Pending == {p \in PlanIds : plans[p] # NoPlan}

NewSlot(generation) ==
    [generation |-> generation, namespace |-> NoNamespace, tokens |-> <<>>,
     state |-> "Empty", busy |-> FALSE, readLeases |-> 0, writer |-> NoPlan,
     session |-> 0, physicalBytes |-> 0, protected |-> FALSE]

Init ==
    /\ registered = SlotCount
    /\ slots = [s \in SlotIds |-> NewSlot(1)]
    /\ epoch = 1
    /\ plans = [p \in PlanIds |-> NoPlan]
    /\ index = {}

-----------------------------------------------------------------------------
(* Slot facts the planner reads. *)

IsEmpty(slot) == slot.state = "Empty" \/ slot.tokens = <<>>

Unleased(s) == slots[s].writer = NoPlan /\ slots[s].readLeases = 0

Idle(s) == ~slots[s].busy /\ Unleased(s)

Anchors == {s \in Registered : slots[s].state = "Anchor"}

(* The first slot of a scan in slot order: a singleton, or empty. *)
Lowest(S) == {s \in S : \A o \in S : s <= o}

Bytes(S) == MapThenSumSet(LAMBDA s : slots[s].physicalBytes, S)

(* The index entries of a slot: remove_index looks at non-empty slots only. *)
Entry(s) ==
    IF IsEmpty(slots[s]) THEN {}
    ELSE {<<slots[s].namespace, slots[s].tokens, s>>}

(* a and b agree on their first n tokens. *)
Agree(a, b, n) ==
    n <= Len(a) /\ n <= Len(b) /\ \A i \in 1 .. n : a[i] = b[i]

(* n is the common prefix of a and b, cut at cap (common_prefix(..).min). *)
IsPrefixLen(a, b, cap, n) ==
    /\ Agree(a, b, n) /\ n <= cap
    /\ n < cap => ~Agree(a, b, n + 1)

-----------------------------------------------------------------------------
(* choose_donor *)

ReusableLen(r) ==
    IF "RETAIN_LAST_TOKEN_FOR_LOGITS" \in r.capabilities
    THEN Len(r.tokens) - 1 ELSE Len(r.tokens)

(* Sessions are compatible when both are absent or both the same. *)
SessionAffine(r, s) == slots[s].session = r.session

Can(r, s, flag) == flag \in r.slotCapabilities[s]

CanContinue(r, s, n) ==
    /\ r.resultState # "Anchor" /\ slots[s].state # "Anchor"
    /\ ~slots[s].busy /\ SessionAffine(r, s) /\ Can(r, s, "WRITABLE")
    /\ \/ n = Len(slots[s].tokens)
       \/ /\ "PARTIAL_SUFFIX_TRIM" \in r.capabilities
          /\ Can(r, s, "PARTIAL_SUFFIX_TRIM")

CanCopy(r, s, n) ==
    /\ Can(r, s, "COPY")
    /\ \/ n = Len(slots[s].tokens) /\ "WHOLE_STATE_COPY" \in r.capabilities
       \/ /\ "PARTIAL_PREFIX_BRANCH" \in r.capabilities
          /\ Can(r, s, "PARTIAL_SUFFIX_TRIM")

(* Slot s may serve n tokens of request r. *)
DonorCandidate(r, s, n) ==
    /\ slots[s].namespace = r.namespace
    /\ ~IsEmpty(slots[s])
    /\ slots[s].writer = NoPlan
    /\ Can(r, s, "MATERIALIZED")
    /\ slots[s].busy => "SAFE_BUSY_DONOR" \in r.capabilities
    /\ IsPrefixLen(slots[s].tokens, r.tokens, ReusableLen(r), n)
    /\ n >= MinReuse
    /\ CanContinue(r, s, n) \/ CanCopy(r, s, n)

(* The keys of max_by that are modelled, most significant first: a side    *)
(* request prefers anchors, then the longest prefix, then its own session. *)
DonorRanksAbove(r, s, n, o, m) ==
    LET side(x) == IF r.sideRequest /\ slots[x].state = "Anchor" THEN 1 ELSE 0
        own(x) == IF SessionAffine(r, x) THEN 1 ELSE 0
    IN  \/ side(s) > side(o)
        \/ side(s) = side(o) /\ n > m
        \/ side(s) = side(o) /\ n = m /\ own(s) > own(o)

Donor(r, s, n) ==
    /\ DonorCandidate(r, s, n)
    /\ \A o \in Registered, m \in 0 .. Len(r.tokens) :
          DonorCandidate(r, o, m) => ~DonorRanksAbove(r, o, m, s, n)

HasDonor(r) ==
    \E s \in Registered, m \in 0 .. Len(r.tokens) : DonorCandidate(r, s, m)

-----------------------------------------------------------------------------
(* choose_target: the slot whose state the plan replaces.  d is the donor. *)

(* Mutant: a session never falls back on an anchor. *)
TakeableNoAnchors(r, d) ==
    {s \in Registered : /\ s # d /\ Idle(s) /\ ~slots[s].protected
                        /\ Can(r, s, "WRITABLE")
                        /\ slots[s].state = "Anchor" => r.resultState = "Anchor"}

Takeable(r, d) ==
    {s \in Registered : /\ s # d /\ Idle(s) /\ ~slots[s].protected
                        /\ Can(r, s, "WRITABLE")}

EmptyTargets(r) ==
    {s \in Registered : /\ IsEmpty(slots[s]) /\ slots[s].writer = NoPlan
                        /\ ~slots[s].busy /\ Can(r, s, "WRITABLE")}

(* Anchors are taken for a session only when nothing else is left. *)
Targets(r, d) ==
    LET free == EmptyTargets(r)
        preferred == {s \in Takeable(r, d) :
                         slots[s].state = "Anchor" => r.resultState = "Anchor"}
    IN  IF r.resultState = "Anchor" /\ Cardinality(Anchors) >= MaxAnchors
        THEN Takeable(r, d) \cap Anchors
        ELSE IF free # {} THEN Lowest(free)
        ELSE IF preferred # {} THEN preferred
        ELSE Takeable(r, d)

-----------------------------------------------------------------------------
(* pressure_victims and automatic_checkpoint_budget_victims: walk ranked    *)
(* candidates and take each one until the projection fits the limit.  The   *)
(* rank is free, so a walk may take any set that stops at the right moment. *)

Walks(candidates, projected, limit) ==
    {v \in SUBSET candidates :
        /\ v = candidates \/ projected - Bytes(v) <= limit
        /\ v # {} => \E last \in v : ~(projected - Bytes(v \ {last}) <= limit)}

Evictable(t, d) ==
    {s \in Registered : /\ s # t /\ s # d /\ ~IsEmpty(slots[s])
                        /\ Idle(s) /\ ~slots[s].protected}

ProjectedBytes(r) ==
    IF r.resultState = "Anchor" THEN BytesPerToken * Len(r.tokens) ELSE 0

(* Only a retained (Anchor) result must get below the low watermark. *)
PressureVictims(r, t, d) ==
    LET projected == Bytes(Registered \ {t}) + ProjectedBytes(r)
    IN  IF \/ ByteBudget = 0
           \/ /\ Bytes(Registered) <= HighWatermark
              /\ projected <= HighWatermark
        THEN {{}}
        ELSE {v \in Walks(Evictable(t, d), projected, LowWatermark) :
                 r.resultState = "Anchor" => projected - Bytes(v) <= LowWatermark}

CheckpointAnchors ==
    {s \in Anchors : Len(slots[s].tokens) \in CheckpointLens}

(* current is reduced by the bytes of the target whatever the target is. *)
CheckpointVictims(r, t, d) ==
    LET held == Bytes(CheckpointAnchors) - slots[t].physicalBytes
        projected == ProjectedBytes(r) + (IF held > 0 THEN held ELSE 0)
    IN  IF \/ r.resultState # "Anchor" \/ Len(r.tokens) \notin CheckpointLens
           \/ CheckpointBytes = 0 \/ ProjectedBytes(r) = 0
        THEN {{}}
        ELSE {v \in Walks(CheckpointAnchors \cap Evictable(t, d),
                          projected, CheckpointBytes) :
                 projected - Bytes(v) <= CheckpointBytes}

Evictions(r, operation, t, d) ==
    {pressure \cup checkpoints \cup
        {s \in {t} : operation # "Continue" /\ ~IsEmpty(slots[s])} :
        pressure \in PressureVictims(r, t, d),
        checkpoints \in CheckpointVictims(r, t, d)}

-----------------------------------------------------------------------------
(* plan: decide, check that every lease can be granted, grant them. *)

NewPlan(r, operation, t, d, n, evictions) ==
    [epoch |-> epoch, operation |-> operation, target |-> t, donor |-> d,
     reuseTokens |-> n, evictions |-> evictions,
     generation |-> [s \in SlotIds |-> IF s \in {t, d} \cup evictions
                                        THEN slots[s].generation ELSE 0],
     namespace |-> r.namespace, tokens |-> r.tokens, session |-> r.session,
     resultState |-> r.resultState]

(* The slots a plan may mutate (write_ids); a Noop plan mutates none. *)
WriteSet(plan) ==
    IF plan.operation = "Noop" THEN {} ELSE plan.evictions \cup {plan.target}

(* The slots a plan reads without mutating them. *)
ReadSet(plan) == {plan.donor} \ {plan.target, NoSlot}

Readers(s) == {p \in Pending : s \in ReadSet(plans[p])}

(* plan's final checks (SlotBusy otherwise), with the model's bound. *)
Grantable(r, t, d, evictions) ==
    /\ \A s \in evictions \cup {t} :
          Idle(s) /\ slots[s].generation < MaxGeneration
    /\ d # NoSlot =>
          /\ slots[d].writer = NoPlan
          /\ slots[d].busy => "SAFE_BUSY_DONOR" \in r.capabilities

Grant(p, r, operation, t, d, n) ==
    \E evictions \in Evictions(r, operation, t, d) :
        /\ Grantable(r, t, d, evictions)
        /\ slots' = [s \in SlotIds |->
              IF s \in evictions \cup {t} THEN [slots[s] EXCEPT !.writer = p]
              ELSE IF s = d THEN [slots[s] EXCEPT !.readLeases = @ + 1]
              ELSE slots[s]]
        /\ plans' = [plans EXCEPT
              ![p] = NewPlan(r, operation, t, d, n, evictions)]
        /\ UNCHANGED <<registered, epoch, index>>

(* Mutant: a busy anchor is not recognised. *)
ExistingIdleAnchors(r) ==
    {s \in Anchors : /\ r.resultState = "Anchor"
                     /\ slots[s].namespace = r.namespace
                     /\ slots[s].tokens = r.tokens
                     /\ Idle(s)}

(* An anchor identical to the requested one that nobody is writing. *)
ExistingAnchors(r) ==
    {s \in Anchors : /\ r.resultState = "Anchor"
                     /\ slots[s].namespace = r.namespace
                     /\ slots[s].tokens = r.tokens
                     /\ slots[s].writer = NoPlan}

PlanNoop(p, r) ==
    /\ plans[p] = NoPlan
    /\ \E s \in Lowest(ExistingAnchors(r)) :
          plans' = [plans EXCEPT
              ![p] = NewPlan(r, "Noop", s, s, Len(r.tokens), {})]
    /\ UNCHANGED <<registered, slots, epoch, index>>

PlanContinue(p, r) ==
    /\ plans[p] = NoPlan /\ ExistingAnchors(r) = {}
    /\ \E d \in Registered, n \in 0 .. Len(r.tokens) :
          /\ Donor(r, d, n)
          /\ CanContinue(r, d, n)
          /\ Grant(p, r, "Continue", d, d, n)

PlanCopy(p, r) ==
    /\ plans[p] = NoPlan /\ ExistingAnchors(r) = {}
    /\ \E d \in Registered, n \in 0 .. Len(r.tokens) :
          /\ Donor(r, d, n)
          /\ ~CanContinue(r, d, n)
          /\ \E t \in Targets(r, d) :
                Grant(p, r,
                      IF slots[d].state = "Anchor" THEN "Restore" ELSE "Branch",
                      t, d, n)

PlanFresh(p, r) ==
    /\ plans[p] = NoPlan /\ ExistingAnchors(r) = {}
    /\ ~HasDonor(r)
    /\ \E t \in Targets(r, NoSlot) : Grant(p, r, "Fresh", t, NoSlot, 0)

-----------------------------------------------------------------------------
(* Ending a plan. *)

GenerationsMatch(plan) ==
    \A s \in ({plan.target, plan.donor} \cup plan.evictions) \ {NoSlot} :
        slots[s].generation = plan.generation[s]

Stale(plan) == plan.epoch # epoch \/ ~GenerationsMatch(plan)

Forget(p) == plans' = [plans EXCEPT ![p] = NoPlan]

(* Mutant: the read lease of the donor is never given back. *)
ReleasedWriterOnly(p, s) ==
    [slots[s] EXCEPT
        !.writer = IF s \in plans[p].evictions \cup {plans[p].target} /\ @ = p
                   THEN NoPlan ELSE @]

(* release: the metadata of slot s once plan p holds no lease on it. *)
Released(p, s) ==
    LET plan == plans[p]
    IN  [slots[s] EXCEPT
            !.writer = IF s \in plan.evictions \cup {plan.target} /\ @ = p
                       THEN NoPlan ELSE @,
            !.readLeases = IF s \in ReadSet(plan) /\ @ > 0 THEN @ - 1 ELSE @]

(* commit of a plan whose slots changed under it: the leases are released, *)
(* nothing is invalidated and the caller gets StalePlan.                   *)
CommitStale(p) ==
    /\ plans[p] # NoPlan /\ Stale(plans[p])
    /\ slots' = [s \in SlotIds |-> Released(p, s)]
    /\ Forget(p)
    /\ UNCHANGED <<registered, epoch, index>>

(* Release, then invalidate every slot the plan was allowed to mutate. *)
FailClosed(p) ==
    LET victims == WriteSet(plans[p])
    IN  /\ slots' = [s \in SlotIds |->
              IF s \in victims THEN NewSlot(slots[s].generation + 1)
              ELSE Released(p, s)]
        /\ index' = index \ UNION {Entry(s) : s \in victims}
        /\ Forget(p)
        /\ UNCHANGED <<registered, epoch>>

(* commit with more tokens than were planned, or with an Empty state; for a *)
(* Noop plan, anything but the whole anchor.                                *)
CommitRejected(p) ==
    /\ plans[p] # NoPlan /\ ~Stale(plans[p])
    /\ FailClosed(p)

CommitNoop(p) ==
    /\ plans[p] # NoPlan /\ ~Stale(plans[p])
    /\ plans[p].operation = "Noop"
    /\ Forget(p)
    /\ UNCHANGED <<registered, slots, epoch, index>>

(* What the backends report: an anchor is committed whole, a session with  *)
(* the tokens it reuses (the rest arrives through advance) or whole.       *)
ResidentLens(plan) ==
    IF plan.resultState = "Anchor" THEN {Len(plan.tokens)}
    ELSE {plan.reuseTokens, Len(plan.tokens)}

Commit(p, resident, bytes) ==
    /\ plans[p] # NoPlan /\ ~Stale(plans[p])
    /\ plans[p].operation # "Noop"
    /\ resident \in ResidentLens(plans[p])
    /\ LET plan == plans[p]
           t == plan.target
           tokens == SubSeq(plan.tokens, 1, resident)
       IN  /\ slots' = [s \in SlotIds |->
                 IF s = t
                 THEN [generation |-> slots[s].generation + 1,
                       namespace |-> plan.namespace, tokens |-> tokens,
                       state |-> plan.resultState,
                       busy |-> plan.resultState = "Session",
                       readLeases |-> slots[s].readLeases, writer |-> NoPlan,
                       session |-> plan.session, physicalBytes |-> bytes,
                       protected |-> FALSE]
                 ELSE IF s \in plan.evictions
                 THEN NewSlot(slots[s].generation + 1)
                 ELSE Released(p, s)]
           /\ index' = (index \ UNION {Entry(s) : s \in plan.evictions \cup {t}})
                          \cup {<<plan.namespace, tokens, t>>}
           /\ Forget(p)
           /\ UNCHANGED <<registered, epoch>>

Abort(p) ==
    /\ plans[p] # NoPlan
    /\ IF plans[p].epoch = epoch
       THEN FailClosed(p)
       ELSE /\ slots' = [s \in SlotIds |-> Released(p, s)]
            /\ Forget(p)
            /\ UNCHANGED <<registered, epoch, index>>

-----------------------------------------------------------------------------
(* Operations on one slot.  The caller passes the generation it knows; any *)
(* other generation is answered with StalePlan and changes nothing.        *)

CanBump(s) == s \in Registered /\ slots[s].generation < MaxGeneration

(* Mutant: the generation stays. *)
PublishSameGeneration(s, tokens, state, busy, bytes) ==
    /\ slots' = [slots EXCEPT
          ![s].tokens = tokens, ![s].state = state,
          ![s].busy = busy, ![s].physicalBytes = bytes]
    /\ index' = (index \ Entry(s)) \cup {<<slots[s].namespace, tokens, s>>}
    /\ UNCHANGED <<registered, epoch, plans>>

(* The new content of slot s, and the index entry that follows it. *)
Publish(s, tokens, state, busy, bytes) ==
    /\ slots' = [slots EXCEPT
          ![s].generation = @ + 1, ![s].tokens = tokens, ![s].state = state,
          ![s].busy = busy, ![s].physicalBytes = bytes]
    /\ index' = (index \ Entry(s)) \cup {<<slots[s].namespace, tokens, s>>}
    /\ UNCHANGED <<registered, epoch, plans>>

(* A backend appends decoded or prefilled tokens; a reader may hold s. *)
Advance(s, appended, state, busy, bytes) ==
    /\ CanBump(s)
    /\ slots[s].writer = NoPlan /\ slots[s].state # "Anchor"
    /\ Publish(s, slots[s].tokens \o appended, state, busy, bytes)

(* Mutant: a boundary is restored under a reader. *)
ConfirmUnderReaders(s, tokens, state, busy, bytes) ==
    /\ CanBump(s) /\ slots[s].writer = NoPlan
    /\ Publish(s, tokens, state, busy, bytes)

(* A backend restored an earlier boundary; the code does not ask whether   *)
(* the slot is an anchor.                                                  *)
Confirm(s, tokens, state, busy, bytes) ==
    /\ CanBump(s) /\ Unleased(s)
    /\ Publish(s, tokens, state, busy, bytes)

SetBusy(s, busy) ==
    /\ s \in Registered /\ slots[s].writer = NoPlan
    /\ slots' = [slots EXCEPT ![s].busy = busy]
    /\ UNCHANGED <<registered, epoch, plans, index>>

SetAnchorProtected(s, protected) ==
    /\ s \in Registered /\ slots[s].state = "Anchor" /\ Idle(s)
    /\ slots' = [slots EXCEPT ![s].protected = protected]
    /\ UNCHANGED <<registered, epoch, plans, index>>

(* Mutant: the index keeps the entry. *)
InvalidateKeepsIndex(s) ==
    /\ CanBump(s) /\ Unleased(s)
    /\ slots' = [slots EXCEPT ![s] = NewSlot(@.generation + 1)]
    /\ UNCHANGED <<registered, epoch, plans, index>>

Invalidate(s) ==
    /\ CanBump(s) /\ Unleased(s)
    /\ slots' = [slots EXCEPT ![s] = NewSlot(@.generation + 1)]
    /\ index' = index \ Entry(s)
    /\ UNCHANGED <<registered, epoch, plans>>

RegisterSlot ==
    /\ registered < HardMaxRetained
    /\ registered' = registered + 1
    /\ UNCHANGED <<slots, epoch, plans, index>>

(* Mutant: plans in flight survive the reset. *)
ResetKeepsPlans ==
    /\ epoch < MaxEpoch
    /\ \A s \in Registered : slots[s].generation < MaxGeneration
    /\ epoch' = epoch + 1
    /\ slots' = [s \in SlotIds |->
          IF s \in Registered THEN NewSlot(slots[s].generation + 1)
          ELSE slots[s]]
    /\ index' = {}
    /\ UNCHANGED <<registered, plans>>

Reset ==
    /\ epoch < MaxEpoch
    /\ \A s \in Registered : slots[s].generation < MaxGeneration
    /\ epoch' = epoch + 1
    /\ slots' = [s \in SlotIds |->
          IF s \in Registered THEN NewSlot(slots[s].generation + 1)
          ELSE slots[s]]
    /\ plans' = [p \in PlanIds |-> NoPlan]
    /\ index' = {}
    /\ UNCHANGED registered

-----------------------------------------------------------------------------
PlanStep ==
    \E p \in PlanIds, r \in Requests :
        PlanNoop(p, r) \/ PlanContinue(p, r) \/ PlanCopy(p, r) \/ PlanFresh(p, r)

CommitStep ==
    \E p \in PlanIds :
        \/ CommitStale(p) \/ CommitRejected(p) \/ CommitNoop(p)
        \/ \E bytes \in ByteSizes :
              plans[p] # NoPlan /\ \E n \in ResidentLens(plans[p]) :
                  Commit(p, n, bytes)

AbortStep == \E p \in PlanIds : Abort(p)

(* A backend publishes on slots a commit gave it; anchors only by commit. *)
BackendStep ==
    \E s \in SlotIds :
        \/ /\ slots[s].state # "Empty"
           /\ \E state \in LiveStates, busy \in BOOLEAN, bytes \in ByteSizes :
              \/ \E a \in Suffixes : Advance(s, a, state, busy, bytes)
              \/ \E t \in Restored : Confirm(s, t, state, busy, bytes)
        \/ \E b \in BOOLEAN : SetBusy(s, b) \/ SetAnchorProtected(s, b)
        \/ Invalidate(s)

Next == PlanStep \/ CommitStep \/ AbortStep \/ BackendStep \/ RegisterSlot \/ Reset

Spec == Init /\ [][Next]_vars
-----------------------------------------------------------------------------
Slot ==
    [generation : Nat, namespace : Namespaces \cup {NoNamespace},
     tokens : Seq(Int), state : States, busy : BOOLEAN, readLeases : Nat,
     writer : PlanIds \cup {NoPlan}, session : Sessions,
     physicalBytes : Nat, protected : BOOLEAN]

PlanRecord(plan) == plan \in Plan /\ plan.reuseTokens <= Len(plan.tokens)

(* Every variable has its type; plans that are in flight are well formed. *)
TypeOK ==
    /\ registered \in SlotCount .. HardMaxRetained
    /\ slots \in [SlotIds -> Slot]
    /\ epoch \in Nat
    /\ DOMAIN plans = PlanIds
    /\ \A p \in Pending : PlanRecord(plans[p])
    /\ index \subseteq (Namespaces \cup {NoNamespace}) \X Seq(Int) \X SlotIds

(* The leases recorded in the slots are those of the plans in flight: plan *)
(* p writes s exactly when p may mutate s, and s counts one reader for     *)
(* each plan that copies from it.  Any lost or doubled release breaks it.  *)
LeaseAccounting ==
    \A s \in SlotIds :
        /\ \A p \in PlanIds :
              slots[s].writer = p <=> p \in Pending /\ s \in WriteSet(plans[p])
        /\ slots[s].readLeases = Cardinality(Readers(s))

(* A slot under a write lease is read by nobody and serves no request: two *)
(* plans never conflict on a slot, whatever other calls come between.      *)
WriterExclusive ==
    \A s \in SlotIds :
        slots[s].writer # NoPlan => slots[s].readLeases = 0 /\ ~slots[s].busy

(* Until its plan ends, a donor still holds the promised prefix in the     *)
(* plan's namespace, even when its own request goes on decoding meanwhile. *)
DonorPrefixIntact ==
    \A p \in Pending :
        LET plan == plans[p]
        IN  plan.operation \in {"Continue", "Branch", "Restore"} =>
              /\ slots[plan.donor].namespace = plan.namespace
              /\ Agree(slots[plan.donor].tokens, plan.tokens, plan.reuseTokens)

(* Every slot a plan may mutate is frozen while the plan is in flight, so  *)
(* a plan that must be refused as stale lost its donor and nothing else.   *)
StaleOnlyByDonor ==
    \A p \in Pending :
        \A s \in WriteSet(plans[p]) :
            /\ s \in Registered
            /\ slots[s].generation = plans[p].generation[s]

(* No plan is granted a protected anchor as target or victim. *)
ProtectedAnchorUntouched ==
    \A s \in SlotIds :
        slots[s].state = "Anchor" /\ slots[s].protected
            => slots[s].writer = NoPlan

(* No step changes what a slot holds under an unchanged generation, and    *)
(* generations never go back: a handle with the current generation always  *)
(* names the content it was issued for.                                    *)
GenerationGuardsContent ==
    [][\A s \in SlotIds :
          /\ slots'[s].generation >= slots[s].generation
          /\ slots'[s].generation = slots[s].generation =>
                /\ slots'[s].tokens = slots[s].tokens
                /\ slots'[s].namespace = slots[s].namespace
                /\ slots'[s].state = slots[s].state]_vars

(* Every materialized slot can be found in the prefix index, and every     *)
(* indexed non-empty token path is exactly the content of its slot.        *)
IndexTracksSlots ==
    {e \in index : e[2] # <<>>} = UNION {Entry(s) : s \in SlotIds}

(* Never more anchors than configured, counting those being created. *)
AnchorLimit ==
    Cardinality({s \in SlotIds : slots[s].state = "Anchor"}) <= MaxAnchors

(* An identical anchor is reused, not stored twice. *)
NoDuplicateAnchors ==
    \A s, o \in {x \in SlotIds : slots[x].state = "Anchor"} :
        s # o => <<slots[s].namespace, slots[s].tokens>>
                    # <<slots[o].namespace, slots[o].tokens>>

(* The anchors through plans, evictions and protections set in between.     *)
AnchorsSound == AnchorLimit /\ NoDuplicateAnchors /\ ProtectedAnchorUntouched

(* The leases of the operation can be granted whatever victims are ranked   *)
(* first; the operations that copy evict alike.                            *)
AlwaysGrants(r, operation, t, d) ==
    /\ Evictions(r, operation, t, d) # {}
    /\ \A evictions \in Evictions(r, operation, t, d) :
          \A s \in evictions \cup {t} : Idle(s)

FindsTarget(r, operation, d) ==
    /\ Targets(r, d) # {}
    /\ \A t \in Targets(r, d) : AlwaysGrants(r, operation, t, d)

SpareSlot(d) == \E s \in Registered \ {d} : Idle(s) /\ ~slots[s].protected

(* Whichever of the best donors plan picks, it is continued unless a copy   *)
(* from it is in flight, or copied to a slot that is spare; without a donor *)
(* the request starts fresh in one.                                        *)
SessionServable(r) ==
    /\ \A d \in Registered, n \in 0 .. Len(r.tokens) :
          Donor(r, d, n) =>
              IF CanContinue(r, d, n)
              THEN slots[d].readLeases = 0 => AlwaysGrants(r, "Continue", d, d)
              ELSE SpareSlot(d) => FindsTarget(r, "Branch", d)
    /\ IF HasDonor(r) THEN \E d \in Registered, n \in 0 .. Len(r.tokens) : Donor(r, d, n)
       ELSE SpareSlot(NoSlot) => FindsTarget(r, "Fresh", NoSlot)

(* choose_target: "Anchors are valuable but not allowed to deadlock the    *)
(* pool": a session request is granted a plan while a slot other than its  *)
(* donor is idle and unprotected, or its donor is idle and can be          *)
(* continued, whatever the anchors and the byte budget.                    *)
PoolNeverDeadlocks ==
    \A r \in Requests :
        /\ r.resultState # "Anchor"
        /\ \A s \in Registered : Can(r, s, "WRITABLE")
        => SessionServable(r)

(* Plan p is granted by this step and will write a retained entry. *)
GrantsAnchor(p) ==
    /\ plans[p] = NoPlan /\ plans'[p] # NoPlan
    /\ plans'[p].resultState = "Anchor" /\ plans'[p].operation # "Noop"

(* A retained entry is admitted only if, with the planned evictions done   *)
(* and the estimate charged, the slots fit the high watermark: the victims *)
(* of target choice, pressure and checkpoint budget add up.                *)
RetainedWithinWatermark ==
    [][\A p \in PlanIds :
          ByteBudget > 0 /\ GrantsAnchor(p) =>
              LET plan == plans'[p]
              IN  Bytes(Registered \ WriteSet(plan))
                    + BytesPerToken * Len(plan.tokens) <= HighWatermark]_vars

(* AutomaticCheckpointConfig: "Maximum share of the retained physical byte *)
(* budget": an automatic checkpoint is admitted only if the checkpoints    *)
(* that stay and the new one fit that share.                               *)
CheckpointsWithinBudget ==
    [][\A p \in PlanIds :
          /\ CheckpointBytes > 0 /\ GrantsAnchor(p)
          /\ Len(plans'[p].tokens) \in CheckpointLens
          => LET plan == plans'[p]
             IN  Bytes(CheckpointAnchors \ WriteSet(plan))
                   + BytesPerToken * Len(plan.tokens) <= CheckpointBytes]_vars

(* A plan that ends leaves no slot it was allowed to mutate under its old  *)
(* generation: either new content was committed or the slot was            *)
(* invalidated, as a backend may already have changed it.                  *)
EndedPlanInvalidates ==
    [][\A p \in PlanIds :
          plans[p] # NoPlan /\ plans'[p] = NoPlan =>
              \A s \in WriteSet(plans[p]) :
                  slots'[s].generation > slots[s].generation]_vars

(* What SlotLeases sees of the slots and of the plans.                     *)
SlotWriters == [s \in SlotIds |-> slots[s].writer]
SlotReaders == [s \in SlotIds |-> slots[s].readLeases]
SlotContents ==
    [s \in SlotIds |-> [tag |-> slots[s].namespace, tokens |-> slots[s].tokens]]
LeasesOf(plan) ==
    IF plan = NoPlan THEN NoPlan
    ELSE [write |-> WriteSet(plan), read |-> ReadSet(plan)]
PlanLeases == [p \in PlanIds |-> LeasesOf(plans[p])]

(* The coordinator keeps the promise of SlotLeases.                        *)
Leases == INSTANCE SlotLeases WITH
    Slots <- SlotIds, Plans <- PlanIds, None <- NoPlan,
    writer <- SlotWriters, readers <- SlotReaders, content <- SlotContents,
    granted <- PlanLeases

(* Whatever the planner chooses, every step is a step of SlotLeases: leased *)
(* slots change only through the plan that leases them, donors only grow.   *)
ImplementsLeases == Leases!Spec
=============================================================================
