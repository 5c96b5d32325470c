----------------------- MODULE CacheCoordinatorProofs -----------------------
(***************************************************************************)
(* Theorems about CacheCoordinator, for every configuration, every set of  *)
(* requests and any number of slots and plans.                             *)
(***************************************************************************)
EXTENDS CacheCoordinator, FiniteSetTheorems, SequenceTheorems, TLAPS

(* An empty slot is a slot. *)
LEMMA NewSlotType ==
    ASSUME NEW g \in Nat
    PROVE  NewSlot(g) \in Slot
  BY RequestAssumption DEF NewSlot, Slot, States

(* The target of a plan is a registered slot, never its donor. *)
LEMMA TargetsType ==
    ASSUME NEW r, NEW d, NEW t \in Targets(r, d), ~IsEmpty(slots[d]) \/ d \notin Registered
    PROVE  t \in Registered /\ t # d
  BY DEF Targets, EmptyTargets, Lowest, Takeable

(* Victims are registered slots and never the donor. *)
LEMMA EvictionsType ==
    ASSUME NEW r, NEW operation, NEW t, NEW d, NEW v \in Evictions(r, operation, t, d),
           t \in Registered
    PROVE  /\ v \subseteq Registered
           /\ t # d => d \notin v
           /\ operation = "Continue" => t \notin v
  <1>1. PICK pressure \in PressureVictims(r, t, d),
             checkpoints \in CheckpointVictims(r, t, d) :
             v = pressure \cup checkpoints \cup
                   {s \in {t} : operation # "Continue" /\ ~IsEmpty(slots[s])}
    BY DEF Evictions
  <1>2. pressure \subseteq Registered \ {t, d}
    BY DEF PressureVictims, Walks, Evictable
  <1>3. checkpoints \subseteq Registered \ {t, d}
    BY DEF CheckpointVictims, Walks, Evictable
  <1> QED BY <1>1, <1>2, <1>3

-----------------------------------------------------------------------------
(* What a granted plan looks like, whatever operation the planner chose.    *)
Granted(p, r, operation, t, d, n, v) ==
    /\ plans[p] = NoPlan
    /\ operation \in Operations \ {"Noop"}
    /\ t \in Registered /\ d \in Registered \cup {NoSlot}
    /\ v \subseteq Registered
    /\ n \in 0 .. Len(r.tokens)
    /\ t # d => d \notin v
    /\ \A s \in v \cup {t} : Idle(s)
    /\ operation = "Fresh" <=> d = NoSlot
    /\ d # NoSlot => /\ slots[d].writer = NoPlan
                     /\ slots[d].namespace = r.namespace
                     /\ Agree(slots[d].tokens, r.tokens, n)
    /\ slots' = [s \in SlotIds |->
          IF s \in v \cup {t} THEN [slots[s] EXCEPT !.writer = p]
          ELSE IF s = d THEN [slots[s] EXCEPT !.readLeases = @ + 1]
          ELSE slots[s]]
    /\ plans' = [plans EXCEPT ![p] = NewPlan(r, operation, t, d, n, v)]
    /\ UNCHANGED <<registered, epoch, index>>

LEMMA GrantShape ==
    ASSUME NEW p \in PlanIds, NEW r \in Requests,
           registered \in SlotCount .. HardMaxRetained,
           PlanContinue(p, r) \/ PlanCopy(p, r) \/ PlanFresh(p, r)
    PROVE  \E operation \in Operations, t \in Registered,
              d \in Registered \cup {NoSlot}, n \in 0 .. Len(r.tokens),
              v \in SUBSET Registered : Granted(p, r, operation, t, d, n, v)
  <1>0. NoSlot \notin Registered
    BY NamesAssumption, ConfigAssumption DEF Registered, SlotIds
  <1>1. CASE PlanContinue(p, r)
    <2>1. PICK d \in Registered, n \in 0 .. Len(r.tokens) :
              Donor(r, d, n) /\ Grant(p, r, "Continue", d, d, n)
      BY <1>1 DEF PlanContinue
    <2>2. PICK v \in Evictions(r, "Continue", d, d) :
              /\ Grantable(r, d, d, v)
              /\ slots' = [s \in SlotIds |->
                    IF s \in v \cup {d} THEN [slots[s] EXCEPT !.writer = p]
                    ELSE IF s = d THEN [slots[s] EXCEPT !.readLeases = @ + 1]
                    ELSE slots[s]]
              /\ plans' = [plans EXCEPT
                    ![p] = NewPlan(r, "Continue", d, d, n, v)]
              /\ UNCHANGED <<registered, epoch, index>>
      BY <2>1 DEF Grant
    <2>3. v \subseteq Registered
      BY <2>1, <2>2, EvictionsType
    <2>4. Granted(p, r, "Continue", d, d, n, v)
      BY <1>0, <1>1, <2>1, <2>2, <2>3
         DEF Granted, PlanContinue, Donor, DonorCandidate, IsPrefixLen,
             Grantable, Operations
    <2> QED BY <2>3, <2>4 DEF Operations
  <1>2. CASE PlanCopy(p, r)
    <2> DEFINE operation(d) ==
          IF slots[d].state = "Anchor" THEN "Restore" ELSE "Branch"
    <2>0. PICK d \in Registered, n \in 0 .. Len(r.tokens) :
              /\ Donor(r, d, n)
              /\ \E t \in Targets(r, d) : Grant(p, r, operation(d), t, d, n)
      BY <1>2 DEF PlanCopy
    <2>1. PICK t \in Targets(r, d) : Grant(p, r, operation(d), t, d, n)
      BY <2>0
    <2>2. PICK v \in Evictions(r, operation(d), t, d) :
              /\ Grantable(r, t, d, v)
              /\ slots' = [s \in SlotIds |->
                    IF s \in v \cup {t} THEN [slots[s] EXCEPT !.writer = p]
                    ELSE IF s = d THEN [slots[s] EXCEPT !.readLeases = @ + 1]
                    ELSE slots[s]]
              /\ plans' = [plans EXCEPT
                    ![p] = NewPlan(r, operation(d), t, d, n, v)]
              /\ UNCHANGED <<registered, epoch, index>>
      BY <2>1 DEF Grant
    <2>3. ~IsEmpty(slots[d])
      BY <2>0 DEF Donor, DonorCandidate
    <2>4. t \in Registered /\ t # d
      BY <2>1, <2>3, TargetsType
    <2>5. v \subseteq Registered /\ d \notin v
      BY <2>2, <2>4, EvictionsType
    <2>6. Granted(p, r, operation(d), t, d, n, v)
      BY <1>0, <1>2, <2>0, <2>2, <2>4, <2>5
         DEF Granted, PlanCopy, Donor, DonorCandidate, IsPrefixLen,
             Grantable, Operations
    <2> QED BY <2>4, <2>5, <2>6 DEF Operations
  <1>3. CASE PlanFresh(p, r)
    <2>1. PICK t \in Targets(r, NoSlot) : Grant(p, r, "Fresh", t, NoSlot, 0)
      BY <1>3 DEF PlanFresh
    <2>2. PICK v \in Evictions(r, "Fresh", t, NoSlot) :
              /\ Grantable(r, t, NoSlot, v)
              /\ slots' = [s \in SlotIds |->
                    IF s \in v \cup {t} THEN [slots[s] EXCEPT !.writer = p]
                    ELSE IF s = NoSlot
                         THEN [slots[s] EXCEPT !.readLeases = @ + 1]
                    ELSE slots[s]]
              /\ plans' = [plans EXCEPT
                    ![p] = NewPlan(r, "Fresh", t, NoSlot, 0, v)]
              /\ UNCHANGED <<registered, epoch, index>>
      BY <2>1 DEF Grant
    <2>3. t \in Registered
      BY <1>0, <2>1, TargetsType
    <2>4. v \subseteq Registered
      BY <2>2, <2>3, EvictionsType
    <2>5. 0 \in 0 .. Len(r.tokens)
      BY RequestAssumption DEF Requests
    <2>6. Granted(p, r, "Fresh", t, NoSlot, 0, v)
      BY <1>0, <1>3, <2>2, <2>3, <2>4, <2>5
         DEF Granted, PlanFresh, Grantable, Operations
    <2> QED BY <2>3, <2>4, <2>5, <2>6 DEF Operations
  <1> QED BY <1>1, <1>2, <1>3

-----------------------------------------------------------------------------
(* Type correctness.                                                        *)

LEMMA InitType == Init => TypeOK
  BY ConfigAssumption, NewSlotType, SMTT(30)
     DEF Init, TypeOK, Pending, Slot

LEMMA RegisteredType ==
    ASSUME TypeOK
    PROVE  Registered \subseteq SlotIds
  BY ConfigAssumption DEF TypeOK, Registered, SlotIds

(* The single updates the actions make keep a slot a slot.                  *)
LEMMA SlotUpdates ==
    ASSUME NEW x \in Slot
    PROVE  /\ x.generation \in Nat /\ x.readLeases \in Nat
           /\ x.tokens \in Seq(Int)
           /\ x.namespace \in Namespaces \cup {NoNamespace}
           /\ \A p \in PlanIds \cup {NoPlan} : [x EXCEPT !.writer = p] \in Slot
           /\ \A n \in Nat : [x EXCEPT !.readLeases = n] \in Slot
           /\ \A b \in BOOLEAN : [x EXCEPT !.busy = b] \in Slot
           /\ \A b \in BOOLEAN : [x EXCEPT !.protected = b] \in Slot
           /\ \A g \in Nat : [x EXCEPT !.generation = g] \in Slot
           /\ \A t \in Seq(Int) : [x EXCEPT !.tokens = t] \in Slot
           /\ \A state \in States : [x EXCEPT !.state = state] \in Slot
           /\ \A n \in Nat : [x EXCEPT !.physicalBytes = n] \in Slot
  BY DEF Slot

LEMMA SlotType ==
    ASSUME TypeOK, NEW s \in SlotIds
    PROVE  /\ slots[s] \in Slot
           /\ NewSlot(slots[s].generation + 1) \in Slot
  <1>1. slots[s] \in Slot
    BY DEF TypeOK
  <1>2. slots[s].generation + 1 \in Nat
    BY <1>1 DEF Slot
  <1> QED BY <1>1, <1>2, NewSlotType

(* A slot keeps its type when plan p gives up its leases on it.             *)
LEMMA ReleasedType ==
    ASSUME TypeOK, NEW p \in PlanIds, NEW s \in SlotIds
    PROVE  Released(p, s) \in Slot
  <1> DEFINE w == IF s \in plans[p].evictions \cup {plans[p].target}
                       /\ slots[s].writer = p
                  THEN NoPlan ELSE slots[s].writer
             n == IF s \in ReadSet(plans[p]) /\ slots[s].readLeases > 0
                  THEN slots[s].readLeases - 1 ELSE slots[s].readLeases
             x == [slots[s] EXCEPT !.writer = w]
  <1>1. slots[s] \in Slot
    BY SlotType
  <1>2. w \in PlanIds \cup {NoPlan} /\ n \in Nat
    BY <1>1 DEF Slot
  <1>3. x \in Slot
    BY <1>1, <1>2, SlotUpdates
  <1>4. [x EXCEPT !.readLeases = n] \in Slot
    BY <1>2, <1>3, SlotUpdates
  <1>5. Released(p, s) = [x EXCEPT !.readLeases = n]
    BY DEF Released
  <1> QED BY <1>4, <1>5

(* The plan an action stores has its type, so it is not the null plan.      *)
LEMMA NewPlanType ==
    ASSUME TypeOK, NEW r \in Requests, NEW operation \in Operations,
           NEW t \in SlotIds, NEW d \in SlotIds \cup {NoSlot},
           NEW n \in 0 .. Len(r.tokens), NEW v \in SUBSET SlotIds
    PROVE  /\ PlanRecord(NewPlan(r, operation, t, d, n, v))
           /\ NewPlan(r, operation, t, d, n, v) # NoPlan
  <1> DEFINE new == NewPlan(r, operation, t, d, n, v)
             generation == [s \in SlotIds |-> IF s \in {t, d} \cup v
                                             THEN slots[s].generation ELSE 0]
  <1>1. r.tokens \in Seq(Int) /\ r.namespace \in Namespaces
        /\ r.session \in Sessions /\ r.resultState \in States \ {"Empty"}
    BY RequestAssumption DEF Requests, States
  <1>3. generation \in [SlotIds -> Nat]
    BY SlotType, SlotUpdates
  <1>4. n \in Nat /\ n <= Len(r.tokens) /\ epoch \in Nat
    BY <1>1 DEF TypeOK
  <1>5. new \in Plan
    BY <1>1, <1>3, <1>4 DEF NewPlan, Plan
  <1> QED BY <1>1, <1>4, <1>5, NoPlanAssumption DEF PlanRecord, NewPlan

LEMMA GrantedType ==
    ASSUME TypeOK, NEW p \in PlanIds, NEW r \in Requests,
           NEW operation, NEW t, NEW d, NEW n, NEW v,
           Granted(p, r, operation, t, d, n, v)
    PROVE  TypeOK'
  <1>1. Registered \subseteq SlotIds
    BY RegisteredType
  <1>2. slots' \in [SlotIds -> Slot]
    <2>1. \A s \in SlotIds :
            /\ [slots[s] EXCEPT !.writer = p] \in Slot
            /\ [slots[s] EXCEPT !.readLeases = @ + 1] \in Slot
            /\ slots[s] \in Slot
      <3> TAKE s \in SlotIds
      <3>1. slots[s] \in Slot
        BY SlotType
      <3>2. slots[s].readLeases + 1 \in Nat
        BY <3>1, SlotUpdates
      <3> QED BY <3>1, <3>2, SlotUpdates
    <2> QED BY <2>1 DEF Granted
  <1>3. PlanRecord(NewPlan(r, operation, t, d, n, v))
    BY <1>1, NewPlanType DEF Granted
  <1>4. DOMAIN plans' = PlanIds /\ \A q \in Pending' : PlanRecord(plans'[q])
    <2>1. plans' = [plans EXCEPT ![p] = NewPlan(r, operation, t, d, n, v)]
      BY DEF Granted
    <2>2. DOMAIN plans = PlanIds /\ \A q \in Pending : PlanRecord(plans[q])
      BY DEF TypeOK
    <2> QED BY <1>3, <2>1, <2>2 DEF Pending
  <1> QED BY <1>2, <1>4 DEF Granted, TypeOK

LEMMA NoopType ==
    ASSUME TypeOK, NEW p \in PlanIds, NEW r \in Requests, PlanNoop(p, r)
    PROVE  TypeOK'
  <1>1. PICK s \in ExistingAnchors(r) :
            plans' = [plans EXCEPT
              ![p] = NewPlan(r, "Noop", s, s, Len(r.tokens), {})]
    BY DEF PlanNoop, Lowest
  <1>2. s \in SlotIds
    BY <1>1, RegisteredType DEF ExistingAnchors, Anchors
  <1>3. PlanRecord(NewPlan(r, "Noop", s, s, Len(r.tokens), {}))
    <2>1. Len(r.tokens) \in 0 .. Len(r.tokens)
      BY RequestAssumption DEF Requests
    <2> QED BY <1>2, <2>1, NewPlanType DEF Operations
  <1>4. DOMAIN plans' = PlanIds /\ \A q \in Pending' : PlanRecord(plans'[q])
    <2>2. DOMAIN plans = PlanIds /\ \A q \in Pending : PlanRecord(plans[q])
      BY DEF TypeOK
    <2> QED BY <1>1, <1>3, <2>2 DEF Pending
  <1> QED BY <1>4 DEF PlanNoop, TypeOK

(* What Forget leaves.                                                      *)
LEMMA ForgetType ==
    ASSUME TypeOK, NEW p \in PlanIds, Forget(p)
    PROVE  /\ DOMAIN plans' = PlanIds
           /\ \A q \in Pending' : q # p /\ q \in Pending /\ plans'[q] = plans[q]
           /\ \A q \in Pending' : PlanRecord(plans'[q])
  BY DEF TypeOK, Forget, Pending

LEMMA FailClosedType ==
    ASSUME TypeOK, NEW p \in PlanIds, FailClosed(p)
    PROVE  TypeOK'
  <1>2. slots' \in [SlotIds -> Slot]
    BY SlotType, ReleasedType DEF FailClosed
  <1> QED BY <1>2, ForgetType DEF FailClosed, TypeOK

LEMMA CommitType ==
    ASSUME TypeOK, NEW p \in PlanIds, NEW bytes \in ByteSizes, NEW n,
           Commit(p, n, bytes)
    PROVE  TypeOK'
  <1> DEFINE plan == plans[p]
             tokens == SubSeq(plan.tokens, 1, n)
  <1>1. PlanRecord(plan)
    BY DEF Commit, TypeOK, Pending
  <1>2. tokens \in Seq(Int)
    <2>1. n \in 0 .. Len(plan.tokens)
      BY <1>1 DEF Commit, ResidentLens, PlanRecord, Plan
    <2> QED BY <1>1, <2>1, SubSeqProperties DEF PlanRecord, Plan
  <1>4. slots' \in [SlotIds -> Slot]
    <2>1. \A s \in SlotIds :
            [generation |-> slots[s].generation + 1,
             namespace |-> plan.namespace, tokens |-> tokens,
             state |-> plan.resultState,
             busy |-> plan.resultState = "Session",
             readLeases |-> slots[s].readLeases, writer |-> NoPlan,
             session |-> plan.session, physicalBytes |-> bytes,
             protected |-> FALSE] \in Slot
      <3>1. \A s \in SlotIds : slots[s].generation + 1 \in Nat
                                /\ slots[s].readLeases \in Nat
        BY SlotType, SlotUpdates
      <3> QED BY <1>1, <1>2, <3>1, RequestAssumption DEF Slot, PlanRecord, Plan
    <2> QED BY <2>1, SlotType, ReleasedType DEF Commit
  <1>5. index' \subseteq (Namespaces \cup {NoNamespace}) \X Seq(Int) \X SlotIds
    <2>1. <<plan.namespace, tokens, plan.target>>
             \in (Namespaces \cup {NoNamespace}) \X Seq(Int) \X SlotIds
      BY <1>1, <1>2 DEF PlanRecord, Plan
    <2>2. index \subseteq (Namespaces \cup {NoNamespace}) \X Seq(Int) \X SlotIds
      BY DEF TypeOK
    <2>3. index' \subseteq index \cup {<<plan.namespace, tokens, plan.target>>}
      BY DEF Commit
    <2> QED BY <2>1, <2>2, <2>3
  <1> QED BY <1>4, <1>5, ForgetType DEF Commit, TypeOK

LEMMA PublishType ==
    ASSUME TypeOK, NEW s \in SlotIds, NEW tokens \in Seq(Int),
           NEW state \in LiveStates, NEW busy \in BOOLEAN,
           NEW bytes \in ByteSizes, Publish(s, tokens, state, busy, bytes)
    PROVE  TypeOK'
  <1>1. slots' \in [SlotIds -> Slot]
    <2> DEFINE x == slots[s]
               x1 == [x EXCEPT !.generation = x.generation + 1]
               x2 == [x1 EXCEPT !.tokens = tokens]
               x3 == [x2 EXCEPT !.state = state]
               x4 == [x3 EXCEPT !.busy = busy]
               y == [x4 EXCEPT !.physicalBytes = bytes]
    <2>1. x \in Slot /\ x.generation + 1 \in Nat
      BY SlotType, SlotUpdates
    <2>2. state \in States /\ bytes \in Nat
      BY RequestAssumption DEF States
    <2>3. y \in Slot
      <3> HIDE DEF x
      <3>1. x1 \in Slot
        BY <2>1, SlotUpdates
      <3> HIDE DEF x1
      <3>2. x2 \in Slot
        BY <3>1, SlotUpdates
      <3> HIDE DEF x2
      <3>3. x3 \in Slot
        BY <2>2, <3>2, SlotUpdates
      <3> HIDE DEF x3
      <3>4. x4 \in Slot
        BY <3>3, SlotUpdates
      <3> HIDE DEF x4
      <3> QED BY <2>2, <3>4, SlotUpdates
    <2>4. slots' = [slots EXCEPT ![s] = y]
      BY DEF Publish, TypeOK
    <2>5. slots \in [SlotIds -> Slot]
      BY DEF TypeOK
    <2> QED BY <2>3, <2>4, <2>5
  <1>2. index' \subseteq (Namespaces \cup {NoNamespace}) \X Seq(Int) \X SlotIds
    BY DEF Publish, TypeOK, Slot
  <1> QED BY <1>1, <1>2 DEF Publish, TypeOK, Pending

LEMMA BackendType ==
    ASSUME TypeOK, NEW s \in SlotIds,
           \/ \E state \in LiveStates, busy \in BOOLEAN, bytes \in ByteSizes :
                 \/ \E a \in Suffixes : Advance(s, a, state, busy, bytes)
                 \/ \E t \in Restored : Confirm(s, t, state, busy, bytes)
           \/ \E b \in BOOLEAN : SetBusy(s, b) \/ SetAnchorProtected(s, b)
           \/ Invalidate(s)
    PROVE  TypeOK'
  <1>1. ASSUME NEW state \in LiveStates, NEW busy \in BOOLEAN,
               NEW bytes \in ByteSizes, NEW a \in Suffixes,
               Advance(s, a, state, busy, bytes)
        PROVE  TypeOK'
    <2>1. slots[s].tokens \o a \in Seq(Int)
      BY RequestAssumption DEF TypeOK, Slot
    <2> QED BY <1>1, <2>1, PublishType DEF Advance
  <1>2. ASSUME NEW state \in LiveStates, NEW busy \in BOOLEAN,
               NEW bytes \in ByteSizes, NEW t \in Restored,
               Confirm(s, t, state, busy, bytes)
        PROVE  TypeOK'
    BY <1>2, PublishType, RequestAssumption DEF Confirm
  <1>3. ASSUME NEW b \in BOOLEAN, SetBusy(s, b) \/ SetAnchorProtected(s, b)
        PROVE  TypeOK'
    <2>1. slots' \in [SlotIds -> Slot]
      <3>1. slots \in [SlotIds -> Slot]
        BY DEF TypeOK
      <3>2. CASE SetBusy(s, b)
        <4>1. slots' = [slots EXCEPT ![s] = [slots[s] EXCEPT !.busy = b]]
          BY <3>1, <3>2 DEF SetBusy
        <4> QED BY <3>1, <4>1, SlotUpdates
      <3>3. CASE SetAnchorProtected(s, b)
        <4>1. slots' = [slots EXCEPT ![s] = [slots[s] EXCEPT !.protected = b]]
          BY <3>1, <3>3 DEF SetAnchorProtected
        <4> QED BY <3>1, <4>1, SlotUpdates
      <3> QED BY <1>3, <3>2, <3>3
    <2> QED BY <1>3, <2>1 DEF SetBusy, SetAnchorProtected, TypeOK, Pending
  <1>4. CASE Invalidate(s)
    <2>1. slots' \in [SlotIds -> Slot]
      BY <1>4, SlotType DEF Invalidate, TypeOK
    <2> QED BY <1>4, <2>1 DEF Invalidate, TypeOK, Pending
  <1> QED BY <1>1, <1>2, <1>3, <1>4

LEMMA StepType == TypeOK /\ [Next]_vars => TypeOK'
  <1> SUFFICES ASSUME TypeOK, [Next]_vars PROVE TypeOK'
    OBVIOUS
  <1>1. CASE PlanStep
    <2>1. PICK p \in PlanIds, r \in Requests :
              PlanNoop(p, r) \/ PlanContinue(p, r) \/ PlanCopy(p, r)
                \/ PlanFresh(p, r)
      BY <1>1 DEF PlanStep
    <2>2. CASE PlanNoop(p, r)
      BY <2>2, NoopType
    <2>3. CASE PlanContinue(p, r) \/ PlanCopy(p, r) \/ PlanFresh(p, r)
      BY <2>3, GrantShape, GrantedType DEF TypeOK
    <2> QED BY <2>1, <2>2, <2>3
  <1>2. CASE CommitStep
    <2>1. ASSUME NEW p \in PlanIds, CommitStale(p)
          PROVE  TypeOK'
      BY <2>1, ReleasedType, ForgetType DEF CommitStale, TypeOK
    <2>2. ASSUME NEW p \in PlanIds, CommitRejected(p)
          PROVE  TypeOK'
      BY <2>2, FailClosedType DEF CommitRejected
    <2>3. ASSUME NEW p \in PlanIds, CommitNoop(p)
          PROVE  TypeOK'
      BY <2>3, ForgetType DEF CommitNoop, TypeOK
    <2> QED BY <1>2, <2>1, <2>2, <2>3, CommitType DEF CommitStep
  <1>3. CASE AbortStep
    <2>1. PICK p \in PlanIds : Abort(p)
      BY <1>3 DEF AbortStep
    <2>2. CASE plans[p].epoch = epoch
      BY <2>1, <2>2, FailClosedType DEF Abort
    <2>3. CASE plans[p].epoch # epoch
      BY <2>1, <2>3, ReleasedType, ForgetType DEF Abort, TypeOK
    <2> QED BY <2>2, <2>3
  <1>4. CASE BackendStep
    BY <1>4, BackendType DEF BackendStep
  <1>5. CASE RegisterSlot
    BY <1>5, ConfigAssumption DEF RegisterSlot, TypeOK, Pending
  <1>6. CASE Reset
    <2>1. slots' \in [SlotIds -> Slot]
      <3>1. \A s \in SlotIds : /\ slots[s] \in Slot
                                /\ NewSlot(slots[s].generation + 1) \in Slot
        BY SlotType
      <3> QED BY <1>6, <3>1 DEF Reset
    <2> QED BY <1>6, <2>1 DEF Reset, TypeOK, Pending
  <1>7. CASE UNCHANGED vars
    BY <1>7 DEF vars, TypeOK, Pending
  <1> QED BY <1>1, <1>2, <1>3, <1>4, <1>5, <1>6, <1>7 DEF Next

(* Every variable has its type, in every reachable state.                   *)
THEOREM TypeCorrect == Spec => []TypeOK
  BY InitType, StepType, PTL DEF Spec

-----------------------------------------------------------------------------
(* The lease protocol.  LeaseAccounting, WriterExclusive, StaleOnlyByDonor  *)
(* and DonorPrefixIntact are proved together: a release is exact only when  *)
(* writers are exclusive, a donor keeps its prefix only when the leases     *)
(* recorded in the slots are those of the plans.                            *)

(* A plan names registered slots and reads no slot it writes; a plan that   *)
(* reuses tokens has a donor.                                               *)
PlanWellFormed(plan) ==
    /\ WriteSet(plan) \cup ReadSet(plan) \subseteq Registered
    /\ WriteSet(plan) \cap ReadSet(plan) = {}
    /\ plan.operation \in {"Continue", "Branch", "Restore"} =>
          plan.donor \in WriteSet(plan) \cup ReadSet(plan)
    /\ plan.operation = "Noop" => ReadSet(plan) = {}

IInv ==
    /\ TypeOK
    /\ \A p \in Pending : PlanWellFormed(plans[p])
    /\ LeaseAccounting
    /\ WriterExclusive
    /\ StaleOnlyByDonor
    /\ DonorPrefixIntact

(* The step that ends plan p, by whatever outcome, as the leases see it.    *)
EndedBy(p) ==
    /\ plans[p] # NoPlan /\ Forget(p) /\ registered' = registered
    /\ \A s \in SlotIds :
          /\ slots'[s].writer = IF s \in WriteSet(plans[p]) THEN NoPlan
                                ELSE slots[s].writer
          /\ slots'[s].readLeases = IF s \in ReadSet(plans[p])
                                    THEN slots[s].readLeases - 1
                                    ELSE slots[s].readLeases
          /\ s \notin WriteSet(plans[p]) =>
                /\ slots'[s].generation = slots[s].generation
                /\ slots'[s].namespace = slots[s].namespace
                /\ slots'[s].tokens = slots[s].tokens
                /\ slots'[s].busy = slots[s].busy

(* The step of an operation on slot s alone.                                *)
ChangedAlone(s) ==
    /\ s \in Registered /\ registered' = registered /\ plans' = plans
    /\ slots[s].writer = NoPlan /\ slots'[s].writer = NoPlan
    /\ slots'[s].readLeases = slots[s].readLeases
    /\ \A o \in SlotIds \ {s} : slots'[o] = slots[o]
    /\ \/ slots[s].readLeases = 0
       \/ /\ slots'[s].namespace = slots[s].namespace
          /\ Len(slots[s].tokens) <= Len(slots'[s].tokens)
          /\ \A i \in 1 .. Len(slots[s].tokens) :
                slots'[s].tokens[i] = slots[s].tokens[i]

LEMMA ReadersFinite ==
    ASSUME NEW s
    PROVE  IsFiniteSet(Readers(s)) /\ Cardinality(Readers(s)) \in Nat
  <1>1. Readers(s) \subseteq PlanIds /\ IsFiniteSet(PlanIds)
    BY NamesAssumption DEF Readers, Pending
  <1>2. IsFiniteSet(Readers(s))
    BY <1>1, FS_Subset
  <1> QED BY <1>2, FS_CardinalityType


(* A slot with a reader is recorded as read.                                *)
LEMMA ReaderCounted ==
    ASSUME LeaseAccounting, NEW s \in SlotIds, NEW p \in Readers(s)
    PROVE  slots[s].readLeases # 0 /\ slots[s].readLeases \in Nat
  <1>1. Cardinality(Readers(s)) # 0
    BY ReadersFinite, FS_EmptySet
  <1> QED BY <1>1, ReadersFinite DEF LeaseAccounting

(* Whatever its outcome, a commit or an abort ends exactly one plan.        *)
LEMMA PlanEnds ==
    ASSUME IInv, NEW p \in PlanIds,
           \/ CommitStale(p) \/ CommitRejected(p) \/ CommitNoop(p) \/ Abort(p)
           \/ \E n, bytes : Commit(p, n, bytes)
    PROVE  EndedBy(p)
  <1> DEFINE plan == plans[p]
  <1>1. plans[p] # NoPlan /\ p \in Pending
    BY DEF CommitStale, CommitRejected, CommitNoop, Abort, Commit, Pending
  <1>2. ASSUME NEW s \in SlotIds
        PROVE  /\ s \in WriteSet(plan) <=> slots[s].writer = p
               /\ s \in WriteSet(plan) => slots[s].readLeases = 0
               /\ s \in WriteSet(plan) => s \notin ReadSet(plan)
               /\ s \in ReadSet(plan) => slots[s].readLeases > 0
               /\ slots[s].readLeases \in Nat
    <2>1. s \in ReadSet(plan) => slots[s].readLeases # 0
      BY <1>1, ReaderCounted DEF IInv, Readers
    <2>2. slots[s].readLeases \in Nat
      BY SlotType, SlotUpdates DEF IInv
    <2> QED BY <1>1, <2>1, <2>2, NamesAssumption
            DEF IInv, LeaseAccounting, WriterExclusive, PlanWellFormed
  <1>3. ASSUME NEW s \in SlotIds
        PROVE  /\ Released(p, s).writer = IF s \in WriteSet(plan) THEN NoPlan
                                          ELSE slots[s].writer
               /\ Released(p, s).readLeases =
                     IF s \in ReadSet(plan) THEN slots[s].readLeases - 1
                     ELSE slots[s].readLeases
               /\ Released(p, s).generation = slots[s].generation
               /\ Released(p, s).namespace = slots[s].namespace
               /\ Released(p, s).tokens = slots[s].tokens
               /\ Released(p, s).busy = slots[s].busy
    <2>1. slots[s] \in Slot
      BY SlotType DEF IInv
    <2>2. slots[s].writer = p => s \in plan.evictions \cup {plan.target}
      BY <1>2 DEF WriteSet
    <2> QED BY <1>2, <2>1, <2>2 DEF Released, Slot
  <1>4. ASSUME NEW s \in SlotIds, NEW g
        PROVE  NewSlot(g).writer = NoPlan /\ NewSlot(g).readLeases = 0
    BY DEF NewSlot
  <1>5. CASE FailClosed(p)
    BY <1>1, <1>2, <1>3, <1>4, <1>5 DEF FailClosed, EndedBy
  <1>6. CASE slots' = [s \in SlotIds |-> Released(p, s)]
             /\ Forget(p) /\ registered' = registered
    BY <1>1, <1>3, <1>6 DEF EndedBy
  <1>7. CASE CommitNoop(p)
    <2>1. WriteSet(plan) = {}
      BY <1>7 DEF CommitNoop, WriteSet
    <2>2. ReadSet(plan) = {}
      BY <1>1, <1>7 DEF CommitNoop, IInv, PlanWellFormed
    <2> QED BY <1>1, <1>7, <2>1, <2>2 DEF CommitNoop, EndedBy
  <1>8. CASE \E n, bytes : Commit(p, n, bytes)
    BY <1>1, <1>2, <1>3, <1>4, <1>8 DEF Commit, EndedBy, WriteSet
  <1> QED BY <1>5, <1>6, <1>7, <1>8 DEF CommitStale, CommitRejected, Abort

(* An operation outside plans touches one slot that no plan is writing; it  *)
(* only extends the slot if somebody reads it.                              *)
LEMMA BackendChangesOne ==
    ASSUME TypeOK, NEW s \in SlotIds,
           \/ \E a \in Suffixes : \E state, busy, bytes : Advance(s, a, state, busy, bytes)
           \/ \E t, state, busy, bytes : Confirm(s, t, state, busy, bytes)
           \/ \E b : SetBusy(s, b) \/ SetAnchorProtected(s, b)
           \/ Invalidate(s)
    PROVE  ChangedAlone(s)
  <1>0. slots[s] \in Slot /\ slots \in [SlotIds -> Slot]
    BY SlotType DEF TypeOK
  <1>1. ASSUME NEW t, NEW state, NEW busy, NEW bytes,
               Publish(s, t, state, busy, bytes), slots[s].writer = NoPlan
        PROVE  /\ registered' = registered /\ plans' = plans
               /\ slots'[s].writer = NoPlan
               /\ slots'[s].readLeases = slots[s].readLeases
               /\ slots'[s].namespace = slots[s].namespace
               /\ slots'[s].tokens = t
               /\ \A o \in SlotIds \ {s} : slots'[o] = slots[o]
    BY <1>0, <1>1 DEF Publish, Slot
  <1>2. ASSUME NEW a \in Suffixes, NEW state, NEW busy, NEW bytes,
               Advance(s, a, state, busy, bytes)
        PROVE  ChangedAlone(s)
    <2>1. slots[s].tokens \in Seq(Int) /\ a \in Seq(Int)
      BY <1>0, SlotUpdates, RequestAssumption
    <2>2. /\ Len(slots[s].tokens) <= Len(slots[s].tokens \o a)
          /\ \A i \in 1 .. Len(slots[s].tokens) :
                (slots[s].tokens \o a)[i] = slots[s].tokens[i]
      BY <2>1
    <2> QED BY <1>1, <1>2, <2>2 DEF Advance, ChangedAlone, CanBump
  <1>3. ASSUME NEW t, NEW state, NEW busy, NEW bytes,
               Confirm(s, t, state, busy, bytes)
        PROVE  ChangedAlone(s)
    BY <1>1, <1>3 DEF Confirm, Unleased, ChangedAlone, CanBump
  <1>4. ASSUME NEW b, SetBusy(s, b) \/ SetAnchorProtected(s, b)
        PROVE  ChangedAlone(s)
    <2>1. /\ slots'[s].writer = slots[s].writer
          /\ slots'[s].readLeases = slots[s].readLeases
          /\ slots'[s].namespace = slots[s].namespace
          /\ slots'[s].tokens = slots[s].tokens
          /\ \A o \in SlotIds \ {s} : slots'[o] = slots[o]
      BY <1>0, <1>4 DEF SetBusy, SetAnchorProtected, Slot
    <2>2. slots[s].tokens \in Seq(Int)
      BY <1>0, SlotUpdates
    <2> QED BY <1>4, <2>1, <2>2
            DEF SetBusy, SetAnchorProtected, Idle, Unleased, ChangedAlone
  <1>5. CASE Invalidate(s)
    <2>1. slots'[s] = NewSlot(slots[s].generation + 1)
      BY <1>0, <1>5 DEF Invalidate
    <2>2. \A o \in SlotIds \ {s} : slots'[o] = slots[o]
      BY <1>0, <1>5 DEF Invalidate
    <2> QED BY <1>5, <2>1, <2>2
            DEF Invalidate, Unleased, ChangedAlone, NewSlot, CanBump
  <1> QED BY <1>2, <1>3, <1>4, <1>5

(* Slots only appear, so well-formed plans stay well formed.                *)
LEMMA PlansStayWellFormed ==
    ASSUME Registered \subseteq Registered',
           \A q \in Pending' : PlanWellFormed(plans'[q])
    PROVE  (\A q \in Pending : PlanWellFormed(plans[q]))'
  <1>1. ASSUME NEW q \in Pending'
        PROVE  /\ WriteSet(plans'[q]) \cup ReadSet(plans'[q]) \subseteq Registered'
               /\ WriteSet(plans'[q]) \cap ReadSet(plans'[q]) = {}
               /\ plans'[q].operation \in {"Continue", "Branch", "Restore"} =>
                    plans'[q].donor \in WriteSet(plans'[q]) \cup ReadSet(plans'[q])
               /\ plans'[q].operation = "Noop" => ReadSet(plans'[q]) = {}
    BY DEF PlanWellFormed
  <1> QED BY <1>1 DEF PlanWellFormed, WriteSet, ReadSet

(* A granted plan keeps the lease protocol.                                 *)
LEMMA GrantedInv ==
    ASSUME IInv, NEW p \in PlanIds, NEW r \in Requests,
           NEW operation, NEW t, NEW d, NEW n, NEW v,
           Granted(p, r, operation, t, d, n, v)
    PROVE  IInv'
  <1> DEFINE new == NewPlan(r, operation, t, d, n, v)
  <1>0. /\ Registered \subseteq SlotIds /\ Registered' = Registered
        /\ TypeOK /\ TypeOK' /\ NoSlot \notin SlotIds /\ NoPlan \notin PlanIds
    <2>1. TypeOK
      BY DEF IInv
    <2>2. TypeOK'
      BY <2>1, GrantedType
    <2>3. Registered' = Registered
      BY DEF Granted, Registered
    <2> QED BY <2>1, <2>2, <2>3, RegisteredType, NamesAssumption
  <1>1. /\ WriteSet(new) = v \cup {t} /\ ReadSet(new) = {d} \ {t, NoSlot}
        /\ new.operation = operation /\ new.donor = d
        /\ new.reuseTokens = n /\ new.tokens = r.tokens
        /\ new.namespace = r.namespace
        /\ \A s \in v \cup {t} : s \in SlotIds =>
              new.generation[s] = slots[s].generation
    BY DEF NewPlan, WriteSet, ReadSet, Granted
  <1>2. new # NoPlan /\ Pending' = Pending \cup {p} /\ p \notin Pending
        /\ plans'[p] = new /\ \A q \in PlanIds \ {p} : plans'[q] = plans[q]
    <2>1. plans' = [plans EXCEPT ![p] = new] /\ DOMAIN plans = PlanIds
      BY <1>0 DEF Granted, TypeOK
    <2>2. new # NoPlan
      BY <1>0, NewPlanType DEF Granted
    <2> QED BY <2>1, <2>2 DEF Granted, Pending
  <1>3. \A s \in SlotIds :
          /\ slots'[s].writer = IF s \in WriteSet(new) THEN p ELSE slots[s].writer
          /\ slots'[s].readLeases = IF s \in ReadSet(new)
                                    THEN slots[s].readLeases + 1
                                    ELSE slots[s].readLeases
          /\ slots'[s].generation = slots[s].generation
          /\ slots'[s].namespace = slots[s].namespace
          /\ slots'[s].tokens = slots[s].tokens
          /\ slots'[s].busy = slots[s].busy
    <2> SUFFICES ASSUME NEW s \in SlotIds PROVE
          /\ slots'[s].writer = IF s \in WriteSet(new) THEN p ELSE slots[s].writer
          /\ slots'[s].readLeases = IF s \in ReadSet(new)
                                    THEN slots[s].readLeases + 1
                                    ELSE slots[s].readLeases
          /\ slots'[s].generation = slots[s].generation
          /\ slots'[s].namespace = slots[s].namespace
          /\ slots'[s].tokens = slots[s].tokens
          /\ slots'[s].busy = slots[s].busy
      OBVIOUS
    <2>1. slots[s] \in Slot
      BY <1>0, SlotType
    <2>2. slots'[s] = IF s \in v \cup {t} THEN [slots[s] EXCEPT !.writer = p]
                      ELSE IF s = d THEN [slots[s] EXCEPT !.readLeases = @ + 1]
                      ELSE slots[s]
      BY DEF Granted
    <2>3. CASE s \in v \cup {t}
      BY <1>0, <1>1, <2>1, <2>2, <2>3 DEF Slot, Granted
    <2>4. CASE s \notin v \cup {t} /\ s = d
      BY <1>0, <1>1, <2>1, <2>2, <2>4 DEF Slot
    <2>5. CASE s \notin v \cup {t} /\ s # d
      BY <1>0, <1>1, <2>1, <2>2, <2>5 DEF Slot
    <2> QED BY <2>3, <2>4, <2>5
  <1>4. \A s \in v \cup {t} :
          s \in SlotIds /\ slots[s].writer = NoPlan /\ slots[s].readLeases = 0
            /\ ~slots[s].busy
    BY <1>0 DEF Granted, Idle, Unleased
  <1>5. (\A q \in Pending : PlanWellFormed(plans[q]))'
    <2>1. PlanWellFormed(new)
      BY <1>0, <1>1 DEF PlanWellFormed, Granted, Operations
    <2>2. \A q \in Pending' : PlanWellFormed(plans'[q])
      BY <1>2, <2>1 DEF IInv, Pending
    <2> QED BY <1>0, <2>2, PlansStayWellFormed
  <1>6. LeaseAccounting'
    <2> SUFFICES ASSUME NEW s \in SlotIds
                 PROVE  /\ \A q \in PlanIds : slots'[s].writer = q
                              <=> q \in Pending' /\ s \in WriteSet(plans'[q])
                        /\ slots'[s].readLeases = Cardinality(Readers(s)')
      BY DEF LeaseAccounting, WriteSet
    <2>1. \A q \in PlanIds :
            slots[s].writer = q <=> q \in Pending /\ s \in WriteSet(plans[q])
      BY DEF IInv, LeaseAccounting
    <2>2. s \in WriteSet(new) => slots[s].writer = NoPlan
      BY <1>1, <1>4
    <2>3. \A q \in PlanIds :
            slots'[s].writer = q <=> q \in Pending' /\ s \in WriteSet(plans'[q])
      BY <1>0, <1>2, <1>3, <2>1, <2>2
    <2>4. Readers(s)' = IF s \in ReadSet(new) THEN Readers(s) \cup {p}
                        ELSE Readers(s)
      BY <1>2 DEF Readers, ReadSet, Pending
    <2>5. slots'[s].readLeases = Cardinality(Readers(s)')
      <3>1. p \notin Readers(s)
        BY <1>2 DEF Readers
      <3>2. slots[s].readLeases = Cardinality(Readers(s))
        BY DEF IInv, LeaseAccounting
      <3>3. Cardinality(Readers(s) \cup {p}) = Cardinality(Readers(s)) + 1
        BY <3>1, ReadersFinite, FS_AddElement
      <3> QED BY <1>3, <2>4, <3>2, <3>3
    <2> QED BY <2>3, <2>5
  <1>7. WriterExclusive'
    <2> SUFFICES ASSUME NEW s \in SlotIds, slots'[s].writer # NoPlan
                 PROVE  slots'[s].readLeases = 0 /\ ~slots'[s].busy
      BY DEF WriterExclusive
    <2>1. s \in ReadSet(new) => slots[s].writer = NoPlan /\ s \notin WriteSet(new)
      BY <1>0, <1>1 DEF Granted
    <2> QED BY <1>1, <1>3, <1>4, <2>1 DEF IInv, WriterExclusive
  <1>8. StaleOnlyByDonor'
    <2> SUFFICES ASSUME NEW q \in Pending', NEW s \in WriteSet(plans'[q])
                 PROVE  /\ s \in Registered
                        /\ slots'[s].generation = plans'[q].generation[s]
      BY <1>0 DEF StaleOnlyByDonor, WriteSet
    <2>1. CASE q = p
      BY <1>0, <1>1, <1>2, <1>3, <1>4, <2>1 DEF Granted
    <2>2. CASE q # p
      <3>1. q \in Pending /\ plans'[q] = plans[q] /\ q \in PlanIds
        BY <1>2, <2>2 DEF Pending
      <3> QED BY <1>0, <1>3, <3>1 DEF IInv, StaleOnlyByDonor
    <2> QED BY <2>1, <2>2
  <1>9. DonorPrefixIntact'
    <2> SUFFICES ASSUME NEW q \in Pending',
                        plans'[q].operation \in {"Continue", "Branch", "Restore"}
                 PROVE  /\ slots'[plans'[q].donor].namespace = plans'[q].namespace
                        /\ Agree(slots'[plans'[q].donor].tokens, plans'[q].tokens,
                                 plans'[q].reuseTokens)
      BY DEF DonorPrefixIntact, Agree
    <2>1. CASE q = p
      <3>1. d \in SlotIds /\ slots[d].namespace = r.namespace
            /\ Agree(slots[d].tokens, r.tokens, n)
        BY <1>0, <1>1, <1>2, <2>1 DEF Granted
      <3> QED BY <1>1, <1>2, <1>3, <2>1, <3>1
    <2>2. CASE q # p
      <3>1. q \in Pending /\ plans'[q] = plans[q] /\ q \in PlanIds
        BY <1>2, <2>2 DEF Pending
      <3>2. plans[q].donor \in SlotIds
        BY <1>0, <3>1 DEF IInv, PlanWellFormed
      <3> QED BY <1>3, <3>1, <3>2 DEF IInv, DonorPrefixIntact
    <2> QED BY <2>1, <2>2
  <1> QED BY <1>0, <1>5, <1>6, <1>7, <1>8, <1>9 DEF IInv

(* A plan that reuses an existing anchor holds no lease.                    *)
LEMMA NoopInv ==
    ASSUME IInv, NEW p \in PlanIds, NEW r \in Requests, PlanNoop(p, r)
    PROVE  IInv'
  <1>0. PICK s \in ExistingAnchors(r) :
            plans' = [plans EXCEPT
              ![p] = NewPlan(r, "Noop", s, s, Len(r.tokens), {})]
    BY DEF PlanNoop, Lowest
  <1> DEFINE new == NewPlan(r, "Noop", s, s, Len(r.tokens), {})
  <1>1. /\ WriteSet(new) = {} /\ ReadSet(new) = {} /\ new.operation = "Noop"
        /\ new # NoPlan
    <2>1. Len(r.tokens) \in 0 .. Len(r.tokens)
      BY RequestAssumption DEF Requests
    <2>2. s \in SlotIds
      BY RegisteredType DEF ExistingAnchors, Anchors, IInv, TypeOK
    <2>3. new # NoPlan
      BY <2>1, <2>2, NewPlanType DEF Operations, IInv
    <2> QED BY <2>3 DEF NewPlan, WriteSet, ReadSet
  <1>2. /\ plans[p] = NoPlan /\ plans'[p] = new /\ p \notin Pending
        /\ \A q \in PlanIds \ {p} : plans'[q] = plans[q]
        /\ Pending' = Pending \cup {p}
        /\ slots' = slots /\ Registered' = Registered
    BY <1>0, <1>1 DEF PlanNoop, IInv, TypeOK, Pending, Registered
  <1>3. TypeOK'
    BY NoopType DEF IInv
  <1>4. (\A q \in Pending : PlanWellFormed(plans[q]))'
    <2>1. \A q \in Pending' : PlanWellFormed(plans'[q])
      BY <1>1, <1>2 DEF IInv, PlanWellFormed, Pending
    <2> QED BY <1>2, <2>1, PlansStayWellFormed
  <1>5. LeaseAccounting'
    <2>1. \A s1 \in SlotIds : Readers(s1)' = Readers(s1)
      BY <1>1, <1>2 DEF Readers, Pending, ReadSet
    <2>2. \A s1 \in SlotIds : \A q \in PlanIds :
            q \in Pending' /\ s1 \in WriteSet(plans'[q])
              <=> q \in Pending /\ s1 \in WriteSet(plans[q])
      BY <1>1, <1>2
    <2> QED BY <1>2, <2>1, <2>2 DEF IInv, LeaseAccounting, WriteSet
  <1>6. WriterExclusive'
    BY <1>2 DEF IInv, WriterExclusive
  <1>7. StaleOnlyByDonor'
    <2>1. \A q \in Pending' : \A x \in WriteSet(plans'[q]) :
            x \in Registered /\ slots[x].generation = plans'[q].generation[x]
      BY <1>1, <1>2 DEF IInv, StaleOnlyByDonor, Pending
    <2> QED BY <1>2, <2>1 DEF StaleOnlyByDonor, WriteSet
  <1>8. DonorPrefixIntact'
    BY <1>1, <1>2 DEF IInv, DonorPrefixIntact, Pending, Agree
  <1> QED BY <1>3, <1>4, <1>5, <1>6, <1>7, <1>8 DEF IInv

(* Ending a plan gives back its leases and nobody else's.                   *)
LEMMA EndedByInv ==
    ASSUME IInv, TypeOK', NEW p \in PlanIds, EndedBy(p)
    PROVE  IInv'
  <1>0. Registered' = Registered /\ NoPlan \notin PlanIds
        /\ \A q \in Pending : WriteSet(plans[q]) \subseteq SlotIds
                           /\ ReadSet(plans[q]) \subseteq SlotIds
    <2>1. Registered \subseteq SlotIds
      BY RegisteredType DEF IInv, TypeOK
    <2> QED BY <2>1, NamesAssumption DEF EndedBy, Registered, IInv, PlanWellFormed
  <1>1. /\ p \in Pending /\ Pending' = Pending \ {p}
        /\ \A q \in Pending' : plans'[q] = plans[q]
    BY DEF EndedBy, Forget, Pending, IInv, TypeOK
  <1>2. ASSUME NEW s \in SlotIds, s \notin WriteSet(plans[p])
        PROVE  /\ slots'[s].writer = slots[s].writer
               /\ slots'[s].generation = slots[s].generation
               /\ slots'[s].namespace = slots[s].namespace
               /\ slots'[s].tokens = slots[s].tokens
               /\ slots'[s].busy = slots[s].busy
    BY <1>2 DEF EndedBy
  <1>3. \A s \in SlotIds : \A q \in PlanIds :
          slots[s].writer = q <=> q \in Pending /\ s \in WriteSet(plans[q])
    BY DEF IInv, LeaseAccounting
  <1>4. ASSUME NEW q \in Pending'
        PROVE  WriteSet(plans[q]) \cap WriteSet(plans[p]) = {}
    BY <1>0, <1>1, <1>3, <1>4 DEF Pending
  <1>5. ASSUME NEW s \in WriteSet(plans[p])
        PROVE  s \in SlotIds /\ slots[s].writer = p /\ slots[s].readLeases = 0
    BY <1>0, <1>1, <1>3 DEF IInv, WriterExclusive
  <1>6. (\A q \in Pending : PlanWellFormed(plans[q]))'
    BY <1>0, <1>1, PlansStayWellFormed DEF IInv
  <1>7. LeaseAccounting'
    <2> SUFFICES ASSUME NEW s \in SlotIds
                 PROVE  /\ \A q \in PlanIds : slots'[s].writer = q
                              <=> q \in Pending' /\ s \in WriteSet(plans'[q])
                        /\ slots'[s].readLeases = Cardinality(Readers(s)')
      BY DEF LeaseAccounting, WriteSet
    <2>1. ASSUME NEW q \in PlanIds
          PROVE  slots'[s].writer = q
                    <=> q \in Pending' /\ s \in WriteSet(plans'[q])
      <3>1. slots'[s].writer = IF s \in WriteSet(plans[p]) THEN NoPlan
                               ELSE slots[s].writer
        BY DEF EndedBy
      <3> QED BY <1>0, <1>1, <1>3, <1>4, <3>1
    <2>2. Readers(s)' = Readers(s) \ {p}
      BY <1>1 DEF Readers, ReadSet
    <2>3. slots[s].readLeases = Cardinality(Readers(s))
      BY DEF IInv, LeaseAccounting
    <2>4. slots'[s].readLeases = Cardinality(Readers(s)')
      <3>1. CASE s \in ReadSet(plans[p])
        <4>1. p \in Readers(s)
          BY <1>1, <3>1 DEF Readers
        <4>2. Cardinality(Readers(s) \ {p}) = Cardinality(Readers(s)) - 1
          BY <4>1, ReadersFinite, FS_RemoveElement
        <4>3. slots'[s].readLeases = slots[s].readLeases - 1
          BY <3>1 DEF EndedBy
        <4> QED BY <2>2, <2>3, <4>2, <4>3
      <3>2. CASE s \notin ReadSet(plans[p])
        <4>1. Readers(s) \ {p} = Readers(s)
          BY <3>2 DEF Readers
        <4>2. slots'[s].readLeases = slots[s].readLeases
          BY <3>2 DEF EndedBy
        <4> QED BY <2>2, <2>3, <4>1, <4>2
      <3> QED BY <3>1, <3>2
    <2> QED BY <2>1, <2>4
  <1>8. WriterExclusive'
    <2> SUFFICES ASSUME NEW s \in SlotIds, slots'[s].writer # NoPlan
                 PROVE  slots'[s].readLeases = 0 /\ ~slots'[s].busy
      BY DEF WriterExclusive
    <2>1. s \notin WriteSet(plans[p])
      BY DEF EndedBy
    <2>2. slots[s].writer # NoPlan /\ slots[s].readLeases = 0 /\ ~slots[s].busy
      BY <1>2, <2>1 DEF IInv, WriterExclusive
    <2>3. s \notin ReadSet(plans[p])
      BY <1>1, <2>2, ReaderCounted DEF IInv, Readers
    <2> QED BY <1>2, <2>1, <2>2, <2>3 DEF EndedBy
  <1>9. StaleOnlyByDonor'
    <2> SUFFICES ASSUME NEW q \in Pending', NEW s \in WriteSet(plans'[q])
                 PROVE  /\ s \in Registered'
                        /\ slots'[s].generation = plans'[q].generation[s]
      BY DEF StaleOnlyByDonor, WriteSet
    <2>1. q \in Pending /\ plans'[q] = plans[q] /\ s \in SlotIds
      BY <1>0, <1>1
    <2>2. s \notin WriteSet(plans[p])
      BY <1>4, <2>1
    <2> QED BY <1>0, <1>2, <2>1, <2>2 DEF IInv, StaleOnlyByDonor
  <1>10. DonorPrefixIntact'
    <2> SUFFICES ASSUME NEW q \in Pending',
                        plans'[q].operation \in {"Continue", "Branch", "Restore"}
                 PROVE  /\ slots'[plans'[q].donor].namespace = plans'[q].namespace
                        /\ Agree(slots'[plans'[q].donor].tokens, plans'[q].tokens,
                                 plans'[q].reuseTokens)
      BY DEF DonorPrefixIntact, Agree
    <2>1. q \in Pending /\ plans'[q] = plans[q]
      BY <1>1
    <2> DEFINE d == plans[q].donor
    <2>2. d \in WriteSet(plans[q]) \cup ReadSet(plans[q]) /\ d \in SlotIds
      BY <1>0, <2>1 DEF IInv, PlanWellFormed
    <2>3. d \notin WriteSet(plans[p])
      <3>1. CASE d \in WriteSet(plans[q])
        BY <1>4, <3>1
      <3>2. CASE d \in ReadSet(plans[q])
        <4>1. slots[d].readLeases # 0
          BY <2>1, <2>2, <3>2, ReaderCounted DEF IInv, Readers
        <4> QED BY <1>5, <4>1
      <3> QED BY <2>2, <3>1, <3>2
    <2> QED BY <1>2, <2>1, <2>2, <2>3 DEF IInv, DonorPrefixIntact
  <1> QED BY <1>6, <1>7, <1>8, <1>9, <1>10 DEF IInv

(* A sequence that grows still agrees with what it agreed with.             *)
LEMMA AgreeExtends ==
    ASSUME NEW a \in Seq(Int), NEW b \in Seq(Int), NEW c, NEW n \in Nat,
           Len(a) <= Len(b), \A i \in 1 .. Len(a) : b[i] = a[i],
           Agree(a, c, n)
    PROVE  Agree(b, c, n)
  BY DEF Agree

(* An operation on one slot disturbs no plan.                               *)
LEMMA ChangedAloneInv ==
    ASSUME IInv, TypeOK', NEW s \in SlotIds, ChangedAlone(s)
    PROVE  IInv'
  <1>0. Registered' = Registered /\ plans' = plans /\ Pending' = Pending
        /\ NoPlan \notin PlanIds
        /\ \A x \in SlotIds : /\ slots'[x].writer = slots[x].writer
                              /\ slots'[x].readLeases = slots[x].readLeases
                              /\ x # s => slots'[x] = slots[x]
    BY NamesAssumption DEF ChangedAlone, Registered, Pending
  <1>1. ASSUME NEW q \in Pending, NEW x \in WriteSet(plans[q])
        PROVE  x \in SlotIds /\ x # s /\ slots'[x] = slots[x]
    <2>1. x \in SlotIds
      BY RegisteredType DEF IInv, TypeOK, PlanWellFormed
    <2>2. slots[x].writer = q /\ q \in PlanIds
      BY <2>1 DEF IInv, LeaseAccounting, Pending
    <2> QED BY <1>0, <2>1, <2>2 DEF ChangedAlone
  <1>2. (\A q \in Pending : PlanWellFormed(plans[q]))'
    BY <1>0, PlansStayWellFormed DEF IInv
  <1>3. LeaseAccounting'
    <2>1. \A x \in SlotIds : Readers(x)' = Readers(x)
      BY <1>0 DEF Readers, ReadSet
    <2>2. \A q \in PlanIds : WriteSet(plans'[q]) = WriteSet(plans[q])
      BY <1>0
    <2> QED BY <1>0, <2>1, <2>2 DEF IInv, LeaseAccounting, WriteSet
  <1>4. WriterExclusive'
    <2> SUFFICES ASSUME NEW x \in SlotIds, slots'[x].writer # NoPlan
                 PROVE  slots'[x].readLeases = 0 /\ ~slots'[x].busy
      BY DEF WriterExclusive
    <2>1. x # s
      BY DEF ChangedAlone
    <2> QED BY <1>0, <2>1 DEF IInv, WriterExclusive
  <1>5. StaleOnlyByDonor'
    <2> SUFFICES ASSUME NEW q \in Pending, NEW x \in WriteSet(plans[q])
                 PROVE  /\ x \in Registered
                        /\ slots'[x].generation = plans[q].generation[x]
      BY <1>0 DEF StaleOnlyByDonor, WriteSet
    <2> QED BY <1>1 DEF IInv, StaleOnlyByDonor
  <1>6. DonorPrefixIntact'
    <2> SUFFICES ASSUME NEW q \in Pending,
                        plans[q].operation \in {"Continue", "Branch", "Restore"}
                 PROVE  /\ slots'[plans[q].donor].namespace = plans[q].namespace
                        /\ Agree(slots'[plans[q].donor].tokens, plans[q].tokens,
                                 plans[q].reuseTokens)
      BY <1>0 DEF DonorPrefixIntact, Agree
    <2> DEFINE d == plans[q].donor
    <2>1. /\ slots[d].namespace = plans[q].namespace
          /\ Agree(slots[d].tokens, plans[q].tokens, plans[q].reuseTokens)
      BY DEF IInv, DonorPrefixIntact
    <2>2. d \in WriteSet(plans[q]) \cup ReadSet(plans[q])
      BY DEF IInv, PlanWellFormed
    <2>3. d \in SlotIds
      BY <2>2, RegisteredType DEF IInv, TypeOK, PlanWellFormed
    <2>4. CASE d # s
      BY <1>0, <2>1, <2>3, <2>4
    <2>5. CASE d = s
      <3>1. d \in ReadSet(plans[q])
        BY <1>1, <2>2, <2>5
      <3>2. slots[s].readLeases # 0
        BY <2>5, <3>1, ReaderCounted DEF IInv, Readers
      <3>3. /\ slots'[s].namespace = slots[s].namespace
            /\ Len(slots[s].tokens) <= Len(slots'[s].tokens)
            /\ \A i \in 1 .. Len(slots[s].tokens) :
                  slots'[s].tokens[i] = slots[s].tokens[i]
        BY <3>2 DEF ChangedAlone
      <3>4. slots[s].tokens \in Seq(Int) /\ slots'[s].tokens \in Seq(Int)
            /\ plans[q].reuseTokens \in Nat
        <4>1. slots[s].tokens \in Seq(Int)
          BY SlotType, SlotUpdates DEF IInv
        <4>2. slots'[s].tokens \in Seq(Int)
          BY DEF TypeOK, Slot
        <4>3. plans[q].reuseTokens \in Nat
          BY DEF IInv, TypeOK, PlanRecord, Plan
        <4> QED BY <4>1, <4>2, <4>3
      <3> QED BY <2>1, <2>5, <3>3, <3>4, AgreeExtends
    <2> QED BY <2>4, <2>5
  <1> QED BY <1>2, <1>3, <1>4, <1>5, <1>6 DEF IInv

(* A new slot is empty and belongs to no plan.                              *)
LEMMA RegisterInv ==
    ASSUME IInv, TypeOK', RegisterSlot
    PROVE  IInv'
  <1>1. /\ plans' = plans /\ slots' = slots /\ Pending' = Pending
        /\ Registered \subseteq Registered'
    BY ConfigAssumption DEF RegisterSlot, Pending, Registered, IInv, TypeOK
  <1>2. (\A q \in Pending : PlanWellFormed(plans[q]))'
    BY <1>1, PlansStayWellFormed DEF IInv
  <1>3. StaleOnlyByDonor'
    BY <1>1 DEF IInv, StaleOnlyByDonor, WriteSet
  <1> QED BY <1>1, <1>2, <1>3
          DEF IInv, LeaseAccounting, WriterExclusive, DonorPrefixIntact,
              Readers, WriteSet, ReadSet, Agree

(* When no plan is in flight and no slot is leased the protocol holds.      *)
Quiescent ==
    /\ Pending = {}
    /\ \A s \in SlotIds : slots[s].writer = NoPlan /\ slots[s].readLeases = 0

LEMMA QuiescentInv == TypeOK /\ Quiescent => IInv
  <1> SUFFICES ASSUME TypeOK, Quiescent PROVE IInv
    OBVIOUS
  <1>1. \A s \in SlotIds : Readers(s) = {}
    BY DEF Readers, Quiescent
  <1>2. Cardinality({}) = 0
    BY FS_EmptySet
  <1>3. LeaseAccounting
    BY <1>1, <1>2, NamesAssumption DEF LeaseAccounting, Quiescent
  <1> QED BY <1>3 DEF IInv, WriterExclusive, StaleOnlyByDonor,
                      DonorPrefixIntact, Quiescent

(* A reset forgets every plan and frees every slot: a slot that is not      *)
(* registered was never leased.                                             *)
LEMMA ResetQuiescent ==
    ASSUME IInv, Reset
    PROVE  Quiescent'
  <1>1. Pending' = {}
    BY DEF Reset, Pending
  <1>2. ASSUME NEW s \in SlotIds, s \notin Registered
        PROVE  slots[s].writer = NoPlan /\ slots[s].readLeases = 0
    <2>1. slots[s].writer \in PlanIds \cup {NoPlan}
      BY SlotType DEF IInv, Slot
    <2>2. \A q \in PlanIds : slots[s].writer # q
      BY <1>2 DEF IInv, LeaseAccounting, PlanWellFormed
    <2>3. Readers(s) = {}
      BY <1>2 DEF IInv, PlanWellFormed, Readers
    <2>4. slots[s].readLeases = 0
      BY <2>3, FS_EmptySet DEF IInv, LeaseAccounting
    <2> QED BY <2>1, <2>2, <2>4
  <1> QED BY <1>1, <1>2 DEF Reset, NewSlot, Quiescent

LEMMA ResetInv ==
    ASSUME IInv, TypeOK', Reset
    PROVE  IInv'
  <1>1. Quiescent'
    BY ResetQuiescent
  <1> QED BY <1>1, QuiescentInv, PTL

LEMMA InitInv == Init => IInv
  <1> SUFFICES ASSUME Init PROVE IInv
    OBVIOUS
  <1>1. Quiescent
    BY DEF Init, Pending, NewSlot, Quiescent
  <1> QED BY <1>1, InitType, QuiescentInv

LEMMA StepInv == IInv /\ [Next]_vars => IInv'
  <1> SUFFICES ASSUME IInv, [Next]_vars PROVE IInv'
    OBVIOUS
  <1>0. TypeOK /\ TypeOK'
    BY StepType DEF IInv
  <1>1. CASE PlanStep
    <2>1. PICK p \in PlanIds, r \in Requests :
              PlanNoop(p, r) \/ PlanContinue(p, r) \/ PlanCopy(p, r)
                \/ PlanFresh(p, r)
      BY <1>1 DEF PlanStep
    <2>2. CASE PlanNoop(p, r)
      BY <2>2, NoopInv
    <2>3. CASE PlanContinue(p, r) \/ PlanCopy(p, r) \/ PlanFresh(p, r)
      BY <1>0, <2>3, GrantShape, GrantedInv DEF TypeOK
    <2> QED BY <2>1, <2>2, <2>3
  <1>2. CASE CommitStep \/ AbortStep
    <2>1. PICK p \in PlanIds :
              \/ CommitStale(p) \/ CommitRejected(p) \/ CommitNoop(p) \/ Abort(p)
              \/ \E n, bytes : Commit(p, n, bytes)
      BY <1>2 DEF CommitStep, AbortStep
    <2> QED BY <1>0, <2>1, PlanEnds, EndedByInv
  <1>3. CASE BackendStep
    <2>1. PICK s \in SlotIds :
              \/ \E a \in Suffixes : \E state, busy, bytes :
                    Advance(s, a, state, busy, bytes)
              \/ \E t, state, busy, bytes : Confirm(s, t, state, busy, bytes)
              \/ \E b : SetBusy(s, b) \/ SetAnchorProtected(s, b)
              \/ Invalidate(s)
      BY <1>3 DEF BackendStep
    <2> QED BY <1>0, <2>1, BackendChangesOne, ChangedAloneInv
  <1>4. CASE RegisterSlot
    BY <1>0, <1>4, RegisterInv
  <1>5. CASE Reset
    BY <1>0, <1>5, ResetInv
  <1>6. CASE UNCHANGED vars
    <2>1. plans' = plans /\ slots' = slots /\ Pending' = Pending
          /\ Registered' = Registered
      BY <1>6 DEF vars, Pending, Registered
    <2>2. (\A q \in Pending : PlanWellFormed(plans[q]))'
      BY <2>1, PlansStayWellFormed DEF IInv
    <2>3. StaleOnlyByDonor'
      BY <2>1 DEF IInv, StaleOnlyByDonor, WriteSet
    <2> QED BY <1>0, <2>1, <2>2, <2>3
            DEF IInv, LeaseAccounting, WriterExclusive, DonorPrefixIntact,
                Readers, WriteSet, ReadSet, Agree
  <1> QED BY <1>1, <1>2, <1>3, <1>4, <1>5, <1>6 DEF Next

LEMMA IInvCorrect == Spec => []IInv
  BY InitInv, StepInv, PTL DEF Spec

(* The leases recorded in the slots are always those of the plans in        *)
(* flight, however commits, aborts, backend calls and resets interleave.    *)
THEOREM LeasesAccounted == Spec => []LeaseAccounting
  <1>1. IInv => LeaseAccounting
    BY DEF IInv
  <1> QED BY <1>1, IInvCorrect, PTL

(* Two plans never conflict on a slot.                                      *)
THEOREM WritersExclusive == Spec => []WriterExclusive
  <1>1. IInv => WriterExclusive
    BY DEF IInv
  <1> QED BY <1>1, IInvCorrect, PTL

(* What a plan may mutate is frozen until the plan ends.                    *)
THEOREM WriteSetsFrozen == Spec => []StaleOnlyByDonor
  <1>1. IInv => StaleOnlyByDonor
    BY DEF IInv
  <1> QED BY <1>1, IInvCorrect, PTL

(* A donor keeps the prefix it promised until the plan ends.                *)
THEOREM DonorsKeepPrefix == Spec => []DonorPrefixIntact
  <1>1. IInv => DonorPrefixIntact
    BY DEF IInv
  <1> QED BY <1>1, IInvCorrect, PTL

-----------------------------------------------------------------------------
(* The coordinator implements SlotLeases.  Each kind of step above is one   *)
(* step of the abstract specification.                                      *)

(* A plan appears, and nothing but leases changes in the slots.             *)
GrantedTo(p) ==
    /\ registered' = registered
    /\ plans[p] = NoPlan /\ plans'[p] # NoPlan
    /\ \A q \in PlanIds \ {p} : plans'[q] = plans[q]
    /\ \A s \in SlotIds : /\ slots'[s].namespace = slots[s].namespace
                          /\ slots'[s].tokens = slots[s].tokens

LEMMA PlanGrants ==
    ASSUME IInv, IInv', NEW p \in PlanIds, NEW r \in Requests,
           PlanNoop(p, r) \/ PlanContinue(p, r) \/ PlanCopy(p, r)
             \/ PlanFresh(p, r)
    PROVE  GrantedTo(p)
  <1>1. CASE PlanNoop(p, r)
    <2>1. PICK s \in ExistingAnchors(r) :
              plans' = [plans EXCEPT
                ![p] = NewPlan(r, "Noop", s, s, Len(r.tokens), {})]
      BY <1>1 DEF PlanNoop, Lowest
    <2>2. Len(r.tokens) \in 0 .. Len(r.tokens)
      BY RequestAssumption DEF Requests
    <2>3. s \in SlotIds
      BY RegisteredType DEF ExistingAnchors, Anchors, IInv, TypeOK
    <2>4. NewPlan(r, "Noop", s, s, Len(r.tokens), {}) # NoPlan
      BY <2>2, <2>3, NewPlanType DEF Operations, IInv
    <2> QED BY <1>1, <2>1, <2>4 DEF PlanNoop, GrantedTo, IInv, TypeOK
  <1>2. CASE PlanContinue(p, r) \/ PlanCopy(p, r) \/ PlanFresh(p, r)
    <2>1. PICK operation \in Operations, t \in Registered,
               d \in Registered \cup {NoSlot}, n \in 0 .. Len(r.tokens),
               v \in SUBSET Registered : Granted(p, r, operation, t, d, n, v)
      BY <1>2, GrantShape DEF IInv, TypeOK
    <2>2. NewPlan(r, operation, t, d, n, v) # NoPlan
      BY <2>1, NewPlanType, RegisteredType DEF IInv, TypeOK
    <2>3. \A s \in SlotIds : /\ slots'[s].namespace = slots[s].namespace
                             /\ slots'[s].tokens = slots[s].tokens
      BY <2>1, SlotType DEF Granted, Slot, IInv
    <2> QED BY <2>1, <2>2, <2>3 DEF Granted, GrantedTo, IInv, TypeOK
  <1> QED BY <1>1, <1>2

LEMMA GrantRefines ==
    ASSUME IInv, IInv', NEW p \in PlanIds, GrantedTo(p)
    PROVE  Leases!Acquire(p, WriteSet(plans'[p]), ReadSet(plans'[p]))
  <1> DEFINE write == WriteSet(plans'[p])
             read == ReadSet(plans'[p])
  <1>1. p \in Pending' /\ Pending' = Pending \cup {p} /\ p \notin Pending
    BY DEF GrantedTo, Pending
  <1>2. write \cup read \subseteq SlotIds /\ write \cap read = {}
    <2>1. Registered' \subseteq SlotIds
      BY ConfigAssumption DEF IInv, TypeOK, Registered, SlotIds
    <2> QED BY <1>1, <2>1 DEF IInv, PlanWellFormed, WriteSet, ReadSet
  <1>3. \A s \in SlotIds, q \in PlanIds :
          /\ slots[s].writer = q <=> q \in Pending /\ s \in WriteSet(plans[q])
          /\ slots'[s].writer = q <=> q \in Pending' /\ s \in WriteSet(plans'[q])
    BY DEF IInv, LeaseAccounting, WriteSet
  <1>4. \A s \in SlotIds : /\ slots[s].writer \in PlanIds \cup {NoPlan}
                           /\ slots'[s].writer \in PlanIds \cup {NoPlan}
    <2>1. \A s \in SlotIds : slots[s] \in Slot /\ slots'[s] \in Slot
      BY DEF IInv, TypeOK
    <2> QED BY <2>1 DEF Slot
  <1>5. \A s \in SlotIds :
          slots'[s].writer = IF s \in write THEN p ELSE slots[s].writer
    BY <1>1, <1>3, <1>4, NamesAssumption DEF GrantedTo
  <1>6. \A s \in SlotIds :
          slots'[s].readLeases = IF s \in read THEN slots[s].readLeases + 1
                                 ELSE slots[s].readLeases
    <2> SUFFICES ASSUME NEW s \in SlotIds
                 PROVE  slots'[s].readLeases =
                          IF s \in read THEN slots[s].readLeases + 1
                          ELSE slots[s].readLeases
      OBVIOUS
    <2>1. Readers(s)' = IF s \in read THEN Readers(s) \cup {p} ELSE Readers(s)
      BY <1>1 DEF Readers, ReadSet, Pending, GrantedTo
    <2>2. p \notin Readers(s)
      BY <1>1 DEF Readers
    <2>3. Cardinality(Readers(s) \cup {p}) = Cardinality(Readers(s)) + 1
      BY <2>2, ReadersFinite, FS_AddElement
    <2>4. slots[s].readLeases = Cardinality(Readers(s))
      BY DEF IInv, LeaseAccounting
    <2>5. slots'[s].readLeases = Cardinality(Readers(s)')
      BY DEF IInv, LeaseAccounting
    <2> QED BY <2>1, <2>3, <2>4, <2>5
  <1>7. \A s \in write : slots[s].writer = NoPlan /\ slots[s].readLeases = 0
    <2> TAKE s \in write
    <2>1. s \in SlotIds /\ slots'[s].writer = p
      BY <1>2, <1>5
    <2>2. slots'[s].readLeases = 0
      BY <2>1, NamesAssumption DEF IInv, WriterExclusive
    <2>3. slots[s].readLeases = 0
      BY <1>2, <1>6, <2>1, <2>2
    <2>4. ASSUME NEW q \in PlanIds, slots[s].writer = q PROVE FALSE
      <3>1. q \in Pending /\ q # p /\ s \in WriteSet(plans[q])
        BY <1>1, <1>3, <2>1, <2>4
      <3>2. slots'[s].writer = q
        BY <1>1, <1>3, <2>1, <3>1 DEF GrantedTo
      <3> QED BY <2>1, <3>1, <3>2
    <2> QED BY <1>4, <2>1, <2>3, <2>4
  <1>8. \A s \in read : slots[s].writer = NoPlan
    <2> TAKE s \in read
    <2>1. s \in SlotIds /\ slots'[s].writer = slots[s].writer
      BY <1>2, <1>5
    <2>2. slots'[s].readLeases # 0
      <3>1. slots[s].readLeases \in Nat
        BY <2>1, SlotType, SlotUpdates DEF IInv
      <3> QED BY <1>6, <2>1, <3>1
    <2> QED BY <2>1, <2>2 DEF IInv, WriterExclusive
  <1>9. LeasesOf(plans[p]) = NoPlan
        /\ LeasesOf(plans'[p]) = [write |-> write, read |-> read]
    BY DEF GrantedTo, LeasesOf
  <1>10. PlanLeases' = [PlanLeases EXCEPT ![p] = [write |-> write, read |-> read]]
    <2>1. PlanLeases' = [q \in PlanIds |-> LeasesOf(plans'[q])]
      BY DEF PlanLeases, LeasesOf, WriteSet, ReadSet
    <2> QED BY <1>9, <2>1 DEF PlanLeases, GrantedTo
  <1>11. SlotWriters' = [s \in SlotIds |-> IF s \in write THEN p
                                            ELSE SlotWriters[s]]
    BY <1>5 DEF SlotWriters
  <1>12. SlotReaders' = [s \in SlotIds |-> IF s \in read THEN SlotReaders[s] + 1
                                            ELSE SlotReaders[s]]
    BY <1>6 DEF SlotReaders
  <1>13. SlotContents' = SlotContents
    BY DEF SlotContents, GrantedTo
  <1>14. /\ \A s \in write : SlotWriters[s] = NoPlan /\ SlotReaders[s] = 0
         /\ \A s \in read : SlotWriters[s] = NoPlan
    BY <1>2, <1>7, <1>8 DEF SlotWriters, SlotReaders
  <1>15. PlanLeases[p] = NoPlan
    BY <1>9 DEF PlanLeases
  <1> QED BY <1>2, <1>10, <1>11, <1>12, <1>13, <1>14, <1>15
          DEF Leases!Acquire

LEMMA EndRefines ==
    ASSUME IInv, NEW p \in PlanIds, EndedBy(p)
    PROVE  Leases!Finish(p)
  <1> DEFINE write == WriteSet(plans[p])
             read == ReadSet(plans[p])
  <1>1. p \in Pending /\ write \cup read \subseteq SlotIds
    <2>1. Registered \subseteq SlotIds
      BY RegisteredType DEF IInv, TypeOK
    <2> QED BY <2>1 DEF EndedBy, Pending, IInv, PlanWellFormed
  <1>2. PlanLeases[p] = [write |-> write, read |-> read]
        /\ PlanLeases[p] # NoPlan
    <2>1. LeasesOf(plans[p]) = [write |-> write, read |-> read]
      BY DEF EndedBy, LeasesOf
    <2> QED BY <1>1, <2>1, NoPlanAssumption DEF PlanLeases
  <1>3. PlanLeases' = [PlanLeases EXCEPT ![p] = NoPlan]
    <2>1. PlanLeases' = [q \in PlanIds |-> LeasesOf(plans'[q])]
      BY DEF PlanLeases, LeasesOf, WriteSet, ReadSet
    <2>2. plans' = [plans EXCEPT ![p] = NoPlan] /\ DOMAIN plans = PlanIds
      BY DEF EndedBy, Forget, IInv, TypeOK
    <2>3. LeasesOf(NoPlan) = NoPlan
      BY DEF LeasesOf
    <2> QED BY <2>1, <2>2, <2>3 DEF PlanLeases
  <1>4. SlotWriters' = [s \in SlotIds |-> IF s \in write THEN NoPlan
                                           ELSE SlotWriters[s]]
    BY DEF EndedBy, SlotWriters
  <1>5. SlotReaders' = [s \in SlotIds |-> IF s \in read THEN SlotReaders[s] - 1
                                           ELSE SlotReaders[s]]
    BY DEF EndedBy, SlotReaders
  <1>6. \A s \in SlotIds \ write : SlotContents'[s] = SlotContents[s]
    BY DEF EndedBy, SlotContents
  <1> QED BY <1>2, <1>3, <1>4, <1>5, <1>6 DEF Leases!Finish

LEMMA ChangeRefines ==
    ASSUME IInv, NEW s \in SlotIds, ChangedAlone(s)
    PROVE  Leases!Extend(s) \/ Leases!Replace(s)
  <1>1. PlanLeases' = PlanLeases
    BY DEF PlanLeases, LeasesOf, WriteSet, ReadSet, ChangedAlone
  <1>2. SlotWriters' = SlotWriters /\ SlotReaders' = SlotReaders
    BY DEF ChangedAlone, SlotWriters, SlotReaders
  <1>3. \A o \in SlotIds \ {s} : SlotContents'[o] = SlotContents[o]
    BY DEF ChangedAlone, SlotContents
  <1>4. SlotWriters[s] = NoPlan
    BY DEF ChangedAlone, SlotWriters
  <1>5. SlotReaders[s] = 0 \/ Leases!Extends(SlotContents[s], SlotContents'[s])
    BY DEF ChangedAlone, SlotReaders, SlotContents, Leases!Extends
  <1> QED BY <1>1, <1>2, <1>3, <1>4, <1>5 DEF Leases!Extend, Leases!Replace

(* The initial state of SlotLeases, and the state a reset restores.         *)
Wiped ==
    /\ Quiescent
    /\ \A s \in SlotIds : slots[s].tokens = <<>>

LEMMA WipedRefines == Wiped => Leases!Init
  <1> SUFFICES ASSUME Wiped PROVE Leases!Init
    OBVIOUS
  <1>1. SlotWriters = [s \in SlotIds |-> NoPlan]
    BY DEF Wiped, Quiescent, SlotWriters
  <1>2. SlotReaders = [s \in SlotIds |-> 0]
    BY DEF Wiped, Quiescent, SlotReaders
  <1>3. PlanLeases = [p \in PlanIds |-> NoPlan]
    BY DEF Wiped, Quiescent, Pending, PlanLeases, LeasesOf
  <1>4. \A s \in SlotIds : SlotContents[s].tokens = <<>>
    BY DEF Wiped, SlotContents
  <1> QED BY <1>1, <1>2, <1>3, <1>4 DEF Leases!Init

(* Every step is of one of six kinds.                                       *)
LEMMA StepKinds ==
    ASSUME IInv, IInv', [Next]_vars
    PROVE  \/ \E p \in PlanIds : GrantedTo(p)
           \/ \E p \in PlanIds : EndedBy(p)
           \/ \E s \in SlotIds : ChangedAlone(s)
           \/ RegisterSlot \/ Reset \/ UNCHANGED vars
  <1>1. CASE PlanStep
    BY <1>1, PlanGrants DEF PlanStep
  <1>2. CASE CommitStep \/ AbortStep
    <2>1. PICK p \in PlanIds :
              \/ CommitStale(p) \/ CommitRejected(p) \/ CommitNoop(p) \/ Abort(p)
              \/ \E n, bytes : Commit(p, n, bytes)
      BY <1>2 DEF CommitStep, AbortStep
    <2> QED BY <2>1, PlanEnds
  <1>3. CASE BackendStep
    <2>1. PICK s \in SlotIds :
              \/ \E a \in Suffixes : \E state, busy, bytes :
                    Advance(s, a, state, busy, bytes)
              \/ \E t, state, busy, bytes : Confirm(s, t, state, busy, bytes)
              \/ \E b : SetBusy(s, b) \/ SetAnchorProtected(s, b)
              \/ Invalidate(s)
      BY <1>3 DEF BackendStep
    <2>2. TypeOK
      BY DEF IInv
    <2> QED BY <2>1, <2>2, BackendChangesOne
  <1> QED BY <1>1, <1>2, <1>3 DEF Next

(* Slots that are not registered hold nothing.                              *)
UnregisteredEmpty ==
    \A s \in SlotIds \ Registered : slots[s].tokens = <<>>

LEMMA UnregisteredStep ==
    ASSUME IInv, IInv', UnregisteredEmpty, [Next]_vars
    PROVE  UnregisteredEmpty'
  <1>1. ASSUME NEW p \in PlanIds, GrantedTo(p) PROVE UnregisteredEmpty'
    BY <1>1 DEF GrantedTo, UnregisteredEmpty, Registered
  <1>2. ASSUME NEW p \in PlanIds, EndedBy(p) PROVE UnregisteredEmpty'
    <2>1. WriteSet(plans[p]) \subseteq Registered
      BY <1>2 DEF EndedBy, Pending, IInv, PlanWellFormed
    <2> QED BY <1>2, <2>1 DEF EndedBy, UnregisteredEmpty, Registered
  <1>3. ASSUME NEW s \in SlotIds, ChangedAlone(s) PROVE UnregisteredEmpty'
    BY <1>3 DEF ChangedAlone, UnregisteredEmpty, Registered
  <1>4. CASE RegisterSlot
    BY <1>4, ConfigAssumption
       DEF RegisterSlot, UnregisteredEmpty, Registered, IInv, TypeOK
  <1>5. CASE Reset
    BY <1>5 DEF Reset, UnregisteredEmpty, Registered, NewSlot
  <1>6. CASE UNCHANGED vars
    BY <1>6 DEF vars, UnregisteredEmpty, Registered
  <1> QED BY <1>1, <1>2, <1>3, <1>4, <1>5, <1>6, StepKinds

LEMMA UnregisteredCorrect == Spec => []UnregisteredEmpty
  <1>1. Init => UnregisteredEmpty
    BY DEF Init, UnregisteredEmpty, NewSlot
  <1>2. IInv /\ IInv' /\ UnregisteredEmpty /\ [Next]_vars => UnregisteredEmpty'
    BY UnregisteredStep
  <1> QED BY <1>1, <1>2, IInvCorrect, PTL DEF Spec

LEMMA StepRefines ==
    ASSUME IInv, IInv', UnregisteredEmpty, [Next]_vars
    PROVE  [Leases!Next]_(Leases!leaseVars)
  <1>1. ASSUME NEW p \in PlanIds, GrantedTo(p) PROVE Leases!Next
    <2>1. Leases!Acquire(p, WriteSet(plans'[p]), ReadSet(plans'[p]))
      BY <1>1, GrantRefines
    <2>2. WriteSet(plans'[p]) \cup ReadSet(plans'[p]) \subseteq SlotIds
      <3>1. p \in Pending' /\ Registered' \subseteq SlotIds
        BY <1>1, ConfigAssumption
           DEF GrantedTo, Pending, IInv, TypeOK, Registered, SlotIds
      <3> QED BY <3>1 DEF IInv, PlanWellFormed, WriteSet, ReadSet
    <2> QED BY <2>1, <2>2 DEF Leases!Next
  <1>2. ASSUME NEW p \in PlanIds, EndedBy(p) PROVE Leases!Next
    BY <1>2, EndRefines DEF Leases!Next
  <1>3. ASSUME NEW s \in SlotIds, ChangedAlone(s) PROVE Leases!Next
    BY <1>3, ChangeRefines DEF Leases!Next
  <1>4. CASE RegisterSlot \/ UNCHANGED vars
    BY <1>4 DEF RegisterSlot, vars, Leases!leaseVars, SlotWriters, SlotReaders,
                SlotContents, PlanLeases, LeasesOf, WriteSet, ReadSet
  <1>5. CASE Reset
    <2>1. Wiped'
      <3>1. Quiescent'
        BY <1>5, ResetQuiescent
      <3> QED BY <1>5, <3>1 DEF Reset, Wiped, NewSlot, UnregisteredEmpty
    <2>2. Leases!Wipe
      BY <2>1, WipedRefines, PTL DEF Leases!Wipe
    <2> QED BY <2>2 DEF Leases!Next
  <1> QED BY <1>1, <1>2, <1>3, <1>4, <1>5, StepKinds

(* Every behaviour of the coordinator is a behaviour of SlotLeases: leased  *)
(* slots change only through the plan that leases them, donors only grow,   *)
(* and every lease is returned when its plan ends.                          *)
THEOREM CoordinatorRefinesLeases == Spec => ImplementsLeases
  <1>1. Init => Leases!Init
    <2> SUFFICES ASSUME Init PROVE Leases!Init
      OBVIOUS
    <2>1. Wiped
      BY DEF Init, Wiped, Quiescent, Pending, NewSlot
    <2> QED BY <2>1, WipedRefines
  <1>2. IInv /\ IInv' /\ UnregisteredEmpty /\ [Next]_vars
          => [Leases!Next]_(Leases!leaseVars)
    BY StepRefines
  <1> QED BY <1>1, <1>2, IInvCorrect, UnregisteredCorrect, PTL
          DEF Spec, ImplementsLeases, Leases!Spec

-----------------------------------------------------------------------------
(* Generations guard contents. *)

(* What a step may do to one slot.                                          *)
Guarded(new, old) ==
    /\ new.generation >= old.generation
    /\ new.generation = old.generation =>
          /\ new.tokens = old.tokens
          /\ new.namespace = old.namespace
          /\ new.state = old.state

LEMMA LeaseChangesGuarded ==
    ASSUME NEW old \in Slot, NEW w, NEW n, NEW b
    PROVE  /\ Guarded(old, old)
           /\ Guarded([old EXCEPT !.writer = w], old)
           /\ Guarded([old EXCEPT !.readLeases = n], old)
           /\ Guarded([old EXCEPT !.writer = w, !.readLeases = n], old)
           /\ Guarded([old EXCEPT !.busy = b], old)
           /\ Guarded([old EXCEPT !.protected = b], old)
  BY DEF Guarded, Slot

LEMMA NextGenerationGuarded ==
    ASSUME NEW old \in Slot, NEW new, new.generation = old.generation + 1
    PROVE  Guarded(new, old)
  BY DEF Guarded, Slot

LEMMA NewSlotGuarded ==
    ASSUME NEW old \in Slot
    PROVE  Guarded(NewSlot(old.generation + 1), old)
  BY NextGenerationGuarded DEF NewSlot

LEMMA ReleasedGuarded ==
    ASSUME NEW p, NEW s, slots[s] \in Slot
    PROVE  Guarded(Released(p, s), slots[s])
  BY LeaseChangesGuarded DEF Released

LEMMA StepGuarded ==
    ASSUME TypeOK, [Next]_vars, NEW s \in SlotIds
    PROVE  Guarded(slots'[s], slots[s])
  <1>0. slots[s] \in Slot /\ slots \in [SlotIds -> Slot]
    BY DEF TypeOK
  <1>1. CASE PlanStep
    <2>1. PICK p \in PlanIds, r \in Requests :
              PlanNoop(p, r) \/ PlanContinue(p, r) \/ PlanCopy(p, r)
                \/ PlanFresh(p, r)
      BY <1>1 DEF PlanStep
    <2>2. CASE PlanNoop(p, r)
      BY <1>0, <2>2, LeaseChangesGuarded DEF PlanNoop
    <2>3. CASE PlanContinue(p, r) \/ PlanCopy(p, r) \/ PlanFresh(p, r)
      <3>1. PICK operation \in Operations, t \in Registered,
                 d \in Registered \cup {NoSlot}, n \in 0 .. Len(r.tokens),
                 v \in SUBSET Registered : Granted(p, r, operation, t, d, n, v)
        BY <2>3, GrantShape DEF TypeOK
      <3> QED BY <1>0, <3>1, LeaseChangesGuarded DEF Granted
    <2> QED BY <2>1, <2>2, <2>3
  <1>2. CASE CommitStep \/ AbortStep
    <2>1. PICK p \in PlanIds :
              \/ CommitStale(p) \/ CommitRejected(p) \/ CommitNoop(p) \/ Abort(p)
              \/ \E n, bytes : Commit(p, n, bytes)
      BY <1>2 DEF CommitStep, AbortStep
    <2>2. CASE CommitNoop(p)
      BY <1>0, <2>2, LeaseChangesGuarded DEF CommitNoop
    <2>3. CASE CommitStale(p) \/ CommitRejected(p) \/ Abort(p)
      BY <1>0, <2>3, ReleasedGuarded, NewSlotGuarded
         DEF CommitStale, CommitRejected, Abort, FailClosed
    <2>4. ASSUME NEW n, NEW bytes, Commit(p, n, bytes)
          PROVE  Guarded(slots'[s], slots[s])
      <3>1. CASE s = plans[p].target
        <4>1. slots'[s].generation = slots[s].generation + 1
          BY <2>4, <3>1 DEF Commit
        <4> QED BY <1>0, <4>1, NextGenerationGuarded
      <3>2. CASE s # plans[p].target
        BY <1>0, <2>4, <3>2, ReleasedGuarded, NewSlotGuarded DEF Commit
      <3> QED BY <3>1, <3>2
    <2> QED BY <2>1, <2>2, <2>3, <2>4
  <1>3. CASE BackendStep
    <2>1. PICK o \in SlotIds :
              \/ \E a \in Suffixes : \E state, busy, bytes :
                    Advance(o, a, state, busy, bytes)
              \/ \E t, state, busy, bytes : Confirm(o, t, state, busy, bytes)
              \/ \E b : SetBusy(o, b) \/ SetAnchorProtected(o, b)
              \/ Invalidate(o)
      BY <1>3 DEF BackendStep
    <2>2. CASE s # o
      <3>1. slots'[s] = slots[s]
        BY <1>0, <2>1, <2>2
           DEF Advance, Confirm, Publish, SetBusy, SetAnchorProtected, Invalidate
      <3> QED BY <1>0, <3>1, LeaseChangesGuarded
    <2>3. CASE s = o
      <3>1. ASSUME NEW t, NEW state, NEW busy, NEW bytes,
                   Publish(s, t, state, busy, bytes)
            PROVE  Guarded(slots'[s], slots[s])
        <4>1. slots'[s].generation = slots[s].generation + 1
          BY <1>0, <3>1 DEF Publish, Slot
        <4> QED BY <1>0, <4>1, NextGenerationGuarded
      <3>2. ASSUME NEW b, SetBusy(s, b) \/ SetAnchorProtected(s, b)
            PROVE  Guarded(slots'[s], slots[s])
        <4>1. \/ slots'[s] = [slots[s] EXCEPT !.busy = b]
              \/ slots'[s] = [slots[s] EXCEPT !.protected = b]
          BY <1>0, <3>2 DEF SetBusy, SetAnchorProtected
        <4> QED BY <1>0, <4>1, LeaseChangesGuarded
      <3>3. CASE Invalidate(s)
        BY <1>0, <3>3, NewSlotGuarded DEF Invalidate
      <3> QED BY <2>1, <2>3, <3>1, <3>2, <3>3 DEF Advance, Confirm
    <2> QED BY <2>2, <2>3
  <1>4. CASE RegisterSlot \/ UNCHANGED vars
    BY <1>0, <1>4, LeaseChangesGuarded DEF RegisterSlot, vars
  <1>5. CASE Reset
    BY <1>0, <1>5, LeaseChangesGuarded, NewSlotGuarded DEF Reset
  <1> QED BY <1>1, <1>2, <1>3, <1>4, <1>5 DEF Next

(* A handle with the current generation of a slot names the content it was  *)
(* issued for: no call replaces content and keeps the generation.           *)
THEOREM GenerationsGuard == Spec => GenerationGuardsContent
  <1>1. TypeOK /\ [Next]_vars =>
          [\A s \in SlotIds :
              /\ slots'[s].generation >= slots[s].generation
              /\ slots'[s].generation = slots[s].generation =>
                    /\ slots'[s].tokens = slots[s].tokens
                    /\ slots'[s].namespace = slots[s].namespace
                    /\ slots'[s].state = slots[s].state]_vars
    BY StepGuarded DEF Guarded
  <1> QED BY <1>1, TypeCorrect, PTL DEF Spec, GenerationGuardsContent

-----------------------------------------------------------------------------
(* The prefix index follows the slots. *)

(* A step that takes the entries of the changed slots out of the index and  *)
(* adds what those slots now hold keeps the index true to the slots.        *)
LEMMA IndexFollows ==
    ASSUME IndexTracksSlots, NEW changed \in SUBSET SlotIds, NEW added,
           index' = (index \ UNION {Entry(s) : s \in changed}) \cup added,
           \A s \in SlotIds \ changed : Entry(s)' = Entry(s),
           UNION {Entry(s)' : s \in changed} = {e \in added : e[2] # <<>>}
    PROVE  IndexTracksSlots'
  <1>1. \A s \in SlotIds : \A e \in Entry(s) : e[2] # <<>> /\ e[3] = s
    BY DEF Entry, IsEmpty
  <1>2. \A e : e \in {x \in index : x[2] # <<>>} <=> \E s \in SlotIds : e \in Entry(s)
    BY DEF IndexTracksSlots
  <1>3. \A e : e \in {x \in added : x[2] # <<>>} <=> \E s \in changed : e \in Entry(s)'
    OBVIOUS
  <1>4. ASSUME NEW e
        PROVE  e \in {x \in index' : x[2] # <<>>} <=> \E s \in SlotIds : e \in Entry(s)'
    <2>1. CASE \E s \in changed : e \in Entry(s)'
      BY <1>3, <2>1
    <2>2. CASE ~\E s \in changed : e \in Entry(s)'
      <3>1. e \in {x \in index' : x[2] # <<>>}
               <=> /\ e \in {x \in index : x[2] # <<>>}
                   /\ ~\E s \in changed : e \in Entry(s)
        BY <1>3, <2>2
      <3>2. e \in {x \in index' : x[2] # <<>>}
               <=> \E s \in SlotIds \ changed : e \in Entry(s)
        BY <1>1, <1>2, <3>1
      <3> QED BY <2>2, <3>2
    <2> QED BY <2>1, <2>2
  <1> QED BY <1>4 DEF IndexTracksSlots

(* What an entry is made of. *)
LEMMA EntrySame ==
    ASSUME NEW s, slots'[s].namespace = slots[s].namespace,
           slots'[s].tokens = slots[s].tokens, slots'[s].state = slots[s].state
    PROVE  Entry(s)' = Entry(s)
  BY DEF Entry, IsEmpty

LEMMA EntryNone ==
    ASSUME NEW s, slots'[s].tokens = <<>>
    PROVE  Entry(s)' = {}
  BY DEF Entry, IsEmpty

LEMMA EntryNew ==
    ASSUME NEW s, slots'[s].state # "Empty"
    PROVE  Entry(s)' = {e \in {<<slots'[s].namespace, slots'[s].tokens, s>>} : e[2] # <<>>}
  BY DEF Entry, IsEmpty

LEMMA IndexStays ==
    ASSUME IndexTracksSlots, index' = index,
           \A s \in SlotIds : /\ slots'[s].namespace = slots[s].namespace
                              /\ slots'[s].tokens = slots[s].tokens
                              /\ slots'[s].state = slots[s].state
    PROVE  IndexTracksSlots'
  BY EntrySame DEF IndexTracksSlots

LEMMA ReleasedContent ==
    ASSUME NEW p, NEW s, slots[s] \in Slot
    PROVE  /\ Released(p, s).namespace = slots[s].namespace
           /\ Released(p, s).tokens = slots[s].tokens
           /\ Released(p, s).state = slots[s].state
  BY DEF Released, Slot

LEMMA PublishFollows ==
    ASSUME TypeOK, IndexTracksSlots, NEW s \in SlotIds, NEW t, NEW state \in LiveStates,
           NEW busy, NEW bytes, Publish(s, t, state, busy, bytes)
    PROVE  IndexTracksSlots'
  <1>0. slots[s] \in Slot /\ slots \in [SlotIds -> Slot]
    BY SlotType DEF TypeOK
  <1>1. /\ slots'[s].namespace = slots[s].namespace /\ slots'[s].tokens = t
        /\ slots'[s].state = state
        /\ \A o \in SlotIds \ {s} : slots'[o] = slots[o]
    BY <1>0 DEF Publish, Slot
  <1>2. state # "Empty"
    BY RequestAssumption
  <1> DEFINE added == {<<slots[s].namespace, t, s>>}
  <1>3. index' = (index \ UNION {Entry(o) : o \in {s}}) \cup added
    BY DEF Publish
  <1>4. \A o \in SlotIds \ {s} : Entry(o)' = Entry(o)
    BY <1>1, EntrySame
  <1>5. UNION {Entry(o)' : o \in {s}} = {e \in added : e[2] # <<>>}
    <2>1. Entry(s)' = {e \in added : e[2] # <<>>}
      BY <1>1, <1>2, EntryNew
    <2> QED BY <2>1
  <1> QED BY <1>3, <1>4, <1>5, IndexFollows

LEMMA FailClosedFollows ==
    ASSUME IInv, IndexTracksSlots, NEW p \in Pending, FailClosed(p)
    PROVE  IndexTracksSlots'
  <1> DEFINE victims == WriteSet(plans[p])
  <1>1. victims \in SUBSET SlotIds
    BY RegisteredType DEF IInv, TypeOK, PlanWellFormed
  <1>2. \A s \in SlotIds \ victims : Entry(s)' = Entry(s)
    <2> TAKE s \in SlotIds \ victims
    <2>1. slots[s] \in Slot
      BY SlotType DEF IInv
    <2>2. slots'[s] = Released(p, s)
      BY DEF FailClosed
    <2> QED BY <2>1, <2>2, ReleasedContent, EntrySame
  <1>3. \A s \in victims : Entry(s)' = {}
    <2> TAKE s \in victims
    <2>1. slots'[s] = NewSlot(slots[s].generation + 1)
      BY <1>1 DEF FailClosed
    <2> QED BY <2>1, EntryNone DEF NewSlot
  <1>4. index' = (index \ UNION {Entry(s) : s \in victims}) \cup {}
    BY DEF FailClosed
  <1>5. UNION {Entry(s)' : s \in victims} = {e \in {} : e[2] # <<>>}
    BY <1>3
  <1> QED BY <1>1, <1>2, <1>4, <1>5, IndexFollows

LEMMA CommitFollows ==
    ASSUME IInv, IndexTracksSlots, NEW p \in PlanIds, NEW n, NEW bytes,
           Commit(p, n, bytes)
    PROVE  IndexTracksSlots'
  <1>0. PICK t : t = plans[p].target
    OBVIOUS
  <1> DEFINE plan == plans[p]
             tokens == SubSeq(plan.tokens, 1, n)
             changed == plan.evictions \cup {t}
             added == {<<plan.namespace, tokens, t>>}
  <1>1. p \in Pending /\ WriteSet(plan) = changed
    BY <1>0 DEF Commit, Pending, WriteSet
  <1>2. changed \in SUBSET SlotIds
    BY <1>1, RegisteredType DEF IInv, TypeOK, PlanWellFormed
  <1>3. \A s \in SlotIds \ changed : Entry(s)' = Entry(s)
    <2> TAKE s \in SlotIds \ changed
    <2>1. slots[s] \in Slot
      BY SlotType DEF IInv
    <2>2. slots'[s] = Released(p, s)
      BY <1>0 DEF Commit
    <2> QED BY <2>1, <2>2, ReleasedContent, EntrySame
  <1>4. \A s \in changed \ {t} : Entry(s)' = {}
    <2> TAKE s \in changed \ {t}
    <2>1. slots'[s] = NewSlot(slots[s].generation + 1)
      BY <1>0, <1>2 DEF Commit
    <2> QED BY <2>1, EntryNone DEF NewSlot
  <1>5. Entry(t)' = {e \in added : e[2] # <<>>}
    <2>1. /\ slots'[t].namespace = plan.namespace /\ slots'[t].tokens = tokens
          /\ slots'[t].state = plan.resultState
      BY <1>0, <1>2 DEF Commit
    <2>2. plan.resultState # "Empty"
      BY <1>1 DEF IInv, TypeOK, PlanRecord, Plan
    <2>3. slots'[t].state # "Empty"
      BY <2>1, <2>2
    <2>4. Entry(t)' = {e \in {<<slots'[t].namespace, slots'[t].tokens, t>>} : e[2] # <<>>}
      BY <2>3, EntryNew
    <2>5. {<<slots'[t].namespace, slots'[t].tokens, t>>} = added
      BY <2>1
    <2> QED BY <2>4, <2>5
  <1>6. index' = (index \ UNION {Entry(s) : s \in changed}) \cup added
    BY <1>0 DEF Commit
  <1>7. UNION {Entry(s)' : s \in changed} = {e \in added : e[2] # <<>>}
    <2>1. t \in changed
      OBVIOUS
    <2> HIDE DEF added, tokens, changed, plan
    <2>2. UNION {Entry(s)' : s \in changed} = Entry(t)'
      BY <1>4, <2>1
    <2> QED BY <1>5, <2>2
  <1> QED BY <1>2, <1>3, <1>6, <1>7, IndexFollows

LEMMA StepFollows ==
    ASSUME IInv, IInv', UnregisteredEmpty, IndexTracksSlots, [Next]_vars
    PROVE  IndexTracksSlots'
  <1>0. TypeOK /\ \A s \in SlotIds : slots[s] \in Slot
    BY SlotType DEF IInv
  <1>1. CASE PlanStep
    <2>1. PICK p \in PlanIds, r \in Requests :
              PlanNoop(p, r) \/ PlanContinue(p, r) \/ PlanCopy(p, r)
                \/ PlanFresh(p, r)
      BY <1>1 DEF PlanStep
    <2>2. CASE PlanNoop(p, r)
      BY <2>2, IndexStays DEF PlanNoop
    <2>3. CASE PlanContinue(p, r) \/ PlanCopy(p, r) \/ PlanFresh(p, r)
      <3>1. PICK operation \in Operations, t \in Registered,
                 d \in Registered \cup {NoSlot}, m \in 0 .. Len(r.tokens),
                 v \in SUBSET Registered : Granted(p, r, operation, t, d, m, v)
        BY <1>0, <2>3, GrantShape DEF TypeOK
      <3>2. \A s \in SlotIds : /\ slots'[s].namespace = slots[s].namespace
                               /\ slots'[s].tokens = slots[s].tokens
                               /\ slots'[s].state = slots[s].state
        BY <1>0, <3>1 DEF Granted, Slot
      <3>3. index' = index
        BY <3>1 DEF Granted
      <3> QED BY <3>2, <3>3, IndexStays
    <2> QED BY <2>1, <2>2, <2>3
  <1>2. CASE CommitStep \/ AbortStep
    <2>1. PICK p \in PlanIds :
              \/ CommitStale(p) \/ CommitRejected(p) \/ CommitNoop(p) \/ Abort(p)
              \/ \E n, bytes : Commit(p, n, bytes)
      BY <1>2 DEF CommitStep, AbortStep
    <2>2. CASE FailClosed(p)
      <3>1. p \in Pending
        BY <2>1 DEF CommitStale, CommitRejected, CommitNoop, Abort, Commit, Pending
      <3> QED BY <2>2, <3>1, FailClosedFollows
    <2>3. CASE slots' = [s \in SlotIds |-> Released(p, s)] /\ index' = index
      BY <1>0, <2>3, ReleasedContent, IndexStays
    <2>4. CASE CommitNoop(p)
      BY <2>4, IndexStays DEF CommitNoop
    <2> QED BY <2>1, <2>2, <2>3, <2>4, CommitFollows
            DEF CommitStale, CommitRejected, Abort
  <1>3. CASE BackendStep
    <2>1. PICK s \in SlotIds :
              \/ \E state \in LiveStates : \E busy, bytes, t : Publish(s, t, state, busy, bytes)
              \/ \E b : SetBusy(s, b) \/ SetAnchorProtected(s, b)
              \/ Invalidate(s)
      BY <1>3 DEF BackendStep, Advance, Confirm
    <2>2. ASSUME NEW b, SetBusy(s, b) \/ SetAnchorProtected(s, b)
          PROVE  IndexTracksSlots'
      <3>1. \A o \in SlotIds : /\ slots'[o].namespace = slots[o].namespace
                               /\ slots'[o].tokens = slots[o].tokens
                               /\ slots'[o].state = slots[o].state
        <4>1. slots \in [SlotIds -> Slot] /\ s \in SlotIds
          BY <1>0 DEF TypeOK
        <4>2. \/ slots' = [slots EXCEPT ![s] = [slots[s] EXCEPT !.busy = b]]
              \/ slots' = [slots EXCEPT ![s] = [slots[s] EXCEPT !.protected = b]]
          BY <2>2, <4>1 DEF SetBusy, SetAnchorProtected
        <4>3. \A o \in SlotIds \ {s} : slots'[o] = slots[o]
          BY <4>1, <4>2
        <4>4. \/ slots'[s] = [slots[s] EXCEPT !.busy = b]
              \/ slots'[s] = [slots[s] EXCEPT !.protected = b]
          BY <4>1, <4>2
        <4>5. slots[s] \in Slot
          BY <4>1
        <4>6. /\ slots'[s].namespace = slots[s].namespace
              /\ slots'[s].tokens = slots[s].tokens
              /\ slots'[s].state = slots[s].state
          BY <4>4, <4>5 DEF Slot
        <4> QED BY <4>3, <4>6
      <3> QED BY <2>2, <3>1, IndexStays DEF SetBusy, SetAnchorProtected
    <2>3. CASE Invalidate(s)
      <3>0. slots \in [SlotIds -> Slot]
        BY <1>0 DEF TypeOK
      <3>1. \A o \in SlotIds \ {s} : Entry(o)' = Entry(o)
        BY <2>3, <3>0, EntrySame DEF Invalidate
      <3>2. Entry(s)' = {}
        BY <2>3, <3>0, EntryNone DEF Invalidate, NewSlot
      <3>3. index' = (index \ UNION {Entry(o) : o \in {s}}) \cup {}
        BY <2>3 DEF Invalidate
      <3>4. UNION {Entry(o)' : o \in {s}} = {e \in {} : e[2] # <<>>}
        BY <3>2
      <3> QED BY <3>1, <3>3, <3>4, IndexFollows
    <2> QED BY <1>0, <2>1, <2>2, <2>3, PublishFollows
  <1>4. CASE RegisterSlot \/ UNCHANGED vars
    BY <1>4, IndexStays DEF RegisterSlot, vars
  <1>5. CASE Reset
    <2>1. \A s \in SlotIds : Entry(s)' = {}
      BY <1>5, EntryNone DEF Reset, NewSlot, UnregisteredEmpty
    <2>2. index' = {}
      BY <1>5 DEF Reset
    <2> QED BY <2>1, <2>2 DEF IndexTracksSlots
  <1> QED BY <1>1, <1>2, <1>3, <1>4, <1>5 DEF Next

(* The index finds every materialized slot, and what it finds is there.     *)
THEOREM IndexStaysTrue == Spec => []IndexTracksSlots
  <1>1. Init => IndexTracksSlots
    BY DEF Init, IndexTracksSlots, Entry, IsEmpty, NewSlot
  <1>2. IInv /\ IInv' /\ UnregisteredEmpty /\ IndexTracksSlots /\ [Next]_vars
          => IndexTracksSlots'
    BY StepFollows
  <1> QED BY <1>1, <1>2, IInvCorrect, UnregisteredCorrect, PTL DEF Spec

-----------------------------------------------------------------------------
(* Anchors.  The two executors end each plan before they ask for the next  *)
(* one; the limit and the uniqueness of anchors are proved for callers     *)
(* that do so, since plan counts the anchors there are and not the ones    *)
(* other plans are about to make.  A protected anchor is safe from any     *)
(* number of plans.                                                        *)

AllAnchors == {s \in SlotIds : slots[s].state = "Anchor"}

AnchorsFull == \A s \in AllAnchors : slots[s].tokens # <<>>

(* What a plan for an anchor found, and nothing takes away: room for the    *)
(* anchor, and no anchor like it.                                           *)
RoomPlanned(p) ==
    plans[p].operation # "Noop" /\ plans[p].resultState = "Anchor" =>
        /\ Cardinality(AllAnchors \ {plans[p].target}) < MaxAnchors
        /\ \A s \in AllAnchors : \/ slots[s].namespace # plans[p].namespace
                                 \/ slots[s].tokens # plans[p].tokens

LEMMA AnchorsFinite ==
    ASSUME NEW S \in SUBSET SlotIds
    PROVE  IsFiniteSet(S) /\ Cardinality(S) \in Nat
  <1>1. IsFiniteSet(SlotIds)
    BY FS_Interval, ConfigAssumption DEF SlotIds
  <1> QED BY <1>1, FS_Subset, FS_CardinalityType

LEMMA AnchorsRegistered ==
    ASSUME TypeOK, UnregisteredEmpty, AnchorsFull
    PROVE  AllAnchors = Anchors
  BY RegisteredType DEF AllAnchors, Anchors, UnregisteredEmpty, AnchorsFull

(* Nothing but leases changes in the slots.                                 *)
OnlyLeases ==
    /\ registered' = registered
    /\ \A s \in SlotIds : /\ slots'[s].namespace = slots[s].namespace
                          /\ slots'[s].tokens = slots[s].tokens
                          /\ slots'[s].state = slots[s].state
                          /\ slots'[s].protected = slots[s].protected

(* A grant to plan p for request r: it takes no protected anchor, and for   *)
(* an anchor it leaves room.                                                *)
Sparing(p, r) ==
    /\ OnlyLeases /\ plans'[p] # NoPlan
    /\ \A q \in PlanIds \ {p} : plans'[q] = plans[q]
    /\ plans'[p].tokens = r.tokens /\ plans'[p].namespace = r.namespace
    /\ plans'[p].resultState = r.resultState
    /\ AnchorLimit /\ r.resultState = "Anchor" =>
          Cardinality(AllAnchors \ {plans'[p].target}) < MaxAnchors
    /\ \A s \in SlotIds :
          \/ slots'[s].writer = slots[s].writer
          \/ slots[s].state = "Anchor" => ~slots[s].protected

LEMMA TargetsSpare ==
    ASSUME TypeOK, AnchorsFull, NEW r, NEW d, NEW t \in Targets(r, d)
    PROVE  slots[t].state = "Anchor" => ~slots[t].protected
  <1>1. CASE t \in Takeable(r, d)
    BY <1>1 DEF Takeable
  <1>2. CASE t \in EmptyTargets(r)
    BY <1>2, RegisteredType DEF EmptyTargets, IsEmpty, AnchorsFull, AllAnchors
  <1> QED BY <1>1, <1>2 DEF Targets, Lowest

LEMMA VictimsSpare ==
    ASSUME NEW r, NEW operation, NEW t, NEW d, NEW v \in Evictions(r, operation, t, d),
           NEW s \in v \ {t}
    PROVE  ~slots[s].protected
  <1>1. PICK pressure \in PressureVictims(r, t, d),
             checkpoints \in CheckpointVictims(r, t, d) :
             v = pressure \cup checkpoints \cup
                   {o \in {t} : operation # "Continue" /\ ~IsEmpty(slots[o])}
    BY DEF Evictions
  <1>2. pressure \subseteq Evictable(t, d)
    BY DEF PressureVictims, Walks
  <1>3. checkpoints \subseteq Evictable(t, d)
    BY DEF CheckpointVictims, Walks
  <1> QED BY <1>1, <1>2, <1>3 DEF Evictable

(* Targets leave room for an anchor. *)
LEMMA TargetsLeaveRoom ==
    ASSUME TypeOK, UnregisteredEmpty, AnchorsFull, AnchorLimit,
           NEW r, NEW d, NEW t \in Targets(r, d), r.resultState = "Anchor"
    PROVE  Cardinality(AllAnchors \ {t}) < MaxAnchors
  <1> DEFINE all == Cardinality(AllAnchors)
             rest == Cardinality(AllAnchors \ {t})
  <1>1. AllAnchors = Anchors /\ AllAnchors \in SUBSET SlotIds
    BY AnchorsRegistered DEF AllAnchors
  <1>2. all \in Nat /\ rest \in Nat /\ MaxAnchors \in Int
    BY <1>1, AnchorsFinite, ConfigAssumption
  <1>3. all <= MaxAnchors
    BY DEF AnchorLimit, AllAnchors
  <1>4. CASE all >= MaxAnchors
    <2>1. t \in AllAnchors
      BY <1>1, <1>4 DEF Targets
    <2>2. rest = all - 1
      BY <1>1, <2>1, AnchorsFinite, FS_RemoveElement
    <2>3. rest < MaxAnchors
      <3> HIDE DEF all, rest
      <3> QED BY <1>2, <1>3, <2>2
    <2> QED BY <2>3
  <1>5. CASE all < MaxAnchors
    <2>1. rest <= all
      BY <1>1, AnchorsFinite, FS_Subset
    <2>2. rest < MaxAnchors
      <3> HIDE DEF all, rest
      <3> QED BY <1>2, <1>5, <2>1
    <2> QED BY <2>2
  <1>6. all >= MaxAnchors \/ all < MaxAnchors
    <2> HIDE DEF all, rest
    <2> QED BY <1>2
  <1> QED BY <1>4, <1>5, <1>6

LEMMA GrantSpares ==
    ASSUME IInv, AnchorsFull, NEW p \in PlanIds, NEW r \in Requests,
           NEW operation \in Operations, NEW t \in Registered,
           NEW d \in Registered \cup {NoSlot}, NEW n \in 0 .. Len(r.tokens),
           Grant(p, r, operation, t, d, n),
           slots[t].state = "Anchor" => ~slots[t].protected,
           AnchorLimit /\ r.resultState = "Anchor" =>
              Cardinality(AllAnchors \ {t}) < MaxAnchors
    PROVE  Sparing(p, r)
  <1>1. PICK v \in Evictions(r, operation, t, d) :
            /\ slots' = [s \in SlotIds |->
                  IF s \in v \cup {t} THEN [slots[s] EXCEPT !.writer = p]
                  ELSE IF s = d THEN [slots[s] EXCEPT !.readLeases = @ + 1]
                  ELSE slots[s]]
            /\ plans' = [plans EXCEPT ![p] = NewPlan(r, operation, t, d, n, v)]
            /\ UNCHANGED <<registered, epoch, index>>
    BY DEF Grant
  <1>2. Registered \subseteq SlotIds /\ v \subseteq Registered
    BY <1>1, EvictionsType, RegisteredType DEF IInv
  <1>3. /\ plans'[p] = NewPlan(r, operation, t, d, n, v)
        /\ \A q \in PlanIds \ {p} : plans'[q] = plans[q]
    BY <1>1 DEF IInv, TypeOK
  <1>4. /\ plans'[p].target = t /\ plans'[p].tokens = r.tokens
        /\ plans'[p].namespace = r.namespace
        /\ plans'[p].resultState = r.resultState
    BY <1>3 DEF NewPlan
  <1>5. plans'[p] # NoPlan
    BY <1>2, <1>3, NewPlanType DEF IInv
  <1>6. ASSUME NEW s \in SlotIds
        PROVE  /\ slots'[s].namespace = slots[s].namespace
               /\ slots'[s].tokens = slots[s].tokens
               /\ slots'[s].state = slots[s].state
               /\ slots'[s].protected = slots[s].protected
               /\ s \notin v \cup {t} => slots'[s].writer = slots[s].writer
    <2>1. slots[s] \in Slot
      BY SlotType DEF IInv
    <2> QED BY <1>1, <2>1 DEF Slot
  <1>7. \A s \in v \cup {t} : slots[s].state = "Anchor" => ~slots[s].protected
    BY <1>1, VictimsSpare
  <1>8. OnlyLeases
    BY <1>1, <1>6 DEF OnlyLeases
  <1> QED BY <1>3, <1>4, <1>5, <1>6, <1>7, <1>8 DEF Sparing

LEMMA PlanSpares ==
    ASSUME IInv, UnregisteredEmpty, AnchorsFull, NEW p \in PlanIds, NEW r \in Requests,
           PlanContinue(p, r) \/ PlanCopy(p, r) \/ PlanFresh(p, r)
    PROVE  Sparing(p, r)
  <1>0. TypeOK /\ NoSlot \notin Registered
    BY NamesAssumption, RegisteredType DEF IInv
  <1>1. CASE PlanContinue(p, r)
    <2>1. PICK d \in Registered, n \in 0 .. Len(r.tokens) :
              CanContinue(r, d, n) /\ Grant(p, r, "Continue", d, d, n)
      BY <1>1 DEF PlanContinue
    <2> QED BY <2>1, GrantSpares DEF CanContinue, Operations
  <1>2. CASE PlanCopy(p, r)
    <2> DEFINE operation(d) ==
          IF slots[d].state = "Anchor" THEN "Restore" ELSE "Branch"
    <2>1. PICK d \in Registered, n \in 0 .. Len(r.tokens) :
              /\ Donor(r, d, n)
              /\ \E t \in Targets(r, d) : Grant(p, r, operation(d), t, d, n)
      BY <1>2 DEF PlanCopy
    <2>2. PICK t \in Targets(r, d) : Grant(p, r, operation(d), t, d, n)
      BY <2>1
    <2>3. t \in Registered
      BY <2>1, <2>2, TargetsType DEF Donor, DonorCandidate
    <2>4. slots[t].state = "Anchor" => ~slots[t].protected
      BY <1>0, <2>2, TargetsSpare
    <2>5. AnchorLimit /\ r.resultState = "Anchor" =>
             Cardinality(AllAnchors \ {t}) < MaxAnchors
      BY <1>0, <2>2, TargetsLeaveRoom
    <2>6. operation(d) \in Operations
      BY DEF Operations
    <2> QED BY <2>2, <2>3, <2>4, <2>5, <2>6, GrantSpares
  <1>3. CASE PlanFresh(p, r)
    <2>1. PICK t \in Targets(r, NoSlot) : Grant(p, r, "Fresh", t, NoSlot, 0)
      BY <1>3 DEF PlanFresh
    <2>2. t \in Registered
      BY <1>0, <2>1, TargetsType
    <2>3. slots[t].state = "Anchor" => ~slots[t].protected
      BY <1>0, <2>1, TargetsSpare
    <2>4. AnchorLimit /\ r.resultState = "Anchor" =>
             Cardinality(AllAnchors \ {t}) < MaxAnchors
      BY <1>0, <2>1, TargetsLeaveRoom
    <2>5. 0 \in 0 .. Len(r.tokens)
      BY RequestAssumption DEF Requests
    <2> QED BY <2>1, <2>2, <2>3, <2>4, <2>5, GrantSpares DEF Operations
  <1> QED BY <1>1, <1>2, <1>3

(* A step leaves a slot no anchor it was not, and a protected one alone.    *)
NoNewAnchor(s) ==
    slots'[s].state = "Anchor" =>
        /\ slots[s].state = "Anchor"
        /\ slots'[s].namespace = slots[s].namespace
        /\ slots'[s].tokens = slots[s].tokens
        /\ \/ slots'[s].writer = NoPlan
           \/ slots'[s].writer = slots[s].writer
                /\ slots'[s].protected = slots[s].protected

PlansOnlyEnd == \A q \in Pending' : q \in Pending /\ plans'[q] = plans[q]

(* The steps as the anchors see them: a grant, a reuse of an anchor, a      *)
(* commit that makes one, and all others.                                   *)
Grants(p, r) ==
    /\ Sparing(p, r) /\ plans[p] = NoPlan /\ ExistingAnchors(r) = {}

Reuses(p, r) ==
    /\ slots' = slots /\ plans[p] = NoPlan /\ plans'[p].operation = "Noop"
    /\ plans'[p].tokens = r.tokens
    /\ \A q \in PlanIds \ {p} : plans'[q] = plans[q]

Makes(p) ==
    LET t == plans[p].target
    IN  /\ p \in Pending /\ p \notin Pending' /\ PlansOnlyEnd /\ t \in SlotIds
        /\ plans[p].operation # "Noop" /\ plans[p].resultState = "Anchor"
        /\ slots'[t].namespace = plans[p].namespace
        /\ slots'[t].tokens = plans[p].tokens /\ ~slots'[t].protected
        /\ \A s \in SlotIds \ {t} : NoNewAnchor(s)

MakesNone == PlansOnlyEnd /\ \A s \in SlotIds : NoNewAnchor(s)

LEMMA ReleasedNoNew ==
    ASSUME NEW p, NEW s, slots[s] \in Slot, slots'[s] = Released(p, s)
    PROVE  NoNewAnchor(s)
  BY DEF Released, Slot, NoNewAnchor

LEMMA NewSlotNoNew ==
    ASSUME NEW s, NEW g, slots'[s] = NewSlot(g)
    PROVE  NoNewAnchor(s)
  BY DEF NewSlot, NoNewAnchor

LEMMA ForgetOnlyEnds ==
    ASSUME TypeOK, NEW p \in PlanIds, Forget(p)
    PROVE  PlansOnlyEnd /\ p \notin Pending'
  BY ForgetType DEF PlansOnlyEnd

LEMMA CommitAnchors ==
    ASSUME IInv, NEW p \in PlanIds, NEW n, NEW bytes, Commit(p, n, bytes)
    PROVE  Makes(p) \/ MakesNone
  <1> DEFINE plan == plans[p]
             t == plan.target
  <1>0. TypeOK /\ \A s \in SlotIds : slots[s] \in Slot
    BY SlotType DEF IInv
  <1>1. p \in Pending /\ plan.operation # "Noop"
    BY DEF Commit, Pending
  <1>2. t \in SlotIds /\ plan.tokens \in Seq(Int)
    BY <1>0, <1>1 DEF TypeOK, PlanRecord, Plan
  <1>3. PlansOnlyEnd /\ p \notin Pending'
    BY <1>0, ForgetOnlyEnds DEF Commit
  <1>4. \A s \in SlotIds \ {t} : NoNewAnchor(s)
    BY <1>0, ReleasedNoNew, NewSlotNoNew DEF Commit
  <1>5. /\ slots'[t].namespace = plan.namespace
        /\ slots'[t].tokens = SubSeq(plan.tokens, 1, n)
        /\ slots'[t].state = plan.resultState /\ ~slots'[t].protected
    BY <1>2 DEF Commit
  <1>6. CASE plan.resultState = "Anchor"
    <2>1. n = Len(plan.tokens)
      BY <1>6 DEF Commit, ResidentLens
    <2>2. SubSeq(plan.tokens, 1, n) = plan.tokens
      BY <1>2, <2>1
    <2> QED BY <1>1, <1>2, <1>3, <1>4, <1>5, <1>6, <2>2 DEF Makes
  <1>7. CASE plan.resultState # "Anchor"
    BY <1>3, <1>4, <1>5, <1>7 DEF MakesNone, NoNewAnchor
  <1> QED BY <1>6, <1>7

LEMMA AnchorSteps ==
    ASSUME IInv, UnregisteredEmpty, AnchorsFull, [Next]_vars
    PROVE  \/ \E p \in PlanIds, r \in Requests : Grants(p, r) \/ Reuses(p, r)
           \/ \E p \in PlanIds : Makes(p)
           \/ MakesNone
  <1>0. TypeOK /\ slots \in [SlotIds -> Slot] /\ \A s \in SlotIds : slots[s] \in Slot
    BY SlotType DEF IInv, TypeOK
  <1>1. CASE PlanStep
    <2>1. PICK p \in PlanIds, r \in Requests :
              PlanNoop(p, r) \/ PlanContinue(p, r) \/ PlanCopy(p, r)
                \/ PlanFresh(p, r)
      BY <1>1 DEF PlanStep
    <2>2. CASE PlanNoop(p, r)
      <3>1. PICK s : plans' = [plans EXCEPT
                       ![p] = NewPlan(r, "Noop", s, s, Len(r.tokens), {})]
        BY <2>2 DEF PlanNoop
      <3>2. Reuses(p, r)
        BY <1>0, <2>2, <3>1 DEF Reuses, PlanNoop, NewPlan, TypeOK
      <3> QED BY <3>2
    <2>3. CASE PlanContinue(p, r) \/ PlanCopy(p, r) \/ PlanFresh(p, r)
      <3>1. Sparing(p, r)
        BY <2>3, PlanSpares
      <3>2. plans[p] = NoPlan /\ ExistingAnchors(r) = {}
        BY <2>3 DEF PlanContinue, PlanCopy, PlanFresh
      <3> QED BY <3>1, <3>2 DEF Grants
    <2> QED BY <2>1, <2>2, <2>3
  <1>2. CASE CommitStep \/ AbortStep
    <2>1. PICK p \in PlanIds :
              \/ CommitStale(p) \/ CommitRejected(p) \/ CommitNoop(p) \/ Abort(p)
              \/ \E n, bytes : Commit(p, n, bytes)
      BY <1>2 DEF CommitStep, AbortStep
    <2>2. CASE FailClosed(p)
      BY <1>0, <2>2, ForgetOnlyEnds, ReleasedNoNew, NewSlotNoNew DEF FailClosed, MakesNone
    <2>3. CASE slots' = [s \in SlotIds |-> Released(p, s)] /\ Forget(p)
      BY <1>0, <2>3, ForgetOnlyEnds, ReleasedNoNew DEF MakesNone
    <2>4. CASE CommitNoop(p)
      BY <1>0, <2>4, ForgetOnlyEnds DEF CommitNoop, MakesNone, NoNewAnchor
    <2> QED BY <2>1, <2>2, <2>3, <2>4, CommitAnchors
            DEF CommitStale, CommitRejected, Abort
  <1>3. CASE BackendStep
    <2>1. PICK s \in SlotIds :
              \/ \E state \in LiveStates : \E busy, bytes, t : Publish(s, t, state, busy, bytes)
              \/ \E b : SetBusy(s, b) \/ SetAnchorProtected(s, b)
              \/ Invalidate(s)
      BY <1>3 DEF BackendStep, Advance, Confirm
    <2>2. PlansOnlyEnd
      BY <2>1 DEF Publish, SetBusy, SetAnchorProtected, Invalidate, PlansOnlyEnd, Pending
    <2>3. \A o \in SlotIds \ {s} : slots'[o] = slots[o]
      BY <1>0, <2>1 DEF Publish, SetBusy, SetAnchorProtected, Invalidate
    <2>4. NoNewAnchor(s)
      <3>1. ASSUME NEW state \in LiveStates, NEW busy, NEW bytes, NEW t,
                   Publish(s, t, state, busy, bytes)
            PROVE  NoNewAnchor(s)
        <4>1. slots'[s].state = state
          BY <1>0, <3>1 DEF Publish, Slot
        <4> QED BY <4>1, RequestAssumption DEF NoNewAnchor
      <3>2. ASSUME NEW b, SetBusy(s, b) \/ SetAnchorProtected(s, b)
            PROVE  NoNewAnchor(s)
        <4>1. /\ slots'[s].namespace = slots[s].namespace
              /\ slots'[s].tokens = slots[s].tokens
              /\ slots'[s].state = slots[s].state /\ slots'[s].writer = slots[s].writer
          BY <1>0, <3>2 DEF SetBusy, SetAnchorProtected, Slot
        <4>2. slots[s].writer = NoPlan
          BY <3>2 DEF SetBusy, SetAnchorProtected, Idle, Unleased
        <4> QED BY <4>1, <4>2 DEF NoNewAnchor
      <3>3. CASE Invalidate(s)
        BY <1>0, <3>3, NewSlotNoNew DEF Invalidate
      <3> QED BY <2>1, <3>1, <3>2, <3>3
    <2> QED BY <2>2, <2>3, <2>4 DEF MakesNone, NoNewAnchor
  <1>4. CASE RegisterSlot \/ UNCHANGED vars
    BY <1>4 DEF RegisterSlot, vars, MakesNone, NoNewAnchor, PlansOnlyEnd, Pending
  <1>5. CASE Reset
    <2>1. \A s \in SlotIds : NoNewAnchor(s)
      <3> TAKE s \in SlotIds
      <3>1. CASE s \in Registered
        BY <1>5, <3>1, NewSlotNoNew DEF Reset
      <3>2. CASE s \notin Registered
        BY <1>5, <3>2 DEF Reset, NoNewAnchor
      <3> QED BY <3>1, <3>2
    <2> QED BY <1>5, <2>1 DEF Reset, MakesNone, PlansOnlyEnd, Pending
  <1> QED BY <1>1, <1>2, <1>3, <1>4, <1>5 DEF Next

(* With any number of plans: anchors hold tokens, plans ask for some, and   *)
(* protected anchors are not written.                                       *)
ProtectedInv ==
    /\ AnchorsFull /\ ProtectedAnchorUntouched
    /\ \A p \in Pending : plans[p].tokens # <<>>

LEMMA ProtectedStep ==
    ASSUME IInv, UnregisteredEmpty, ProtectedInv, [Next]_vars
    PROVE  ProtectedInv'
  <1> USE DEF ProtectedInv
  <1>1. ASSUME NEW p \in PlanIds, NEW r \in Requests, Grants(p, r) PROVE ProtectedInv'
    <2>1. AnchorsFull'
      BY <1>1 DEF Grants, Sparing, OnlyLeases, AnchorsFull, AllAnchors
    <2>2. ProtectedAnchorUntouched'
      BY <1>1 DEF Grants, Sparing, OnlyLeases, ProtectedAnchorUntouched
    <2>3. r.tokens # <<>>
      BY RequestAssumption DEF Requests
    <2> QED BY <1>1, <2>1, <2>2, <2>3 DEF Grants, Sparing, Pending
  <1>2. ASSUME NEW p \in PlanIds, NEW r \in Requests, Reuses(p, r) PROVE ProtectedInv'
    <2>1. r.tokens # <<>>
      BY RequestAssumption DEF Requests
    <2> QED BY <1>2, <2>1
            DEF Reuses, Pending, AnchorsFull, AllAnchors, ProtectedAnchorUntouched
  <1>3. ASSUME NEW p \in PlanIds, Makes(p) PROVE ProtectedInv'
    <2>1. \A q \in Pending' : plans'[q].tokens # <<>>
      BY <1>3 DEF Makes, PlansOnlyEnd
    <2>2. AnchorsFull'
      BY <1>3 DEF Makes, NoNewAnchor, AnchorsFull, AllAnchors
    <2>3. ProtectedAnchorUntouched'
      BY <1>3 DEF Makes, NoNewAnchor, ProtectedAnchorUntouched
    <2> QED BY <2>1, <2>2, <2>3
  <1>4. CASE MakesNone
    <2>1. \A q \in Pending' : plans'[q].tokens # <<>>
      BY <1>4 DEF MakesNone, PlansOnlyEnd
    <2>2. AnchorsFull'
      BY <1>4 DEF MakesNone, NoNewAnchor, AnchorsFull, AllAnchors
    <2>3. ProtectedAnchorUntouched'
      BY <1>4 DEF MakesNone, NoNewAnchor, ProtectedAnchorUntouched
    <2> QED BY <2>1, <2>2, <2>3
  <1> QED BY <1>1, <1>2, <1>3, <1>4, AnchorSteps

LEMMA ProtectedCorrect == Spec => []ProtectedInv
  <1>1. Init => ProtectedInv
    BY DEF Init, ProtectedInv, AnchorsFull, AllAnchors, ProtectedAnchorUntouched,
           Pending, NewSlot
  <1>2. IInv /\ UnregisteredEmpty /\ ProtectedInv /\ [Next]_vars => ProtectedInv'
    BY ProtectedStep
  <1> QED BY <1>1, <1>2, IInvCorrect, UnregisteredCorrect, PTL DEF Spec

(* However many plans are in flight, and whenever an anchor is protected,   *)
(* no plan may write it then.                                               *)
THEOREM ProtectedAnchorsSafe == Spec => []ProtectedAnchorUntouched
  <1>1. ProtectedInv => ProtectedAnchorUntouched
    BY DEF ProtectedInv
  <1> QED BY <1>1, ProtectedCorrect, PTL

(* One plan at a time: the limit and the uniqueness of anchors.             *)
OnePlan == \A p, q \in PlanIds : p = q

LimitInv ==
    /\ AnchorLimit /\ NoDuplicateAnchors
    /\ \A p \in Pending : RoomPlanned(p)

LEMMA FewerAnchors ==
    ASSUME NEW S \in SUBSET SlotIds, NEW T \in SUBSET S
    PROVE  Cardinality(T) <= Cardinality(S) /\ Cardinality(T) \in Nat
           /\ Cardinality(S) \in Nat
  BY AnchorsFinite, FS_Subset

LEMMA LimitStep ==
    ASSUME IInv, UnregisteredEmpty, ProtectedInv, LimitInv, OnePlan, [Next]_vars
    PROVE  LimitInv'
  <1>0. AnchorsFull /\ TypeOK /\ MaxAnchors \in Int
    BY ConfigAssumption DEF ProtectedInv, IInv
  <1>1. ASSUME NEW p \in PlanIds, NEW r \in Requests, Grants(p, r) PROVE LimitInv'
    <2>1. AllAnchors' = AllAnchors
      BY <1>1 DEF Grants, Sparing, OnlyLeases, AllAnchors
    <2>2. AnchorLimit' /\ NoDuplicateAnchors'
      <3>1. AnchorLimit'
        BY <2>1 DEF AnchorLimit, AllAnchors, LimitInv
      <3>2. \A s \in SlotIds : /\ slots'[s].namespace = slots[s].namespace
                               /\ slots'[s].tokens = slots[s].tokens
                               /\ slots'[s].state = slots[s].state
        BY <1>1 DEF Grants, Sparing, OnlyLeases
      <3>3. NoDuplicateAnchors'
        BY <3>2 DEF NoDuplicateAnchors, LimitInv
      <3> QED BY <3>1, <3>3
    <2>3. ASSUME NEW q \in Pending' PROVE RoomPlanned(q)'
      <3>1. q = p
        BY DEF OnePlan, Pending
      <3>2. SUFFICES ASSUME plans'[p].resultState = "Anchor"
                     PROVE  /\ Cardinality(AllAnchors' \ {plans'[p].target}) < MaxAnchors
                            /\ \A s \in AllAnchors' :
                                  \/ slots'[s].namespace # plans'[p].namespace
                                  \/ slots'[s].tokens # plans'[p].tokens
        BY <3>1 DEF RoomPlanned
      <3>3. r.resultState = "Anchor" /\ plans'[p].namespace = r.namespace
            /\ plans'[p].tokens = r.tokens
        BY <1>1, <3>2 DEF Grants, Sparing
      <3>4. Cardinality(AllAnchors \ {plans'[p].target}) < MaxAnchors
        BY <1>1, <3>3 DEF Grants, Sparing, LimitInv
      <3>5. \A s \in SlotIds : slots[s].writer = NoPlan
        <4> TAKE s \in SlotIds
        <4>1. slots[s].writer \in PlanIds \cup {NoPlan}
          BY SlotType DEF IInv, Slot
        <4>2. \A o \in PlanIds : o \notin Pending
          BY <1>1 DEF Grants, OnePlan, Pending
        <4> QED BY <4>1, <4>2 DEF IInv, LeaseAccounting
      <3>6. \A s \in AllAnchors : \/ slots[s].namespace # r.namespace
                                  \/ slots[s].tokens # r.tokens
        BY <1>0, <1>1, <3>3, <3>5, AnchorsRegistered DEF Grants, ExistingAnchors, AllAnchors
      <3>7. \A s \in AllAnchors : /\ slots'[s].namespace = slots[s].namespace
                                  /\ slots'[s].tokens = slots[s].tokens
        BY <1>1 DEF Grants, Sparing, OnlyLeases, AllAnchors
      <3> QED BY <2>1, <3>3, <3>4, <3>6, <3>7
    <2> QED BY <2>2, <2>3 DEF LimitInv
  <1>2. ASSUME NEW p \in PlanIds, NEW r \in Requests, Reuses(p, r) PROVE LimitInv'
    <2>1. AnchorLimit' /\ NoDuplicateAnchors'
      BY <1>2 DEF Reuses, AnchorLimit, NoDuplicateAnchors, LimitInv
    <2>2. \A q \in Pending' : RoomPlanned(q)'
      BY <1>2 DEF Reuses, OnePlan, Pending, RoomPlanned
    <2> QED BY <2>1, <2>2 DEF LimitInv
  <1>3. ASSUME NEW p \in PlanIds, Makes(p) PROVE LimitInv'
    <2> DEFINE t == plans[p].target
               rest == AllAnchors \ {t}
    <2>1. Pending' = {}
      BY <1>3 DEF Makes, OnePlan, Pending
    <2>2. /\ Cardinality(rest) < MaxAnchors
          /\ \A s \in AllAnchors : \/ slots[s].namespace # plans[p].namespace
                                   \/ slots[s].tokens # plans[p].tokens
      BY <1>3 DEF Makes, LimitInv, RoomPlanned
    <2>3. \A s \in AllAnchors' : s # t =>
            /\ s \in AllAnchors
            /\ slots'[s].namespace = slots[s].namespace
            /\ slots'[s].tokens = slots[s].tokens
      BY <1>3 DEF Makes, NoNewAnchor, AllAnchors
    <2>4. AnchorLimit'
      <3>1. rest \in SUBSET SlotIds /\ t \in SlotIds /\ t \notin rest
        BY <1>3 DEF AllAnchors, Makes
      <3>2. AllAnchors' \subseteq rest \cup {t}
        BY <2>3
      <3>3. Cardinality(rest \cup {t}) = Cardinality(rest) + 1
        BY <3>1, AnchorsFinite, FS_AddElement
      <3>4. Cardinality(AllAnchors') <= Cardinality(rest \cup {t})
            /\ Cardinality(AllAnchors') \in Nat
        BY <3>1, <3>2, FewerAnchors
      <3>5. Cardinality(rest) \in Nat
        BY <3>1, AnchorsFinite
      <3> DEFINE m == Cardinality(AllAnchors')
                 k == Cardinality(rest)
      <3>6. m <= k + 1 /\ k < MaxAnchors /\ m \in Nat /\ k \in Nat
        BY <2>2, <3>3, <3>4, <3>5
      <3>7. m <= MaxAnchors
        <4> HIDE DEF m, k
        <4> QED BY <1>0, <3>6
      <3> QED BY <3>7 DEF AnchorLimit, AllAnchors
    <2>5. NoDuplicateAnchors'
      <3>1. slots'[t].namespace = plans[p].namespace /\ slots'[t].tokens = plans[p].tokens
        BY <1>3 DEF Makes
      <3>2. \A s, o \in AllAnchors' : s # o =>
              <<slots'[s].namespace, slots'[s].tokens>>
                 # <<slots'[o].namespace, slots'[o].tokens>>
        BY <2>2, <2>3, <3>1 DEF LimitInv, NoDuplicateAnchors, AllAnchors
      <3> QED BY <3>2 DEF NoDuplicateAnchors, AllAnchors
    <2> QED BY <2>1, <2>4, <2>5 DEF LimitInv
  <1>4. CASE MakesNone
    <2>1. \A s \in AllAnchors' : /\ s \in AllAnchors
                                 /\ slots'[s].namespace = slots[s].namespace
                                 /\ slots'[s].tokens = slots[s].tokens
      BY <1>4 DEF MakesNone, NoNewAnchor, AllAnchors
    <2>2. AllAnchors \in SUBSET SlotIds /\ AllAnchors' \subseteq AllAnchors
      BY <2>1 DEF AllAnchors
    <2>3. AnchorLimit'
      <3>1. Cardinality(AllAnchors) <= MaxAnchors
        BY DEF LimitInv, AnchorLimit, AllAnchors
      <3> DEFINE m == Cardinality(AllAnchors')
                 k == Cardinality(AllAnchors)
      <3>2. m <= k /\ k <= MaxAnchors /\ m \in Nat /\ k \in Nat
        BY <2>2, <3>1, FewerAnchors
      <3>3. m <= MaxAnchors
        <4> HIDE DEF m, k
        <4> QED BY <1>0, <3>2
      <3> QED BY <3>3 DEF AnchorLimit, AllAnchors
    <2>4. NoDuplicateAnchors'
      <3>1. \A s, o \in AllAnchors' : s # o =>
              <<slots'[s].namespace, slots'[s].tokens>>
                 # <<slots'[o].namespace, slots'[o].tokens>>
        BY <2>1 DEF LimitInv, NoDuplicateAnchors, AllAnchors
      <3> QED BY <3>1 DEF NoDuplicateAnchors, AllAnchors
    <2>5. ASSUME NEW q \in Pending' PROVE RoomPlanned(q)'
      <3>1. RoomPlanned(q) /\ plans'[q] = plans[q]
        BY <1>4, <2>5 DEF MakesNone, PlansOnlyEnd, LimitInv
      <3> DEFINE m == Cardinality(AllAnchors' \ {plans[q].target})
                 k == Cardinality(AllAnchors \ {plans[q].target})
      <3>2. m <= k /\ m \in Nat /\ k \in Nat
        <4>1. /\ AllAnchors \ {plans[q].target} \in SUBSET SlotIds
              /\ AllAnchors' \ {plans[q].target} \subseteq AllAnchors \ {plans[q].target}
          BY <2>2
        <4> QED BY <4>1, FewerAnchors
      <3>3. k < MaxAnchors => m < MaxAnchors
        <4> HIDE DEF m, k
        <4> QED BY <1>0, <3>2
      <3> QED BY <2>1, <3>1, <3>3 DEF RoomPlanned
    <2> QED BY <2>3, <2>4, <2>5 DEF LimitInv
  <1> QED BY <1>0, <1>1, <1>2, <1>3, <1>4, AnchorSteps

(* For callers that end a plan before they ask for the next: never more     *)
(* anchors than configured, never one twice, none taken that is protected.  *)
THEOREM AnchorsStaySound ==
    ASSUME OnePlan
    PROVE  Spec => []AnchorsSound
  <1>1. Init => LimitInv
    <2> SUFFICES ASSUME Init PROVE LimitInv
      OBVIOUS
    <2>1. {s \in SlotIds : slots[s].state = "Anchor"} = {}
      BY DEF Init, NewSlot
    <2>2. Cardinality({}) = 0 /\ MaxAnchors \in Nat
      BY FS_EmptySet, ConfigAssumption
    <2>3. AnchorLimit
      BY <2>1, <2>2 DEF AnchorLimit
    <2>4. NoDuplicateAnchors
      BY <2>1 DEF NoDuplicateAnchors
    <2> QED BY <2>3, <2>4 DEF Init, LimitInv, Pending
  <1>2. IInv /\ UnregisteredEmpty /\ ProtectedInv /\ LimitInv /\ [Next]_vars => LimitInv'
    BY LimitStep
  <1>3. ProtectedInv /\ LimitInv => AnchorsSound
    BY DEF ProtectedInv, LimitInv, AnchorsSound
  <1> QED BY <1>1, <1>2, <1>3, IInvCorrect, UnregisteredCorrect, ProtectedCorrect, PTL
          DEF Spec

-----------------------------------------------------------------------------
(* The pool.  What plan must find while a slot is spare: a best donor, a    *)
(* target, and victims; and the target is idle, since a slot that is read   *)
(* holds tokens.                                                            *)

(* Of finite sets one contains no other.                                    *)
LEMMA MinimalSet ==
    ASSUME NEW F, F # {}, \A A \in F : IsFiniteSet(A)
    PROVE  \E A \in F : \A B \in F : B \subseteq A => B = A
  <1> DEFINE S == UNION F
  <1>1. F \subseteq FiniteSubsetsOf(S)
    BY DEF FiniteSubsetsOf
  <1> HIDE DEF S
  <1>2. PICK A \in F : \A B \in F : ~ (<<B, A>> \in StrictSubsetOrdering(S))
    BY <1>1, FS_StrictSubsetOrderingWellFounded, WFMin
  <1>3. ASSUME NEW B \in F, B \subseteq A, B # A
        PROVE  <<B, A>> \in StrictSubsetOrdering(S)
    BY <1>1, <1>3 DEF StrictSubsetOrdering, FiniteSubsetsOf
  <1>4. ASSUME NEW B \in F, B \subseteq A PROVE B = A
    BY <1>2, <1>3, <1>4
  <1> QED BY <1>4

(* A set of natural numbers has a least one.                                *)
LEMMA LeastNat ==
    ASSUME NEW T \in SUBSET Nat, T # {}
    PROVE  \E n \in T : \A k \in T : n <= k
  <1> DEFINE F == {0 .. n : n \in T}
  <1>1. F # {}
    OBVIOUS
  <1>2. ASSUME NEW n \in T PROVE IsFiniteSet(0 .. n)
    BY FS_Interval
  <1>3. \A A \in F : IsFiniteSet(A)
    BY <1>2
  <1> HIDE DEF F
  <1>4. PICK A \in F : \A B \in F : B \subseteq A => B = A
    BY <1>1, <1>3, MinimalSet
  <1> USE DEF F
  <1>5. PICK n \in T : A = 0 .. n
    BY <1>4
  <1>6. ASSUME NEW k \in T, k < n PROVE FALSE
    <2>1. 0 .. k \in F /\ 0 .. k \subseteq 0 .. n
      BY <1>6
    <2>2. 0 .. k = 0 .. n
      BY <2>1, <1>4, <1>5
    <2> QED BY <2>2, <1>6
  <1> QED BY <1>6

(* A walk through finitely many candidates stops.                           *)
LEMMA WalksExist ==
    ASSUME NEW candidates, IsFiniteSet(candidates), NEW projected, NEW limit
    PROVE  Walks(candidates, projected, limit) # {}
  <1> DEFINE F == {v \in SUBSET candidates :
                      v = candidates \/ projected - Bytes(v) <= limit}
  <1>1. candidates \in F /\ \A v \in F : IsFiniteSet(v)
    BY FS_Subset
  <1>2. PICK v \in F : \A w \in F : w \subseteq v => w = v
    <2> HIDE DEF F
    <2> QED BY <1>1, MinimalSet
  <1>3. ASSUME NEW last \in v PROVE ~(projected - Bytes(v \ {last}) <= limit)
    <2>1. v \ {last} \in SUBSET candidates /\ v \ {last} \subseteq v /\ v \ {last} # v
      BY <1>2
    <2>2. v \ {last} \notin F
      BY <1>2, <2>1
    <2> QED BY <2>1, <2>2
  <1>4. v # {} => \E last \in v : ~(projected - Bytes(v \ {last}) <= limit)
    BY <1>3
  <1> QED BY <1>2, <1>4 DEF Walks

(* A candidate that no other ranks above.  The keys that are compared in    *)
(* turn make one number.                                                    *)
Score(r, s, n) ==
    (IF r.sideRequest /\ slots[s].state = "Anchor" THEN 2 * Len(r.tokens) + 2 ELSE 0)
        + 2 * n + (IF SessionAffine(r, s) THEN 1 ELSE 0)

LEMMA ScoreRanks ==
    ASSUME NEW r \in Requests, NEW s, NEW n \in 0 .. Len(r.tokens),
           NEW o, NEW m \in 0 .. Len(r.tokens)
    PROVE  /\ Score(r, s, n) \in 0 .. 4 * Len(r.tokens) + 3
           /\ DonorRanksAbove(r, o, m, s, n) => Score(r, o, m) > Score(r, s, n)
  <1> DEFINE L == Len(r.tokens)
             side(x) == IF r.sideRequest /\ slots[x].state = "Anchor" THEN 1 ELSE 0
             own(x) == IF SessionAffine(r, x) THEN 1 ELSE 0
  <1>1. L \in Nat
    BY RequestAssumption DEF Requests
  <1>2. side(s) \in {0, 1} /\ side(o) \in {0, 1} /\ own(s) \in {0, 1} /\ own(o) \in {0, 1}
    OBVIOUS
  <1>3. ASSUME NEW x
        PROVE  \A k : Score(r, x, k) =
                        (IF side(x) = 1 THEN 2 * L + 2 ELSE 0) + 2 * k + own(x)
    BY DEF Score
  <1>4. DonorRanksAbove(r, o, m, s, n) <=>
           \/ side(o) > side(s)
           \/ side(o) = side(s) /\ m > n
           \/ side(o) = side(s) /\ m = n /\ own(o) > own(s)
    BY DEF DonorRanksAbove
  <1> HIDE DEF L, side, own
  <1> QED
    <2>1. n \in 0 .. L /\ m \in 0 .. L
      BY DEF L
    <2>2. Score(r, s, n) \in 0 .. 4 * L + 3
      BY <1>1, <1>2, <1>3, <2>1
    <2>3. DonorRanksAbove(r, o, m, s, n) => Score(r, o, m) > Score(r, s, n)
      BY <1>1, <1>2, <1>3, <1>4, <2>1
    <2> QED BY <2>2, <2>3 DEF L

LEMMA DonorsExist ==
    ASSUME NEW r \in Requests, HasDonor(r)
    PROVE  \E d \in Registered, n \in 0 .. Len(r.tokens) : Donor(r, d, n)
  <1> DEFINE L == Len(r.tokens)
             Lack(s, n) == 4 * L + 3 - Score(r, s, n)
             Found == {x \in Registered \X (0 .. L) : DonorCandidate(r, x[1], x[2])}
             T == {Lack(x[1], x[2]) : x \in Found}
  <1>1. L \in Nat
    BY RequestAssumption DEF Requests
  <1>2. \A s \in Registered, n \in 0 .. L : Score(r, s, n) \in 0 .. 4 * L + 3
    BY ScoreRanks
  <1>3. \A s \in Registered, n \in 0 .. L : Lack(s, n) \in Nat
    <2> TAKE s \in Registered, n \in 0 .. L
    <2>1. Score(r, s, n) \in 0 .. 4 * L + 3
      BY <1>2
    <2> HIDE DEF L
    <2> QED BY <1>1, <2>1
  <1>4. T \in SUBSET Nat
    <2> HIDE DEF Lack
    <2> QED BY <1>3
  <1>5. T # {}
    <2>1. PICK s \in Registered, n \in 0 .. L : DonorCandidate(r, s, n)
      BY DEF HasDonor
    <2>2. <<s, n>> \in Found
      BY <2>1
    <2> QED BY <2>2
  <1>6. PICK k \in T : \A j \in T : k <= j
    <2> HIDE DEF T
    <2> QED BY <1>4, <1>5, LeastNat
  <1>7. PICK x \in Found : k = Lack(x[1], x[2])
    BY <1>6
  <1>8. PICK d \in Registered, n \in 0 .. L :
            DonorCandidate(r, d, n) /\ k = Lack(d, n)
    BY <1>7
  <1>9. ASSUME NEW o \in Registered, NEW m \in 0 .. L, DonorCandidate(r, o, m)
        PROVE  ~DonorRanksAbove(r, o, m, d, n)
    <2>1. <<o, m>> \in Found
      BY <1>9
    <2>2. Lack(o, m) \in T
      BY <2>1
    <2>3. Lack(d, n) <= Lack(o, m)
      BY <1>6, <1>8, <2>2
    <2>4. /\ Score(r, d, n) \in 0 .. 4 * L + 3 /\ Score(r, o, m) \in 0 .. 4 * L + 3
          /\ DonorRanksAbove(r, o, m, d, n) => Score(r, o, m) > Score(r, d, n)
      BY ScoreRanks
    <2>5. ~(Score(r, o, m) > Score(r, d, n))
      <3> HIDE DEF L
      <3> QED BY <1>1, <2>3, <2>4
    <2> QED BY <2>4, <2>5
  <1> QED BY <1>8, <1>9 DEF Donor

(* Victims of a session exist and are idle.                                 *)
LEMMA EvictionsExist ==
    ASSUME TypeOK, NEW r, r.resultState # "Anchor", NEW operation, NEW t, NEW d
    PROVE  Evictions(r, operation, t, d) # {}
  <1>1. IsFiniteSet(Evictable(t, d))
    <2>1. Registered \in SUBSET SlotIds
      BY RegisteredType
    <2> QED BY <2>1, AnchorsFinite DEF Evictable
  <1>2. PressureVictims(r, t, d) # {}
    <2> DEFINE projected == Bytes(Registered \ {t}) + ProjectedBytes(r)
    <2>1. Walks(Evictable(t, d), projected, LowWatermark) # {}
      BY <1>1, WalksExist
    <2> HIDE DEF projected
    <2>2. {v \in Walks(Evictable(t, d), projected, LowWatermark) :
              r.resultState = "Anchor" => projected - Bytes(v) <= LowWatermark} # {}
      BY <2>1
    <2> USE DEF projected
    <2> QED BY <2>2 DEF PressureVictims
  <1>3. CheckpointVictims(r, t, d) = {{}}
    BY DEF CheckpointVictims
  <1>4. PICK pressure \in PressureVictims(r, t, d) : TRUE
    BY <1>2
  <1> DEFINE v == pressure \cup {} \cup {s \in {t} : operation # "Continue" /\ ~IsEmpty(slots[s])}
  <1>5. v \in Evictions(r, operation, t, d)
    BY <1>3, <1>4 DEF Evictions
  <1> QED BY <1>5

LEMMA VictimsIdle ==
    ASSUME NEW r, NEW operation, NEW t, NEW d, NEW v \in Evictions(r, operation, t, d),
           NEW s \in v \ {t}
    PROVE  Idle(s)
  <1>1. PICK pressure \in PressureVictims(r, t, d),
             checkpoints \in CheckpointVictims(r, t, d) :
             v = pressure \cup checkpoints \cup
                   {o \in {t} : operation # "Continue" /\ ~IsEmpty(slots[o])}
    BY DEF Evictions
  <1>2. pressure \subseteq Evictable(t, d)
    BY DEF PressureVictims, Walks
  <1>3. checkpoints \subseteq Evictable(t, d)
    BY DEF CheckpointVictims, Walks
  <1> QED BY <1>1, <1>2, <1>3 DEF Evictable

LEMMA IdleTargetGrants ==
    ASSUME TypeOK, NEW r, r.resultState # "Anchor", NEW operation, NEW t, NEW d, Idle(t)
    PROVE  AlwaysGrants(r, operation, t, d)
  BY EvictionsExist, VictimsIdle DEF AlwaysGrants

-----------------------------------------------------------------------------
(* An empty slot holds no tokens, and a slot that a plan reads does.        *)
BlankHoldNothing ==
    \A s \in SlotIds : slots[s].state = "Empty" => slots[s].tokens = <<>>

ReadHold == \A p \in Pending : \A s \in ReadSet(plans[p]) : slots[s].tokens # <<>>

(* A step keeps what a slot holds, clears it, or gives it a state.          *)
Recorded(s) ==
    \/ slots'[s].state = slots[s].state /\ slots'[s].tokens = slots[s].tokens
    \/ slots'[s].tokens = <<>>
    \/ slots'[s].state # "Empty"

LEMMA StepRecords ==
    ASSUME IInv, UnregisteredEmpty, AnchorsFull, [Next]_vars
    PROVE  \A s \in SlotIds : Recorded(s)
  <1>0. TypeOK /\ slots \in [SlotIds -> Slot] /\ \A s \in SlotIds : slots[s] \in Slot
    BY SlotType DEF IInv, TypeOK
  <1>1. CASE PlanStep
    <2>1. PICK p \in PlanIds, r \in Requests :
              PlanNoop(p, r) \/ PlanContinue(p, r) \/ PlanCopy(p, r)
                \/ PlanFresh(p, r)
      BY <1>1 DEF PlanStep
    <2>2. CASE PlanNoop(p, r)
      BY <2>2 DEF PlanNoop, Recorded
    <2>3. CASE PlanContinue(p, r) \/ PlanCopy(p, r) \/ PlanFresh(p, r)
      BY <2>3, PlanSpares DEF Sparing, OnlyLeases, Recorded
    <2> QED BY <2>1, <2>2, <2>3
  <1>2. CASE CommitStep \/ AbortStep
    <2>1. PICK p \in PlanIds :
              \/ CommitStale(p) \/ CommitRejected(p) \/ CommitNoop(p) \/ Abort(p)
              \/ \E n, bytes : Commit(p, n, bytes)
      BY <1>2 DEF CommitStep, AbortStep
    <2>2. CASE FailClosed(p)
      BY <1>0, <2>2, ReleasedContent DEF FailClosed, NewSlot, Recorded
    <2>3. CASE slots' = [s \in SlotIds |-> Released(p, s)]
      BY <1>0, <2>3, ReleasedContent DEF Recorded
    <2>4. CASE CommitNoop(p)
      BY <2>4 DEF CommitNoop, Recorded
    <2>5. ASSUME NEW n, NEW bytes, Commit(p, n, bytes), NEW s \in SlotIds
          PROVE  Recorded(s)
      <3>1. plans[p].resultState # "Empty"
        BY <1>0, <2>5 DEF Commit, TypeOK, Pending, PlanRecord, Plan
      <3>2. CASE s = plans[p].target
        BY <2>5, <3>1, <3>2 DEF Commit, Recorded
      <3>3. CASE s # plans[p].target
        BY <1>0, <2>5, <3>3, ReleasedContent DEF Commit, NewSlot, Recorded
      <3> QED BY <3>2, <3>3
    <2> QED BY <2>1, <2>2, <2>3, <2>4, <2>5 DEF CommitStale, CommitRejected, Abort
  <1>3. CASE BackendStep
    <2>1. PICK s \in SlotIds :
              \/ \E state \in LiveStates : \E busy, bytes, t : Publish(s, t, state, busy, bytes)
              \/ \E b : SetBusy(s, b) \/ SetAnchorProtected(s, b)
              \/ Invalidate(s)
      BY <1>3 DEF BackendStep, Advance, Confirm
    <2>2. \A o \in SlotIds \ {s} : slots'[o] = slots[o]
      BY <1>0, <2>1 DEF Publish, SetBusy, SetAnchorProtected, Invalidate
    <2>3. ASSUME NEW state \in LiveStates, NEW busy, NEW bytes, NEW t,
                 Publish(s, t, state, busy, bytes)
          PROVE  Recorded(s)
      <3>1. slots'[s].state = state
        BY <1>0, <2>3 DEF Publish, Slot
      <3> QED BY <3>1, RequestAssumption DEF Recorded
    <2>4. ASSUME NEW b, SetBusy(s, b) \/ SetAnchorProtected(s, b)
          PROVE  Recorded(s)
      <3>1. slots'[s].tokens = slots[s].tokens /\ slots'[s].state = slots[s].state
        BY <1>0, <2>4 DEF SetBusy, SetAnchorProtected, Slot
      <3> QED BY <3>1 DEF Recorded
    <2>5. CASE Invalidate(s)
      BY <1>0, <2>5 DEF Invalidate, NewSlot, Recorded
    <2> QED BY <2>1, <2>2, <2>3, <2>4, <2>5 DEF Recorded
  <1>4. CASE RegisterSlot \/ UNCHANGED vars
    BY <1>4 DEF RegisterSlot, vars, Recorded
  <1>5. CASE Reset
    BY <1>5 DEF Reset, NewSlot, Recorded
  <1> QED BY <1>1, <1>2, <1>3, <1>4, <1>5 DEF Next

LEMMA PlanReadsHeld ==
    ASSUME IInv, BlankHoldNothing, NEW p \in PlanIds, NEW r \in Requests,
           PlanNoop(p, r) \/ PlanContinue(p, r) \/ PlanCopy(p, r) \/ PlanFresh(p, r)
    PROVE  \A s \in ReadSet(plans'[p]) : slots[s].tokens # <<>>
  <1>0. DOMAIN plans = PlanIds
    BY DEF IInv, TypeOK
  <1>1. CASE PlanNoop(p, r)
    BY <1>0, <1>1 DEF PlanNoop, NewPlan, ReadSet
  <1>2. CASE PlanContinue(p, r)
    BY <1>0, <1>2 DEF PlanContinue, Grant, NewPlan, ReadSet
  <1>3. CASE PlanFresh(p, r)
    BY <1>0, <1>3 DEF PlanFresh, Grant, NewPlan, ReadSet
  <1>4. CASE PlanCopy(p, r)
    <2>1. PICK d \in Registered, n \in 0 .. Len(r.tokens) :
              Donor(r, d, n) /\ \E operation, t : Grant(p, r, operation, t, d, n)
      BY <1>4 DEF PlanCopy
    <2>2. slots[d].tokens # <<>>
      BY <2>1 DEF Donor, DonorCandidate, IsEmpty
    <2>3. plans'[p].donor = d
      BY <1>0, <2>1 DEF Grant, NewPlan
    <2> QED BY <2>2, <2>3 DEF ReadSet
  <1> QED BY <1>1, <1>2, <1>3, <1>4

LEMMA ReadHoldStep ==
    ASSUME IInv, IInv', BlankHoldNothing, ReadHold, [Next]_vars
    PROVE  ReadHold'
  <1> SUFFICES ASSUME NEW q \in Pending', NEW s \in ReadSet(plans'[q])
               PROVE  slots'[s].tokens # <<>>
    BY DEF ReadHold, ReadSet
  <1>0. s \in SlotIds
    <2>1. Registered' \subseteq SlotIds
      BY ConfigAssumption DEF IInv, TypeOK, Registered, SlotIds
    <2> QED BY <2>1 DEF IInv, PlanWellFormed, ReadSet
  <1>1. CASE PlanStep
    <2>1. PICK p \in PlanIds, r \in Requests :
              PlanNoop(p, r) \/ PlanContinue(p, r) \/ PlanCopy(p, r)
                \/ PlanFresh(p, r)
      BY <1>1 DEF PlanStep
    <2>2. GrantedTo(p)
      BY <2>1, PlanGrants
    <2>3. slots[s].tokens # <<>>
      BY <2>1, <2>2, PlanReadsHeld DEF GrantedTo, Pending, ReadHold
    <2> QED BY <1>0, <2>2, <2>3 DEF GrantedTo
  <1>2. ASSUME NEW p \in PlanIds, EndedBy(p) PROVE slots'[s].tokens # <<>>
    <2>1. q \in Pending /\ q # p /\ plans'[q] = plans[q] /\ p \in Pending
      BY <1>2 DEF EndedBy, Forget, Pending, IInv, TypeOK
    <2>2. slots[s].readLeases # 0
      BY <1>0, <2>1, ReaderCounted DEF Readers, IInv
    <2>3. s \notin WriteSet(plans[p])
      BY <1>0, <2>1, <2>2, NamesAssumption DEF IInv, LeaseAccounting, WriterExclusive
    <2> QED BY <1>0, <1>2, <2>1, <2>3 DEF EndedBy, ReadHold
  <1>3. ASSUME NEW o \in SlotIds, ChangedAlone(o) PROVE slots'[s].tokens # <<>>
    <2>1. q \in Pending /\ s \in ReadSet(plans[q])
      BY <1>3 DEF ChangedAlone, Pending
    <2>2. slots[s].readLeases # 0 /\ slots[s].tokens # <<>>
      BY <1>0, <2>1, ReaderCounted DEF Readers, IInv, ReadHold
    <2>3. slots[s].tokens \in Seq(Int) /\ slots'[s].tokens \in Seq(Int)
      BY <1>0 DEF IInv, TypeOK, Slot
    <2>4. slots'[s] = slots[s] \/ Len(slots[s].tokens) <= Len(slots'[s].tokens)
      BY <1>0, <1>3, <2>2 DEF ChangedAlone
    <2>5. Len(slots[s].tokens) > 0
      BY <2>2, <2>3
    <2> QED BY <2>2, <2>3, <2>4, <2>5
  <1>4. CASE RegisterSlot \/ UNCHANGED vars
    BY <1>4 DEF RegisterSlot, vars, Pending, ReadHold
  <1>5. CASE Reset
    BY <1>5 DEF Reset, Pending
  <1>6. CASE CommitStep \/ AbortStep
    <2>1. PICK p \in PlanIds :
              \/ CommitStale(p) \/ CommitRejected(p) \/ CommitNoop(p) \/ Abort(p)
              \/ \E n, bytes : Commit(p, n, bytes)
      BY <1>6 DEF CommitStep, AbortStep
    <2> QED BY <1>2, <2>1, PlanEnds
  <1>7. CASE BackendStep
    <2>1. PICK o \in SlotIds :
              \/ \E a \in Suffixes : \E state, busy, bytes :
                    Advance(o, a, state, busy, bytes)
              \/ \E t, state, busy, bytes : Confirm(o, t, state, busy, bytes)
              \/ \E b : SetBusy(o, b) \/ SetAnchorProtected(o, b)
              \/ Invalidate(o)
      BY <1>7 DEF BackendStep
    <2>2. TypeOK
      BY DEF IInv
    <2> QED BY <1>3, <2>1, <2>2, BackendChangesOne
  <1> QED BY <1>1, <1>4, <1>5, <1>6, <1>7 DEF Next

LEMMA HeldCorrect == Spec => [](BlankHoldNothing /\ ReadHold)
  <1>1. Init => BlankHoldNothing /\ ReadHold
    BY DEF Init, BlankHoldNothing, ReadHold, Pending, NewSlot
  <1>2. IInv /\ UnregisteredEmpty /\ ProtectedInv /\ BlankHoldNothing /\ [Next]_vars
          => BlankHoldNothing'
    BY StepRecords DEF ProtectedInv, BlankHoldNothing, Recorded
  <1>3. IInv /\ IInv' /\ BlankHoldNothing /\ ReadHold /\ [Next]_vars => ReadHold'
    BY ReadHoldStep
  <1> QED BY <1>1, <1>2, <1>3, IInvCorrect, UnregisteredCorrect, ProtectedCorrect, PTL
          DEF Spec

-----------------------------------------------------------------------------
(* Every target of a session is idle.                                       *)
LEMMA TargetsIdle ==
    ASSUME IInv, BlankHoldNothing, ReadHold, NEW r, NEW d, NEW t \in Targets(r, d)
    PROVE  Idle(t)
  <1>1. CASE t \in Takeable(r, d)
    BY <1>1 DEF Takeable
  <1>2. CASE t \in EmptyTargets(r)
    <2>1. t \in SlotIds
      BY <1>2, RegisteredType DEF EmptyTargets, IInv, TypeOK
    <2>2. slots[t].tokens = <<>>
      BY <1>2, <2>1 DEF EmptyTargets, IsEmpty, BlankHoldNothing
    <2>3. Readers(t) = {}
      BY <2>2 DEF Readers, ReadHold
    <2>4. slots[t].readLeases = 0
      BY <2>1, <2>3, FS_EmptySet DEF IInv, LeaseAccounting
    <2> QED BY <1>2, <2>4 DEF EmptyTargets, Idle, Unleased
  <1> QED BY <1>1, <1>2 DEF Targets, Lowest

(* While a slot is spare a session has a target.                            *)
LEMMA TargetsExist ==
    ASSUME TypeOK, NEW r, r.resultState # "Anchor",
           \A s \in Registered : Can(r, s, "WRITABLE"), NEW d, SpareSlot(d)
    PROVE  Targets(r, d) # {}
  <1>1. Takeable(r, d) # {}
    BY DEF SpareSlot, Takeable
  <1>2. CASE EmptyTargets(r) # {}
    <2>1. EmptyTargets(r) \in SUBSET Nat
      BY DEF EmptyTargets, Registered
    <2>2. Lowest(EmptyTargets(r)) # {}
      BY <1>2, <2>1, LeastNat DEF Lowest
    <2> QED BY <1>2, <2>2 DEF Targets
  <1>3. CASE EmptyTargets(r) = {}
    BY <1>1, <1>3 DEF Targets
  <1> QED BY <1>2, <1>3

LEMMA SessionsServed ==
    ASSUME IInv, BlankHoldNothing, ReadHold, NEW r \in Requests,
           r.resultState # "Anchor", \A s \in Registered : Can(r, s, "WRITABLE")
    PROVE  SessionServable(r)
  <1>0. TypeOK
    BY DEF IInv
  <1>1. ASSUME NEW operation, NEW d, SpareSlot(d) PROVE FindsTarget(r, operation, d)
    BY <1>0, <1>1, TargetsExist, TargetsIdle, IdleTargetGrants DEF FindsTarget
  <1>2. ASSUME NEW d \in Registered, NEW n, Donor(r, d, n), CanContinue(r, d, n),
               slots[d].readLeases = 0
        PROVE  AlwaysGrants(r, "Continue", d, d)
    <2>1. Idle(d)
      BY <1>2 DEF Donor, DonorCandidate, CanContinue, Idle, Unleased
    <2> QED BY <1>0, <2>1, IdleTargetGrants
  <1> QED BY <1>1, <1>2, DonorsExist DEF SessionServable

(* A session request never waits for anchors or for bytes: with any number  *)
(* of plans in flight, while a slot other than its donor is idle and        *)
(* unprotected, or its donor can be continued and nobody copies from it,    *)
(* the plan for it is granted, whatever donor, target and victims the       *)
(* ranking puts first.                                                      *)
THEOREM PoolStaysOpen == Spec => []PoolNeverDeadlocks
  <1>1. IInv /\ BlankHoldNothing /\ ReadHold => PoolNeverDeadlocks
    BY SessionsServed DEF PoolNeverDeadlocks
  <1> QED BY <1>1, IInvCorrect, HeldCorrect, PTL
=============================================================================
