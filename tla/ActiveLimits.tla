---------------------------- MODULE ActiveLimits ----------------------------
(* How many requests each resident worker may serve at once, as memory comes   *)
(* and goes: the rebalance of the registry (resident.ts, concurrency.ts), from *)
(* await to await, beside loads, crashes, unloads, a rotation and the          *)
(* telemetry of workers that say what they retain, but not that a new limit    *)
(* has taken effect.  Time passes in steps of the cooldown, 30 seconds.        *)
(* The registry lists its workers before it awaits the memory snapshot and     *)
(* asks the listed what they retain only after it.                             *)
EXTENDS Integers, FiniteSets, FiniteSetsExt, Functions

CONSTANTS
    Keys,                 \* of the models
    OsReserve,            \* in percent of the physical memory, as all sizes are
    Resident, Retained,   \* what a worker takes, and what it may retain besides
    Reserve,              \* what one active request takes
    Budget, LeastGrowth,  \* of what is retained
    Ceiling, FirstLimit,
    Wanted,               \* of a model: 8, or what its fixed mode asks for
    Tight,                \* models whose own policy has memory for one request only
    Levels,               \* of available memory
    MaxChanges            \* bound: what happens to the workers and the memory

ASSUME LimitsAssumption ==
    /\ IsFiniteSet(Keys) /\ "none" \notin Keys
    /\ {OsReserve, Resident, Budget, LeastGrowth, MaxChanges} \subseteq Nat
    /\ {Reserve, Ceiling, FirstLimit} \subseteq Nat \ {0}
    /\ Wanted \in [Keys -> Nat \ {0}] /\ Tight \subseteq Keys
    /\ Retained \subseteq Nat /\ 0 \in Retained /\ Levels \subseteq Nat

VARIABLES
    handle,     \* of a worker: "none", "down" (registered only) or "up"
    limit,      \* max_active of a worker that is up
    told,       \* the last telemetry of the launch
    growth,     \* recentRetainedGrowth
    adjusted,   \* lastAdjustments: "now", or "long" ago or never
    available,  \* memory
    pressure,   \* pressureState
    step,       \* of the rebalance
    resident,   \* the workers it has listed
    parting,    \* what one of those says that has been forgotten since, until its exit
    snapshot,   \* the memory that it has sampled
    plans, command,
    scheduled, timer,
    loading,    \* loads that hold the operation gate
    rotating,
    seen,       \* whether the rebalance has seen the last change
    unheeded,   \* whether there is a change that no rebalance has dealt with
    changes

workers == <<handle, limit, told>>
tuning == <<growth, adjusted>>
asking == <<scheduled, timer>>
listing == <<resident, parting, snapshot>>
limitVars == <<workers, tuning, available, pressure, step, listing, plans, command, asking,
               loading, rotating, seen, unheeded, changes>>

NoTelemetry == [max |-> 0, retained |-> 0]
NoGrowth == [bytes |-> 0, age |-> 2]
NoCall == [key |-> "none", max |-> 0]
NobodyParts == [m \in Keys |-> NoTelemetry]
Told == {m \in Keys : told[m] # NoTelemetry}
Known == {m \in Keys : handle[m] # "none"}

(* What the listed workers retain, by now. *)
Retains(m) == IF m \in resident THEN told[m] ELSE parting[m]
Listed == {m \in Keys : Retains(m) # NoTelemetry}
Said == [m \in Listed |-> Retains(m)]

LimitsInit ==
    /\ handle = [m \in Keys |-> "none"] /\ limit = [m \in Keys |-> 0]
    /\ told = [m \in Keys |-> NoTelemetry]
    /\ growth = [m \in Keys |-> NoGrowth] /\ adjusted = [m \in Keys |-> "long"]
    /\ available \in Levels /\ pressure = "normal"
    /\ step = "idle" /\ plans = {} /\ command = NoCall
    /\ resident = {} /\ parting = NobodyParts /\ snapshot = 0
    /\ scheduled = FALSE /\ timer = "none"
    /\ loading = {} /\ rotating = "no"
    /\ seen = FALSE /\ unheeded = FALSE /\ changes = 0

-----------------------------------------------------------------------------
(* classifyMemoryPressure *)
Classify(free, previous) ==
    IF free <= 8 THEN "critical"
    ELSE IF free <= 15 THEN "warning"
    ELSE IF previous = "critical" /\ free < 12 THEN "critical"
    ELSE IF previous # "normal" /\ free < 20 THEN "warning" ELSE "normal"

(* retainedGrowthReserve *)
GrowthReserve(t, g) ==
    LET remaining == Max({0, Budget - t.retained})
        recent == IF g.age < 2 THEN g.bytes ELSE 0
    IN  Min({remaining, Max({recent, LeastGrowth, remaining \div 10})})

PressureReserve(p) == CASE p = "critical" -> 10 [] p = "warning" -> 5 [] OTHER -> 0

(* The active pool: what is left for requests of workers that say `says`. *)
Taken(t, g) == Max({Resident + t.retained, t.retained}) + GrowthReserve(t, g)
TakenByAll(says) == SumFunction([m \in DOMAIN says |-> Taken(says[m], growth[m])])
ActivePool(p, says) ==
    Max({0, 100 - OsReserve - PressureReserve(p) - TakenByAll(says)})

(* selectGlobalActiveLimits: of n workers, each has its share of the pool. *)
SafeCeiling(pool, n) == Max({1, Min({Ceiling, (pool \div n) \div Reserve})})
Selected(pool, n, m) == Min({Wanted[m], SafeCeiling(pool, n)})
PlansFor(pool, says) ==
    {[key |-> m, selected |-> Selected(pool, Cardinality(DOMAIN says), m),
      previous |-> says[m].max] : m \in DOMAIN says}

(* shouldAdjustActiveLimit *)
ShouldAdjust(p) ==
    /\ p.selected # p.previous
    /\ \/ pressure = "critical" /\ p.selected < p.previous
       \/ /\ p.selected - p.previous \notin {-1, 1}
          /\ adjusted[p.key] # "now"

-----------------------------------------------------------------------------
Counted == changes < MaxChanges /\ changes' = changes + 1
News == unheeded' = TRUE /\ seen' = FALSE

(* scheduleRebalance *)
Schedules == scheduled' = (scheduled \/ (step = "idle" /\ Known # {}))

(* getOrCreate of a model that has no handle. *)
Register(m) ==
    /\ handle[m] = "none"
    /\ handle' = [handle EXCEPT ![m] = "down"]
    /\ timer' = "running"
    /\ UNCHANGED <<limit, told, tuning, available, pressure, step, listing, plans, command,
                   scheduled, loading, rotating, seen, unheeded, changes>>

(* loadHandle: only one that finds no exclusive operation passes the gate. *)
GateOpen == step = "idle" /\ rotating = "no"
LoadBegins(m) ==
    /\ handle[m] = "down" /\ m \notin loading /\ GateOpen /\ Counted
    /\ loading' = loading \cup {m}
    /\ UNCHANGED <<workers, tuning, available, pressure, step, listing, plans, command, asking,
                   rotating, seen, unheeded>>

Launched(m) ==
    /\ handle' = [handle EXCEPT ![m] = "up"]
    /\ limit' = [limit EXCEPT ![m] = FirstLimit]
    /\ told' = [told EXCEPT ![m] = NoTelemetry]

LoadEnds(m) ==
    /\ m \in loading /\ loading' = loading \ {m}
    /\ \/ handle[m] = "down" /\ Launched(m) /\ News
       \/ UNCHANGED <<workers, seen, unheeded>>
    /\ UNCHANGED <<tuning, available, pressure, step, listing, plans, command, asking, rotating,
                   changes>>

(* handleTelemetry: with a request a worker says what its limit is and what it *)
(* retains; the levels of that are far apart enough to be material.            *)
Grown(m, bytes) ==
    LET recent == IF growth[m].age < 2 THEN growth[m].bytes ELSE 0
    IN  IF m \in Told /\ bytes > told[m].retained
        THEN [bytes |-> Max({bytes - told[m].retained, recent}), age |-> 0]
        ELSE growth[m]
Telemetry(m, bytes) ==
    /\ handle[m] = "up" /\ Counted
    /\ told' = [told EXCEPT ![m] = [max |-> limit[m], retained |-> bytes]]
    /\ growth' = [growth EXCEPT ![m] = Grown(m, bytes)]
    /\ IF m \notin Told \/ bytes # told[m].retained THEN Schedules ELSE UNCHANGED scheduled
    /\ News
    /\ UNCHANGED <<handle, limit, adjusted, available, pressure, step, listing, plans, command,
                   timer, loading, rotating>>

(* handleExit; a call to the worker fails with it. *)
HandleExit(m) ==
    /\ handle[m] = "up" /\ Counted
    /\ handle' = [handle EXCEPT ![m] = "down"] /\ limit' = [limit EXCEPT ![m] = 0]
    /\ told' = [told EXCEPT ![m] = NoTelemetry]
    /\ News
    /\ UNCHANGED <<tuning, available, pressure, step, listing, plans, command, asking, loading,
                   rotating>>

(* unload, shutdownKey; a listed worker that is forgotten goes on to say what it *)
(* last said, until it has exited.                                              *)
Forgotten(models) ==
    /\ handle' = [m \in Keys |-> IF m \in models THEN "none" ELSE handle[m]]
    /\ limit' = [m \in Keys |-> IF m \in models THEN 0 ELSE limit[m]]
    /\ told' = [m \in Keys |-> IF m \in models THEN NoTelemetry ELSE told[m]]
    /\ growth' = [m \in Keys |-> IF m \in models THEN NoGrowth ELSE growth[m]]
    /\ adjusted' = [m \in Keys |-> IF m \in models THEN "long" ELSE adjusted[m]]
    /\ resident' = resident \ models
    /\ parting' = [m \in Keys |-> IF m \in models \cap resident THEN told[m] ELSE parting[m]]
    /\ UNCHANGED snapshot
ShutdownKey(m) ==
    /\ handle[m] # "none" /\ m \notin loading /\ Counted
    /\ Forgotten({m}) /\ News
    /\ scheduled' = (scheduled \/ (step = "idle" /\ Known # {m}))
    /\ UNCHANGED <<available, pressure, step, plans, command, timer, loading, rotating>>
Parted(m) ==
    /\ parting[m] # NoTelemetry /\ parting' = [parting EXCEPT ![m] = NoTelemetry]
    /\ UNCHANGED <<workers, tuning, available, pressure, step, resident, snapshot, plans, command,
                   asking, loading, rotating, seen, unheeded, changes>>

MemoryChanges(free) ==
    /\ free # available /\ Counted
    /\ available' = free /\ News
    /\ UNCHANGED <<workers, tuning, pressure, step, listing, plans, command, asking, loading,
                   rotating>>

(* A cooldown passes, and half the time that growth counts as recent. *)
Tick ==
    /\ adjusted' = [m \in Keys |-> "long"]
    /\ growth' = [m \in Keys |-> IF growth[m].age = 0 THEN [growth[m] EXCEPT !.age = 1]
                                   ELSE NoGrowth]
    /\ UNCHANGED <<workers, available, pressure, step, listing, plans, command, asking, loading,
                   rotating, seen, unheeded, changes>>

-----------------------------------------------------------------------------
(* rotateCacheIdentityGeneration: all handles are dropped, their workers       *)
(* drain, and the timer is stopped at the end, whatever has registered since.  *)
RotationAsked ==
    /\ rotating = "no" /\ Counted /\ rotating' = "asked"
    /\ UNCHANGED <<workers, tuning, available, pressure, step, listing, plans, command, asking,
                   loading, seen, unheeded>>
DropHandles ==
    /\ rotating = "asked" /\ step \in {"idle", "asked"} /\ loading = {}
    /\ rotating' = "draining"
    /\ Forgotten(Keys) /\ News
    /\ UNCHANGED <<available, pressure, step, plans, command, asking, loading, changes>>
RotationOver ==
    /\ rotating = "draining" /\ rotating' = "no"
    /\ timer' = "none"
    /\ UNCHANGED <<workers, tuning, available, pressure, step, listing, plans, command, scheduled,
                   loading, seen, unheeded, changes>>

-----------------------------------------------------------------------------
(* The interval of getOrCreate *)
Poll ==
    /\ timer = "running" /\ ~scheduled /\ Schedules /\ scheduled'
    /\ UNCHANGED <<workers, tuning, available, pressure, step, listing, plans, command, timer,
                   loading, rotating, seen, unheeded, changes>>

Rebalancing ==
    UNCHANGED <<tuning, available, timer, loading, rotating, changes>>

(* rebalance *)
Fire ==
    /\ scheduled /\ scheduled' = FALSE
    /\ step' = IF step = "idle" THEN "asked" ELSE step
    /\ UNCHANGED <<workers, pressure, listing, plans, command, seen, unheeded>> /\ Rebalancing

NoList == resident' = {} /\ parting' = NobodyParts /\ snapshot' = 0
Finished(ok) ==
    /\ step' = "idle" /\ NoList /\ plans' = {} /\ command' = NoCall
    /\ unheeded' = IF ok THEN ~seen ELSE unheeded

(* rebalanceExclusive, up to the snapshot of the memory: a worker that is not   *)
(* listed here has no part in what follows, even if it speaks meanwhile.       *)
Lists(next) ==
    IF Told = {} THEN Finished(FALSE)
    ELSE /\ resident' = Told /\ parting' = NobodyParts /\ step' = next
         /\ UNCHANGED <<snapshot, plans, command, unheeded>>
Claim ==
    /\ step = "asked" /\ loading = {} /\ rotating # "draining"
    /\ Lists("sampling")
    /\ UNCHANGED <<workers, pressure, scheduled, seen>> /\ Rebalancing

(* memorySnapshot *)
Snapshot ==
    /\ snapshot' = available
    /\ \/ step = "sampling" /\ step' = "sampled"
       \/ step = "resampling" /\ step' = "resampled"
    /\ UNCHANGED <<workers, resident, parting, pressure, plans, command, scheduled, seen, unheeded>>
    /\ Rebalancing

(* Whether the list and the snapshot are what there is. *)
UpToDate == Told \subseteq resident /\ parting = NobodyParts /\ snapshot = available

PlanNow(p) ==
    /\ pressure' = p /\ seen' = UpToDate
    /\ step' = "setting" /\ NoList /\ UNCHANGED <<command, unheeded>>
    /\ \E pool \in {ActivePool(p, Said)} : plans' = PlansFor(pool, Said)

(* shouldEvictForCriticalPressure *)
ShouldEvict(p) ==
    /\ p = "critical" /\ Listed # {}
    /\ \A m \in Listed : Retains(m).max <= 1 \/ m \in Tight

Sampled ==
    /\ step = "sampled"
    /\ LET p == Classify(snapshot, pressure)
       IN  IF ShouldEvict(p)
           THEN /\ pressure' = p /\ step' = "evicting"
                /\ UNCHANGED <<listing, plans, command, seen, unheeded>>
           ELSE PlanNow(p)
    /\ UNCHANGED <<workers, scheduled>> /\ Rebalancing

(* evictOneForCriticalPressure: any model may be idle, or none; the registry   *)
(* lists its workers again when the evicted one has exited.                    *)
Evict(m) ==
    /\ step = "evicting" /\ handle[m] = "up"
    /\ Forgotten({m}) /\ step' = "evicted" /\ News
    /\ UNCHANGED <<available, pressure, plans, command, asking, loading, rotating, changes>>
EvictNone ==
    /\ step = "evicting" /\ PlanNow(pressure)
    /\ UNCHANGED <<workers, scheduled>> /\ Rebalancing
Evicted ==
    /\ step = "evicted" /\ Lists("resampling")
    /\ UNCHANGED <<workers, pressure, scheduled, seen>> /\ Rebalancing
Resampled ==
    /\ step = "resampled" /\ PlanNow(Classify(snapshot, pressure))
    /\ UNCHANGED <<workers, scheduled>> /\ Rebalancing

(* For the mutants: a limit that is not adjusted is not set again. *)
SetNextAdjusted(p) ==
    /\ step = "setting" /\ command = NoCall /\ p \in plans
    /\ plans' = plans \ {p}
    /\ IF handle[p.key] = "none" \/ ~ShouldAdjust(p) THEN UNCHANGED <<command, adjusted>>
       ELSE /\ command' = [key |-> p.key, max |-> p.selected]
            /\ adjusted' = [adjusted EXCEPT ![p.key] = "now"]
    /\ UNCHANGED <<workers, growth, available, pressure, step, listing, asking, loading, rotating,
                   seen, unheeded, changes>>

(* One plan after another: the adjustment is noted, then the limit is set, a   *)
(* worker that has crashed being launched for it.                              *)
SetNext(p) ==
    /\ step = "setting" /\ command = NoCall /\ p \in plans
    /\ plans' = plans \ {p}
    /\ IF handle[p.key] = "none" THEN UNCHANGED <<command, adjusted>>
       ELSE /\ command' = [key |-> p.key,
                        max |-> IF ShouldAdjust(p) THEN p.selected ELSE p.previous]
            /\ adjusted' = IF ShouldAdjust(p) THEN [adjusted EXCEPT ![p.key] = "now"]
                           ELSE adjusted
    /\ UNCHANGED <<workers, growth, available, pressure, step, listing, asking, loading, rotating,
                   seen, unheeded, changes>>

Relaunched ==
    /\ command # NoCall /\ handle[command.key] = "down"
    /\ Launched(command.key) /\ News
    /\ UNCHANGED <<pressure, step, listing, plans, command, scheduled>> /\ Rebalancing

(* set_max_active *)
SetAnswered ==
    /\ command # NoCall /\ handle[command.key] = "up"
    /\ limit' = [limit EXCEPT ![command.key] = Min({command.max, Ceiling})]
    /\ command' = NoCall
    /\ UNCHANGED <<handle, told, pressure, step, listing, plans, scheduled, seen, unheeded>>
    /\ Rebalancing

(* For the mutants: the failure leaves the registry rebalancing. *)
SetFailsStuck ==
    /\ command # NoCall
    /\ IF handle[command.key] = "none" THEN UNCHANGED changes ELSE Counted
    /\ step' = "failed" /\ plans' = {} /\ command' = NoCall
    /\ UNCHANGED <<workers, pressure, scheduled, listing, seen, unheeded, tuning, available,
                   timer, loading, rotating>>

(* A launch or a command fails, or the worker is gone: the rest is skipped. *)
SetFails ==
    /\ command # NoCall
    /\ IF handle[command.key] = "none" THEN UNCHANGED changes ELSE Counted
    /\ Finished(FALSE)
    /\ UNCHANGED <<workers, pressure, scheduled, seen, tuning, available, timer, loading, rotating>>

Done ==
    /\ step = "setting" /\ plans = {} /\ command = NoCall
    /\ Finished(TRUE)
    /\ UNCHANGED <<workers, pressure, scheduled, seen>> /\ Rebalancing

-----------------------------------------------------------------------------
Proceeds ==
    \/ Poll \/ Fire \/ Claim \/ Snapshot \/ Sampled \/ EvictNone \/ Evicted \/ Resampled
    \/ \E p \in plans : SetNext(p)
    \/ Relaunched \/ SetAnswered \/ (SetFails /\ handle[command.key] = "none") \/ Done
    \/ DropHandles \/ RotationOver
    \/ \E m \in Keys : LoadEnds(m)

LimitsNext ==
    \/ Proceeds \/ Tick \/ SetFails \/ RotationAsked
    \/ \E m \in Keys :
          Register(m) \/ LoadBegins(m) \/ HandleExit(m) \/ ShutdownKey(m) \/ Parted(m) \/ Evict(m)
    \/ \E m \in Keys, bytes \in Retained : Telemetry(m, bytes)
    \/ \E free \in Levels : MemoryChanges(free)

LimitsSpec == LimitsInit /\ [][LimitsNext]_limitVars

-----------------------------------------------------------------------------
(* The types of the variables. *)
LimitsTypeOK ==
    /\ handle \in [Keys -> {"none", "down", "up"}] /\ limit \in [Keys -> Nat]
    /\ \A m \in Keys : /\ {told[m].max, parting[m].max} \subseteq Nat
                         /\ {told[m].retained, parting[m].retained} \subseteq Retained
                         /\ growth[m].age \in 0 .. 2
    /\ resident \subseteq Keys /\ snapshot \in Levels \cup {0}
    /\ adjusted \in [Keys -> {"now", "long"}]
    /\ available \in Levels /\ pressure \in {"normal", "warning", "critical"}
    /\ step \in {"idle", "asked", "sampling", "sampled", "evicting", "evicted", "resampling",
                "resampled", "setting"}
    /\ loading \subseteq Keys /\ rotating \in {"no", "asked", "draining"}
    /\ timer \in {"none", "running"} /\ changes \in 0 .. MaxChanges
    /\ scheduled \in BOOLEAN /\ seen \in BOOLEAN /\ unheeded \in BOOLEAN

(* Under critical pressure, once a rebalance has dealt with the last change,   *)
(* what the workers may take together fits beside the reserves, but for the    *)
(* one request that each may always serve: whatever limits the workers were    *)
(* given and the router did not hear of (resident.ts rebalanceExclusive).      *)
CriticalFits ==
    LET Active(m) == IF limit[m] <= 1 THEN 0 ELSE limit[m] * Reserve
    IN  pressure = "critical" /\ ~unheeded =>
            SumFunction([m \in Told |-> Active(m)])
                <= ActivePool("critical", [m \in Told |-> told[m]])

(* What happens to the memory or to the workers is dealt with by a rebalance   *)
(* that begins later, though telemetry in the middle of one asks for nothing,  *)
(* as long as the registry has a worker to ask and its timer.                  *)
ChangesHeeded == unheeded ~> (~unheeded \/ Told = {} \/ timer = "none")

(* A registry with handles polls the pressure: resident.ts getOrCreate starts  *)
(* the timer with the first.                                                   *)
PollsWhileKnown == rotating = "no" /\ Known # {} => timer = "running"

(* concurrency.test.ts: "applies cooldown and meaningful-change hysteresis     *)
(* except critical decreases": a limit just adjusted stays for the cooldown.   *)
CooldownHolds ==
    [][\A m \in Keys :
          limit'[m] # limit[m] /\ handle[m] = "up" /\ adjusted[m] = "now" =>
              \/ pressure = "critical"
              \/ limit'[m] = Selected(ActivePool(pressure, [k \in Told |-> told[k]]),
                                      Cardinality(Told), m)]_limitVars

(* concurrency.ts: "Require extra recovery headroom before lowering pressure   *)
(* state": out of critical pressure only with 12 percent.                      *)
RecoversWithHeadroom ==
    [][pressure = "critical" /\ pressure' # pressure => available >= 12]_limitVars
=============================================================================
