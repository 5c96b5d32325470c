--------------------------- MODULE ModelResidency ---------------------------
(* Which models are in memory: the lifecycle entries, the registry of workers *)
(* with its operation gate, and the coordinator that admits loads one at a     *)
(* time and evicts idle models for them, under calls of chat, load and unload, *)
(* expiry, rotations of the identity and rebalancing.                          *)
(*                                                                             *)
(* A worker is what ResidentWorkerProcess looks like from outside: it loads,   *)
(* it may crash, and after a shutdown its process needs a while to exit.       *)
(* Victims are selected and evicted without an await in between, so that the   *)
(* versions tryEvictIdle compares always agree; they are left out, and so are  *)
(* the order of the victims and the thresholds of memory pressure.             *)
EXTENDS Integers, FiniteSets, Sequences, Functions

CONSTANTS
    Models,
    Chats, LoadCalls,  \* calls of the chat route and of the load route
    ModelOf,           \* the model each call is about
    Size, Capacity,    \* bytes of each model; bytes beyond the headroom
    Disturbances,      \* bound: crashes, rotations and rebalances together
    NoModel

Calls == Chats \cup LoadCalls
NoWorker == 0
(* getOrCreate is called twice by a chat and once by a load. *)
Workers == 1 .. 2 * Cardinality(Chats) + Cardinality(LoadCalls)

ASSUME ResidencyAssumption ==
    /\ Chats \cap LoadCalls = {} /\ IsFiniteSet(Calls)
    /\ ModelOf \in [Calls -> Models] /\ Size \in [Models -> Nat]
    /\ Capacity \in Nat /\ Disturbances \in Nat /\ NoModel \notin Models

VARIABLES
    worker,     \* every worker the registry has created
    registry,   \* this.workers and this.handles of the registry
    entry,      \* the entries of the lifecycle manager
    job,        \* inFlightByKey: the load in flight of each model
    mutex,      \* models whose load holds or awaits the mutex
    call,       \* where each call is
    rotation,   \* where rotateCacheIdentityGeneration is
    rebalance,  \* where rebalanceExclusive is, and what it has left to do
    sample,     \* memCache: the bytes in use when last sampled
    bypassed,   \* whether a load went past admission, or was measured by an old sample
    disturbed   \* how many disturbances there were

vars == <<worker, registry, entry, job, mutex, call, rotation, rebalance, sample,
          bypassed, disturbed>>
gate == <<rotation, rebalance>>
history == <<sample, bypassed, disturbed>>
NoSample == -1

(* exiting: processes told to exit.  old: the rotation awaits its exit.   *)
Worker == [model : Models \cup {NoModel}, state : {"stopped", "loading", "resident"},
           exiting : Nat, retired : BOOLEAN, old : BOOLEAN]
NewWorker(m) == [model |-> m, state |-> "stopped", exiting |-> 0,
                 retired |-> FALSE, old |-> FALSE]

Entry == [present : BOOLEAN, active : Nat, unloading : BOOLEAN, pinned : BOOLEAN]
NoEntry == [present |-> FALSE, active |-> 0, unloading |-> FALSE, pinned |-> FALSE]

(* queued: awaits the mutex or a snapshot.  measured: has the snapshot.       *)
(* evicting: awaits the exit of its victim.  performing: awaits its worker.   *)
(* stabilizing: observes it.  undoing: awaits shutdownPartial.                *)
Job == [stage : {"none", "queued", "measured", "evicting", "performing",
                 "stabilizing", "undoing"},
        worker : Workers \cup {NoWorker}, fits : BOOLEAN,
        victim : Workers \cup {NoWorker}]
NoJob == [stage |-> "none", worker |-> NoWorker, fits |-> FALSE,
          victim |-> NoWorker]

(* gate: awaits the operation gate.  job: awaits the load in flight.  direct: *)
(* awaits a load of the worker itself.  nth: which load of the call it is.    *)
Call == [at : {"idle", "gate", "job", "direct", "loaded", "refused", "serving",
               "over"},
         nth : 0 .. 3, worker : Workers \cup {NoWorker}]
NotCalled == [at |-> "idle", nth |-> 0, worker |-> NoWorker]
Over == [NotCalled EXCEPT !.at = "over"]

Init ==
    /\ worker = [w \in Workers |-> NewWorker(NoModel)]
    /\ registry = [m \in Models |-> NoWorker]
    /\ entry = [m \in Models |-> NoEntry]
    /\ job = [m \in Models |-> NoJob]
    /\ mutex = << >>
    /\ call = [c \in Calls |-> NotCalled]
    /\ rotation = "idle"
    /\ rebalance = [at |-> "idle", models |-> {}, worker |-> NoWorker]
    /\ sample = NoSample
    /\ bypassed = FALSE
    /\ disturbed = 0

Disturb == disturbed < Disturbances /\ disturbed' = disturbed + 1 /\ UNCHANGED sample

-----------------------------------------------------------------------------
(* Workers and the registry. *)

NextWorker == 1 + Cardinality({w \in Workers : worker[w].model # NoModel})

(* getOrCreate. *)
HandleOf(m) == IF registry[m] = NoWorker THEN NextWorker ELSE registry[m]
GetOrCreate(m) ==
    /\ worker' = IF registry[m] = NoWorker
                 THEN [worker EXCEPT ![NextWorker] = NewWorker(m)] ELSE worker
    /\ registry' = [registry EXCEPT ![m] = HandleOf(m)]

(* What a call to load of a handle returns at once, if anything. *)
LoadOf(w) ==
    IF worker[w].retired THEN "refused"
    ELSE IF worker[w].state = "resident" THEN "loaded" ELSE "gate"

(* The load of a fresh or registered handle of m. *)
LoadNow(m) == IF registry[m] = NoWorker THEN "gate" ELSE LoadOf(registry[m])

(* The process of a worker is told to exit. *)
Closed(r) == [r EXCEPT !.state = "stopped",
                       !.exiting = IF r.state = "stopped" THEN @ ELSE @ + 1]

(* deleteAsync; its hook, shutdownKey, retires the worker registered by now.  *)
DeleteEntry(m) ==
    LET w == registry[m]
    IN  /\ entry' = [entry EXCEPT ![m] = NoEntry]
        /\ registry' = [registry EXCEPT ![m] = NoWorker]
        /\ worker' = IF w = NoWorker THEN worker
                     ELSE [worker EXCEPT ![w] = [Closed(@) EXCEPT !.retired = TRUE]]

Launch(w) == [worker EXCEPT ![w].state = IF @ = "stopped" THEN "loading" ELSE @]

(* A worker loads by itself, outside admission, when it is used and is not    *)
(* resident.                                                                  *)
LaunchUnadmitted(w) ==
    /\ worker' = Launch(w)
    /\ bypassed' = (bypassed \/ worker[w].state = "stopped")
    /\ UNCHANGED sample

(* The load ends well, or the process is told to exit. *)
WorkerLoads(w) ==
    /\ worker[w].state = "loading"
    /\ \E r \in {[worker[w] EXCEPT !.state = "resident"], Closed(worker[w])} :
          worker' = [worker EXCEPT ![w] = r]
    /\ UNCHANGED <<registry, entry, job, mutex, call, gate, history>>

(* The chats the worker serves fail with it. *)
Crash(w) ==
    /\ worker[w].state = "resident" /\ Disturb
    /\ worker' = [worker EXCEPT ![w].state = "stopped"]
    /\ call' = [c \in Calls |-> IF call[c].at = "serving" /\ call[c].worker = w
                                THEN [call[c] EXCEPT !.at = "refused"] ELSE call[c]]
    /\ UNCHANGED <<registry, entry, job, mutex, gate, bypassed>>

Exit(w) ==
    /\ worker[w].exiting > 0
    /\ worker' = [worker EXCEPT ![w].exiting = @ - 1]
    /\ UNCHANGED <<registry, entry, job, mutex, call, gate, history>>

-----------------------------------------------------------------------------
(* The lifecycle manager. *)

(* Nobody uses the entry and nobody has pinned it. *)
Idle(m) == entry[m].present /\ entry[m].active = 0 /\ ~entry[m].pinned

(* An entry expires when it is idle, also while its model loads. *)
Expire(m) ==
    /\ Idle(m) /\ DeleteEntry(m)
    /\ UNCHANGED <<job, mutex, call, gate, history>>

(* For the mutants: an unload that awaits nobody. *)
UnloadEntryAtOnce(m) == DeleteEntry(m)

(* unload: at once, or when the last chat ends. *)
UnloadEntry(m) ==
    IF entry[m].active > 0
    THEN /\ entry' = [entry EXCEPT ![m].unloading = TRUE, ![m].pinned = FALSE]
         /\ UNCHANGED <<worker, registry>>
    ELSE DeleteEntry(m)

(* The unload route. *)
Unload(m) ==
    /\ entry[m].present /\ ~entry[m].unloading
    /\ UnloadEntry(m)
    /\ UNCHANGED <<job, mutex, call, gate, history>>

(* finishUsage. *)
FinishUsage(m) ==
    IF entry[m].active = 1 /\ entry[m].unloading
    THEN DeleteEntry(m)
    ELSE /\ entry' = [entry EXCEPT ![m].active = @ - 1]
         /\ UNCHANGED <<worker, registry>>

-----------------------------------------------------------------------------
(* Calls of load on a handle. *)

GateHeld ==
    \/ rotation \in {"claimed", "draining"}
    \/ rebalance.at \in {"claimed", "evicting", "adjusting", "loading"}

(* shared: looks at the handle again, then joins or starts the load. *)
EnterGate(c) ==
    LET m == ModelOf[c]
        w == call[c].worker
    IN  /\ call[c].at = "gate" /\ ~GateHeld
        /\ IF LoadOf(w) = "gate"
           THEN /\ call' = [call EXCEPT ![c].at = "job"]
                /\ IF job[m].stage = "none"
                   THEN /\ job' = [job EXCEPT ![m] =
                                    [NoJob EXCEPT !.stage = "queued", !.worker = w]]
                        /\ mutex' = Append(mutex, m)
                   ELSE UNCHANGED <<job, mutex>>
           ELSE /\ call' = [call EXCEPT ![c].at = LoadOf(w)]
                /\ UNCHANGED <<job, mutex>>
        /\ UNCHANGED <<worker, registry, entry, gate, history>>

(* For the mutants: loads that do not await one another. *)
OwnsAtOnce(m, stage) == mutex # << >> /\ job[m].stage = stage

Owns(m, stage) == mutex # << >> /\ Head(mutex) = m /\ job[m].stage = stage

(* The bytes of w: its process, and those that are on their way out. *)
Bytes(w) ==
    Size[worker[w].model] * (worker[w].exiting
                             + IF worker[w].state = "stopped" THEN 0 ELSE 1)
Exists(w) == worker[w].model # NoModel
Total(ws) == SumFunction([w \in ws |-> Bytes(w)])

(* systemMemoryUsedBytes: of a worker that still loads, what it will take may *)
(* not be there yet.                                                          *)
MemoryUsed ==
    {Total({w \in Workers : Exists(w)} \ unseen) :
        unseen \in SUBSET {w \in Workers : worker[w].state = "loading"}}

(* memorySnapshot, then fits.  The last sample is used again for a second.    *)
JobMeasures(m) ==
    /\ Owns(m, "queued")
    /\ \/ sample' \in MemoryUsed /\ UNCHANGED bypassed
       \/ /\ sample # NoSample /\ UNCHANGED sample
          /\ bypassed' = (bypassed \/ sample < Total({w \in Workers : Exists(w)}))
    /\ job' = [job EXCEPT ![m].stage = "measured",
                          ![m].fits = sample' + Size[m] <= Capacity]
    /\ UNCHANGED <<worker, registry, entry, mutex, call, gate, disturbed>>

Victims(m) == {v \in Models \ {m} : Idle(v)}

(* The load of m ends: its reservation and the mutex go, its callers go on. *)
(* Bound: no load uses a sample of before, once none has been left.           *)
JobEnds(m, at) ==
    /\ job' = [job EXCEPT ![m] = NoJob]
    /\ mutex' = Tail(mutex)
    /\ call' = [c \in Calls |-> IF call[c].at = "job" /\ ModelOf[c] = m
                                THEN [call[c] EXCEPT !.at = at] ELSE call[c]]
    /\ sample' = IF Tail(mutex) = << >> THEN NoSample ELSE sample
    /\ UNCHANGED <<worker, registry, entry, gate, bypassed, disturbed>>

(* performLoad, which does not look at the handle again. *)
JobLaunches(m) ==
    LET w == job[m].worker
    IN  /\ Owns(m, "measured") /\ job[m].fits
        /\ worker' = Launch(w)
        /\ job' = [job EXCEPT ![m].stage = "performing"]
        /\ UNCHANGED <<registry, entry, mutex, call, gate, history>>

(* performLoad returns, or shutdownPartial begins. *)
JobPerformed(m) ==
    LET w == job[m].worker
    IN  /\ Owns(m, "performing") /\ worker[w].state # "loading"
        /\ job' = [job EXCEPT ![m].stage = IF worker[w].state = "resident"
                                           THEN "stabilizing" ELSE "undoing"]
        /\ UNCHANGED <<worker, registry, entry, mutex, call, gate, history>>

(* One victim; memory is measured again when its process has exited. *)
JobEvicts(m) ==
    /\ Owns(m, "measured") /\ ~job[m].fits
    /\ \E v \in Victims(m) :
          /\ DeleteEntry(v)
          /\ job' = [job EXCEPT ![m].stage = "evicting", ![m].victim = registry[v]]
    /\ UNCHANGED <<mutex, call, gate, history>>

Gone(w) == \A v \in Workers : v = w => worker[v].exiting = 0

JobEvicted(m) ==
    /\ Owns(m, "evicting") /\ Gone(job[m].victim)
    /\ job' = [job EXCEPT ![m].stage = "queued", ![m].victim = NoWorker]
    /\ UNCHANGED <<worker, registry, entry, mutex, call, gate, history>>

(* Nothing to evict, or memory could not be measured. *)
JobRejected(m) ==
    /\ \/ Owns(m, "measured") /\ ~job[m].fits /\ Victims(m) = {}
       \/ Owns(m, "queued")
    /\ JobEnds(m, "refused")

JobCommits(m) == Owns(m, "stabilizing") /\ JobEnds(m, "loaded")

JobUndone(m) ==
    Owns(m, "undoing") /\ Gone(job[m].worker) /\ JobEnds(m, "refused")

-----------------------------------------------------------------------------
(* The routes. *)

(* load of the lifecycle manager: a new entry, or one that is kept. *)
Kept(m) == [entry[m] EXCEPT !.present = TRUE, !.unloading = FALSE]

CallLoad(l) ==
    LET m == ModelOf[l]
    IN  /\ l \in LoadCalls /\ call[l].at = "idle"
        /\ \E always \in BOOLEAN :
              entry' = [entry EXCEPT ![m] = [Kept(m) EXCEPT !.pinned = always]]
        /\ GetOrCreate(m)
        /\ call' = [call EXCEPT ![l] = [at |-> LoadNow(m), nth |-> 1,
                                        worker |-> HandleOf(m)]]
        /\ UNCHANGED <<job, mutex, gate, history>>

LoadReturns(l) ==
    /\ l \in LoadCalls /\ call[l].at = "loaded"
    /\ call' = [call EXCEPT ![l] = Over]
    /\ UNCHANGED <<worker, registry, entry, job, mutex, gate, history>>

(* The load route unloads the model it could not load. *)
LoadRefused(l) ==
    LET m == ModelOf[l]
    IN  /\ l \in LoadCalls /\ call[l].at = "refused"
        /\ call' = [call EXCEPT ![l] = Over]
        /\ IF entry[m].present THEN UnloadEntry(m)
           ELSE UNCHANGED <<worker, registry, entry>>
        /\ UNCHANGED <<job, mutex, gate, history>>

(* A chat first loads its model, without an entry of its own.  It holds an    *)
(* identity lease from here to its end, so that no rotation runs meanwhile.   *)
StartChat(c) ==
    LET m == ModelOf[c]
    IN  /\ c \in Chats /\ call[c].at = "idle" /\ rotation \in {"idle", "over"}
        /\ GetOrCreate(m)
        /\ call' = [call EXCEPT ![c] = [at |-> LoadNow(m), nth |-> 1,
                                        worker |-> HandleOf(m)]]
        /\ UNCHANGED <<entry, job, mutex, gate, history>>

(* prepareChatRequest refuses the request; what was loaded stays loaded. *)
ChatUnprepared(c) ==
    /\ c \in Chats /\ call[c].at = "loaded" /\ call[c].nth = 1
    /\ call' = [call EXCEPT ![c] = Over]
    /\ UNCHANGED <<worker, registry, entry, job, mutex, gate, history>>

(* beginUsage, then the handle and the load once more. *)
ChatBegins(c) ==
    LET m == ModelOf[c]
    IN  /\ c \in Chats /\ call[c].at = "loaded" /\ call[c].nth = 1
        /\ entry' = [entry EXCEPT ![m] = [Kept(m) EXCEPT !.active = @ + 1]]
        /\ GetOrCreate(m)
        /\ call' = [call EXCEPT ![c] = [at |-> LoadNow(m), nth |-> 2,
                                        worker |-> HandleOf(m)]]
        /\ UNCHANGED <<job, mutex, gate, history>>

(* chat of the handle: a third load, then chat of the worker, which loads a   *)
(* worker that is not resident by itself.                                     *)
ChatSends(c) ==
    LET w == call[c].worker
    IN  /\ c \in Chats /\ call[c].at = "loaded"
        /\ \/ /\ call[c].nth = 2
              /\ call' = [call EXCEPT ![c] =
                   IF LoadOf(w) = "loaded" THEN [@ EXCEPT !.at = "serving"]
                   ELSE [@ EXCEPT !.at = LoadOf(w), !.nth = 3]]
              /\ UNCHANGED <<worker, sample, bypassed>>
           \/ /\ call[c].nth = 3 /\ worker[w].state = "resident"
              /\ call' = [call EXCEPT ![c].at = "serving"]
              /\ UNCHANGED <<worker, sample, bypassed>>
           \/ /\ call[c].nth = 3 /\ worker[w].state # "resident"
              /\ call' = [call EXCEPT ![c].at = "direct"]
              /\ LaunchUnadmitted(w)
        /\ UNCHANGED <<registry, entry, job, mutex, gate, disturbed>>

(* The load the worker has started for itself has ended. *)
ChatLoaded(c) ==
    LET state == worker[call[c].worker].state
    IN  /\ call[c].at = "direct" /\ state # "loading"
        /\ call' = [call EXCEPT ![c].at = IF state = "resident" THEN "serving"
                                          ELSE "refused"]
        /\ UNCHANGED <<worker, registry, entry, job, mutex, gate, history>>

(* The answer, or the failure of a call that has begun its usage. *)
ChatEnds(c) ==
    /\ c \in Chats
    /\ call[c].at = "serving" \/ (call[c].at = "refused" /\ call[c].nth > 1)
    /\ call' = [call EXCEPT ![c] = Over]
    /\ FinishUsage(ModelOf[c])
    /\ UNCHANGED <<job, mutex, gate, history>>

ChatRefused(c) ==
    /\ c \in Chats /\ call[c].at = "refused" /\ call[c].nth = 1
    /\ call' = [call EXCEPT ![c] = Over]
    /\ UNCHANGED <<worker, registry, entry, job, mutex, gate, history>>

-----------------------------------------------------------------------------
(* Exclusive operations: one at a time, when no load is in the gate. *)

(* For the mutants: a load counts as active while it waits for the gate. *)
NobodyInGateOrWaiting == \A c \in Calls : call[c].at \notin {"job", "gate"}

NobodyInGate == \A c \in Calls : call[c].at # "job"

(* The rotation has waited for the leases of all chats. *)
AskRotation ==
    /\ rotation = "idle" /\ Disturb
    /\ \A c \in Chats : call[c].at \in {"idle", "over"}
    /\ rotation' = "asked"
    /\ UNCHANGED <<worker, registry, entry, job, mutex, call, rebalance, bypassed>>

ClaimRotation ==
    /\ rotation = "asked" /\ ~GateHeld
    /\ rotation' = "claimed"
    /\ UNCHANGED <<worker, registry, entry, job, mutex, call, rebalance, history>>

(* Every registered worker is retired and shut down, and their exits awaited. *)
Rotate ==
    LET ws == {registry[m] : m \in Models} \ {NoWorker}
    IN  /\ rotation = "claimed" /\ NobodyInGate
        /\ rotation' = "draining"
        /\ registry' = [m \in Models |-> NoWorker]
        /\ worker' = [w \in Workers |->
             IF w \in ws THEN [Closed(worker[w]) EXCEPT !.retired = TRUE, !.old = TRUE]
             ELSE worker[w]]
        /\ UNCHANGED <<entry, job, mutex, call, rebalance, history>>

RotationEnds ==
    /\ rotation = "draining"
    /\ \A w \in Workers : worker[w].old => worker[w].exiting = 0
    /\ rotation' = "over"
    /\ UNCHANGED <<worker, registry, entry, job, mutex, call, rebalance, history>>

AskRebalance ==
    /\ rebalance.at = "idle" /\ Disturb
    /\ rebalance' = [rebalance EXCEPT !.at = "asked"]
    /\ UNCHANGED <<worker, registry, entry, job, mutex, call, rotation, bypassed>>

ClaimRebalance ==
    /\ rebalance.at = "asked" /\ ~GateHeld
    /\ rebalance' = [rebalance EXCEPT !.at = "claimed"]
    /\ UNCHANGED <<worker, registry, entry, job, mutex, call, rotation, history>>

Retaining == {m \in Models : registry[m] # NoWorker
                             /\ worker[registry[m]].state = "resident"}

(* Under critical pressure one idle model is evicted first. *)
RelievePressure(m) ==
    /\ rebalance.at = "claimed" /\ NobodyInGate /\ Retaining # {} /\ Idle(m)
    /\ DeleteEntry(m)
    /\ rebalance' = [rebalance EXCEPT !.at = "evicting", !.worker = registry[m]]
    /\ UNCHANGED <<job, mutex, call, rotation, history>>

(* The plan is made from a snapshot of the resident workers. *)
Plan ==
    /\ \/ rebalance.at = "claimed" /\ NobodyInGate
       \/ rebalance.at = "evicting" /\ Gone(rebalance.worker)
    /\ rebalance' = [at |-> IF Retaining = {} THEN "over" ELSE "adjusting",
                     models |-> Retaining, worker |-> NoWorker]
    /\ UNCHANGED <<worker, registry, entry, job, mutex, call, rotation, history>>

(* setMaxActive of the worker registered by now, which loads it if need be. *)
Adjust(m) ==
    LET w == registry[m]
        left == [rebalance EXCEPT !.models = @ \ {m}]
    IN  /\ rebalance.at = "adjusting" /\ m \in rebalance.models
        /\ IF w = NoWorker \/ worker[w].state = "resident"
           THEN rebalance' = left /\ UNCHANGED <<worker, sample, bypassed>>
           ELSE /\ rebalance' = [left EXCEPT !.at = "loading", !.worker = w]
                /\ LaunchUnadmitted(w)
        /\ UNCHANGED <<registry, entry, job, mutex, call, rotation, disturbed>>

RebalanceEnds ==
    /\ rebalance.at = "adjusting" /\ rebalance.models = {}
    /\ rebalance' = [rebalance EXCEPT !.at = "over"]
    /\ UNCHANGED <<worker, registry, entry, job, mutex, call, rotation, history>>

(* The load setMaxActive has caused has ended; its failure ends it all. *)
AdjustLoaded ==
    LET state == worker[rebalance.worker].state
    IN  /\ rebalance.at = "loading" /\ state # "loading"
        /\ rebalance' = [rebalance EXCEPT !.at = IF state = "resident" THEN "adjusting"
                                                 ELSE "over",
                                          !.worker = NoWorker]
        /\ UNCHANGED <<worker, registry, entry, job, mutex, call, rotation, history>>

-----------------------------------------------------------------------------

JobStep(m) ==
    JobMeasures(m) \/ JobLaunches(m) \/ JobPerformed(m) \/ JobEvicts(m)
    \/ JobEvicted(m) \/ JobRejected(m) \/ JobCommits(m) \/ JobUndone(m)
CallStep(c) ==
    EnterGate(c) \/ LoadReturns(c) \/ LoadRefused(c) \/ ChatUnprepared(c)
    \/ ChatBegins(c) \/ ChatSends(c) \/ ChatLoaded(c) \/ ChatEnds(c)
    \/ ChatRefused(c)
ExclusiveStep ==
    \/ ClaimRotation \/ Rotate \/ RotationEnds
    \/ ClaimRebalance \/ Plan \/ AdjustLoaded \/ RebalanceEnds
    \/ \E m \in Models : RelievePressure(m) \/ Adjust(m)

(* What goes on by itself: continuations, loads of workers, exits. *)
Continue ==
    \/ \E m \in Models : JobStep(m)
    \/ \E c \in Calls : CallStep(c)
    \/ \E w \in Workers : WorkerLoads(w) \/ Exit(w)
    \/ ExclusiveStep

Next ==
    \/ Continue \/ AskRotation \/ AskRebalance
    \/ \E c \in Calls : CallLoad(c) \/ StartChat(c)
    \/ \E m \in Models : Expire(m) \/ Unload(m)
    \/ \E w \in Workers : Crash(w)

Spec == Init /\ [][Next]_vars

(* Calls, crashes and entries are finite in number, so that nothing goes on   *)
(* for ever and fairness of the whole is fairness of each step.               *)
FairSpec == Spec /\ WF_vars(Continue)

-----------------------------------------------------------------------------
(* The types of the variables: what is listed above is all there is. *)
TypeOK ==
    /\ worker \in [Workers -> Worker]
    /\ registry \in [Models -> Workers \cup {NoWorker}]
    /\ entry \in [Models -> Entry] /\ job \in [Models -> Job]
    /\ mutex \in Seq(Models) /\ call \in [Calls -> Call]
    /\ rotation \in {"idle", "asked", "claimed", "draining", "over"}
    /\ rebalance \in [at : {"idle", "asked", "claimed", "evicting", "adjusting",
                            "loading", "over"},
                      models : SUBSET Models, worker : Workers \cup {NoWorker}]
    /\ sample \in Nat \cup {NoSample}
    /\ bypassed \in BOOLEAN /\ disturbed \in 0 .. Disturbances

(* inference-runtime-hardening-plan.md: "Two simultaneous large loads cannot  *)
(* overcommit the same free memory": as long as every launch went through     *)
(* admission, and no load was measured by a sample lower than what there is   *)
(* by then, what is in memory fits, processes on their way out included,      *)
(* whatever expires or is unloaded between the awaits of the load.            *)
AdmittedFit ==
    ~bypassed => Total({w \in Workers : Exists(w)}) <= Capacity

(* A worker is never told to exit under a chat it serves, whoever expires,    *)
(* unloads, evicts or fails to load the same model.                           *)
ServedNotShut ==
    [][\A w \in Workers : worker'[w].exiting > worker[w].exiting
          => ~\E c \in Chats : /\ call[c].at = "serving" /\ call'[c].at = "serving"
                               /\ call[c].worker = w]_vars

(* A model is evicted only while the one to be loaded does not fit: a sample  *)
(* of before an eviction evicts the next model too.                           *)
EvictedForNeed ==
    [][\A m \in Models : job[m].stage = "measured" /\ job'[m].stage = "evicting"
          => Total({w \in Workers : Exists(w)}) + Size[m] > Capacity]_vars

(* "Drains every old-generation worker": after a rotation no worker that was  *)
(* registered before it is left.                                              *)
OldGenerationsDrained ==
    rotation = "over" => \A w \in Workers : worker[w].old
                            => worker[w].state = "stopped" /\ worker[w].exiting = 0

(* Every call of a route, rotation and rebalancing ends: the gate, the mutex  *)
(* and the waits for exits never wait on one another.                         *)
CallsEnd ==
    <>[](/\ \A c \in Calls : call[c].at \in {"idle", "over"}
         /\ rotation \in {"idle", "over"} /\ rebalance.at \in {"idle", "over"})
=============================================================================
