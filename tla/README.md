# clap: models, checks and proofs

clap is a local inference server. A Bun/TypeScript server accepts OpenAI-,
Ollama- and Responses-style requests, admits them through a fair limiter,
derives a cache identity from an installation secret, and hands them to resident
worker processes (llama.cpp in C++, MLX in Swift). The workers keep KV caches of
earlier prompts in numbered slots; a Rust library shared by both backends
decides which slot serves a prompt, which is copied and which is dropped. A
router decides which models are in memory, a catalogue what is on disk, and a
command line starts and stops the server.

These TLA+ modules model the parts in which requests, rotations, plans,
processes and files interleave. TLC checks them on small instances, TLAPS proves
the main invariants for every value of the constants. `PROJECT.json` lists the
runs, the lines each definition stands for, the hazards and the theorems.

## 1. Inventory

### Rust cache coordinator (`src/native/cache/crates/clap-cache-core`)
- State: slots (generation, namespace, resident tokens, state, read count,
  write lease, busy, protected, bytes), pending plans, the radix index, the epoch.
- Operations: `plan` picks a target, a donor and victims and leases them;
  `commit` and `abort` end a plan; `advance`, `confirm`, `set_busy`,
  `set_anchor_protected`, `invalidate` follow the backend; `register_slot`, `reset`.
- Interaction: called through a C FFI (one mutex) by both workers. A backend
  changes its physical cache between `plan` and `commit`, so other calls come
  between the two.
- Hard: leases along every way a plan can end; a donor that goes on decoding
  while it is copied; generations as the only guard against stale handles;
  a pool of leased, busy and protected slots.
- Correct if: leases are exactly those of the pending plans, a donor keeps the
  prefix it promised, content never changes under an unchanged generation, the
  index names what the slots hold, limits are kept, and the pool cannot lock
  itself up.

### Native workers (`src/native/llama`, `src/native/mlx`)
Single-threaded loops over prioritised queues, an executor that follows the
coordinator's plans physically, and exactly one terminal event per request. Seen
from the coordinator they are an environment that calls, fails and answers late
at any point; seen from the server, a process that answers at any time, breaks
the protocol or crashes.

### Runtime router (`src/packages/runtime-router`)
- Worker process. State: the active launch and older ones on their way out,
  pending requests, crash counters. Operations: load, chat, cancel, unload,
  drain, shut down; events: handshake, lines, protocol fault, exit. Hard: all of
  them await, and the exit of an old launch comes while a new one is up. Correct
  if no request is pending on a launch nobody reads, every process without an
  owner is on its way out, and every call settles.
- Protocol tracker. One state per request of a launch; a line out of place kills
  the worker. Correct if no proper line is refused, cancels included.
- Residency. State: lifecycle entries with usage and keep-alive, the registry
  with its operation gate, the coordinator that admits loads one at a time.
  Operations: chat, load, unload, expiry, crash, eviction, rotation, rebalance.
  Correct if what is admitted fits, no served chat loses its worker, and nobody
  waits for ever.
- Active limits. How many requests each worker may serve at once, from memory
  pressure and telemetry. Correct if under critical pressure what the workers
  may take fits, and no change stays without a rebalance.

### Server (`src/packages/server`)
- `limits.ts`: requests in flight (in total, by class, by client), three queues,
  the position in the 4:2:1 schedule. Correct if slots are never lost, nobody
  waits beside a free slot, classes are served in turn and an aborted waiter
  leaves.
- `cache-identity/`: the installation secret. In a process a barrier with writer
  priority separates leases of the secret from its rotation; between processes a
  lock file serializes rotations, and the secret file is created exclusively and
  replaced by renaming. Correct if a rotation runs alone and while nobody holds
  a lease, no wake-up is lost, a stale lock goes away, and no process uses a
  secret that is not the one in the file or one that was replaced.
- `index.ts`, the request route: a request becomes visible in the metrics and
  cancellable, resolves its model, takes a lease, waits for a slot, is served. A
  dozen exits must each give back what the request holds by then.
- `index.ts`, `parsers/`: the answer. Tokens go through a filter that removes
  markers and separates reasoning from content into a queue of writes, beside a
  heartbeat and the route's own chunks; the Ollama and Responses routes read the
  chat route for a client of their own. Correct if the client reads the answer
  in order and as it is recorded, streamed or not, and the answer ends.
- `metrics.ts`, `cache-event-store.ts`: totals and history of an accounting
  epoch, and a log of segments that are rotated, trimmed and recovered. Correct
  if the totals add up, a reset isolates, and the log is the newest part of what
  was stored.

### Models (`src/packages/models`)
- Downloads: two routes pull files into `.part` files with ranges and checksums.
  Correct if what is published under the final name is intact and late ends of a
  pull do not disturb the next.
- Catalogue: what is cached, under which names, what a pull chooses and leaves,
  removal, a memoized list. Correct if what is listed resolves, a completed pull
  answers the next, and the list comes to tell what is there.

### Command line (`src/apps/cli`)
Starts, stops and restarts the background server with a lock directory, a state
file and signals. Correct if one spawned server lives at a time, a stop leaves
its server dead, and the state file tells of the one that lives.

### The rest
`packages/api` (schemas, client), `packages/worker-protocol` (wire schemas),
`packages/runtime-*` (launchers), `apps/web`, the checkpoint planner, the FFI:
declarative, conversions, input/output or read-only. `components` in
`PROJECT.json` lists them one by one.

## 2. Modules

| Module | Models | Composes |
| --- | --- | --- |
| `SlotLeases` | abstract: what the coordinator promises about leases | |
| `CacheCoordinator` | `CacheManager` of `lib.rs` | refines `SlotLeases` |
| `FairLimiter` | `limits.ts` | |
| `ActiveLimits` | rebalance of `resident.ts`, `concurrency.ts` | |
| `SecretBarrier` | `InstallationSecretProvider`, one process | |
| `RequestLifecycle` | the chat completion route | `SecretBarrier`, `FairLimiter` |
| `RotationLock` | lock file, secret file and caches, several processes | |
| `ResidentWorkerProcess` | `resident-worker-process.ts` | |
| `ModelResidency` | `lifecycle.ts`, `resident.ts`, `residency/coordinator.ts` | |
| `V1RequestTracker` | `request-tracker.ts`, `v1-decoder.ts` (operators) | |
| `StreamingOutputFilter` | `stream-state.ts` (operators) | |
| `AnswerParsing` | `chat-compat.ts` and `parsers/` (operators) | the filter |
| `FilteredText` | a text through filter and parsers | `AnswerParsing` |
| `StreamedAnswer` | the answer of four routes | `V1RequestTracker`; filter and parsers by constants |
| `RequestMetrics` | `metrics.ts`, `cache-event-store.ts` | |
| `ModelDownload` | pulls of `models/index.ts` and the two pull routes | |
| `ModelCatalogue` | list, names, choice, removal of `models/index.ts` | |
| `ServerLifecycle` | `server-lifecycle.ts` and the server commands of the CLI | |

`CacheCoordinator`, `FairLimiter`, `RequestLifecycle` (with those of
`SecretBarrier`), `RotationLock`, `ResidentWorkerProcess`, `ModelResidency`,
`ServerLifecycle` and `ModelDownload` have their theorems in a module `*Proofs`;
those of `ActiveLimits` are in `ModelResidencyProofs`, of `ModelCatalogue` in
`ModelDownloadProofs`, of `RequestMetrics` in `RequestLifecycleProofs`, of
`StreamedAnswer` in `ResidentWorkerProcessProofs`. `MC*` modules give constants and symmetry
sets; two of them check two components in one run (`side` says which of them moves).
Operators whose comment says they are for the mutants, or that starts with
`Mutant:`, are plausible bugs of the definition they precede; they show
that each property would notice them.

### CacheCoordinator
`slots[s]` is `Slot` of `slot.rs` without statistics, `plans` is
`CacheManager.pending`, `index` the set of terminals of `RadixIndex`. Each public
method that changes state is one action (the mutex makes it atomic); `plan` has
one action per operation it can return, `commit` one per outcome. Errors returned
before any change are no step. Where the code ranks candidates by recency, reuse,
session, scope or saved time, the model chooses any candidate the ranking may be
given: what is checked and proved does not depend on the ranking. Tokens are small
integers, bytes are numbers of tokens times `BytesPerToken`.

### FairLimiter
`held` holds the three counters, `waiters` the queues, `scheduleIndex` the
schedule position, `promise[r]` what the caller of `acquire` sees. `Dispatch` is
`dispatchNext`. `passed` is a history variable: how often in a row a waiting class
has been passed over. `AcquireAborted` is the call whose signal has already
fired; its promise stays pending. `ReleaseAgain` is a second call of the closure
that `acquire` returned, which the `released` flag makes harmless.

### ActiveLimits
`handle`, `limit` and `retained` are the workers as they are, `told` what the
router has heard of them, `growth` and `adjusted` its memory of them. `step` is
where `rebalanceExclusive` is: asking for the gate, sampling memory, evicting,
sampling again, setting limits one worker at a time. The workers are listed before
the memory snapshot is awaited (`resident`, `resident.ts:705` and 717), and asked
after it what they retain: a worker that speaks for the first time in between is
not planned for, and one that is forgotten in between is planned for with its last
figures until it has exited (`parting`). `UpToDate` says whether list and `snapshot`
are still what there is; where they are not, the change stays `unheeded` for a
later rebalance. `Tight` are the models whose own policy leaves memory for one
request (`resident.ts:206`), `Wanted` what a fixed mode or the automatic one asks
for. Sizes are percents of the physical memory; one tick is a cooldown of 30 seconds.

### SecretBarrier, RequestLifecycle
`stage` is where each caller of `acquireSecret` or `rotate` is; `woken` is a
caller whose promise `notify` has resolved and which has not looked again yet.
One action is one run from await to await. `RequestLifecycle` has the requests as
readers of the barrier and as requests of the limiter, and adds `at` (progress),
`unsettled` (`metrics.active`) and `registered` (`RequestCancellationRegistry`).
Each action conjoins the steps of the two with the route's own bookkeeping.
`Served` stands for loading the worker and generating, which `StreamedAnswer` and
`ModelResidency` refine.

### RotationLock
One action per file system call, because other processes run between them and a
process may crash there. A lock has an inode and the pid in it; `seen` holds the
local variables of `removeStaleLock`; `load` those of
`loadOrCreateInstallationSecret`; `file` and `written` the secret file. `Age`
passes `STALE_LOCK_MS`. A retry may time out at any time.

### ResidentWorkerProcess
`launch[l]` is the `ActiveLaunch` of the l-th launch with its process, read loop,
handshake and close; `active`, `starting`, `loaded`, `loadState`, `crashes` and
`pending` are the fields of the class; `task` is where each call of chat, load,
unload and the shared `loadOnce` is. A promise that settles changes the state of
its waiters, which go on in steps of their own. Files are written and processes
exit in later turns of the event loop, after the chats whose load has succeeded
have gone on to send (`FollowedUp`).

### ModelResidency
`worker` is every worker the registry has created, `registry` its maps, `entry`
the lifecycle entries, `job` and `mutex` the coordinator's loads, `call` where
each call of the chat and load routes is, `rotation` and `rebalance` who has the
operation gate or wants it. A worker is what `ResidentWorkerProcess` looks like
from outside.

### StreamedAnswer and its operators
`filter` is the `StreamingOutputFilter`, `writes` and `owed` the write queue,
`script` what the route has to write itself, `pipe`, `buffer` and `received` the
way to the client, `tracker`, `said`, `command` and `blame` the protocol of the
request, `adapter` the reader behind the Ollama route. Texts are sequences of
symbols; a marker is two symbols, so that it can be cut anywhere that matters.
`AnswerParsing` is `parseAssistantOutput` for one tool format of each kind.
`StreamedAnswer` has filter and parsers as constants (`FreshFilter`, `Filtered`,
`Parsed`, `Remaining`), so that its theorems hold for any of them that put out
text (`AnswerAssumption`); `MCStreamedAnswer` gives it those of
`StreamingOutputFilter` and `AnswerParsing`, and in `Filters` every state that some
way to cut a text takes the filter to.

### RequestMetrics, ModelDownload, ModelCatalogue
`RequestMetrics`: `state` and `generation` of each request's handle, the totals
and the bounded history, the segments on disk; `born`, `resets` and `stored` are
history variables. `ModelDownload`: a file is a sequence of blocks behind an
inode, so that whoever has it open goes on writing whatever its name is by then;
`raced` is a history variable.
`ModelCatalogue`: `stored` the files of each repository, `pull` and `removal` where
those are, `memo` and `refresh` the list. A pull of a tag reads the directory once
(`ReadsOld`) and removes one by one what it has read (`Prune`).
In `ModelDownload` a pull knows which version of each file it has inspected
(`Inspected`); the second look `pullModel` takes at the cache (`models/index.ts:301`)
is left out: it finds what the manager's own look, just before it, has found.

### ServerLifecycle
`server` and `dying` are the processes, `lockDir` and `stateFile` the directory
they share with the commands, `at` and the other functions on commands their
local variables. One action is one run from await to await of a command;
`writeFile` is two (it truncates, then fills).

## 3. Runs

| Run | Question | Instance |
| --- | --- | --- |
| `leases` | leases, donor prefixes, generations and index with two plans in flight; refinement of `SlotLeases` | 2 slots (one registered later), 2 plans, 2 namespaces, generations to 3, one reset |
| `pool` | anchor limit, no equal anchors, none written while protected; a session finds a slot | 3 slots, 1 plan, 2 anchors, budget 6, watermarks 5 and 3, the hybrid llama profile (`leases` has the full-attention one) |
| `limiter` | counters, turns, every waiter settles; limits under critical pressure, no change unheeded | 4 requests of 2 clients in 3 classes, 1 slot, 2 places; beside them 2 workers, one in fixed mode 6 with memory for one request, free memory of 5, 10 or 30 %, 4 changes |
| `lifecycle` | every exit gives everything back; rotations against requests; no mutual waiting | 3 requests, 1 rotation, 1 slot, 1 place, generations to 2 |
| `lock` | processes agree on the secret; a stale lock goes away | 2 processes, 1 crash, 2 lock files, generations to 3 |
| `worker` | pending requests, processes without an owner, every call settles | 1 chat, 1 load, unload, drain, 2 launches, crash limit 2 |
| `residency` | admission, served chats keep their worker, nobody waits for ever | 2 chats of a model and a load of another, room for 1, 1 disturbance (crash, rotation, rebalance) |
| `download` | published files are intact, late ends are harmless, what a pull was told complete is whole and of one version | 2 pulls of an MLX repository of 3 files (one of 2 blocks), both at once, 2 events (crash, removal, new version); directories with one of the shards pass for cached |
| `stream` | order, ends, protocol; streamed text against the parsed whole | 4 routes, 6 texts cut everywhere, 1 heartbeat; beside them all texts of up to 4 of 16 pieces |
| `metrics` | accounting epochs, the log across crashes | 3 requests, history of 1, segments of 2, limits 1 and 2, 1 failed append, 2 starts |
| `server` | one server, stops, the state file | 3 commands (start, stop, restart --force), 3 processes, 1 interrupt, 1 failure, 1 server in the foreground |
| `catalogue` | listed models resolve, a pull answers the next, the list catches up | 1 pull, 1 removal, 1 poller, a repository with 1 or 2 GGUF files or an MLX layout, an Ollama tag; a file of before |

Why the bounds are enough.
- Coordinator: conflicts are between two plans (or a plan and a backend call) on
  one slot; two slots and two plans give a target, a donor and every order of
  their ends, and a third slot is needed only for victims and anchors. Paths of
  length two tell prefix, extension and divergence apart. Three generations let a
  slot be written, invalidated and written again under an old plan.
- Limiter, lifecycle: two requests of one client and one in each other class make
  every skip of the schedule and every tie happen; three requests are served,
  queued and refused at once. Larger numbers are covered by the proofs.
- Lock: two processes suffice for every race over the secret and for a takeover
  without a contest; the theorem covers more.
- Worker: an old launch on its way out beside a new one. With two chats and three
  launches the invariants were checked once more (811,666 states).
- Residency: one model too many for the memory, and a chat that comes while its
  model is served, evicted or loading.
- Download: one pull that runs and one that was cancelled or starts beside or
  after it; a part file is written, resumed and replaced; a pull that finds a file
  of before, downloads another and goes on to a third, with a crash, a removal or a
  new version between them. `PulledIsWhole` has 2.6 million states there.
- Stream: a marker is two symbols, so a cut inside one exists; four pieces
  give a marker, its end, and text on both sides.
- Server: three commands are a holder of the lock, one that waits and one that
  stops. The remaining commands (`restart` without `--force`, `serve`) take no
  branch these do not take.

Deadlock is checked in `leases`, `pool`, `limiter`, `lock` and `stream`. In the
other runs the system stops when all calls of the instance have ended, or
(`lifecycle`) when a request hangs in `acquire`.

### Fairness
- `limiter`: `Release` of a granted request is weakly fair (it is in `finally` on
  every path), and the registry's own steps go on. No caller is obliged to come.
- `lifecycle`: requests that load or hold a lease go on. Rotations in progress go
  on, and a woken task is strongly fair in entering: its continuation is already
  in the microtask queue when later callers arrive. With weak fairness alone a
  rival could barge in each time.
- `lock`: live processes go on, and time passes.
- `worker`, `residency`: what is awaited ends (exits and answers of the worker,
  timers); calls need not come.
- `stream`: worker and route go on; the client reads on, or the idle timeout of
  `Bun.serve` disconnects it.
- `catalogue`: pollers keep asking, time passes, the disk answers.
- `leases`, `pool`, `download`, `metrics`, `server`: safety only.

### Stated and not true of the code
These definitions say what a document, a comment or a test says, or what one would
expect; the code violates them, so they are in no run. The comment before each
names the line.

| Definition | What happens |
| --- | --- |
| `CacheCoordinator.CheckpointsWithinBudget` | the budget discounts the target's bytes even when the target is no checkpoint (`lib.rs:1256`) |
| `CacheCoordinator.EndedPlanInvalidates` | a commit refused as stale leaves what the backend may have changed (`lib.rs:1377`) |
| `AnchorLimit`, `NoDuplicateAnchors` with several plans | `commit` does not look at anchors that appeared since the plan (`lib.rs:1048`); both executors end a plan before the next, so it does not show |
| `FairLimiter.InteractiveNotStarved` | the tie-break counts a client's requests of all classes (`limits.ts:146`) |
| `FairLimiter.AbortSettles` | `acquire` with a signal that has already fired never settles (`limits.ts:94`) |
| `ActiveLimits.CooldownHolds`, `RecoversWithHeadroom` | a limit moves again inside the cooldown (`concurrency.test.ts:49`); the extra headroom for recovery is behind a condition that returns earlier (`concurrency.ts:49` after 47) |
| `ActiveLimits.PollsWhileKnown` | a registry may have handles and no pressure timer (`resident.ts:577` against 687) |
| `RequestLifecycle.ExitSettles` | a waiter aborted in the queue leaves its metrics handle open (`index.ts:1117`) |
| `RotationLock.RotationsSerialized`, `CreatorsAllLoad` | the inode check and the removal by name are two steps (`rotation.ts:186`); a process that reads the secret before its creator has filled it fails |
| `ResidentWorkerProcess.FaultBacksOff` | a protocol fault restarts without backoff, which only an exit sets (`inference-runtime-hardening-plan.md`) |
| `ModelResidency.OldGenerationsDrained`, `EvictedForNeed` | a worker of before the rotation may be left after it; a sample from before an eviction evicts the next model too |
| `ModelDownload.VerifiedIntact`, `CompletedIsWhole` | pulls over the two routes share a part file; `config.json` and one shard pass for complete (`models/index.ts:742`) |
| `StreamedAnswer.DoneIsLast`, `CancelledIsRecorded`, `LeaversCancelled` | chunks after `[DONE]`; a cancelled request recorded as completed; a client of the Ollama route that leaves without a cancel (`index.ts:1544`, README.md:115) |
| `StreamedIsParsed` without `Regular` | markers the filter and the parsers cut differently |
| `ModelCatalogue.MlxIsPulled` | a pull for an MLX target may be answered with a GGUF file (`models/index.ts:328`, README.md:183) |
| `ModelCatalogue.CompletedServes` without `AsAsked` | such a pull, where the directory holds another GGUF file, leaves two of which none answers the next pull, which downloads it again (`models/index.ts:591`) |

### What properties excuse
Where the code breaks a property in some histories, the property names them and the
module says so; the hazard they belong to is then caught outside them only.

| Property | Excused | Because |
| --- | --- | --- |
| `PublishedIntact`, `PulledIsWhole` | overlapping pulls or removals; no checksums and a new version | `/api/pull` is not kept apart from the pull route, and both write one part file |
| `CompletedServes` | pulls beside others of their repository or beside a removal; pulls that get a file they did not ask for (`AsAsked`) | a directory has no owner |
| `AdmittedFit` | loads past admission; samples that were too low | `resident.ts:233`, `process-usage.ts:63` |
| `CriticalFits` | the time until a rebalance has seen the last change | it lists its workers before it awaits the snapshot, and what comes then waits for the next poll |
| `ChangesHeeded` | a registry without its timer | `resident.ts:687` |
| `AllAnswersEnd` | clients of the Ollama routes that leave | only the next write tells (`index.ts:1544`) |
| `LogIsNewest` | a spoilt line and what comes after it, until a reset | recovery cuts the segment there |
| `OneSpawnedServer`, `SpawnedIsRecorded` | histories with a server in the foreground, at any earlier time | a start may have taken its answer for its own server's, so that two boot after it has gone |
| `SpawnedIsRecorded` | interrupted commands, and stops beside other commands | `stop` takes no lock |
| `RequestsEnd` | an `acquire` that was aborted before the call | it never settles (`limits.ts:94`) |
| `StreamedIsParsed` | texts that are not `Regular` | filter and parsers cut them differently |

`StoppedIsDead` excuses nothing.

### What is merged
- `RequestLifecycle.Served`: every exit after the grant of the slot returns the same
  things in the same order.
- `CacheCoordinator.BackendStep` and the resident lengths at `commit` are what the
  executors call; `lib.rs` would accept more.
- `ServerLifecycle.Look` reads `server.json` and tests the pid in one step. The test
  is of the pid that was read, and a pid that is dead stays so.
- `ModelResidency.RotationEnds` waits for the workers that were registered, as
  `rotateCacheIdentityGeneration` does; one that was deregistered before exits by itself.

## 4. Proofs

Every theorem holds for all values of the constants under the named assumptions
of the modules: `ConfigAssumption` (what `CacheManager::new` rejects),
`RequestAssumption`, `NamesAssumption` and `NoPlanAssumption` for the coordinator,
`LimiterAssumption`, `BarrierAssumption`, `SystemAssumption`, `LockAssumption`,
`ProcessAssumption`, `LifecycleAssumption`, `DownloadAssumption`, `CatalogueAssumption`,
`ResidencyAssumption`,
`LimitsAssumption`, `MetricsAssumption`, `AnswerAssumption`. They say that names differ, sets are
finite and limits are numbers in the range the configuration allows; of an answer, that
filter and parsers put out text for content or for reasoning. One theorem
has a hypothesis of its own (`OnePlan`, below).

**CacheCoordinatorProofs.** `IInv` is `LeaseAccounting`, `WriterExclusive`,
`StaleOnlyByDonor`, `DonorPrefixIntact` and what makes them inductive: what a plan
leases was free when granted, a target and its donor differ or are the same slot,
plans name registered slots. `LeaseAccounting` alone is not inductive: to return
exactly its own leases, a plan's write and read sets must name slots whose records
still carry its name. Steps come in three kinds (a grant, an end of a plan, a
change of one slot by the backend), and each kind is proved once against each
conjunct. `CoordinatorRefinesLeases` maps the kinds to `Acquire`, `Finish`,
`Extend` and `Replace` of `SlotLeases`, step by step.
- `IndexStaysTrue`: `IndexTracksSlots` needs `UnregisteredEmpty` beside it, since
  `remove_index` finds an entry by the slot's current content only.
- `ProtectedAnchorsSafe`: needs that every anchor has content (`AnchorsFull`) and
  that a plan's targets and victims were unprotected when granted and have been
  leased since.
- `AnchorsStaySound` adds the limit and the uniqueness of anchors: `RoomPlanned`
  keeps for a pending plan what `plan` has seen. It assumes `OnePlan`, one plan in
  flight, which is how both executors use the coordinator
  (`cache-executor.cpp:94-256`, `CacheExecutor.swift:133`); with two the
  coordinator does break the limit.
- `PoolStaysOpen` is `PoolNeverDeadlocks` for any number of plans. Among candidates
  one ranks first (`DonorsExist`: the keys make one number, and a set of numbers has
  a least one); a walk through candidates stops (`WalksExist`: take a smallest set
  at which it may); a target is idle, since the slots plans read hold tokens
  (`ReadHold`) and an empty one does not (`BlankHoldNothing`). A request whose best
  donor can be continued while another plan copies from it is answered `SlotBusy`
  though other slots are free; the property says so and is not stronger.

**FairLimiterProofs.** `LInv` adds to the properties that a class is passed over
at most as often as the schedule position allows: the bound of
`ClassesServedInTurn` says nothing of where in the cycle we are and is not
inductive alone. `DispatchRestores` shows that one call of `dispatchNext` restores
`WorkConserving` after a release has broken it for the length of a call.

**RequestLifecycleProofs.** First the barrier alone: `BInv` is `TasksCounted`,
`RotationAlone`, `LeasesCurrent` and `WaitersBlocked` (who waits has something to
wait for), from which `NoLostWakeup` follows. `ServerImplementsBarrier` projects the composition
onto the barrier, so that `BInv` holds in it; the limiter's `LInv` is carried over
step by step from lemmas of its proofs. `Holds` ties them together: at each place
of the route a request holds exactly the lease, promise, slot and registry entry
that place says. From it `ResourcesReturned` is immediate, and
`RotationWaitsForRequests` follows because whoever is queued or served holds a
lease.
- The metrics, proved of the invariant `MetricsInv`. `EpochsBalance`: `TotalsInv`
  counts the requests of the epoch by their states, and a request only moves
  between states whose sums it keeps; that nothing of an earlier epoch comes back
  needs that a handle's generation never exceeds the collector's and that a restart
  ends the handles (`HandlesInv`), and that history and files hold only requests
  born since the last reset (`RecordedInv`). `LogKeepsNewest`: what can be read is
  an end of what was stored (`LogInv`), for which every event on disk is as old as
  the segment around it at most (otherwise dropping a segment by its age would lose
  a younger event), and only the last line may be torn. What is read of a log that
  is appended to, closed, trimmed or recovered is an equation on sequences
  (`ReadAppend`, `ReadConcat`, `RetainedReads`, ...). The induction over sequences
  that these need (`SequencesIn`) is over lengths, through `LeastNat`.

**RotationLockProofs.** `SecretsAgree` needs that the generations before the one
in the file are exactly the replaced ones, that whoever is about to fill the file
has created it, and that a rotation only replaces a complete file. Nothing about
the lock is needed: exclusive creation and renaming suffice, so processes agree
although rotations are not always serial.

**ResidentWorkerProcessProofs.** `Inv` says of each launch in which phases it may
be, of the active and the starting one where they stand in the order of launches
(`SpawnedInOrder`, `StartingAlone`), of the loader and the chats that wait for it
what they may have seen (`LoaderHonest`, `ChatsFollow`), and that a chat waits for
an answer exactly while its request is pending (`PendingHonest`). `PendingIsLive`
alone is not inductive: that an old exit does not clear what a new launch owns
depends on the order of launches, and that `loaded` speaks of the active launch
depends on there being no start beside it. Steps that leave launches alone, that
drop one, that finish or start one are each treated once (`Calm`, `Dropped`,
`Marked`, `Starts`).
- An answer. `ProperLinesAccepted`: `LinesInv` says that the tracker has for a chat
  that goes on the state of the last line the worker wrote about it, and for a
  cancel command that is not read yet `registered`, so that `Follows` takes
  whatever `CanSay` allows next (`ProperAccepted`). `StreamToldAsRecorded`: the ends
  (`[DONE]`, an error, the adapter's last line) are followed from the script through
  pipe and buffer to the client. `FlowInv` says for each place of the route which of
  them may be on the way (`NoEndYet`, `Telling`, `Apologizing`, `EndTold`), that
  `[DONE]` is the last of the script and the route has one write in the pipe at most
  (`OneOfRoute`: otherwise the stream might be recorded while its end is still to be
  written), what goes with the record (`Recorded`), and that nothing is on the way
  to a client that has left (`Unwritten`). One lemma for each action, over a few on
  what is in a sequence (`HasAppend`, `PipeTail`, ...).

**ServerLifecycleProofs.** `IInv`: a start works only while the lock directory is
its own (`LockHeld`), pids that are written down belonged to a process
(`PidsKnown`), what a stop knows at each of its places (`StopsKnown`), a server
that boots belongs to the start that waits for it (`BootingOwned`), and while
nothing disturbs the commands, the file tells of the live server or of a start that
is about to write it (`FileKnown`). `OneSpawnedServer` is about lives at one
instant and is not inductive: that a second start spawns nothing depends on what
it saw when it probed, which stays true because only the holder of the lock spawns.

**ModelDownloadProofs.** `PublishedIsIntact` is about pulls and removals that do
not overlap, but says so by the history variable `raced`, so that its invariant
holds in every state. `Base` needs no such condition: inodes belong to the file
whose names they bear (`Named`), and a pull's inode of a file is named by nothing
before the pull opens it (`Unnamed`), without which truncating a new part file might
empty a published one. Unraced, one pull is at work at most (`Sole`), and what it
knows of its file is what the file is: the range it asked for is the length of the
part, what it has hashed is what the part holds, and it writes at its end
(`Follows`). From that the part is the beginning of the one version (`Begun`),
what is about to be renamed is whole (`Ready`), and what is published is
(`Intact`). The lemmas `PutAppends` and `RunGrows` say what a write behind the end
does to a sequence. `LateEndsAreHarmless` is an action property and has no such
condition: `Told` ties a running download to the active one and to a task at work.
`PulledModelIsWhole` is about a pull that goes through all files of a model: told
complete, it leaves all of them, whole and of the versions it has inspected, for
any number of files. What is published before the last file may be lost or replaced
until then, so the invariant (`Behind`) says of every file before the one the pull is
at that its name has the inspected version, complete; it is kept because an unraced
pull is alone at work (`Sole`), upstream's version changes only what is inspected
later, and a removal ends the pull's claim (`raced`). It makes two provisos: no
overlapping pulls or removals, and a digest to check against or one upstream
version.
- The catalogue: `ListedModelsResolve` follows from the types alone, since the list
  and the names are functions of what is there; counting to one is what tells a file
  with a short name (`OneGguf`). `CompletedPullsServe` is an action property of the
  invariant `PullsSound`: a pull fetches what upstream has for its target (`Suits`;
  for that the resolver's choices are followed through aliases, tags and ranks,
  `WantedTargets`), and who is undisturbed is alone with its repository and finds
  there what it has fetched (`Kept`). The proof showed where the property was false
  (`AsAsked`, section 3).

**ModelResidencyProofs.** `AdmittedFit` is a sum over the workers that are there and
compares what `os.freemem` would say with the budget. Its invariant says how the
workers come about (`Allocated`: in order, and never more than the calls ask for),
that handles, calls and loads in flight name workers of their own model (`Named`),
that an entry counts the chats between `beginUsage` and `finishUsage`
(`UsersCounted`), that a chat being served has a resident worker, that no chat is
under way once a rotation has asked for the gate (`RotationWaits`), and for the sum:
one load at a time is past the mutex (`OneLoads`), the one that has measured fits
beside what there is now (`FitsMeasured`), and while nothing has bypassed admission
memory grows only by that load (`MemoryStep`). `ServedNotShut` needs `UsersCounted`
and `RotationWaits`. The sums are proved by induction over finite sets, which the
library's theorems give as well-founded orders: `MinimalSet` turns the subset order
into a fact about sets, from which `LeastNat`, `NatsIn` and `SubsetsIn` follow, and
from those that `SumFunctionOnSet` satisfies its recursion (`SumsExist`,
`SumWithout`) and is monotone. `CriticalLimitsFit` is the other sum, of the limits
that rebalance sets. Its invariant `LimitsInv`: what was told is of workers that
are up (`ToldAreUp`); a rebalance whose list or snapshot has grown old has the
change it missed still before it (`Fresh`); memory that has become scarce is noticed
by the time the last change is dealt with (`Aware`); no limit is above the share of
that pool (`Bounded`), neither one that is set nor one still to be set (`Planned`);
the pool only grows as growth ages. `SumWithin` bounds the sum by number times share, and
`ShareFits` that by the pool.

The proofs also showed what TLC cannot: where two arms of a CASE hold at once,
TLC takes the first, but the definition allows either. Four operators had such
arms (`TailAfter`, `LoadOf`, `ClosingStage`, `MarkerMatch`); they are IFs now, in the
order in which the code tests.

Only model-checked:
- Liveness (`WaitersSettle`, `RequestsEnd`, `TasksSettle`, `CallsEnd`, ...) and
  whatever speaks of ENABLED: out of the prover's reach.
- `StreamedIsParsed`, which is about what the filter and the parsers compute: they
  are RECURSIVE operators. `ClientReadsAnswer` is about texts put together and
  compared, and speaks of the same.
- `CompletedIsWhole` is neither proved nor checked: a pull that finds a part of a
  directory there is told complete at once (section 3). `PulledIsWhole` is what
  holds of the pulls that do download.
- `PollersConverge` of `ModelCatalogue` is liveness.

`RetainedWithinWatermark` and `PreviousIsReplaced` are stated, hold on the
instances and are neither run nor proved.

## 5. Not modelled

- Ranking among admissible cache slots and among idle models, sizes, telemetry,
  clocks and statistics: choices of the models, or left out where nothing depends
  on them.
- The trie of `radix.rs` (its set of terminals is), the checkpoint planner, FFI
  conversions.
- The inside of the workers (llama executor and scheduler, MLX executor,
  anchors, tracker): environments of `CacheCoordinator` and `ResidentWorkerProcess`.
- In `RequestLifecycle` the load of the worker and the answer are one step.
- An installation secret loaded by one process while another rotates is modelled
  call by call; nothing tells a process that another has rotated, and no document
  says several servers may run.
- Models configured by the environment, search, MLX metadata, `hf-auth.ts`.
- Authentication, schemas, launchers, dashboard, commands of the CLI other than
  those for the background server.
- Noticed, not formalised: a pull's result id `repo:file.gguf` resolves with a path
  that does not exist when it is the only GGUF (`models/index.ts:567`, 1255);
  README.md:185 says a cancelled pull removes partial files, `models/index.ts:1376`
  keeps the part; an alias for MLX and its repository have different target keys;
  `auth.ts:107` writes before it checks, against the comment at 75.

## 6. Plan

Done: the modules of section 2, their runs, and the theorems of section 4.

Left, in this order:
1. A model of the llama executor over `SlotLeases`: physical sequences against the
   coordinator's metadata, and a failure between the two.
2. The checkpoint planner as operators against a reference definition.
