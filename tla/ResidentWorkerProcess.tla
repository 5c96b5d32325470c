----------------------- MODULE ResidentWorkerProcess ------------------------
(* One ResidentWorkerProcess: launches of a worker, the shared load, chats,  *)
(* unload, drain and shutdown.  Every action runs from one await to the next. *)
(* A promise that settles is a change of the state of its waiters; they go on *)
(* in steps of their own, so that other tasks and lines of the worker may     *)
(* come between.                                                              *)
EXTENDS Integers, FiniteSets

CONSTANTS
    Chats,        \* calls of chat
    Loads,        \* calls of load alone
    Unload,       \* the call of unload
    Loader,       \* loadOnce, shared by all callers of load
    MaxLaunches,  \* bound: launches that get as far as a spawn
    CrashLimit,   \* consecutive crashes after which load gives up
    Drains        \* whether drainAndShutdownAsync is called too

Tasks == Chats \cup Loads \cup {Unload, Loader}
Launches == 1 .. MaxLaunches
NoLaunch == 0

ASSUME ProcessAssumption ==
    /\ MaxLaunches \in Nat /\ CrashLimit \in Nat \ {0}
    /\ Chats \cap Loads = {} /\ {Unload, Loader} \cap (Chats \cup Loads) = {}
    /\ Unload # Loader

VARIABLES
    launch,       \* ActiveLaunch of every launch so far
    active,       \* this.active
    starting,     \* this.starting: the launch startWorker is busy with
    loaded,       \* this.loaded
    loadState,    \* this.loadState
    crashes,      \* this.consecutiveCrashes
    pending,      \* this.pending: pairs of a task and the launch it wrote to
    task,         \* where each task is, and on which launch it waits
    drained       \* drainAndShutdownAsync has found nothing pending

vars == <<launch, active, starting, loaded, loadState, crashes, pending, task,
          drained>>

LoadStates == {"not_started", "starting", "loading", "resident", "closing"}

(* loop: before the read loop, in it, or after handleExit.  close: closeOnce  *)
(* has not begun, races the answer to shutdown against the exit and a timer,  *)
(* waits for the exit, or is over.                                            *)
Launch ==
    [process : {"none", "running", "exited"},
     loop : {"preparing", "marking", "reading", "over"},
     handshake : {"open", "ready", "rejected"},
     fault : BOOLEAN, killed : BOOLEAN, hasModel : BOOLEAN,
     closeWhenStarted : BOOLEAN,
     close : {"no", "asked", "waiting", "over"}]

NewLaunch ==
    [process |-> "none", loop |-> "preparing", handshake |-> "open",
     fault |-> FALSE, killed |-> FALSE, hasModel |-> FALSE,
     closeWhenStarted |-> FALSE, close |-> "no"]

(* idle: not called.  load: awaits loadPromise.  loaded: load has succeeded.  *)
(* backoff, start: loadOnce, or a chat, up to its launch.  handshake, sent,   *)
(* answered, refused: sendControl, and with it chat, ends.  closing: unload   *)
(* awaits close.                                                              *)
Stages == {"idle", "load", "loaded", "backoff", "start", "handshake", "sent",
           "answered", "refused", "closing", "done", "failed"}

At(t) == task[t].at
On(t) == task[t].launch
Goes(t, stage, l) == [task EXCEPT ![t] = [at |-> stage, launch |-> l]]

Init ==
    /\ launch = [l \in Launches |-> NewLaunch]
    /\ active = NoLaunch /\ starting = NoLaunch
    /\ loaded = FALSE /\ loadState = "not_started" /\ crashes = 0
    /\ pending = {}
    /\ task = [t \in Tasks |-> [at |-> "idle", launch |-> NoLaunch]]
    /\ drained = FALSE

-----------------------------------------------------------------------------
(* Helpers. *)

Spawned == {l \in Launches : launch[l].process # "none"}
Next1 == Cardinality({l \in Launches : l = starting \/ l \in Spawned}) + 1

(* Files are written and processes exit in later turns of the event loop: by  *)
(* then every chat whose load has succeeded has gone on.                      *)
FollowedUp == \A t \in Chats : At(t) # "loaded"

Usable(l) == l # NoLaunch /\ active = l /\ launch[l].close = "no"

(* setLoadState on behalf of launch l. *)
LoadStateFor(l, state) ==
    IF active = l \/ state = "not_started" THEN state ELSE loadState

(* A task whose call on l is over; only unload still needs l. *)
Ended(t, stage, l) ==
    [at |-> stage, launch |-> IF t \in Chats THEN NoLaunch ELSE l]

(* rejectLaunchPending: the tasks whose request on l is rejected by it. *)
Rejected(tasks, l) ==
    [t \in Tasks |->
        IF <<t, l>> \in pending /\ tasks[t] = [at |-> "sent", launch |-> l]
        THEN Ended(t, "refused", l) ELSE tasks[t]]

PendingElsewhere(l) == {p \in pending : p[2] # l}

(* The handshake promise, if it is still open, is rejected. *)
HandshakeClosed(l) ==
    IF launch[l].handshake = "open" THEN "rejected" ELSE launch[l].handshake

(* loadOnce ends: its callers go on or fail with it. *)
LoadEnds(outcome) ==
    [t \in Tasks |->
        CASE t = Loader -> [at |-> "idle", launch |-> NoLaunch]
          [] t # Loader /\ At(t) = "load" -> [at |-> outcome, launch |-> NoLaunch]
          [] OTHER -> task[t]]

LoadFails ==
    /\ task' = LoadEnds("failed")
    /\ loadState' = IF loadState = "closing" THEN loadState
                    ELSE IF active # NoLaunch THEN "starting" ELSE "not_started"
    /\ UNCHANGED <<launch, active, starting, loaded, crashes, pending, drained>>

-----------------------------------------------------------------------------
(* load and loadOnce. *)

IsLoaded == loaded /\ active # NoLaunch /\ launch[active].close = "no"

(* awaitRestartBackoff gives up at once; otherwise it sleeps or returns. *)
CrashLoop == crashes >= CrashLimit /\ active = NoLaunch

(* load: at once if loaded, else by the shared loadOnce. *)
CallLoad(t) ==
    /\ t \in Chats \cup Loads /\ At(t) = "idle"
    /\ \/ /\ IsLoaded
          /\ task' = Goes(t, "loaded", NoLaunch)
          /\ UNCHANGED loadState
       \/ /\ ~IsLoaded /\ At(Loader) # "idle"
          /\ task' = Goes(t, "load", NoLaunch)
          /\ UNCHANGED loadState
       \/ /\ ~IsLoaded /\ At(Loader) = "idle" /\ ~CrashLoop
          /\ task' = [Goes(t, "load", NoLaunch) EXCEPT ![Loader].at = "backoff"]
          /\ loadState' = IF active = NoLaunch THEN "starting" ELSE loadState
       \/ /\ ~IsLoaded /\ At(Loader) = "idle" /\ CrashLoop
          /\ task' = Goes(t, "failed", NoLaunch)
          /\ loadState' = "not_started"
    /\ UNCHANGED <<launch, active, starting, loaded, crashes, pending, drained>>

(* ensureStarted returns the active launch. *)
Reusable(l) ==
    l # NoLaunch /\ launch[l].process = "running" /\ launch[l].close = "no"

(* ensureStarted on behalf of t, which goes on with the active launch, awaits *)
(* the start in progress, or starts one.                                      *)
EnsureStarted(t) ==
    \/ /\ Reusable(active)
       /\ task' = Goes(t, "handshake", active)
       /\ loadState' = IF t = Loader THEN "loading" ELSE loadState
       /\ UNCHANGED <<starting, loaded>>
    \/ /\ ~Reusable(active) /\ starting # NoLaunch
       /\ task' = Goes(t, "start", starting)
       /\ UNCHANGED <<starting, loaded, loadState>>
    \/ /\ ~Reusable(active) /\ starting = NoLaunch /\ Next1 \in Launches
       /\ starting' = Next1
       /\ task' = Goes(t, "start", Next1)
       /\ loaded' = FALSE /\ loadState' = "starting"

(* The bound on launches is reached: the worker is not available any more. *)
NotAvailable ==
    ~Reusable(active) /\ starting = NoLaunch /\ Next1 \notin Launches

(* loadOnce after the backoff. *)
LoaderEnsures ==
    /\ At(Loader) = "backoff"
    /\ \/ /\ loaded /\ Reusable(active)
          /\ task' = LoadEnds("loaded")
          /\ UNCHANGED <<starting, loaded, loadState>>
       \/ ~(loaded /\ Reusable(active)) /\ EnsureStarted(Loader)
    /\ UNCHANGED <<launch, active, crashes, pending, drained>>

LoaderUnavailable ==
    At(Loader) = "backoff" /\ NotAvailable /\ LoadFails

LoaderAnswered ==
    LET l == On(Loader)
    IN  /\ At(Loader) = "answered"
        /\ \/ /\ Usable(l)
              /\ loaded' = TRUE /\ loadState' = "resident" /\ crashes' = 0
              /\ task' = LoadEnds("loaded")
              /\ UNCHANGED <<launch, active, starting, pending, drained>>
           \/ ~Usable(l) /\ LoadFails

LoaderRefused ==
    At(Loader) = "refused" /\ LoadFails

-----------------------------------------------------------------------------
(* startWorker: prepareLaunch, spawn, markSpawned, then the read loop. *)

PrepareFails ==
    /\ starting # NoLaunch /\ launch[starting].loop = "preparing"
    /\ starting' = NoLaunch
    /\ launch' = [launch EXCEPT ![starting] = NewLaunch]
    /\ task' = [t \in Tasks |->
                  IF task[t] = [at |-> "start", launch |-> starting]
                  THEN Ended(t, "refused", starting) ELSE task[t]]
    /\ loadState' \in {loadState, "not_started"}
    /\ UNCHANGED <<active, loaded, crashes, pending, drained>>

SpawnWorker ==
    /\ starting # NoLaunch /\ launch[starting].loop = "preparing" /\ FollowedUp
    /\ launch' = [launch EXCEPT
         ![starting] = [@ EXCEPT !.process = "running", !.loop = "marking"]]
    /\ active' = starting
    /\ UNCHANGED <<starting, loaded, loadState, crashes, pending, task, drained>>

Marked ==
    /\ starting # NoLaunch /\ launch[starting].loop = "marking"
    /\ launch' = [launch EXCEPT ![starting].loop = "reading"]
    /\ starting' = NoLaunch
    /\ UNCHANGED <<active, loaded, loadState, crashes, pending, task, drained>>

(* Whoever awaited this start goes on with it, unless it is closing or gone. *)
StartAwaited(t) ==
    LET l == On(t)
    IN  /\ At(t) = "start" /\ launch[l].loop \notin {"preparing", "marking"}
        /\ task' = [task EXCEPT ![t] =
                     IF Usable(l) THEN [@ EXCEPT !.at = "handshake"]
                     ELSE Ended(t, "refused", l)]
        /\ loadState' = IF t = Loader /\ Usable(l) THEN "loading" ELSE loadState
        /\ UNCHANGED <<launch, active, starting, loaded, crashes, pending, drained>>

-----------------------------------------------------------------------------
(* chat after load, and sendControl. *)

ChatEnsures(t) ==
    /\ t \in Chats /\ At(t) = "loaded"
    /\ \/ EnsureStarted(t)
       \/ /\ NotAvailable /\ task' = Goes(t, "failed", NoLaunch)
          /\ UNCHANGED <<starting, loaded, loadState>>
    /\ UNCHANGED <<launch, active, crashes, pending, drained>>

(* Mutant: the launch is not looked at again after the handshake. *)
SendableUnchecked(l) == launch[l].handshake = "ready"

(* After the handshake the launch must still be the active one. *)
Sendable(l) == launch[l].handshake = "ready" /\ Usable(l)

(* The entry in pending comes first; a write to a process that has exited    *)
(* throws and leaves the entry behind.                                        *)
Send(t) ==
    LET l == On(t)
    IN  /\ At(t) = "handshake" /\ launch[l].handshake # "open"
        /\ IF Sendable(l)
           THEN /\ pending' = pending \cup {<<t, l>>}
                /\ task' = [task EXCEPT ![t] =
                             IF launch[l].process = "running"
                             THEN [@ EXCEPT !.at = "sent"]
                             ELSE Ended(t, "refused", l)]
           ELSE /\ task' = [task EXCEPT ![t] = Ended(t, "refused", l)]
                /\ UNCHANGED pending
        /\ UNCHANGED <<launch, active, starting, loaded, loadState, crashes, drained>>

-----------------------------------------------------------------------------
(* Lines of the worker, in order; the loop reads on when the process is gone. *)

Ready(l) ==
    /\ launch[l].loop = "reading" /\ launch[l].handshake = "open"
    /\ launch' = [launch EXCEPT ![l].handshake = "ready"]
    /\ UNCHANGED <<active, starting, loaded, loadState, crashes, pending, task,
                   drained>>

(* The terminal line of a request.  Lines about a request that has been       *)
(* rejected change nothing.  A load that succeeded leaves its model in the    *)
(* worker.                                                                    *)
Answer(l, t, type) ==
    /\ launch[l].loop = "reading" /\ task[t] = [at |-> "sent", launch |-> l]
    /\ launch' = [launch EXCEPT
         ![l].hasModel = @ \/ (t = Loader /\ type = "completed")]
    /\ pending' = pending \ {<<t, l>>}
    /\ task' = [task EXCEPT ![t] =
                 Ended(t, IF type = "completed" THEN "answered" ELSE "refused", l)]
    /\ loadState' = IF t = Loader /\ type = "failed" /\ Usable(l)
                    THEN "starting" ELSE loadState
    /\ UNCHANGED <<active, starting, loaded, crashes, drained>>

ProtocolUnhealthy(l) ==
    /\ launch' = [launch EXCEPT
         ![l] = [@ EXCEPT !.fault = TRUE, !.killed = TRUE,
                          !.handshake = HandshakeClosed(l)]]
    /\ pending' = PendingElsewhere(l)
    /\ task' = Rejected(task, l)
    /\ active' = IF active = l THEN NoLaunch ELSE active
    /\ loaded' = (loaded /\ active # l)
    /\ loadState' = IF active = l THEN "not_started" ELSE loadState
    /\ UNCHANGED <<starting, crashes, drained>>

(* A line the decoder or the tracker refuses: also a last line cut short by  *)
(* the exit of a worker that was asked to stop.                              *)
BadLine(l) ==
    launch[l].loop = "reading" /\ ~launch[l].fault /\ ProtocolUnhealthy(l)

HandshakeTimeout(l) ==
    /\ launch[l].loop = "reading" /\ active = l /\ launch[l].handshake = "open"
    /\ ProtocolUnhealthy(l)

-----------------------------------------------------------------------------
(* The end of the process. *)

Exit(l) ==
    /\ launch[l].process = "running" /\ FollowedUp
    /\ launch' = [launch EXCEPT ![l].process = "exited"]
    /\ UNCHANGED <<active, starting, loaded, loadState, crashes, pending, task,
                   drained>>

(* classifyWorkerCrash: a fault counts also when the exit was expected. *)
IsCrash(l) == launch[l].fault \/ launch[l].close = "no"

(* What is left of a launch; whoever awaits its exit in closeOnce goes on. *)
Over(l) ==
    [NewLaunch EXCEPT
        !.process = "exited", !.loop = "over", !.handshake = HandshakeClosed(l),
        !.closeWhenStarted = launch[l].closeWhenStarted,
        !.close = IF launch[l].close = "waiting" THEN "over" ELSE launch[l].close]

(* Mutant: every exit is taken for the exit of the active launch. *)
HandleExitOfAny(l) ==
    /\ launch[l].process = "exited" /\ launch[l].loop = "reading"
    /\ launch' = [launch EXCEPT ![l] = Over(l)]
    /\ crashes' = IF IsCrash(l) /\ crashes < CrashLimit THEN crashes + 1 ELSE crashes
    /\ pending' = IF IsCrash(l) THEN PendingElsewhere(l) ELSE pending
    /\ task' = IF IsCrash(l) THEN Rejected(task, l) ELSE task
    /\ active' = NoLaunch /\ loaded' = FALSE /\ loadState' = "not_started"
    /\ UNCHANGED <<starting, drained>>

(* handleExit, after the read loop has come to the end of the output. *)
HandleExit(l) ==
    /\ launch[l].process = "exited" /\ launch[l].loop = "reading"
    /\ launch' = [launch EXCEPT ![l] = Over(l)]
    /\ crashes' = IF IsCrash(l) /\ crashes < CrashLimit THEN crashes + 1 ELSE crashes
    /\ pending' = IF IsCrash(l) THEN PendingElsewhere(l) ELSE pending
    /\ task' = IF IsCrash(l) THEN Rejected(task, l) ELSE task
    /\ active' = IF active = l THEN NoLaunch ELSE active
    /\ loaded' = (loaded /\ active # l)
    /\ loadState' = IF active = l THEN "not_started" ELSE loadState
    /\ UNCHANGED <<starting, drained>>

-----------------------------------------------------------------------------
(* close, unload, shutdown. *)

(* closeOnce writes to a running process, else it awaits the exit alone. *)
ClosingStage(l) ==
    IF launch[l].process = "running" THEN "asked"
    ELSE IF launch[l].loop = "over" THEN "over" ELSE "waiting"

(* Mutant: pending requests are left to the exit of the worker. *)
CloseKeepsPending(l, tasks) ==
    /\ launch' = [launch EXCEPT
         ![l] = [@ EXCEPT !.close = ClosingStage(l),
                          !.handshake = HandshakeClosed(l),
                          !.closeWhenStarted = FALSE]]
    /\ task' = tasks /\ loadState' = LoadStateFor(l, "closing")
    /\ UNCHANGED pending

(* close: closeOnce up to its first await; once for each launch. *)
Close(l, tasks) ==
    IF launch[l].close = "no"
    THEN /\ launch' = [launch EXCEPT
              ![l] = [@ EXCEPT !.close = ClosingStage(l),
                               !.handshake = HandshakeClosed(l),
                               !.closeWhenStarted = FALSE]]
         /\ pending' = PendingElsewhere(l)
         /\ task' = Rejected(tasks, l)
         /\ loadState' = LoadStateFor(l, "closing")
    ELSE /\ launch' = [launch EXCEPT ![l].closeWhenStarted = FALSE]
         /\ task' = tasks /\ UNCHANGED <<pending, loadState>>

(* The answer to shutdown, the exit or the timer, whichever comes first. *)
CloseRace(l) ==
    /\ launch[l].close = "asked"
    /\ launch' = [launch EXCEPT
         ![l] = [@ EXCEPT
                  !.close = IF launch[l].loop = "over" THEN "over" ELSE "waiting",
                  !.killed = launch[l].process = "running"]]
    /\ UNCHANGED <<active, starting, loaded, loadState, crashes, pending, task,
                   drained>>

CallUnload ==
    /\ At(Unload) = "idle" /\ active # NoLaunch
    /\ task' = Goes(Unload, IF Usable(active) THEN "handshake" ELSE "refused", active)
    /\ UNCHANGED <<launch, active, starting, loaded, loadState, crashes,
                   pending, drained>>

UnloadCloses ==
    /\ At(Unload) \in {"answered", "refused"}
    /\ loaded' = FALSE
    /\ Close(On(Unload), Goes(Unload, "closing", On(Unload)))
    /\ UNCHANGED <<active, starting, crashes, drained>>

UnloadEnds ==
    /\ At(Unload) = "closing" /\ launch[On(Unload)].close = "over"
    /\ task' = Goes(Unload, "done", NoLaunch)
    /\ UNCHANGED <<launch, active, starting, loaded, loadState, crashes,
                   pending, drained>>

(* drainAndShutdownAsync polls pending, then shutdownAsync: a start in       *)
(* progress is closed when it is over, else the active launch, if any.        *)
DrainShutsDown ==
    /\ Drains /\ ~drained /\ pending = {} /\ drained' = TRUE
    /\ \/ /\ starting # NoLaunch
          /\ launch' = [launch EXCEPT ![starting].closeWhenStarted = TRUE]
          /\ UNCHANGED <<pending, task, loadState>>
       \/ starting = NoLaunch /\ active # NoLaunch /\ Close(active, task)
       \/ /\ starting = NoLaunch /\ active = NoLaunch
          /\ UNCHANGED <<launch, pending, task, loadState>>
    /\ UNCHANGED <<active, starting, loaded, crashes>>

CloseAfterStart(l) ==
    /\ launch[l].closeWhenStarted /\ starting # l
    /\ Close(l, task)
    /\ UNCHANGED <<active, starting, loaded, crashes, drained>>

-----------------------------------------------------------------------------

LoaderStep == LoaderEnsures \/ LoaderUnavailable \/ LoaderAnswered
              \/ LoaderRefused
StartStep == PrepareFails \/ SpawnWorker \/ Marked
TaskStep(t) == StartAwaited(t) \/ ChatEnsures(t) \/ Send(t)
CloseStep(l) == CloseRace(l) \/ CloseAfterStart(l)
Answers(l) ==
    \E t \in Tasks, type \in {"completed", "failed"} : Answer(l, t, type)

(* What awaits what has happened goes on. *)
Continue ==
    \/ LoaderStep \/ StartStep \/ UnloadCloses \/ UnloadEnds
    \/ \E t \in Tasks : TaskStep(t)
    \/ \E l \in Launches : CloseStep(l)

Next ==
    \/ Continue \/ CallUnload \/ DrainShutsDown
    \/ \E t \in Tasks : CallLoad(t)
    \/ \E l \in Launches : \/ Ready(l) \/ BadLine(l) \/ HandshakeTimeout(l)
                           \/ Exit(l) \/ HandleExit(l) \/ Answers(l)

Spec == Init /\ [][Next]_vars

(* Of a worker: once it is killed it exits, and it answers a request or       *)
(* exits, at any time.                                                        *)
LaunchStep(l) ==
    \/ HandshakeTimeout(l) \/ HandleExit(l) \/ Answers(l)
    \/ launch[l].killed /\ Exit(l)

(* Continuations run, timers fire, workers answer.  Nothing here goes on for  *)
(* ever, so that fairness of the whole is fairness of each step.              *)
FairSpec == Spec /\ WF_vars(Continue \/ \E l \in Launches : LaunchStep(l))

-----------------------------------------------------------------------------
(* The types of the variables: startWorker, sendControl and close only leave *)
(* launches, tasks and counters in the states listed above.                   *)
TypeOK ==
    /\ launch \in [Launches -> Launch]
    /\ active \in Launches \cup {NoLaunch} /\ starting \in Launches \cup {NoLaunch}
    /\ loaded \in BOOLEAN /\ loadState \in LoadStates /\ crashes \in 0 .. CrashLimit
    /\ pending \subseteq Tasks \X Launches
    /\ task \in [Tasks -> [at : Stages, launch : Launches \cup {NoLaunch}]]
    /\ drained \in BOOLEAN

(* No request outlives its launch: what is pending waits on a launch that is *)
(* neither faulty nor closing and whose exit is not handled yet, and whoever  *)
(* waits for an answer is pending.  The three places that drop a launch       *)
(* (protocolUnhealthy, closeOnce, handleExit) and the checks around each      *)
(* await of sendControl keep it so.  And loaded speaks of the active launch:  *)
(* its worker has answered a load, however late the answer came and whatever  *)
(* was started meanwhile.                                                     *)
PendingIsLive ==
    /\ \A p \in pending : /\ ~launch[p[2]].fault /\ launch[p[2]].close = "no"
                          /\ launch[p[2]].loop # "over"
    /\ \A t \in Tasks : At(t) = "sent" => <<t, On(t)>> \in pending
    /\ loaded => active # NoLaunch /\ launch[active].hasModel
    /\ loadState = "resident" => active # NoLaunch

(* No process is left without an owner: a worker that runs and is not the     *)
(* active one has been killed or told to shut down.                           *)
StraysAreDying ==
    \A l \in Launches : launch[l].process = "running" /\ active # l
                          => launch[l].killed \/ launch[l].close # "no"

Settled ==
    /\ \A t \in Chats : At(t) \in {"idle", "answered", "refused", "failed"}
    /\ \A t \in Loads : At(t) \in {"idle", "loaded", "failed"}
    /\ At(Unload) \in {"idle", "done"} /\ At(Loader) = "idle"
    /\ \A l \in Launches : launch[l].close \in {"no", "over"}

(* Every load and chat returns or fails, and so does every unload; what is    *)
(* shut down is gone in the end.  Nothing waits for an answer that cannot     *)
(* come: calls are finite, so this is one <>[].                               *)
TasksSettle == <>[]Settled

(* docs/inference-runtime-hardening-plan.md: an unhealthy worker "restarts   *)
(* through the normal backoff path": nothing starts between a fault and the   *)
(* exit that counts it.                                                       *)
FaultBacksOff ==
    [][starting' # NoLaunch /\ starting = NoLaunch
       => \A l \in Launches : ~launch[l].fault]_vars
=============================================================================
